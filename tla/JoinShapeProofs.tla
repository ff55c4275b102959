--------------------------- MODULE JoinShapeProofs ----------------------------
(***************************************************************************)
(* The shape of the network of module Join, for every number of nodes, in  *)
(* every state of every join: the shape at rest of module TopologyProofs   *)
(* but for the requests of the one join that is under way.                 *)
(***************************************************************************)
EXTENDS JoinProofs, TopologyProofs

-----------------------------------------------------------------------------
(***************************************************************************)
(* The shape while a node joins                                            *)
(***************************************************************************)
\* While the level that starts at e is opened above s, t nodes have been told
\* their new parent.
ToldAre(s, e, t) ==
  \A n \in Node : e_parent[n] = IF n < e + t THEN Home(n)
                                ELSE IF n < e + 2 THEN Home(s) ELSE None

\* The links while node k joins a ring.
RingShape(s, k) ==
  /\ pc[k] \notin RingSteps => Resting(s, k)
  /\ pc[k] = "adopt_below" => s = 0 /\ k = 3
  /\ pc[k] = "adopt" => s > 0 /\ loc[k].parent = Dad(s, k-1)
  /\ pc[k] = "adopt_redirected" =>
       /\ s > 0 /\ k <= 2*s + 3
       /\ loc[k].parent = Dad(s, k)
       /\ k = 2*s + 3 \/ k = First(Home(k))
  /\ pc[k] \in RingSteps =>
       /\ KidsAre(s, k + 1) /\ ParentsAre(s, k + 1) /\ Size(s, k + 1)
       /\ RingsAbove(s) /\ PrevsAre(s, k, k-1)
  /\ pc[k] = "ring_next" => NextsAre(s, k, s)
  /\ pc[k] = "ring_prev" => NextsAre(s, k, k) /\ loc[k].x_next = s

\* The links while node k opens a level: e and e+1 leave the ring of s and
\* become, with k, the ring of e.
Grown(step) ==
  IF step \in {"parent_2", "adopt_3"} THEN 1
  ELSE IF step \in {"parent_3", "adopt_me"} THEN 2
  ELSE IF step \in {"next_3", "prev_2"} THEN 3 ELSE 0

Told(step) ==
  IF step \in {"adopt_3", "parent_3"} THEN 1
  ELSE IF step = "adopt_me" THEN 2
  ELSE IF step \in {"next_3", "prev_2"} THEN 3 ELSE 0

BeforeClosePrev == {"get_next", "get_prev", "close_prev"}

BeforeCloseNext == BeforeClosePrev \cup {"close_next"}

LevelShape(s, k) ==
  LET e == 2*s + 3 IN
  /\ s > 0 /\ k = e + 2
  /\ loc[k].kids = <<s, s + 1, e, e + 1>>
  /\ KidsAre(e, e + Grown(pc[k])) /\ ToldAre(s, e, Told(pc[k]))
  /\ RingsAbove(s)
  /\ e_next[e] = e + 1 /\ e_prev[e + 1] = e
  /\ IF pc[k] \in BeforeCloseNext THEN NextsAre(s, k, s) ELSE NextsAre(s, e, s)
  /\ IF pc[k] \in BeforeClosePrev THEN PrevsAre(s, k, k-1) ELSE PrevsAre(s, e, e-1)
  /\ pc[k] \in {"get_prev", "close_prev", "close_next"} => loc[k].new_next = s
  /\ pc[k] \in {"close_prev", "close_next"} => loc[k].new_prev = e - 1
  /\ pc[k] = "prev_2" => e_next[e + 1] = k

LinkingShape(s, k) ==
  /\ k > 0 /\ loc[k].x = k - 1
  /\ IF pc[k] \in LevelSteps THEN LevelShape(s, k) ELSE RingShape(s, k)

\* A node that has said hello and waits is alone.
Alone ==
  \A n \in Node : pc[n] \in {"info", "edges", "adopt_below"} => e_next[n] = n /\ e_prev[n] = n

ShapeIs(s, k) ==
  /\ Linked = 0 .. k-1
  /\ Size(s, k)
  /\ AtRest => Resting(s, k)
  /\ \A n \in Node : pc[n] \in LinkSteps => n = k /\ LinkingShape(s, k)

Shape == Alone /\ \E s \in Starts, k \in 0 .. N : ShapeIs(s, k)

-----------------------------------------------------------------------------
(***************************************************************************)
(* The frame of a step                                                     *)
(***************************************************************************)
\* The joining node is the first that is not linked.
LEMMA JoinerFacts ==
  ASSUME TypeOK, NEW s \in Starts, NEW k \in 0 .. N, ShapeIs(s, k),
         NEW n \in Node, pc[n] \in LinkSteps
  PROVE  /\ n = k /\ k \in Nat /\ k \in Node /\ k > 0 /\ LinkingShape(s, k) /\ loc[k].x = k - 1
         /\ \A m \in Node : pc[m] \in LinkSteps => m = k
         /\ k - 1 \in Node /\ k - 1 \in Nat /\ s < k /\ s <= k - 1
         /\ s \in Nat /\ s <= k /\ (s = 0 => k <= 3)
         /\ s > 0 => s >= 3 /\ s < k /\ k <= 2*s + 5
<1>1. k \in Nat /\ n \in 0 .. N-1
  BY NAssumption DEF Node
<1>2. n = k /\ LinkingShape(s, k) /\ Size(s, k) /\ \A m \in Node : pc[m] \in LinkSteps => m = k
  BY DEF ShapeIs
<1>3. k > 0 /\ k - 1 \in Node /\ k - 1 \in Nat
  BY <1>1, <1>2, NAssumption DEF LinkingShape, Node
<1>4. /\ s \in Nat /\ s <= k /\ (s = 0 => k <= 3)
      /\ s > 0 => s >= 3 /\ s < k /\ k <= 2*s + 5
  BY <1>1, <1>2, SizeFacts
<1>5. s < k /\ s <= k - 1
  BY <1>1, <1>3, <1>4
<1>6. QED
  BY <1>1, <1>2, <1>3, <1>4, <1>5 DEF LinkingShape

LEMMA JoinerMoves ==
  ASSUME TypeOK, Alone, NEW s \in Starts, NEW k \in 0 .. N, k \in Node, ShapeIs(s, k),
         pc[k] \in LinkSteps, NEW t \in LinkSteps \ {"edges"}, Goto(k, t),
         t = "adopt_below" => pc[k] = "edges" /\ UNCHANGED links,
         \A m \in Node : m > k => e_next'[m] = e_next[m] /\ e_prev'[m] = e_prev[m],
         LinkingShape(s, k)'
  PROVE  Shape'
<1>0. pc \in [Node -> Steps] /\ k \in Nat /\ Node \subseteq Nat
  BY NAssumption DEF TypeOK, ControlTypeOK, Node
<1>1. pc' = [pc EXCEPT ![k] = t] /\ pc'[k] = t /\ \A m \in Node : m # k => pc'[m] = pc[m]
  BY <1>0 DEF Goto
<1>2. LinkSteps \cap {"fetch", "activate", "run", "info"} = {}
  BY DEF LinkSteps, RingSteps, AdoptSteps, LevelSteps
<1>3. Linked' = Linked
  BY <1>1, <1>2 DEF Linked
<1>4. ~AtRest'
  BY <1>1 DEF AtRest
<1>5. \A n \in Node : pc'[n] \in LinkSteps => n = k
  BY <1>1 DEF ShapeIs
<1>6. ShapeIs(s, k)'
  BY <1>3, <1>4, <1>5 DEF ShapeIs, Size
<1>7. Alone'
  <2>1. SUFFICES ASSUME NEW n \in Node, pc'[n] \in {"info", "edges", "adopt_below"}
                 PROVE  e_next'[n] = n /\ e_prev'[n] = n
    BY DEF Alone
  <2>2. CASE n = k
    <3>1. t = "adopt_below"
      BY <1>1, <1>2, <2>1, <2>2
    <3>2. QED
      BY <2>2, <3>1 DEF Alone, links
  <2>3. CASE n # k
    <3>1. n \notin Linked
      BY <1>1, <2>1, <2>3 DEF Linked
    <3>2. n > k
      BY <1>0, <2>3, <3>1 DEF ShapeIs
    <3>3. QED
      BY <1>1, <2>1, <2>3, <3>2 DEF Alone
  <2>4. QED
    BY <2>2, <2>3
<1>8. QED
  BY <1>6, <1>7 DEF Shape

LEMMA JoinerEnds ==
  ASSUME TypeOK, Alone, NEW s \in Starts, NEW k \in 0 .. N, k \in Node, ShapeIs(s, k),
         pc[k] \in LinkSteps, JoinReturns(k),
         \A m \in Node : m > k => e_next'[m] = e_next[m] /\ e_prev'[m] = e_prev[m],
         NEW s2 \in Starts, Size(s2, k + 1), Resting(s2, k + 1)'
  PROVE  Shape'
<1>0. pc \in [Node -> Steps] /\ k \in Nat /\ Node \subseteq Nat /\ k + 1 \in 0 .. N
  BY NAssumption DEF TypeOK, ControlTypeOK, Node
<1>1. PICK t \in {"fetch", "activate"} : pc' = [pc EXCEPT ![k] = t]
  BY DEF JoinReturns, Goto
<1>2. pc'[k] = t /\ \A m \in Node : m # k => pc'[m] = pc[m]
  BY <1>0, <1>1
<1>3. LinkSteps \cap {"fetch", "activate", "run", "info"} = {}
  BY DEF LinkSteps, RingSteps, AdoptSteps, LevelSteps
<1>4. Linked' = 0 .. k
  <2>1. Linked' = Linked \cup {k}
    BY <1>2 DEF Linked
  <2>2. QED
    BY <1>0, <2>1 DEF ShapeIs
<1>5. \A n \in Node : pc'[n] \notin LinkSteps
  BY <1>2, <1>3 DEF ShapeIs
<1>6. ShapeIs(s2, k + 1)'
  <2>1. k + 1 - 1 = k
    BY <1>0
  <2>2. Size(s2, k + 1)'
    BY DEF Size
  <2>3. QED
    BY <1>4, <1>5, <2>1, <2>2 DEF ShapeIs
<1>7. Alone'
  <2>1. SUFFICES ASSUME NEW n \in Node, pc'[n] \in {"info", "edges", "adopt_below"}
                 PROVE  e_next'[n] = n /\ e_prev'[n] = n
    BY DEF Alone
  <2>2. n # k
    BY <1>2, <2>1
  <2>3. n \notin Linked
    BY <1>2, <2>1, <2>2 DEF Linked
  <2>4. n > k
    <3>1. n \in Nat /\ k \in Nat /\ n \notin 0 .. k-1
      BY <1>0, <2>3 DEF ShapeIs
    <3>2. QED
      BY <2>2, <3>1
  <2>5. QED
    BY <1>2, <2>1, <2>2, <2>4 DEF Alone
<1>8. QED
  BY <1>0, <1>6, <1>7 DEF Shape

\* A local variable of join() is assigned, the others keep their values.
LEMMA LocalSet ==
  ASSUME TypeOK, NEW n \in Node, NEW v
  PROVE  /\ loc' = [loc EXCEPT ![n].parent = v] =>
              loc'[n].x = loc[n].x /\ loc'[n].parent = v
         /\ loc' = [loc EXCEPT ![n].x_next = v] =>
              loc'[n].x = loc[n].x /\ loc'[n].x_next = v
         /\ loc' = [loc EXCEPT ![n].kids = v] =>
              loc'[n].x = loc[n].x /\ loc'[n].kids = v
         /\ loc' = [loc EXCEPT ![n].new_next = v] =>
              /\ loc'[n].x = loc[n].x /\ loc'[n].kids = loc[n].kids
              /\ loc'[n].new_next = v
         /\ loc' = [loc EXCEPT ![n].new_prev = v] =>
              /\ loc'[n].x = loc[n].x /\ loc'[n].kids = loc[n].kids
              /\ loc'[n].new_next = loc[n].new_next /\ loc'[n].new_prev = v
<1>0. loc \in [Node -> Locals] /\ loc[n] \in Locals
  BY DEF TypeOK, ControlTypeOK
<1>1. ASSUME loc' = [loc EXCEPT ![n].parent = v]
      PROVE  loc'[n].x = loc[n].x /\ loc'[n].parent = v
  <2>1. loc'[n] = [loc[n] EXCEPT !.parent = v]
    BY <1>0, <1>1
  <2>2. QED
    BY <1>0, <2>1 DEF Locals
<1>2. ASSUME loc' = [loc EXCEPT ![n].x_next = v]
      PROVE  loc'[n].x = loc[n].x /\ loc'[n].x_next = v
  <2>1. loc'[n] = [loc[n] EXCEPT !.x_next = v]
    BY <1>0, <1>2
  <2>2. QED
    BY <1>0, <2>1 DEF Locals
<1>3. ASSUME loc' = [loc EXCEPT ![n].kids = v]
      PROVE  loc'[n].x = loc[n].x /\ loc'[n].kids = v
  <2>1. loc'[n] = [loc[n] EXCEPT !.kids = v]
    BY <1>0, <1>3
  <2>2. QED
    BY <1>0, <2>1 DEF Locals
<1>4. ASSUME loc' = [loc EXCEPT ![n].new_next = v]
      PROVE  /\ loc'[n].x = loc[n].x /\ loc'[n].kids = loc[n].kids
             /\ loc'[n].new_next = v
  <2>1. loc'[n] = [loc[n] EXCEPT !.new_next = v]
    BY <1>0, <1>4
  <2>2. QED
    BY <1>0, <2>1 DEF Locals
<1>5. ASSUME loc' = [loc EXCEPT ![n].new_prev = v]
      PROVE  /\ loc'[n].x = loc[n].x /\ loc'[n].kids = loc[n].kids
             /\ loc'[n].new_next = loc[n].new_next /\ loc'[n].new_prev = v
  <2>1. loc'[n] = [loc[n] EXCEPT !.new_prev = v]
    BY <1>0, <1>5
  <2>2. QED
    BY <1>0, <2>1 DEF Locals
<1>6. QED
  BY <1>1, <1>2, <1>3, <1>4, <1>5

LEMMA LinkingKept ==
  ASSUME NEW s \in Starts, NEW k \in Nat, s <= k, Size(s, k), LinkingShape(s, k),
         e_parent' = e_parent, e_children' = e_children,
         \A m \in Nat : m < k => e_next'[m] = e_next[m] /\ e_prev'[m] = e_prev[m],
         pc'[k] = pc[k], loc'[k] = loc[k]
  PROVE  LinkingShape(s, k)'
<1>1. s \in Nat /\ \A m \in Nat : m < s => e_next'[m] = e_next[m] /\ e_prev'[m] = e_prev[m]
  BY StartsClosed
<1>2. RingsAbove(s) => RingsAbove(s)'
  BY <1>1, RingsAboveKept
<1>3. PrevsAre(s, k, k-1) => PrevsAre(s, k, k-1)'
  BY <1>1, PrevsKept
<1>4. (NextsAre(s, k, s) => NextsAre(s, k, s)') /\ (NextsAre(s, k, k) => NextsAre(s, k, k)')
  BY <1>1, NextsKept
<1>5. CASE pc[k] \in LevelSteps
  <2> DEFINE e == 2*s + 3
  <2>1. LevelShape(s, k) /\ k = e + 2
    BY <1>5 DEF LinkingShape, LevelShape
  <2>a. e \in Nat /\ \A m \in Nat : m < e => e_next'[m] = e_next[m] /\ e_prev'[m] = e_prev[m]
    BY <1>1, <2>1
  <2>2. NextsAre(s, e, s) => NextsAre(s, e, s)'
    BY <1>1, <2>a, NextsKept
  <2>3. PrevsAre(s, e, e-1) => PrevsAre(s, e, e-1)'
    BY <1>1, <2>a, PrevsKept
  <2>4. e_next'[e] = e_next[e] /\ e_next'[e + 1] = e_next[e + 1] /\ e_prev'[e + 1] = e_prev[e + 1]
    BY <1>1, <2>1
  <2>5. KidsAre(e, e + Grown(pc[k]))' /\ ToldAre(s, e, Told(pc[k]))'
    BY <2>1 DEF LevelShape, KidsAre, ToldAre, Grown, Told
  <2>6. LevelShape(s, k)'
    BY <1>2, <1>3, <1>4, <2>1, <2>2, <2>3, <2>4, <2>5 DEF LevelShape
  <2>7. QED
    BY <1>5, <2>6 DEF LinkingShape
<1>6. CASE pc[k] \notin LevelSteps
  <2>1. RingShape(s, k)
    BY <1>6 DEF LinkingShape
  <2>2. Resting(s, k) => Resting(s, k)'
    BY RestKept
  <2>3. KidsAre(s, k + 1) /\ ParentsAre(s, k + 1) /\ Size(s, k + 1) =>
          (KidsAre(s, k + 1) /\ ParentsAre(s, k + 1) /\ Size(s, k + 1))'
    BY DEF KidsAre, ParentsAre, Size
  <2>4. RingShape(s, k)'
    BY <1>2, <1>3, <1>4, <2>1, <2>2, <2>3 DEF RingShape
  <2>5. QED
    BY <1>6, <2>4 DEF LinkingShape
<1>7. QED
  BY <1>5, <1>6

-----------------------------------------------------------------------------
(***************************************************************************)
(* Every step of a join keeps the shape                                    *)
(***************************************************************************)
\* A node that has not joined has neither a parent nor children.
LEMMA Blank ==
  ASSUME TypeOK, NEW s \in Starts, NEW k \in Nat, ShapeIs(s, k),
         NEW n \in Node, n >= k, n = k => AtRest
  PROVE  e_parent[n] = None /\ e_children[n] = <<>>
<1>1. n \in Nat /\ s \in Nat /\ s <= k /\ (s = 0 => k <= 3) /\ (s > 0 => s >= 3 /\ k <= 2*s + 5)
      /\ Size(s, k)
  BY SizeFacts DEF ShapeIs, Node
<1>2. ASSUME Resting(s, k)  PROVE e_parent[n] = None /\ e_children[n] = <<>>
  <2>1. KidSeq(s, k, n) = <<>>
    BY <1>1, KidsOfLow
  <2>2. QED
    BY <1>1, <1>2, <2>1 DEF Resting, KidsAre, ParentsAre
<1>3. CASE AtRest
  BY <1>2, <1>3 DEF ShapeIs
<1>4. CASE ~AtRest
  <2>1. PICK m \in Node : pc[m] \in LinkSteps
    BY <1>4 DEF AtRest
  <2>2. m = k /\ LinkingShape(s, k) /\ k < n
    BY <1>1, <1>4, <2>1 DEF ShapeIs
  <2>3. CASE pc[k] \in LevelSteps
    <3> DEFINE e == 2*s + 3
    <3>1. /\ s > 0 /\ k = e + 2 /\ KidsAre(e, e + Grown(pc[k])) /\ ToldAre(s, e, Told(pc[k]))
      BY <2>2, <2>3 DEF LinkingShape, LevelShape
    <3>2. Grown(pc[k]) \in 0 .. 3 /\ Told(pc[k]) \in 0 .. 3 /\ e \in Starts /\ e \in Nat
      BY StartsClosed DEF Grown, Told
    <3>3. KidSeq(e, e + Grown(pc[k]), n) = <<>>
      <4>1. e + Grown(pc[k]) \in Nat /\ e + Grown(pc[k]) <= 2*e + 5 /\ e # 0 /\ e <= n
        BY <1>1, <2>2, <3>1, <3>2
      <4>2. QED
        BY <1>1, <3>2, <4>1, KidsOfLow
    <3>4. ~(n < e + Told(pc[k])) /\ ~(n < e + 2)
      BY <1>1, <2>2, <3>1, <3>2
    <3>5. QED
      BY <3>1, <3>3, <3>4 DEF KidsAre, ToldAre
  <2>4. CASE pc[k] \in RingSteps
    <3>1. pc[k] \notin LevelSteps
      BY <2>4 DEF RingSteps, LevelSteps
    <3>2. KidsAre(s, k + 1) /\ ParentsAre(s, k + 1) /\ Size(s, k + 1)
      BY <2>2, <2>4, <3>1 DEF LinkingShape, RingShape
    <3>3. k + 1 \in Nat /\ (s = 0 => k + 1 <= 3) /\ (s > 0 => k + 1 <= 2*s + 5)
      BY <3>2, SizeFacts
    <3>4. KidSeq(s, k + 1, n) = <<>>
      BY <1>1, <3>3, KidsOfLow
    <3>5. ~(n < k + 1)
      BY <1>1, <2>2
    <3>6. QED
      BY <3>2, <3>4, <3>5 DEF KidsAre, ParentsAre
  <2>5. CASE pc[k] \notin LevelSteps /\ pc[k] \notin RingSteps
    BY <1>2, <2>2, <2>5 DEF LinkingShape, RingShape
  <2>6. QED
    BY <2>3, <2>4, <2>5
<1>5. QED
  BY <1>3, <1>4

\* The first node is the network.
LEMMA FirstNode ==
  ASSUME TypeOK, HelloOrder, Shape, NEW n \in Node, Start(n), last = None
  PROVE  Shape'
<1>1. n = 0 /\ \A m \in Node : pc[m] = "off"
  BY DEF Start, HelloOrder, Node, None
<1>2. PICK s \in Starts, k \in 0 .. N : ShapeIs(s, k)
  BY DEF Shape
<1>3. pc' = [pc EXCEPT ![0] = "fetch"] /\ pc'[0] = "fetch" /\ \A m \in Node : m # 0 => pc'[m] = "off"
  BY <1>1 DEF Start, SayHello, Goto, TypeOK, ControlTypeOK
<1>4. 0 \in Starts /\ 1 \in 0 .. N /\ \A c \in Starts : ~(c < 0)
  BY NAssumption, StartsClosed
<1>5. AtRest /\ Linked = {}
  BY <1>1 DEF AtRest, Linked, LinkSteps, RingSteps, AdoptSteps, LevelSteps
<1>6. k = 0 /\ s = 0
  <2>1. k \in Nat /\ s \in Nat /\ Linked = 0 .. k-1 /\ Size(s, k)
    BY <1>2, NAssumption, StartsClosed DEF ShapeIs
  <2>2. ~(k > 0)
    BY <1>5, <2>1
  <2>3. QED
    BY <2>1, <2>2, SizeFacts
<1>7. Resting(0, 0)
  BY <1>2, <1>5, <1>6 DEF ShapeIs
<1>8. KidsAre(0, 1)'
  <2>1. SUFFICES ASSUME NEW p \in Node  PROVE e_children'[p] = KidSeq(0, 1, p)
    BY DEF KidsAre
  <2>2. p \in Nat /\ KidSeq(0, 1, p) = <<>> /\ KidSeq(0, 0, p) = <<>>
    BY NoKids DEF Node
  <2>3. e_children[p] = <<>>
    BY <1>7, <2>2 DEF Resting, KidsAre
  <2>4. QED
    BY <2>2, <2>3 DEF Start, SayHello, TypeOK, LinksTypeOK
<1>9. ParentsAre(0, 1)'
  <2>1. SUFFICES ASSUME NEW p \in Node
                 PROVE  e_parent'[p] = IF p < 1 THEN Dad(0, p) ELSE None
    BY DEF ParentsAre
  <2>2. e_parent[p] = None
    BY <1>7 DEF Resting, ParentsAre, Node
  <2>3. e_parent'[p] = None
    BY <2>2 DEF Start, SayHello, TypeOK, LinksTypeOK
  <2>4. p < 1 => Dad(0, p) = None
    BY DEF Dad, Home, Node
  <2>5. QED
    BY <2>3, <2>4
<1>10. RingIs(0, 1)'
  <2>1. e_next'[0] = 0 /\ e_prev'[0] = 0
    BY <1>1 DEF Start, SayHello, TypeOK, LinksTypeOK
  <2>2. QED
    BY <2>1 DEF RingIs, NextsAre, PrevsAre
<1>11. Linked' = 0 .. 0
  BY <1>1, <1>3 DEF Linked, Node
<1>12. ShapeIs(0, 1)'
  <2>1. \A m \in Node : pc'[m] \notin LinkSteps
    BY <1>3 DEF LinkSteps, RingSteps, AdoptSteps, LevelSteps
  <2>2. RingsAbove(0)'
    BY <1>4 DEF RingsAbove
  <2>3. Size(0, 1)' /\ 1 - 1 = 0
    BY DEF Size
  <2>4. QED
    BY <1>8, <1>9, <1>10, <1>11, <2>1, <2>2, <2>3 DEF ShapeIs, Resting
<1>13. Alone'
  BY <1>3 DEF Alone
<1>14. QED
  BY <1>4, <1>12, <1>13 DEF Shape

\* A node that has said hello waits beside the network.
LEMMA StartShape ==
  ASSUME TypeOK, HelloOrder, Shape, NEW n \in Node, Start(n)
  PROVE  Shape'
<1>1. CASE last = None
  BY <1>1, FirstNode
<1>2. CASE last # None
  <2>0. /\ pc \in [Node -> Steps] /\ loc \in [Node -> Locals] /\ n \in Nat
        /\ e_parent \in [Node -> MaybeNode] /\ e_children \in [Node -> Seq(Node)]
        /\ e_next \in [Node -> MaybeNode] /\ e_prev \in [Node -> MaybeNode]
    BY DEF TypeOK, ControlTypeOK, LinksTypeOK, Node
  <2>1. PICK s \in Starts, k \in 0 .. N : ShapeIs(s, k)
    BY DEF Shape
  <2>2. k \in Nat /\ s \in Nat /\ Size(s, k) /\ s <= k
    BY <2>1, SizeFacts, NAssumption DEF ShapeIs
  <2>3. /\ pc[n] = "off" /\ pc' = [pc EXCEPT ![n] = "info"]
        /\ \A m \in Node : m # n => loc'[m] = loc[m]
        /\ e_parent' = [e_parent EXCEPT ![n] = None]
        /\ e_children' = [e_children EXCEPT ![n] = <<>>]
        /\ e_next' = [e_next EXCEPT ![n] = n] /\ e_prev' = [e_prev EXCEPT ![n] = n]
    BY <1>2, <2>0 DEF Start, SayHello, Goto
  <2>4. pc'[n] = "info" /\ \A m \in Node : m # n => pc'[m] = pc[m]
    BY <2>0, <2>3
  <2>5. LinkSteps \cap {"fetch", "activate", "run", "info", "off"} = {}
    BY DEF LinkSteps, RingSteps, AdoptSteps, LevelSteps
  <2>6. Linked' = Linked /\ (AtRest' <=> AtRest)
    BY <2>3, <2>4, <2>5 DEF Linked, AtRest
  <2>7. n >= k
    <3>1. n \notin 0 .. k-1
      BY <2>1, <2>3 DEF ShapeIs, Linked
    <3>2. QED
      BY <2>0, <2>2, <3>1
  <2>8. n = k => AtRest
    BY <2>1, <2>3, <2>5 DEF AtRest, ShapeIs
  <2>9. e_parent[n] = None /\ e_children[n] = <<>>
    BY <2>1, <2>2, <2>7, <2>8, Blank
  <2>10. e_parent' = e_parent /\ e_children' = e_children
    BY <2>0, <2>3, <2>9
  <2>11. \A m \in Nat : m < k => e_next'[m] = e_next[m] /\ e_prev'[m] = e_prev[m]
    <3>1. ASSUME NEW m \in Nat, m < k  PROVE m \in Node /\ m # n
      BY <2>0, <2>2, <2>7, <3>1, NAssumption DEF Node
    <3>2. QED
      BY <2>0, <2>3, <3>1
  <2>12. Resting(s, k) => Resting(s, k)'
    BY <2>2, <2>10, <2>11, RestKept
  <2>13. ASSUME NEW m \in Node, pc'[m] \in LinkSteps  PROVE m = k /\ LinkingShape(s, k)'
    <3>1. m # n /\ pc[m] \in LinkSteps
      BY <2>4, <2>5, <2>13
    <3>2. m = k /\ LinkingShape(s, k) /\ pc'[k] = pc[k] /\ loc'[k] = loc[k]
      BY <2>1, <2>3, <2>4, <3>1 DEF ShapeIs
    <3>3. QED
      BY <2>2, <2>10, <2>11, <3>2, LinkingKept
  <2>14. ShapeIs(s, k)'
    BY <2>1, <2>6, <2>12, <2>13 DEF ShapeIs, Size
  <2>15. Alone'
    <3>1. ASSUME NEW m \in Node, m # n  PROVE e_next'[m] = e_next[m] /\ e_prev'[m] = e_prev[m]
      BY <2>0, <2>3, <3>1
    <3>2. e_next'[n] = n /\ e_prev'[n] = n
      BY <2>0, <2>3
    <3>3. QED
      BY <2>4, <3>1, <3>2 DEF Alone, Shape
  <2>16. QED
    BY <2>14, <2>15 DEF Shape
<1>3. QED
  BY <1>1, <1>2

\* A node whose predecessor answers finds everybody before it at rest.
LEMMA AskInfoShape ==
  ASSUME TypeOK, HelloOrder, Shape, NEW n \in Node, AskInfo(n), Answers(Callee(n))
  PROVE  Shape'
<1>0. pc \in [Node -> Steps] /\ n \in Nat /\ Node \subseteq Nat
  BY DEF TypeOK, ControlTypeOK, Node
<1>1. PICK s \in Starts, k \in 0 .. N : ShapeIs(s, k)
  BY DEF Shape
<1>2. k \in Nat /\ s \in Nat /\ Size(s, k) /\ s <= k
  BY <1>1, SizeFacts, NAssumption DEF ShapeIs
<1>3. /\ pc[n] = "info" /\ pc' = [pc EXCEPT ![n] = "edges"] /\ UNCHANGED <<links, loc>>
      /\ Callee(n) = loc[n].x /\ ~WAIT[loc[n].x]
  <2>1. pc[n] = "info"
    BY DEF AskInfo, Calls
  <2>2. Callee(n) = loc[n].x
    BY <2>1 DEF Callee, AdoptSteps
  <2>3. QED
    BY <2>1, <2>2 DEF AskInfo, Calls, Answers, Goto
<1>4. loc[n].x = n - 1 /\ n - 1 \in Node /\ \A m \in 0 .. n-1 : pc[m] = "run"
  <2>1. loc[n].x = n - 1 /\ n > 0
    BY <1>3 DEF HelloOrder
  <2>2. n - 1 \in Node
    BY <2>1, NAssumption DEF Node
  <2>3. pc[n-1] = "run"
    BY <1>3, <2>1, <2>2 DEF HelloOrder
  <2>4. \A m \in 0 .. n-2 : pc[m] = "run"
    BY <1>0, <2>2, <2>3 DEF HelloOrder
  <2>5. QED
    BY <1>0, <2>1, <2>2, <2>3, <2>4
<1>5. LinkSteps \cap {"fetch", "activate", "run", "info", "off"} = {}
  BY DEF LinkSteps, RingSteps, AdoptSteps, LevelSteps
<1>6. \A m \in Node : pc[m] \notin LinkSteps
  <2>1. SUFFICES ASSUME NEW m \in Node, pc[m] \in LinkSteps  PROVE FALSE
    OBVIOUS
  <2>2. Joining(m) /\ m \in Nat
    BY <1>0, <2>1 DEF Joining, JoiningSteps
  <2>3. ~(m < n) /\ m # n
    BY <1>3, <1>4, <1>5, <2>1, <2>2
  <2>4. n \in 0 .. m-1
    BY <1>0, <2>2, <2>3
  <2>5. QED
    BY <1>3, <2>2, <2>4 DEF HelloOrder
<1>7. AtRest /\ Resting(s, k)
  BY <1>1, <1>6 DEF AtRest, ShapeIs
<1>8. n = k /\ k \in Node /\ k > 0
  <2>1. n \notin Linked /\ n - 1 \in Linked
    BY <1>0, <1>3, <1>4 DEF Linked
  <2>2. n \notin 0 .. k-1 /\ n - 1 \in 0 .. k-1
    BY <1>1, <2>1 DEF ShapeIs
  <2>3. QED
    BY <1>0, <1>2, <2>2
<1>9. pc'[k] = "edges" /\ \A m \in Node : m # k => pc'[m] = pc[m]
  BY <1>0, <1>3, <1>8
<1>10. Resting(s, k)'
  BY <1>7, <1>3 DEF Resting, KidsAre, ParentsAre, RingsAbove, RingIs, NextsAre, PrevsAre, links
<1>11. LinkingShape(s, k)'
  BY <1>3, <1>4, <1>8, <1>9, <1>10
     DEF LinkingShape, RingShape, RingSteps, AdoptSteps, LevelSteps
<1>12. Linked' = Linked /\ ~AtRest'
  BY <1>0, <1>3, <1>8, <1>9 DEF Linked, AtRest, LinkSteps
<1>13. ShapeIs(s, k)'
  BY <1>1, <1>6, <1>9, <1>11, <1>12 DEF ShapeIs, Size
<1>14. Alone'
  BY <1>3, <1>8, <1>9 DEF Alone, links, Shape
<1>15. QED
  BY <1>13, <1>14 DEF Shape

\* The edges of the last node tell in which of three ways to join.
LEMMA AskEdgesShape ==
  ASSUME TypeOK, HelloOrder, Shape, NEW n \in Node, AskEdges(n)
  PROVE  Shape'
<1>1. PICK s \in Starts, k \in 0 .. N : ShapeIs(s, k)
  BY DEF Shape
<1>2. pc[n] = "edges" /\ Callee(n) = loc[n].x /\ Callee(n) \in Node /\ "edges" \in LinkSteps
  BY CalleeIsNode DEF AskEdges, LinkSteps
<1>3. /\ n = k /\ k \in Nat /\ k \in Node /\ k > 0 /\ LinkingShape(s, k) /\ loc[k].x = k - 1
      /\ s \in Nat /\ s <= k /\ (s = 0 => k <= 3)
      /\ s > 0 => s >= 3 /\ s < k /\ k <= 2*s + 5
  BY <1>1, <1>2, JoinerFacts
<1>4. Resting(s, k) /\ k - 1 \in Node /\ k - 1 \in Nat
  BY <1>2, <1>3 DEF LinkingShape, RingShape, RingSteps, LevelSteps, Node
<1>5. UNCHANGED links /\ pc' \in [Node -> Steps]
  <2>1. TypeOK'
    BY AskTypes
  <2>2. QED
    BY <2>1 DEF AskEdges, TypeOK, ControlTypeOK
<1>6. Resting(s, k)' /\ \A m \in Node : m > k => e_next'[m] = e_next[m] /\ e_prev'[m] = e_prev[m]
  BY <1>3, <1>4, <1>5, RestUnchanged DEF links
<1>7. e_parent[k-1] = Dad(s, k-1)
  BY <1>3, <1>4 DEF Resting, ParentsAre
<1>8. CASE s > 0
  <2>1. e_parent[k-1] # None
    <3>1. s <= k-1 /\ k - 1 <= 2*s + 4
      BY <1>3, <1>4, <1>8
    <3>2. Dad(s, k-1) \in Nat
      BY <1>4, <1>8, <3>1, KidGrow
    <3>3. QED
      BY <1>7, <3>2 DEF None
  <2>2. Goto(k, "adopt") /\ loc' = [loc EXCEPT ![k].parent = e_parent[k-1]]
    BY <1>3, <2>1 DEF AskEdges
  <2>3. pc'[k] = "adopt" /\ loc'[k].x = k - 1 /\ loc'[k].parent = Dad(s, k-1)
    BY <1>3, <1>7, <2>2, LocalSet DEF Goto, TypeOK, ControlTypeOK
  <2>4. LinkingShape(s, k)'
    BY <1>3, <1>6, <1>8, <2>3 DEF LinkingShape, RingShape, RingSteps, LevelSteps
  <2>5. "adopt" \in LinkSteps \ {"edges"}
    BY DEF LinkSteps, AdoptSteps
  <2>6. QED
    BY <1>1, <1>2, <1>3, <1>6, <2>2, <2>4, <2>5, JoinerMoves DEF Shape
<1>9. CASE s = 0
  <2>1. e_parent[k-1] = None /\ k <= 3
    BY <1>3, <1>4, <1>7, <1>9 DEF Dad, Home
  <2>2. UNCHANGED loc /\ loc'[k].x = k - 1
    BY <1>3, <2>1 DEF AskEdges
  <2>3. Goto(k, IF e_prev[k-1] = e_next[k-1] THEN "ring_next" ELSE "adopt_below")
    BY <1>3, <2>1 DEF AskEdges
  <2>4. NextsAre(0, k, 0) /\ PrevsAre(0, k, k-1)
    BY <1>4, <1>9 DEF Resting, RingIs
  <2>5. k - 1 \in 0 .. k-1
    BY <1>4
  <2>6. e_next[k-1] = 0 /\ e_prev[k-1] = IF k - 1 = 0 THEN k - 1 ELSE k - 1 - 1
    BY <2>4, <2>5 DEF NextsAre, PrevsAre
  <2>7. CASE k = 3
    <3>1. Goto(k, "adopt_below")
      BY <2>3, <2>6, <2>7
    <3>2. pc'[k] = "adopt_below"
      BY <1>3, <3>1 DEF Goto, TypeOK, ControlTypeOK
    <3>3. LinkingShape(s, k)'
      BY <1>6, <1>9, <2>2, <2>7, <3>2 DEF LinkingShape, RingShape, RingSteps, LevelSteps
    <3>4. "adopt_below" \in LinkSteps \ {"edges"}
      BY DEF LinkSteps
    <3>5. QED
      BY <1>1, <1>2, <1>3, <1>5, <1>6, <3>1, <3>3, <3>4, JoinerMoves DEF Shape
  <2>8. CASE k < 3
    <3>1. Goto(k, "ring_next")
      BY <1>4, <2>3, <2>6, <2>8
    <3>2. pc'[k] = "ring_next"
      BY <1>3, <3>1 DEF Goto, TypeOK, ControlTypeOK
    <3>3. KidsAre(0, k + 1) /\ ParentsAre(0, k + 1) /\ Size(0, k + 1)
      BY <1>3, <1>4, <1>9, <2>8, TopRing
    <3>4. KidsAre(0, k + 1)' /\ ParentsAre(0, k + 1)' /\ Size(0, k + 1)'
      BY <1>3, <1>5, <3>3, RestUnchanged, StartsClosed DEF Size
    <3>5. RingsAbove(0)' /\ NextsAre(0, k, 0)' /\ PrevsAre(0, k, k-1)'
      BY <1>6, <1>9 DEF Resting, RingIs
    <3>6. LinkingShape(s, k)'
      BY <1>3, <1>9, <2>2, <3>2, <3>4, <3>5 DEF LinkingShape, RingShape, RingSteps, LevelSteps
    <3>7. "ring_next" \in LinkSteps \ {"edges"}
      BY DEF LinkSteps, RingSteps
    <3>8. QED
      BY <1>1, <1>2, <1>3, <1>6, <3>1, <3>6, <3>7, JoinerMoves DEF Shape
  <2>9. QED
    BY <1>3, <2>1, <2>7, <2>8
<1>10. QED
  BY <1>3, <1>8, <1>9

\* The fourth node opens the second level.
LEMMA AdoptBelowShape ==
  ASSUME TypeOK, HelloOrder, Shape, NEW n \in Node, AdoptBelow(n)
  PROVE  Shape'
<1>1. PICK s \in Starts, k \in 0 .. N : ShapeIs(s, k)
  BY DEF Shape
<1>2. /\ pc[n] = "adopt_below" /\ Callee(n) = loc[n].x /\ Callee(n) \in Node
      /\ "adopt_below" \in LinkSteps
  BY CalleeIsNode DEF AdoptBelow, LinkSteps
<1>3. /\ n = k /\ k \in Nat /\ k \in Node /\ k > 0 /\ LinkingShape(s, k) /\ loc[k].x = k - 1
  BY <1>1, <1>2, JoinerFacts
<1>4. s = 0 /\ k = 3 /\ Resting(0, 3) /\ 2 \in Node /\ 3 \in Node /\ 3 \in Starts
  <2>1. 2*0 + 3 \in Starts
    BY StartsClosed
  <2>2. QED
    BY <1>2, <1>3, <2>1 DEF LinkingShape, RingShape, RingSteps, LevelSteps
<1>5. /\ e_children' = [e_children EXCEPT ![2] = Append(e_children[2], 3)]
      /\ e_parent' = [e_parent EXCEPT ![3] = 2] /\ UNCHANGED <<e_prev, e_next>>
      /\ JoinReturns(k)
  <2>1. loc[n].x = 2 /\ n = 3
    BY <1>3, <1>4
  <2>2. e_children[2] = <<>>
    BY <1>4, NoKids DEF Resting, KidsAre
  <2>3. ~CreatesLevel(2) /\ ~Redirects(2, FALSE)
    BY <2>2 DEF CreatesLevel, Redirects
  <2>4. AdoptedBy(2, 3, FALSE) = Append(e_children[2], 3)
    BY <2>3 DEF AdoptedBy
  <2>5. QED
    BY <1>3, <2>1, <2>4 DEF AdoptBelow, Adopt
<1>6. Resting(3, 4)'
  <2>1. e_next[3] = 3 /\ e_prev[3] = 3
    BY <1>2, <1>3, <1>4 DEF Shape, Alone
  <2>2. QED
    BY <1>4, <1>5, <2>1, LevelOpened DEF TypeOK
<1>7. Size(3, 4) /\ 3 + 1 = 4
  BY DEF Size
<1>8. \A m \in Node : m > k => e_next'[m] = e_next[m] /\ e_prev'[m] = e_prev[m]
  BY <1>5
<1>9. QED
  BY <1>1, <1>2, <1>3, <1>4, <1>5, <1>6, <1>7, <1>8, JoinerEnds DEF Shape

\* The node enters the ring between the last node and the first.
LEMMA RingNextShape ==
  ASSUME TypeOK, HelloOrder, Shape, NEW n \in Node, RingNext(n)
  PROVE  Shape'
<1>0. pc \in [Node -> Steps] /\ e_next \in [Node -> MaybeNode]
  BY DEF TypeOK, ControlTypeOK, LinksTypeOK
<1>1. PICK s \in Starts, k \in 0 .. N : ShapeIs(s, k)
  BY DEF Shape
<1>2. /\ pc[n] = "ring_next" /\ Callee(n) = loc[n].x /\ Callee(n) \in Node
      /\ "ring_next" \in LinkSteps /\ "ring_next" \in RingSteps
      /\ "ring_next" \notin LevelSteps
  BY CalleeIsNode DEF RingNext, LinkSteps, RingSteps, LevelSteps
<1>3. /\ n = k /\ k \in Nat /\ k \in Node /\ k > 0 /\ LinkingShape(s, k) /\ loc[k].x = k - 1
      /\ s \in Nat /\ s < k /\ k - 1 \in Node /\ k - 1 \in Nat
  BY <1>1, <1>2, JoinerFacts
<1>4. /\ KidsAre(s, k + 1) /\ ParentsAre(s, k + 1) /\ Size(s, k + 1)
      /\ RingsAbove(s) /\ PrevsAre(s, k, k-1) /\ NextsAre(s, k, s)
  BY <1>2, <1>3 DEF LinkingShape, RingShape
<1>5. /\ e_next' = [e_next EXCEPT ![k-1] = k] /\ UNCHANGED <<e_parent, e_prev, e_children>>
      /\ Goto(k, "ring_prev") /\ loc' = [loc EXCEPT ![k].x_next = e_next[k-1]]
  BY <1>3 DEF RingNext, SetNext
<1>6. e_next[k-1] = s /\ RingsAbove(s)' /\ NextsAre(s, k, k)' /\ PrevsAre(s, k, k-1)'
  BY <1>3, <1>4, <1>5, RingOpened DEF TypeOK
<1>7. pc'[k] = "ring_prev" /\ loc'[k].x = k - 1 /\ loc'[k].x_next = s
  BY <1>0, <1>3, <1>5, <1>6, LocalSet DEF Goto
<1>8. KidsAre(s, k + 1)' /\ ParentsAre(s, k + 1)' /\ Size(s, k + 1)'
  BY <1>4, <1>5 DEF KidsAre, ParentsAre, Size
<1>9. LinkingShape(s, k)'
  BY <1>3, <1>6, <1>7, <1>8 DEF LinkingShape, RingShape, RingSteps, LevelSteps
<1>10. "ring_prev" \in LinkSteps \ {"edges"}
  BY DEF LinkSteps, RingSteps
<1>11. \A m \in Node : m > k => e_next'[m] = e_next[m] /\ e_prev'[m] = e_prev[m]
  BY <1>0, <1>3, <1>5 DEF Node
<1>12. QED
  BY <1>1, <1>2, <1>3, <1>5, <1>9, <1>10, <1>11, JoinerMoves DEF Shape

LEMMA RingPrevShape ==
  ASSUME TypeOK, HelloOrder, Shape, NEW n \in Node, RingPrev(n)
  PROVE  Shape'
<1>0. /\ pc \in [Node -> Steps] /\ e_next \in [Node -> MaybeNode]
      /\ e_prev \in [Node -> MaybeNode]
  BY DEF TypeOK, ControlTypeOK, LinksTypeOK
<1>1. PICK s \in Starts, k \in 0 .. N : ShapeIs(s, k)
  BY DEF Shape
<1>2. /\ pc[n] = "ring_prev" /\ "ring_prev" \in LinkSteps /\ "ring_prev" \in RingSteps
      /\ "ring_prev" \notin LevelSteps
  BY CalleeIsNode DEF RingPrev, LinkSteps, RingSteps, LevelSteps
<1>3. /\ n = k /\ k \in Nat /\ k \in Node /\ k > 0 /\ LinkingShape(s, k) /\ loc[k].x = k - 1
      /\ s \in Nat /\ s < k /\ k - 1 \in Nat
  BY <1>1, <1>2, JoinerFacts
<1>4. /\ KidsAre(s, k + 1) /\ ParentsAre(s, k + 1) /\ Size(s, k + 1)
      /\ RingsAbove(s) /\ PrevsAre(s, k, k-1) /\ NextsAre(s, k, k) /\ loc[k].x_next = s
  BY <1>2, <1>3 DEF LinkingShape, RingShape
<1>5. /\ e_prev' = [e_prev EXCEPT ![s] = k, ![k] = k - 1]
      /\ e_next' = [e_next EXCEPT ![k] = s] /\ UNCHANGED <<e_parent, e_children>>
      /\ JoinReturns(k)
  BY <1>3, <1>4 DEF RingPrev
<1>6. RingsAbove(s)' /\ RingIs(s, k + 1)'
  BY <1>3, <1>4, <1>5, RingClosed DEF TypeOK
<1>7. KidsAre(s, k + 1)' /\ ParentsAre(s, k + 1)'
  BY <1>4, <1>5 DEF KidsAre, ParentsAre
<1>8. Resting(s, k + 1)'
  BY <1>6, <1>7 DEF Resting
<1>9. \A m \in Node : m > k => e_next'[m] = e_next[m] /\ e_prev'[m] = e_prev[m]
  BY <1>0, <1>3, <1>5 DEF Node
<1>10. QED
  BY <1>1, <1>2, <1>3, <1>4, <1>5, <1>8, <1>9, JoinerEnds DEF Shape

LEMMA FirstTwo ==
  ASSUME NEW a, NEW b, NEW c, NEW d
  PROVE  SubSeq(<<a, b, c, d>>, 1, 2) = <<a, b>>
<1> DEFINE f == <<a, b, c, d>>
           g == SubSeq(f, 1, 2)
<1>1. f[1] = a /\ f[2] = b
  OBVIOUS
<1>2. \A i \in 1 .. 2 : f[i] \in {a, b}
  BY <1>1
<1> HIDE DEF f
<1>3. /\ g \in Seq({a, b}) /\ Len(g) = IF 1 <= 2 THEN 2 - 1 + 1 ELSE 0
      /\ \A i \in 1 .. 2 - 1 + 1 : g[i] = f[1 + i - 1]
  BY <1>2, SubSeqProperties, SMT
<1>4. Len(g) = 2 /\ g[1] = a /\ g[2] = b
  <2>1. 1 \in 1 .. 2 - 1 + 1 /\ 2 \in 1 .. 2 - 1 + 1
    OBVIOUS
  <2>2. QED
    BY <1>1, <1>3, <2>1
<1> HIDE DEF g
<1>5. <<a, b>> \in Seq({a, b}) /\ Len(<<a, b>>) = 2 /\ <<a, b>>[1] = a /\ <<a, b>>[2] = b
  OBVIOUS
<1>6. \A i \in 1 .. Len(g) : g[i] = <<a, b>>[i]
  BY <1>4, <1>5
<1>7. g = <<a, b>>
  BY <1>3, <1>4, <1>5, <1>6, SeqEqual
<1>8. QED
  BY <1>7 DEF f, g

\* The parent adopts the node, which goes on to the ring.
LEMMA IntoRing ==
  ASSUME TypeOK, Shape, NEW s \in Starts, NEW k \in 0 .. N, ShapeIs(s, k), s > 0,
         pc[k] \in AdoptSteps, k \in Node, NEW p \in Node, p = Dad(s, k), k <= 2*s + 4,
         e_children' = [e_children EXCEPT ![p] = Append(e_children[p], k)],
         e_parent' = [e_parent EXCEPT ![k] = p],
         Goto(k, "ring_next"), UNCHANGED <<e_prev, e_next, loc>>
  PROVE  Shape'
<1>1. "ring_next" \in LinkSteps \ {"edges"} /\ pc[k] \in LinkSteps
  BY DEF LinkSteps, RingSteps
<1>2. /\ k \in Nat /\ k > 0 /\ loc[k].x = k - 1 /\ LinkingShape(s, k)
      /\ s \in Nat /\ s < k /\ s >= 3
  BY <1>1, JoinerFacts
<1>3. Resting(s, k)
  BY <1>2 DEF LinkingShape, RingShape, RingSteps, LevelSteps, AdoptSteps
<1>4. KidsAre(s, k + 1)'
  <2>1. s <= k /\ KidsAre(s, k)
    BY <1>2, <1>3 DEF Resting
  <2>2. QED
    BY <2>1, KidAdded DEF TypeOK
<1>5. ParentsAre(s, k + 1)'
  BY <1>3, ParentAdded DEF Resting, TypeOK
<1>6. Size(s, k + 1)'
  BY <1>2 DEF ShapeIs, Size
<1>7. RingsAbove(s)' /\ NextsAre(s, k, s)' /\ PrevsAre(s, k, k-1)'
  BY <1>3 DEF Resting, RingsAbove, RingIs, NextsAre, PrevsAre
<1>8. pc'[k] = "ring_next" /\ loc'[k].x = k - 1
  BY <1>2 DEF Goto, TypeOK, ControlTypeOK
<1>9. LinkingShape(s, k)'
  BY <1>2, <1>4, <1>5, <1>6, <1>7, <1>8 DEF LinkingShape, RingShape, RingSteps, LevelSteps
<1>10. QED
  BY <1>1, <1>9, JoinerMoves DEF Shape

\* The first parent of a full level cuts its children and a level is opened.
LEMMA IntoLevel ==
  ASSUME TypeOK, Shape, NEW s \in Starts, NEW k \in 0 .. N, ShapeIs(s, k), s > 0,
         pc[k] \in AdoptSteps, k \in Node, NEW p \in Node, p = Home(s), k = 2*s + 5,
         e_children[p] = <<s, s + 1, 2*s + 3, 2*s + 4>>,
         e_children' = [e_children EXCEPT ![p] = SubSeq(e_children[p], 1, 2)],
         loc' = [loc EXCEPT ![k].kids = e_children[p]],
         Goto(k, "get_next"), UNCHANGED <<e_parent, e_prev, e_next>>
  PROVE  Shape'
<1> DEFINE e == 2*s + 3
<1>1. "get_next" \in LinkSteps \ {"edges"} /\ pc[k] \in LinkSteps
  BY DEF LinkSteps, LevelSteps
<1>2. /\ k \in Nat /\ k > 0 /\ loc[k].x = k - 1 /\ LinkingShape(s, k)
      /\ s \in Nat /\ s < k /\ s >= 3
  BY <1>1, JoinerFacts
<1>3. Resting(s, k)
  BY <1>2 DEF LinkingShape, RingShape, RingSteps, LevelSteps, AdoptSteps
<1>4. KidsAre(e, e)'
  <2>1. e_children'[p] = <<s, s + 1>>
    <3>1. e_children'[p] = SubSeq(<<s, s + 1, 2*s + 3, 2*s + 4>>, 1, 2)
      BY DEF TypeOK, LinksTypeOK
    <3>2. QED
      BY <3>1, FirstTwo
  <2>2. ASSUME NEW q \in Node  PROVE e_children'[q] = KidSeq(e, e, q)
    <3>1. q \in Nat /\ e_children[q] = KidSeq(s, 2*s + 5, q)
      BY <1>3 DEF Resting, KidsAre, Node
    <3>2. CASE q = p
      BY <2>1, <3>1, <3>2, KidCut
    <3>3. CASE q # p
      <4>1. e_children'[q] = e_children[q]
        BY <3>3 DEF TypeOK, LinksTypeOK
      <4>2. QED
        BY <3>1, <3>3, <4>1, KidCut
    <3>4. QED
      BY <3>2, <3>3
  <2>3. QED
    BY <2>2 DEF KidsAre
<1>5. ToldAre(s, e, 0)'
  <2>1. ASSUME NEW q \in Node
        PROVE  e_parent[q] = IF q < e + 0 THEN Home(q) ELSE IF q < e + 2 THEN Home(s) ELSE None
    <3>1. q \in Nat /\ e_parent[q] = IF q < k THEN Dad(s, q) ELSE None
      BY <1>3 DEF Resting, ParentsAre, Node
    <3>2. Dad(s, q) = IF q < e THEN Home(q) ELSE Home(s)
      BY <1>2, <3>1 DEF Dad
    <3>3. e + 0 = e /\ k = e + 2 /\ (q < e => q < k)
      BY <1>2, <3>1
    <3>4. QED
      BY <3>1, <3>2, <3>3
  <2>2. QED
    BY <2>1 DEF ToldAre
<1>6. RingsAbove(s)' /\ NextsAre(s, k, s)' /\ PrevsAre(s, k, k-1)'
  BY <1>3 DEF Resting, RingsAbove, RingIs, NextsAre, PrevsAre
<1>7. e_next'[e] = e + 1 /\ e_prev'[e + 1] = e
  <2>1. e \in s .. k-1 /\ e + 1 \in s .. k-1 /\ e # k - 1 /\ e + 1 # s /\ e + 1 - 1 = e
    BY <1>2
  <2>2. QED
    BY <1>3, <2>1 DEF Resting, RingIs, NextsAre, PrevsAre
<1>8. /\ pc'[k] = "get_next" /\ loc'[k].x = k - 1
      /\ loc'[k].kids = <<s, s + 1, e, e + 1>>
  <2>1. e + 1 = 2*s + 4
    BY <1>2
  <2>2. QED
    BY <1>2, <2>1, LocalSet DEF Goto, TypeOK, ControlTypeOK
<1>9. k = e + 2 /\ e + 0 = e
  BY <1>2
<1>10. LevelShape(s, k)'
  BY <1>2, <1>4, <1>5, <1>6, <1>7, <1>8, <1>9
     DEF LevelShape, Grown, Told, BeforeCloseNext, BeforeClosePrev
<1>11. LinkingShape(s, k)'
  BY <1>2, <1>8, <1>10 DEF LinkingShape, LevelSteps
<1>12. QED
  BY <1>1, <1>11, JoinerMoves DEF Shape

LEMMA AskParentShape ==
  ASSUME TypeOK, HelloOrder, Shape, NEW n \in Node, AskParent(n)
  PROVE  Shape'
<1> DEFINE p == loc[n].parent
<1>1. PICK s \in Starts, k \in 0 .. N : ShapeIs(s, k)
  BY DEF Shape
<1>2. /\ pc[n] = "adopt" /\ p \in Node /\ "adopt" \in LinkSteps /\ "adopt" \in AdoptSteps
  BY CalleeIsNode DEF AskParent, AskAdopt, LinkSteps, AdoptSteps
<1>3. /\ n = k /\ k \in Nat /\ k \in Node /\ k > 0 /\ LinkingShape(s, k) /\ loc[k].x = k - 1
      /\ s \in Nat /\ s < k
  BY <1>1, <1>2, JoinerFacts
<1>4. Resting(s, k) /\ s > 0 /\ p = Dad(s, k-1) /\ k <= 2*s + 5
  <2>1. Resting(s, k) /\ s > 0 /\ p = Dad(s, k-1)
    BY <1>2, <1>3 DEF LinkingShape, RingShape, RingSteps, LevelSteps
  <2>2. QED
    BY <1>1, <1>2, <2>1, JoinerFacts
<1>5. e_children[p] = KidSeq(s, k, p) /\ e_children \in [Node -> Seq(Node)] /\ p \in Nat
  BY <1>2, <1>4 DEF Resting, KidsAre, TypeOK, LinksTypeOK, Node
<1>6. /\ Len(KidSeq(s, k, p)) = 4 => p = Home(s) /\ k = 2*s + 5
      /\ Len(KidSeq(s, k, p)) = 2 => k <= 2*s + 3 /\ p = Home(k-1) /\ First(p) = k - 2
      /\ Len(KidSeq(s, k, p)) \notin {2, 4} => p = Dad(s, k) /\ k <= 2*s + 4
      /\ k = 2*s + 5 => KidSeq(s, k, p) = <<s, s + 1, 2*s + 3, 2*s + 4>>
  BY <1>3, <1>4, KidsOfLast
<1>7. Adopt(p, k, TRUE) /\ UNCHANGED <<e_prev, e_next>>
  BY <1>3 DEF AskParent, AskAdopt
<1>8. CASE Redirects(p, TRUE)
  <2>1. Len(KidSeq(s, k, p)) = 2 /\ ~CreatesLevel(p)
    BY <1>5, <1>8 DEF Redirects, CreatesLevel
  <2>2. /\ Goto(k, "adopt_redirected") /\ loc' = [loc EXCEPT ![k].parent = e_next[p]]
        /\ UNCHANGED e_parent
    BY <1>3, <1>8, <2>1 DEF AskParent, AskAdopt
  <2>3. UNCHANGED links
    <3>1. e_children' = e_children
      BY <1>5, <1>7, <1>8 DEF Adopt, AdoptedBy
    <3>2. QED
      BY <1>7, <2>2, <3>1 DEF links
  <2>4. e_next[p] = Dad(s, k) /\ k <= 2*s + 3 /\ (k = 2*s + 3 \/ k = First(Home(k)))
    <3>1. k <= 2*s + 3 /\ p = Home(k-1) /\ First(p) = k - 2 /\ RingsAbove(s)
      BY <1>4, <1>6, <2>1 DEF Resting
    <3>2. QED
      BY <1>3, <1>4, <1>5, <3>1, RedirectTarget
  <2>5. /\ pc'[k] = "adopt_redirected" /\ loc'[k].x = k - 1
        /\ loc'[k].parent = Dad(s, k)
    BY <1>3, <2>2, <2>4, LocalSet DEF Goto, TypeOK, ControlTypeOK
  <2>6. Resting(s, k)'
    BY <1>3, <1>4, <2>3, RestUnchanged
  <2>7. LinkingShape(s, k)'
    BY <1>3, <1>4, <2>4, <2>5, <2>6 DEF LinkingShape, RingShape, RingSteps, LevelSteps
  <2>8. "adopt_redirected" \in LinkSteps \ {"edges"}
    BY DEF LinkSteps, AdoptSteps
  <2>9. QED
    BY <1>1, <1>2, <1>3, <1>7, <2>2, <2>7, <2>8, JoinerMoves DEF Shape
<1>9. CASE CreatesLevel(p)
  <2>1. Len(KidSeq(s, k, p)) = 4 /\ ~Redirects(p, TRUE)
    BY <1>5, <1>9 DEF Redirects, CreatesLevel
  <2>2. p = Home(s) /\ k = 2*s + 5 /\ e_children[p] = <<s, s + 1, 2*s + 3, 2*s + 4>>
    BY <1>5, <1>6, <2>1
  <2>3. e_children' = [e_children EXCEPT ![p] = SubSeq(e_children[p], 1, 2)]
    BY <1>7, <1>9, <2>1 DEF Adopt, AdoptedBy
  <2>4. /\ Goto(k, "get_next") /\ loc' = [loc EXCEPT ![k].kids = e_children[p]]
        /\ UNCHANGED e_parent
    BY <1>3, <1>9, <2>1 DEF AskParent, AskAdopt
  <2>5. QED
    BY <1>1, <1>2, <1>3, <1>4, <1>7, <2>2, <2>3, <2>4, IntoLevel
<1>10. CASE ~Redirects(p, TRUE) /\ ~CreatesLevel(p)
  <2>1. p = Dad(s, k) /\ k <= 2*s + 4
    BY <1>5, <1>6, <1>10 DEF Redirects, CreatesLevel
  <2>2. e_children' = [e_children EXCEPT ![p] = Append(e_children[p], k)]
    BY <1>7, <1>10 DEF Adopt, AdoptedBy
  <2>3. Goto(k, "ring_next") /\ e_parent' = [e_parent EXCEPT ![k] = p] /\ UNCHANGED loc
    BY <1>3, <1>10 DEF AskParent, AskAdopt
  <2>4. QED
    BY <1>1, <1>2, <1>3, <1>4, <1>7, <2>1, <2>2, <2>3, IntoRing
<1>11. QED
  BY <1>8, <1>9, <1>10

LEMMA AskParentNextShape ==
  ASSUME TypeOK, HelloOrder, Shape, NEW n \in Node, AskParentNext(n)
  PROVE  Shape'
<1> DEFINE p == loc[n].parent
<1>1. PICK s \in Starts, k \in 0 .. N : ShapeIs(s, k)
  BY DEF Shape
<1>2. /\ pc[n] = "adopt_redirected" /\ p \in Node
      /\ "adopt_redirected" \in LinkSteps /\ "adopt_redirected" \in AdoptSteps
  BY CalleeIsNode DEF AskParentNext, AskAdopt, LinkSteps, AdoptSteps
<1>3. /\ n = k /\ k \in Nat /\ k \in Node /\ k > 0 /\ LinkingShape(s, k) /\ loc[k].x = k - 1
      /\ s \in Nat
  BY <1>1, <1>2, JoinerFacts
<1>4. Resting(s, k) /\ s > 0 /\ p = Dad(s, k) /\ k <= 2*s + 3
  BY <1>2, <1>3 DEF LinkingShape, RingShape, RingSteps, LevelSteps
<1>5. ~Redirects(p, FALSE) /\ ~CreatesLevel(p) /\ k <= 2*s + 4
  <2>1. e_children[p] = KidSeq(s, k, p)
    BY <1>2, <1>4 DEF Resting, KidsAre
  <2>2. k <= 2*s + 4
    BY <1>3, <1>4
  <2>3. Len(KidSeq(s, k, p)) # 4
    BY <1>3, <2>2, KidsBelowFour
  <2>4. QED
    BY <2>1, <2>2, <2>3 DEF Redirects, CreatesLevel
<1>6. /\ e_children' = [e_children EXCEPT ![p] = Append(e_children[p], k)]
      /\ UNCHANGED <<e_prev, e_next>>
  BY <1>3, <1>5 DEF AskParentNext, AskAdopt, Adopt, AdoptedBy
<1>7. Goto(k, "ring_next") /\ e_parent' = [e_parent EXCEPT ![k] = p] /\ UNCHANGED loc
  BY <1>3, <1>5 DEF AskParentNext, AskAdopt
<1>8. QED
  BY <1>1, <1>2, <1>3, <1>4, <1>5, <1>6, <1>7, IntoRing

-----------------------------------------------------------------------------
(***************************************************************************)
(* Opening a level                                                         *)
(***************************************************************************)
LEMMA LevelFacts ==
  ASSUME TypeOK, NEW s \in Starts, NEW k \in 0 .. N, ShapeIs(s, k),
         NEW n \in Node, pc[n] \in LevelSteps, NEW e, e = 2*s + 3
  PROVE  /\ n = k /\ k \in Nat /\ k \in Node /\ k > 0 /\ loc[k].x = k - 1
         /\ s \in Nat /\ s >= 3 /\ s < k /\ e \in Nat /\ e \in Starts /\ k = e + 2
         /\ s \in Node /\ s + 1 \in Node /\ e - 1 \in Node /\ e \in Node /\ e + 1 \in Node
         /\ Home(e) = s /\ Home(e + 1) = s /\ Home(e + 2) = s + 1
         /\ pc[k] \in LinkSteps /\ LevelShape(s, k)
         /\ loc[k].kids[1] = s /\ loc[k].kids[2] = s + 1
         /\ loc[k].kids[3] = e /\ loc[k].kids[4] = e + 1
<1>1. pc[n] \in LinkSteps
  BY DEF LinkSteps
<1>2. /\ n = k /\ k \in Nat /\ k \in Node /\ k > 0 /\ LinkingShape(s, k) /\ loc[k].x = k - 1
      /\ s \in Nat /\ s < k /\ (s > 0 => s >= 3)
  BY <1>1, JoinerFacts
<1>3. LevelShape(s, k)
  BY <1>2 DEF LinkingShape
<1>4. s > 0 /\ k = e + 2 /\ e \in Nat /\ e \in Starts /\ s >= 3
  BY <1>2, <1>3, StartsClosed DEF LevelShape
<1>5. s \in Node /\ s + 1 \in Node /\ e - 1 \in Node /\ e \in Node /\ e + 1 \in Node
  BY <1>2, <1>4, NAssumption DEF Node
<1>6. Home(e) = s /\ Home(e + 1) = s /\ Home(e + 2) = s + 1
  <2>1. First(s) = e /\ First(s + 1) = e + 2
    BY <1>2, <1>4 DEF First
  <2>2. QED
    BY <1>2, <2>1, FirstFacts
<1>7. loc[k].kids = <<s, s + 1, e, e + 1>>
  BY <1>3 DEF LevelShape
<1>8. /\ loc[k].kids[1] = s /\ loc[k].kids[2] = s + 1
      /\ loc[k].kids[3] = e /\ loc[k].kids[4] = e + 1
  BY <1>7
<1>9. QED
  BY <1>1, <1>2, <1>3, <1>4, <1>5, <1>6, <1>8

LEMMA LevelMoves ==
  ASSUME TypeOK, Shape, NEW s \in Starts, NEW k \in 0 .. N, ShapeIs(s, k),
         k \in Node, pc[k] \in LevelSteps, NEW t \in LevelSteps, Goto(k, t),
         loc'[k].x = loc[k].x,
         \A m \in Node : m > k => e_next'[m] = e_next[m] /\ e_prev'[m] = e_prev[m],
         pc'[k] = t => LevelShape(s, k)'
  PROVE  Shape'
<1>0. PICK e : e = 2*s + 3
  OBVIOUS
<1>1. k > 0 /\ loc[k].x = k - 1 /\ pc[k] \in LinkSteps
  BY <1>0, LevelFacts
<1>2. pc'[k] = t
  BY DEF Goto, TypeOK, ControlTypeOK
<1>3. LinkingShape(s, k)'
  BY <1>1, <1>2 DEF LinkingShape
<1>4. t \in LinkSteps \ {"edges"} /\ t # "adopt_below"
  BY DEF LinkSteps, LevelSteps
<1>5. QED
  BY <1>1, <1>3, <1>4, JoinerMoves DEF Shape

\* The two requests that only read.
LEMMA LevelReads ==
  ASSUME TypeOK, HelloOrder, Shape, NEW n \in Node, GetNext(n) \/ GetPrev(n)
  PROVE  Shape'
<1>1. PICK s \in Starts, k \in 0 .. N : ShapeIs(s, k)
  BY DEF Shape
<1> DEFINE e == 2*s + 3
<1>2. pc[n] \in LevelSteps
  BY DEF GetNext, GetPrev, LevelStep, Calls, LevelSteps
<1>3. /\ n = k /\ k \in Nat /\ k \in Node /\ loc[k].x = k - 1 /\ LevelShape(s, k)
      /\ s \in Nat /\ s < k /\ e \in Nat /\ k = e + 2 /\ s >= 3 /\ loc[k].kids[3] = e
  <2>1. PICK d : d = 2*s + 3
    OBVIOUS
  <2>2. /\ n = k /\ k \in Nat /\ k \in Node /\ loc[k].x = k - 1 /\ LevelShape(s, k)
        /\ s \in Nat /\ s < k /\ d \in Nat /\ k = d + 2 /\ s >= 3 /\ loc[k].kids[3] = d
    BY <1>1, <1>2, <2>1, LevelFacts
  <2>3. QED
    BY <2>1, <2>2
<1>4. UNCHANGED links
  BY DEF GetNext, GetPrev
<1>5. /\ KidsAre(e, e)' <=> KidsAre(e, e)
      /\ ToldAre(s, e, 0)' <=> ToldAre(s, e, 0)
      /\ RingsAbove(s)' <=> RingsAbove(s)
      /\ NextsAre(s, k, s)' <=> NextsAre(s, k, s)
      /\ PrevsAre(s, k, k-1)' <=> PrevsAre(s, k, k-1)
      /\ e_next'[e] = e_next[e] /\ e_prev'[e+1] = e_prev[e+1]
  BY <1>4 DEF links, KidsAre, ToldAre, RingsAbove, RingIs, NextsAre, PrevsAre
<1>6. \A m \in Node : m > k => e_next'[m] = e_next[m] /\ e_prev'[m] = e_prev[m]
  BY <1>4 DEF links
<1>7. e + 0 = e
  BY <1>3
<1>8. CASE GetNext(n)
  <2>1. pc[k] = "get_next" /\ Goto(k, "get_prev")
    BY <1>3, <1>8 DEF GetNext, LevelStep, Calls
  <2>2. loc' = [loc EXCEPT ![k].new_next = e_next[k-1]]
    BY <1>3, <1>8 DEF GetNext
  <2>3. e_next[k-1] = s
    <3>1. NextsAre(s, k, s) /\ k - 1 \in s .. k-1
      BY <1>3, <2>1 DEF LevelShape, BeforeCloseNext, BeforeClosePrev
    <3>2. QED
      BY <3>1 DEF NextsAre
  <2>4. /\ loc'[k].x = loc[k].x /\ loc'[k].kids = loc[k].kids /\ loc'[k].new_next = s
    <3>1. loc' = [loc EXCEPT ![k].new_next = s]
      BY <2>2, <2>3
    <3>2. k \in Node
      BY <1>3
    <3>3. QED
      BY <3>1, <3>2, LocalSet
  <2>5. pc'[k] = "get_prev" => LevelShape(s, k)'
    BY <1>3, <1>5, <1>7, <2>1, <2>4
       DEF LevelShape, Grown, Told, BeforeCloseNext, BeforeClosePrev
  <2>6. QED
    BY <1>1, <1>2, <1>3, <1>6, <2>1, <2>4, <2>5, LevelMoves DEF LevelSteps
<1>9. CASE GetPrev(n)
  <2>1. pc[k] = "get_prev" /\ Goto(k, "close_prev")
    BY <1>3, <1>9 DEF GetPrev, LevelStep, Calls
  <2>2. loc' = [loc EXCEPT ![k].new_prev = e_prev[e]]
    BY <1>3, <1>9 DEF GetPrev
  <2>3. e_prev[e] = e - 1
    <3>1. PrevsAre(s, k, k-1) /\ e \in s .. k-1 /\ e # s
      BY <1>3, <2>1 DEF LevelShape, BeforeCloseNext, BeforeClosePrev
    <3>2. QED
      BY <3>1 DEF PrevsAre
  <2>4. /\ loc'[k].x = loc[k].x /\ loc'[k].kids = loc[k].kids
        /\ loc'[k].new_next = loc[k].new_next /\ loc'[k].new_prev = e - 1
    BY <1>3, <2>2, <2>3, LocalSet
  <2>5. pc'[k] = "close_prev" => LevelShape(s, k)'
    BY <1>3, <1>5, <1>7, <2>1, <2>4
       DEF LevelShape, Grown, Told, BeforeCloseNext, BeforeClosePrev
  <2>6. QED
    BY <1>1, <1>2, <1>3, <1>6, <2>1, <2>4, <2>5, LevelMoves DEF LevelSteps
<1>10. QED
  BY <1>8, <1>9

\* The lowest ring closes over the two nodes that leave it.
LEMMA ClosePrevShape ==
  ASSUME TypeOK, HelloOrder, Shape, NEW n \in Node, ClosePrev(n)
  PROVE  Shape'
<1>1. PICK s \in Starts, k \in 0 .. N : ShapeIs(s, k)
  BY DEF Shape
<1> DEFINE e == 2*s + 3
<1>2. pc[n] = "close_prev" /\ pc[n] \in LevelSteps
  BY DEF ClosePrev, LevelStep, Calls, LevelSteps
<1>3. /\ n = k /\ k \in Nat /\ k \in Node /\ loc[k].x = k - 1 /\ LevelShape(s, k)
      /\ s \in Nat /\ s < k /\ e \in Nat /\ k = e + 2 /\ s >= 3 /\ s \in Node
  <2>1. PICK d : d = 2*s + 3
    OBVIOUS
  <2>2. /\ n = k /\ k \in Nat /\ k \in Node /\ loc[k].x = k - 1 /\ LevelShape(s, k)
        /\ s \in Nat /\ s < k /\ d \in Nat /\ k = d + 2 /\ s >= 3 /\ s \in Node
    BY <1>1, <1>2, <2>1, LevelFacts
  <2>3. QED
    BY <2>1, <2>2
<1>4. e_prev' = [e_prev EXCEPT ![s] = e - 1] /\ UNCHANGED <<e_parent, e_next, e_children, loc>>
  <2>1. loc[k].new_next = s /\ loc[k].new_prev = e - 1
    BY <1>2, <1>3 DEF LevelShape
  <2>2. QED
    BY <1>3, <2>1 DEF ClosePrev, SetPrev
<1>5. /\ KidsAre(e, e)' <=> KidsAre(e, e)
      /\ ToldAre(s, e, 0)' <=> ToldAre(s, e, 0)
      /\ NextsAre(s, k, s)' <=> NextsAre(s, k, s)
      /\ e_next'[e] = e_next[e]
  BY <1>4 DEF KidsAre, ToldAre, NextsAre
<1>6. e_prev'[s] = e - 1 /\ \A m \in Node : m # s => e_prev'[m] = e_prev[m]
  BY <1>3, <1>4 DEF TypeOK, LinksTypeOK
<1>7. RingsAbove(s)'
  <2>1. ASSUME NEW m \in Nat, m < s  PROVE e_next'[m] = e_next[m] /\ e_prev'[m] = e_prev[m]
    <3>1. m \in Node /\ m # s
      BY <1>3, <2>1, NAssumption DEF Node
    <3>2. QED
      BY <1>4, <1>6, <3>1
  <2>2. QED
    BY <1>3, <2>1, RingsAboveKept DEF LevelShape
<1>8. e_prev'[e+1] = e_prev[e+1]
  <2>1. e + 1 \in Node /\ e + 1 # s
    BY <1>3, NAssumption DEF Node
  <2>2. QED
    BY <1>6, <2>1
<1>9. PrevsAre(s, e, e-1)'
  <2>1. ASSUME NEW m \in s .. e-1  PROVE e_prev'[m] = IF m = s THEN e - 1 ELSE m - 1
    <3>1. CASE m = s
      BY <1>6, <3>1
    <3>2. CASE m # s
      <4>1. m \in Node /\ m \in s .. k-1 /\ PrevsAre(s, k, k-1)
        BY <1>2, <1>3, NAssumption DEF Node, LevelShape, BeforeClosePrev
      <4>2. e_prev[m] = m - 1
        BY <3>2, <4>1 DEF PrevsAre
      <4>3. QED
        BY <1>6, <3>2, <4>1, <4>2
    <3>3. QED
      BY <3>1, <3>2
  <2>2. QED
    BY <1>3, <2>1 DEF PrevsAre
<1>10. Goto(k, "close_next") /\ e + 0 = e
  BY <1>3 DEF ClosePrev, LevelStep
<1>11. pc'[k] = "close_next" => LevelShape(s, k)'
  BY <1>2, <1>3, <1>4, <1>5, <1>7, <1>8, <1>9, <1>10
     DEF LevelShape, Grown, Told, BeforeCloseNext, BeforeClosePrev
<1>12. \A m \in Node : m > k => e_next'[m] = e_next[m] /\ e_prev'[m] = e_prev[m]
  BY <1>3, <1>4, <1>6 DEF Node
<1>13. QED
  BY <1>1, <1>2, <1>3, <1>4, <1>10, <1>11, <1>12, LevelMoves DEF LevelSteps

LEMMA CloseNextShape ==
  ASSUME TypeOK, HelloOrder, Shape, NEW n \in Node, CloseNext(n)
  PROVE  Shape'
<1>1. PICK s \in Starts, k \in 0 .. N : ShapeIs(s, k)
  BY DEF Shape
<1> DEFINE e == 2*s + 3
<1>2. pc[n] = "close_next" /\ pc[n] \in LevelSteps
  BY DEF CloseNext, LevelStep, Calls, LevelSteps
<1>3. /\ n = k /\ k \in Nat /\ k \in Node /\ loc[k].x = k - 1 /\ LevelShape(s, k)
      /\ s \in Nat /\ s < k /\ e \in Nat /\ k = e + 2 /\ s >= 3 /\ e - 1 \in Node
  <2>1. PICK d : d = 2*s + 3
    OBVIOUS
  <2>2. /\ n = k /\ k \in Nat /\ k \in Node /\ loc[k].x = k - 1 /\ LevelShape(s, k)
        /\ s \in Nat /\ s < k /\ d \in Nat /\ k = d + 2 /\ s >= 3 /\ d - 1 \in Node
    BY <1>1, <1>2, <2>1, LevelFacts
  <2>3. QED
    BY <2>1, <2>2
<1>4. e_next' = [e_next EXCEPT ![e-1] = s] /\ UNCHANGED <<e_parent, e_prev, e_children, loc>>
  <2>1. loc[k].new_next = s /\ loc[k].new_prev = e - 1
    BY <1>2, <1>3 DEF LevelShape
  <2>2. QED
    BY <1>3, <2>1 DEF CloseNext, SetNext
<1>5. /\ KidsAre(e, e)' <=> KidsAre(e, e)
      /\ ToldAre(s, e, 0)' <=> ToldAre(s, e, 0)
      /\ PrevsAre(s, e, e-1)' <=> PrevsAre(s, e, e-1)
      /\ e_prev'[e+1] = e_prev[e+1]
  BY <1>4 DEF KidsAre, ToldAre, PrevsAre
<1>6. e_next'[e-1] = s /\ \A m \in Node : m # e - 1 => e_next'[m] = e_next[m]
  BY <1>3, <1>4 DEF TypeOK, LinksTypeOK
<1>7. RingsAbove(s)'
  <2>1. ASSUME NEW m \in Nat, m < s  PROVE e_next'[m] = e_next[m] /\ e_prev'[m] = e_prev[m]
    <3>1. m \in Node /\ m # e - 1
      BY <1>3, <2>1, NAssumption DEF Node
    <3>2. QED
      BY <1>4, <1>6, <3>1
  <2>2. QED
    BY <1>3, <2>1, RingsAboveKept DEF LevelShape
<1>8. e_next'[e] = e_next[e]
  <2>1. e \in Node /\ e # e - 1
    BY <1>3, NAssumption DEF Node
  <2>2. QED
    BY <1>6, <2>1
<1>9. NextsAre(s, e, s)'
  <2>1. ASSUME NEW m \in s .. e-1  PROVE e_next'[m] = IF m = e-1 THEN s ELSE m + 1
    <3>1. CASE m = e-1
      BY <1>6, <3>1
    <3>2. CASE m # e-1
      <4>1. m \in Node /\ m \in s .. k-1 /\ m # k-1 /\ NextsAre(s, k, s)
        BY <1>2, <1>3, NAssumption DEF Node, LevelShape, BeforeCloseNext
      <4>2. e_next[m] = m + 1
        BY <4>1 DEF NextsAre
      <4>3. QED
        BY <1>6, <3>2, <4>1, <4>2
    <3>3. QED
      BY <3>1, <3>2
  <2>2. QED
    BY <1>3, <2>1 DEF NextsAre
<1>10. Goto(k, "adopt_2") /\ e + 0 = e
  BY <1>3 DEF CloseNext, LevelStep
<1>11. pc'[k] = "adopt_2" => LevelShape(s, k)'
  BY <1>2, <1>3, <1>4, <1>5, <1>7, <1>8, <1>9, <1>10
     DEF LevelShape, Grown, Told, BeforeCloseNext, BeforeClosePrev
<1>12. \A m \in Node : m > k => e_next'[m] = e_next[m] /\ e_prev'[m] = e_prev[m]
  BY <1>3, <1>4, <1>6 DEF Node
<1>13. QED
  BY <1>1, <1>2, <1>3, <1>4, <1>10, <1>11, <1>12, LevelMoves DEF LevelSteps

\* What the requests of the new level that change no ring leave as it is.
LEMMA LevelRingsKept ==
  ASSUME NEW s \in Starts, NEW e \in Nat, UNCHANGED <<e_prev, e_next>>,
         RingsAbove(s), NextsAre(s, e, s), PrevsAre(s, e, e-1),
         e_next[e] = e + 1, e_prev[e + 1] = e
  PROVE  /\ RingsAbove(s)' /\ NextsAre(s, e, s)' /\ PrevsAre(s, e, e-1)'
         /\ e_next'[e] = e + 1 /\ e_prev'[e + 1] = e
BY DEF RingsAbove, RingIs, NextsAre, PrevsAre

\* A node of the new level is adopted.
LEMMA LevelAdopts ==
  ASSUME TypeOK, NEW e \in Starts, e > 0, NEW j \in Node, e <= j, j <= e + 2,
         KidsAre(e, j), NEW p \in Node, p = Home(j), Adopt(p, j, FALSE)
  PROVE  KidsAre(e, j + 1)'
<1>1. e \in Nat /\ j \in Nat /\ j <= 2*e + 4 /\ ~(j >= 2*e + 3)
  BY StartsClosed, HomeOfStart DEF Node
<1>2. p = Dad(e, j)
  BY <1>1 DEF Dad
<1>3. Len(e_children[p]) # 4
  <2>1. Len(KidSeq(e, j, p)) # 4
    BY <1>1, KidsBelowFour
  <2>2. QED
    BY <2>1 DEF KidsAre
<1>4. e_children' = [e_children EXCEPT ![p] = Append(e_children[p], j)]
  BY <1>3 DEF Adopt, AdoptedBy, Redirects, CreatesLevel
<1>5. QED
  BY <1>1, <1>2, <1>4, KidAdded DEF TypeOK

\* A node is told its parent.
LEMMA LevelTells ==
  ASSUME TypeOK, NEW s \in Nat, NEW e \in Nat, NEW t \in Nat, e + t \in Node,
         ToldAre(s, e, t), e_parent' = [e_parent EXCEPT ![e+t] = Home(e + t)]
  PROVE  ToldAre(s, e, t + 1)'
<1>1. SUFFICES ASSUME NEW q \in Node
               PROVE  e_parent'[q] = IF q < e + (t + 1) THEN Home(q)
                                     ELSE IF q < e + 2 THEN Home(s) ELSE None
  BY DEF ToldAre
<1>2. q \in Nat /\ e_parent[q] = IF q < e + t THEN Home(q)
                                ELSE IF q < e + 2 THEN Home(s) ELSE None
  BY DEF ToldAre, Node
<1>3. CASE q = e + t
  BY <1>2, <1>3 DEF TypeOK, LinksTypeOK
<1>4. CASE q # e + t
  <2>1. e_parent'[q] = e_parent[q] /\ (q < e + (t + 1) <=> q < e + t)
    BY <1>2, <1>4 DEF TypeOK, LinksTypeOK
  <2>2. QED
    BY <1>2, <2>1
<1>5. QED
  BY <1>3, <1>4

\* kids[1] adopts the two nodes that have left the ring.
LEMMA AdoptKidShape ==
  ASSUME TypeOK, HelloOrder, Shape, NEW n \in Node, Adopt2(n) \/ Adopt3(n)
  PROVE  Shape'
<1>1. PICK s \in Starts, k \in 0 .. N : ShapeIs(s, k)
  BY DEF Shape
<1>2. PICK e : e = 2*s + 3
  OBVIOUS
<1>3. pc[n] \in LevelSteps /\ (Adopt2(n) => pc[n] = "adopt_2") /\ (Adopt3(n) => pc[n] = "adopt_3")
  BY DEF Adopt2, Adopt3, AdoptKid, LevelStep, Calls, LevelSteps
<1>4. /\ n = k /\ k \in Nat /\ k \in Node /\ loc[k].x = k - 1 /\ LevelShape(s, k)
      /\ s \in Nat /\ s \in Node /\ e \in Nat /\ e \in Starts /\ k = e + 2 /\ s >= 3
      /\ e \in Node /\ e + 1 \in Node /\ Home(e) = s /\ Home(e + 1) = s
      /\ loc[k].kids[1] = s /\ loc[k].kids[3] = e /\ loc[k].kids[4] = e + 1
  BY <1>1, <1>2, <1>3, LevelFacts
<1>5. UNCHANGED <<e_parent, e_prev, e_next, loc>>
  BY DEF Adopt2, Adopt3, AdoptKid
<1>6. /\ RingsAbove(s)' /\ NextsAre(s, e, s)' /\ PrevsAre(s, e, e-1)'
      /\ e_next'[e] = e + 1 /\ e_prev'[e + 1] = e
  <2>1. /\ RingsAbove(s) /\ NextsAre(s, e, s) /\ PrevsAre(s, e, e-1)
        /\ e_next[e] = e + 1 /\ e_prev[e + 1] = e
    BY <1>2, <1>3, <1>4 DEF LevelShape, BeforeCloseNext, BeforeClosePrev
  <2>2. QED
    BY <1>4, <1>5, <2>1, LevelRingsKept
<1>7. \A m \in Node : m > k => e_next'[m] = e_next[m] /\ e_prev'[m] = e_prev[m]
  BY <1>5
<1>8. e > 0 /\ e <= e /\ e <= e + 2 /\ e <= e + 1 /\ e + 1 <= e + 2 /\ e + 0 = e /\ e + 1 + 1 = e + 2
  BY <1>2, <1>4
<1>9. CASE Adopt2(n)
  <2>1. Adopt(s, e, FALSE) /\ Goto(k, "parent_2")
    BY <1>4, <1>9 DEF Adopt2, AdoptKid, LevelStep
  <2>2. KidsAre(e, e) /\ ToldAre(s, e, 0)
    BY <1>2, <1>3, <1>4, <1>8, <1>9 DEF LevelShape, Grown, Told
  <2>3. KidsAre(e, e + 1)'
    BY <1>4, <1>8, <2>1, <2>2, LevelAdopts
  <2>4. ToldAre(s, e, 0)'
    BY <1>5, <2>2 DEF ToldAre
  <2>5. pc'[k] = "parent_2" => LevelShape(s, k)'
    BY <1>2, <1>3, <1>4, <1>5, <1>6, <2>3, <2>4
       DEF LevelShape, Grown, Told, BeforeCloseNext, BeforeClosePrev
  <2>6. QED
    BY <1>1, <1>3, <1>4, <1>5, <1>7, <2>1, <2>5, LevelMoves DEF LevelSteps
<1>10. CASE Adopt3(n)
  <2>1. Adopt(s, e + 1, FALSE) /\ Goto(k, "parent_3")
    BY <1>4, <1>10 DEF Adopt3, AdoptKid, LevelStep
  <2>2. KidsAre(e, e + 1) /\ ToldAre(s, e, 1)
    BY <1>2, <1>3, <1>4, <1>8, <1>10 DEF LevelShape, Grown, Told
  <2>3. KidsAre(e, e + 2)'
    <3>1. KidsAre(e, e + 1 + 1)'
      BY <1>4, <1>8, <2>1, <2>2, LevelAdopts
    <3>2. QED
      BY <1>8, <3>1
  <2>4. ToldAre(s, e, 1)'
    BY <1>5, <2>2 DEF ToldAre
  <2>5. pc'[k] = "parent_3" => LevelShape(s, k)'
    BY <1>2, <1>3, <1>4, <1>5, <1>6, <2>3, <2>4
       DEF LevelShape, Grown, Told, BeforeCloseNext, BeforeClosePrev
  <2>6. QED
    BY <1>1, <1>3, <1>4, <1>5, <1>7, <2>1, <2>5, LevelMoves DEF LevelSteps
<1>11. QED
  BY <1>9, <1>10

LEMMA TellKidShape ==
  ASSUME TypeOK, HelloOrder, Shape, NEW n \in Node, Parent2(n) \/ Parent3(n)
  PROVE  Shape'
<1>1. PICK s \in Starts, k \in 0 .. N : ShapeIs(s, k)
  BY DEF Shape
<1>2. PICK e : e = 2*s + 3
  OBVIOUS
<1>3. /\ pc[n] \in LevelSteps
      /\ (Parent2(n) => pc[n] = "parent_2") /\ (Parent3(n) => pc[n] = "parent_3")
  BY DEF Parent2, Parent3, TellKid, LevelStep, Calls, LevelSteps
<1>4. /\ n = k /\ k \in Nat /\ k \in Node /\ loc[k].x = k - 1 /\ LevelShape(s, k)
      /\ s \in Nat /\ s \in Node /\ e \in Nat /\ e \in Starts /\ k = e + 2 /\ s >= 3
      /\ e \in Node /\ e + 1 \in Node /\ Home(e) = s /\ Home(e + 1) = s
      /\ loc[k].kids[1] = s /\ loc[k].kids[3] = e /\ loc[k].kids[4] = e + 1
  BY <1>1, <1>2, <1>3, LevelFacts
<1>5. UNCHANGED <<e_children, e_prev, e_next, loc>>
  BY DEF Parent2, Parent3, TellKid, SetParent
<1>6. /\ RingsAbove(s)' /\ NextsAre(s, e, s)' /\ PrevsAre(s, e, e-1)'
      /\ e_next'[e] = e + 1 /\ e_prev'[e + 1] = e
  <2>1. /\ RingsAbove(s) /\ NextsAre(s, e, s) /\ PrevsAre(s, e, e-1)
        /\ e_next[e] = e + 1 /\ e_prev[e + 1] = e
    BY <1>2, <1>3, <1>4 DEF LevelShape, BeforeCloseNext, BeforeClosePrev
  <2>2. QED
    BY <1>4, <1>5, <2>1, LevelRingsKept
<1>7. \A m \in Node : m > k => e_next'[m] = e_next[m] /\ e_prev'[m] = e_prev[m]
  BY <1>5
<1>8. e + 0 = e /\ 0 + 1 = 1 /\ 1 + 1 = 2 /\ 0 \in Nat /\ 1 \in Nat
  BY <1>4
<1>9. CASE Parent2(n)
  <2>1. e_parent' = [e_parent EXCEPT ![e] = s] /\ Goto(k, "adopt_3")
    BY <1>4, <1>9 DEF Parent2, TellKid, LevelStep, SetParent
  <2>2. KidsAre(e, e + 1) /\ ToldAre(s, e, 0)
    BY <1>2, <1>3, <1>4, <1>8, <1>9 DEF LevelShape, Grown, Told
  <2>3. KidsAre(e, e + 1)'
    BY <1>5, <2>2 DEF KidsAre
  <2>4. ToldAre(s, e, 1)'
    <3>1. e + 0 \in Node /\ e_parent' = [e_parent EXCEPT ![e+0] = Home(e + 0)]
      BY <1>4, <1>8, <2>1
    <3>2. ToldAre(s, e, 0 + 1)'
      BY <1>4, <1>8, <2>2, <3>1, LevelTells
    <3>3. QED
      BY <1>8, <3>2
  <2>5. pc'[k] = "adopt_3" => LevelShape(s, k)'
    BY <1>2, <1>3, <1>4, <1>5, <1>6, <2>3, <2>4
       DEF LevelShape, Grown, Told, BeforeCloseNext, BeforeClosePrev
  <2>6. QED
    BY <1>1, <1>3, <1>4, <1>5, <1>7, <2>1, <2>5, LevelMoves DEF LevelSteps
<1>10. CASE Parent3(n)
  <2>1. e_parent' = [e_parent EXCEPT ![e+1] = s] /\ Goto(k, "adopt_me")
    BY <1>4, <1>10 DEF Parent3, TellKid, LevelStep, SetParent
  <2>2. KidsAre(e, e + 2) /\ ToldAre(s, e, 1)
    BY <1>2, <1>3, <1>4, <1>8, <1>10 DEF LevelShape, Grown, Told
  <2>3. KidsAre(e, e + 2)'
    BY <1>5, <2>2 DEF KidsAre
  <2>4. ToldAre(s, e, 2)'
    <3>1. e_parent' = [e_parent EXCEPT ![e+1] = Home(e + 1)]
      BY <1>4, <2>1
    <3>2. ToldAre(s, e, 1 + 1)'
      BY <1>4, <1>8, <2>2, <3>1, LevelTells
    <3>3. QED
      BY <1>8, <3>2
  <2>5. pc'[k] = "adopt_me" => LevelShape(s, k)'
    BY <1>2, <1>3, <1>4, <1>5, <1>6, <2>3, <2>4
       DEF LevelShape, Grown, Told, BeforeCloseNext, BeforeClosePrev
  <2>6. QED
    BY <1>1, <1>3, <1>4, <1>5, <1>7, <2>1, <2>5, LevelMoves DEF LevelSteps
<1>11. QED
  BY <1>9, <1>10

LEMMA AdoptMeShape ==
  ASSUME TypeOK, HelloOrder, Shape, NEW n \in Node, AdoptMe(n)
  PROVE  Shape'
<1>1. PICK s \in Starts, k \in 0 .. N : ShapeIs(s, k)
  BY DEF Shape
<1>2. PICK e : e = 2*s + 3
  OBVIOUS
<1>3. pc[n] \in LevelSteps /\ pc[n] = "adopt_me"
  BY DEF AdoptMe, LevelStep, Calls, LevelSteps
<1>4. /\ n = k /\ k \in Nat /\ k \in Node /\ loc[k].x = k - 1 /\ LevelShape(s, k)
      /\ s \in Nat /\ s + 1 \in Node /\ e \in Nat /\ e \in Starts /\ k = e + 2 /\ s >= 3
      /\ Home(e + 2) = s + 1 /\ loc[k].kids[2] = s + 1
  BY <1>1, <1>2, <1>3, LevelFacts
<1>5. UNCHANGED <<e_prev, e_next, loc>> /\ Goto(k, "next_3")
      /\ Adopt(s + 1, e + 2, FALSE) /\ e_parent' = [e_parent EXCEPT ![e+2] = Home(e + 2)]
  BY <1>4 DEF AdoptMe, LevelStep
<1>6. /\ RingsAbove(s)' /\ NextsAre(s, e, s)' /\ PrevsAre(s, e, e-1)'
      /\ e_next'[e] = e + 1 /\ e_prev'[e + 1] = e
  <2>1. /\ RingsAbove(s) /\ NextsAre(s, e, s) /\ PrevsAre(s, e, e-1)
        /\ e_next[e] = e + 1 /\ e_prev[e + 1] = e
    BY <1>2, <1>3, <1>4 DEF LevelShape, BeforeCloseNext, BeforeClosePrev
  <2>2. QED
    BY <1>4, <1>5, <2>1, LevelRingsKept
<1>7. \A m \in Node : m > k => e_next'[m] = e_next[m] /\ e_prev'[m] = e_prev[m]
  BY <1>5
<1>8. /\ e > 0 /\ e <= e + 2 /\ e + 2 <= e + 2 /\ 2 + 1 = 3 /\ e + 2 + 1 = e + 3
      /\ e + 2 \in Node /\ 2 \in Nat
  BY <1>2, <1>4
<1>9. KidsAre(e, e + 2) /\ ToldAre(s, e, 2)
  BY <1>2, <1>3, <1>4 DEF LevelShape, Grown, Told
<1>10. KidsAre(e, e + 3)'
  <2>1. KidsAre(e, e + 2 + 1)'
    BY <1>4, <1>5, <1>8, <1>9, LevelAdopts
  <2>2. QED
    BY <1>8, <2>1
<1>11. ToldAre(s, e, 3)'
  <2>1. ToldAre(s, e, 2 + 1)'
    BY <1>4, <1>5, <1>8, <1>9, LevelTells
  <2>2. QED
    BY <1>8, <2>1
<1>12. pc'[k] = "next_3" => LevelShape(s, k)'
  BY <1>2, <1>3, <1>4, <1>5, <1>6, <1>10, <1>11
     DEF LevelShape, Grown, Told, BeforeCloseNext, BeforeClosePrev
<1>13. QED
  BY <1>1, <1>3, <1>4, <1>5, <1>7, <1>12, LevelMoves DEF LevelSteps

\* The new ring: e, e+1 and the joining node.
LEMMA Next3Shape ==
  ASSUME TypeOK, HelloOrder, Shape, NEW n \in Node, Next3(n)
  PROVE  Shape'
<1>1. PICK s \in Starts, k \in 0 .. N : ShapeIs(s, k)
  BY DEF Shape
<1>2. PICK e : e = 2*s + 3
  OBVIOUS
<1>3. pc[n] \in LevelSteps /\ pc[n] = "next_3"
  BY DEF Next3, LevelStep, Calls, LevelSteps
<1>4. /\ n = k /\ k \in Nat /\ k \in Node /\ loc[k].x = k - 1 /\ LevelShape(s, k)
      /\ s \in Nat /\ e \in Nat /\ e \in Starts /\ k = e + 2 /\ s >= 3
      /\ e \in Node /\ e + 1 \in Node /\ loc[k].kids[4] = e + 1
  BY <1>1, <1>2, <1>3, LevelFacts
<1>5. /\ UNCHANGED <<e_parent, e_prev, e_children, loc>> /\ Goto(k, "prev_2")
      /\ e_next' = [e_next EXCEPT ![e+1] = k]
  BY <1>4 DEF Next3, LevelStep, SetNext
<1>6. e_next'[e+1] = k /\ \A m \in Node : m # e + 1 => e_next'[m] = e_next[m]
  BY <1>4, <1>5 DEF TypeOK, LinksTypeOK
<1>7. ASSUME NEW m \in Nat, m < e  PROVE m \in Node /\ e_next'[m] = e_next[m]
  <2>1. m \in Node /\ m # e + 1
    BY <1>4, <1>7, NAssumption DEF Node
  <2>2. QED
    BY <1>6, <2>1
<1>8. /\ RingsAbove(s) /\ NextsAre(s, e, s) /\ PrevsAre(s, e, e-1)
      /\ e_next[e] = e + 1 /\ e_prev[e + 1] = e
  BY <1>2, <1>3, <1>4 DEF LevelShape, BeforeCloseNext, BeforeClosePrev
<1>9. RingsAbove(s)'
  <2>1. \A m \in Nat : m < s => e_next'[m] = e_next[m] /\ e_prev'[m] = e_prev[m]
    <3>1. \A m \in Nat : m < s => m < e
      BY <1>2, <1>4
    <3>2. QED
      BY <1>5, <1>7, <3>1
  <2>2. QED
    BY <1>8, <2>1, RingsAboveKept
<1>10. NextsAre(s, e, s)'
  BY <1>4, <1>7, <1>8, NextsKept
<1>11. PrevsAre(s, e, e-1)' /\ e_prev'[e + 1] = e
  BY <1>5, <1>8 DEF PrevsAre
<1>12. e_next'[e] = e + 1
  <2>1. e # e + 1
    BY <1>4
  <2>2. QED
    BY <1>4, <1>6, <1>8, <2>1
<1>13. KidsAre(e, e + 3)' /\ ToldAre(s, e, 3)'
  <2>1. KidsAre(e, e + 3) /\ ToldAre(s, e, 3)
    BY <1>2, <1>3, <1>4 DEF LevelShape, Grown, Told
  <2>2. QED
    BY <1>5, <2>1 DEF KidsAre, ToldAre
<1>14. pc'[k] = "prev_2" => LevelShape(s, k)'
  BY <1>2, <1>3, <1>4, <1>5, <1>6, <1>9, <1>10, <1>11, <1>12, <1>13
     DEF LevelShape, Grown, Told, BeforeCloseNext, BeforeClosePrev
<1>15. \A m \in Node : m > k => e_next'[m] = e_next[m] /\ e_prev'[m] = e_prev[m]
  BY <1>4, <1>5, <1>6 DEF Node
<1>16. QED
  BY <1>1, <1>3, <1>4, <1>5, <1>14, <1>15, LevelMoves DEF LevelSteps

\* From here on the new level is the lowest.
LEMMA Prev2Shape ==
  ASSUME TypeOK, HelloOrder, Shape, NEW n \in Node, Prev2(n)
  PROVE  Shape'
<1>1. PICK s \in Starts, k \in 0 .. N : ShapeIs(s, k)
  BY DEF Shape
<1>2. PICK e : e = 2*s + 3
  OBVIOUS
<1>3. pc[n] \in LevelSteps /\ pc[n] = "prev_2"
  BY DEF Prev2, Calls, LevelSteps
<1>4. /\ n = k /\ k \in Nat /\ k \in Node /\ loc[k].x = k - 1 /\ LevelShape(s, k)
      /\ s \in Nat /\ e \in Nat /\ e \in Starts /\ k = e + 2 /\ s >= 3
      /\ e \in Node /\ e + 1 \in Node /\ loc[k].kids[3] = e /\ loc[k].kids[4] = e + 1
      /\ pc[k] \in LinkSteps
  BY <1>1, <1>2, <1>3, LevelFacts
<1>5. /\ UNCHANGED <<e_parent, e_children>> /\ JoinReturns(k)
      /\ e_prev' = [e_prev EXCEPT ![e] = k, ![k] = e + 1]
      /\ e_next' = [e_next EXCEPT ![k] = e]
  BY <1>4 DEF Prev2
<1>6. /\ RingsAbove(s) /\ NextsAre(s, e, s) /\ PrevsAre(s, e, e-1)
      /\ e_next[e] = e + 1 /\ e_prev[e + 1] = e /\ e_next[e + 1] = k
  BY <1>2, <1>3, <1>4 DEF LevelShape, BeforeCloseNext, BeforeClosePrev
<1>7. /\ e_next'[k] = e /\ \A m \in Node : m # k => e_next'[m] = e_next[m]
      /\ e_prev'[k] = e + 1 /\ e_prev'[e] = k
      /\ \A m \in Node : m # k /\ m # e => e_prev'[m] = e_prev[m]
  <2>1. e # k
    BY <1>4
  <2>2. QED
    BY <1>4, <1>5, <2>1 DEF TypeOK, LinksTypeOK
<1>8. ASSUME NEW m \in Nat, m < e
      PROVE  m \in Node /\ e_next'[m] = e_next[m] /\ e_prev'[m] = e_prev[m]
  <2>1. m \in Node /\ m # k /\ m # e
    BY <1>4, <1>8, NAssumption DEF Node
  <2>2. QED
    BY <1>7, <2>1
<1>9. RingsAbove(e)'
  <2>1. NextsAre(s, e, s)' /\ PrevsAre(s, e, e-1)'
    BY <1>4, <1>6, <1>8, NextsKept, PrevsKept
  <2>2. RingsAbove(s)'
    <3>1. \A m \in Nat : m < s => m < e
      BY <1>2, <1>4
    <3>2. QED
      BY <1>6, <1>8, <3>1, RingsAboveKept
  <2>3. SUFFICES ASSUME NEW c \in Starts, c < e  PROVE RingIs(c, 2*c + 3)'
    BY DEF RingsAbove
  <2>4. c < s \/ c = s
    <3>1. c \in Nat
      BY StartsClosed
    <3>2. CASE s < c
      <4>1. e <= c
        BY <1>2, <3>2, StartsGap
      <4>2. QED
        BY <1>4, <2>3, <3>1, <4>1
    <3>3. QED
      BY <1>4, <3>1, <3>2
  <2>5. QED
    BY <1>2, <2>1, <2>2, <2>4 DEF RingsAbove, RingIs
<1>10. /\ e_next'[e] = e + 1 /\ e_next'[e + 1] = e + 2 /\ e_next'[e + 2] = e
       /\ e_prev'[e] = e + 2 /\ e_prev'[e + 1] = e /\ e_prev'[e + 2] = e + 1
  <2>1. e # k /\ e + 1 # k /\ e + 1 # e
    BY <1>4
  <2>2. QED
    BY <1>4, <1>6, <1>7, <2>1
<1>11. RingIs(e, e + 3)'
  <2>1. ASSUME NEW m \in e .. e + 3 - 1  PROVE m = e \/ m = e + 1 \/ m = e + 2
    BY <1>4
  <2>2. ASSUME NEW m \in e .. e + 3 - 1
        PROVE  /\ e_next'[m] = IF m = e + 3 - 1 THEN e ELSE m + 1
               /\ e_prev'[m] = IF m = e THEN e + 3 - 1 ELSE m - 1
    BY <1>4, <1>10, <2>1
  <2>3. QED
    BY <1>4, <2>2 DEF RingIs, NextsAre, PrevsAre
<1>12. KidsAre(e, e + 3)' /\ ParentsAre(e, e + 3)'
  <2>1. KidsAre(e, e + 3) /\ ToldAre(s, e, 3)
    BY <1>2, <1>3, <1>4 DEF LevelShape, Grown, Told
  <2>2. ASSUME NEW q \in Node
        PROVE  e_parent[q] = IF q < e + 3 THEN Dad(e, q) ELSE None
    <3>1. q \in Nat /\ e_parent[q] = IF q < e + 3 THEN Home(q)
                                    ELSE IF q < e + 2 THEN Home(s) ELSE None
      BY <2>1 DEF ToldAre, Node
    <3>2. q < e + 3 => Dad(e, q) = Home(q)
      <4>1. q < e + 3 => ~(q >= 2*e + 3)
        BY <1>2, <1>4, <3>1
      <4>2. QED
        BY <4>1 DEF Dad
    <3>3. q < e + 2 => q < e + 3
      BY <1>4, <3>1
    <3>4. QED
      BY <3>1, <3>2, <3>3
  <2>3. QED
    BY <1>5, <2>1, <2>2 DEF KidsAre, ParentsAre
<1>13. Resting(e, k + 1)'
  <2>1. k + 1 = e + 3
    BY <1>4
  <2>2. QED
    BY <1>9, <1>11, <1>12, <2>1 DEF Resting
<1>14. Size(e, k + 1)
  BY <1>2, <1>4 DEF Size
<1>15. \A m \in Node : m > k => e_next'[m] = e_next[m] /\ e_prev'[m] = e_prev[m]
  <2>1. \A m \in Node : m > k => m # k /\ m # e
    BY <1>4 DEF Node
  <2>2. QED
    BY <1>7, <2>1
<1>16. QED
  BY <1>1, <1>4, <1>5, <1>13, <1>14, <1>15, JoinerEnds DEF Shape

-----------------------------------------------------------------------------
(***************************************************************************)
(* The invariant                                                           *)
(***************************************************************************)
\* Steps of nodes that are linked already.
LEMMA EnterShape ==
  ASSUME TypeOK, Shape, NEW n \in Node, FetchJobs(n) \/ Activate(n)
  PROVE  Shape'
<1>0. pc \in [Node -> Steps]
  BY DEF TypeOK, ControlTypeOK
<1>1. PICK s \in Starts, k \in 0 .. N : ShapeIs(s, k)
  BY DEF Shape
<1>2. /\ pc[n] \in {"fetch", "activate"} /\ UNCHANGED <<links, loc>>
      /\ pc'[n] \in {"activate", "run"}
      /\ \A m \in Node : m # n => pc'[m] = pc[m]
  BY <1>0 DEF FetchJobs, Activate, Goto
<1>3. LinkSteps \cap {"fetch", "activate", "run", "info", "off"} = {}
  BY DEF LinkSteps, RingSteps, AdoptSteps, LevelSteps
<1>4. Linked' = Linked /\ (AtRest' <=> AtRest)
  BY <1>2, <1>3 DEF Linked, AtRest
<1>5. /\ e_parent' = e_parent /\ e_children' = e_children
      /\ \A m \in Nat : m < k => e_next'[m] = e_next[m] /\ e_prev'[m] = e_prev[m]
  BY <1>2 DEF links
<1>6. k \in Nat /\ s <= k /\ Size(s, k)
  BY <1>1, NAssumption, SizeFacts DEF ShapeIs
<1>7. Resting(s, k) => Resting(s, k)'
  BY <1>2, <1>6, RestUnchanged
<1>8. ASSUME NEW m \in Node, pc'[m] \in LinkSteps  PROVE m = k /\ LinkingShape(s, k)'
  <2>1. m # n /\ pc[m] \in LinkSteps
    BY <1>2, <1>3, <1>8
  <2>2. m = k /\ LinkingShape(s, k) /\ pc'[k] = pc[k] /\ loc'[k] = loc[k]
    BY <1>1, <1>2, <2>1 DEF ShapeIs
  <2>3. QED
    BY <1>5, <1>6, <2>2, LinkingKept
<1>9. ShapeIs(s, k)'
  BY <1>1, <1>4, <1>7, <1>8 DEF ShapeIs, Size
<1>10. Alone'
  BY <1>2 DEF Alone, Shape, links
<1>11. QED
  BY <1>9, <1>10 DEF Shape

LEMMA InitShape == Init => Shape
<1> SUFFICES ASSUME Init PROVE Shape
  OBVIOUS
<1>1. 0 \in Starts /\ 0 \in 0 .. N /\ \A c \in Starts : ~(c < 0)
  BY NAssumption, StartsClosed
<1>2. pc = [m \in Node |-> "off"] /\ e_parent = [m \in Node |-> None]
      /\ e_children = [m \in Node |-> <<>>]
  BY DEF Init, LinksInit
<1>3. Linked = 0 .. 0-1 /\ \A m \in Node : pc[m] \notin LinkSteps
  BY <1>2 DEF Linked, LinkSteps, RingSteps, AdoptSteps, LevelSteps
<1>4. KidsAre(0, 0) /\ ParentsAre(0, 0)
  BY <1>2, NoKids DEF KidsAre, ParentsAre, Node
<1>5. RingsAbove(0) /\ RingIs(0, 0)
  BY <1>1 DEF RingsAbove, RingIs, NextsAre, PrevsAre
<1>6. ShapeIs(0, 0) /\ Alone
  BY <1>2, <1>3, <1>4, <1>5 DEF ShapeIs, Size, Resting, Alone
<1>7. QED
  BY <1>1, <1>6 DEF Shape

LEMMA NextShape == TypeOK /\ HelloOrder /\ Shape /\ [Next]_vars => Shape'
<1> SUFFICES ASSUME TypeOK, HelloOrder, Shape, [Next]_vars PROVE Shape'
  OBVIOUS
<1>1. ASSUME NEW n \in Node, Start(n) PROVE Shape'
  BY <1>1, StartShape
<1>2. ASSUME NEW n \in Node, AskInfo(n) \/ AskEdges(n), Answers(Callee(n)) PROVE Shape'
  BY <1>2, AskInfoShape, AskEdgesShape
<1>3. ASSUME NEW n \in Node, RingNext(n) \/ RingPrev(n) \/ AdoptBelow(n) PROVE Shape'
  BY <1>3, RingNextShape, RingPrevShape, AdoptBelowShape
<1>4. ASSUME NEW n \in Node, AskParent(n) \/ AskParentNext(n) PROVE Shape'
  BY <1>4, AskParentShape, AskParentNextShape
<1>5. ASSUME NEW n \in Node, CreateLevel(n) PROVE Shape'
  BY <1>5, LevelReads, ClosePrevShape, CloseNextShape, AdoptKidShape, TellKidShape,
     AdoptMeShape, Next3Shape, Prev2Shape DEF CreateLevel
<1>6. ASSUME NEW n \in Node, FetchJobs(n) \/ Activate(n) PROVE Shape'
  BY <1>6, EnterShape
<1>7. CASE UNCHANGED vars
  BY <1>7 DEF vars, links, Shape, Alone, ShapeIs, Linked, AtRest, Resting, KidsAre, ParentsAre,
     RingsAbove, RingIs, NextsAre, PrevsAre, LinkingShape, LevelShape, RingShape, ToldAre
<1>8. QED
  BY <1>1, <1>2, <1>3, <1>4, <1>5, <1>6, <1>7 DEF Next, JoinStep, Request

\* In every state the links are those that the numbers of the linked nodes
\* give, but for the requests of the one join that is under way (network::join
\* and the set_edge and adopt handlers, node.cpp:598-692, 173-240).
THEOREM NetworkShape == Spec => []Shape
BY InitShape, NextShape, TypeCorrect, HelloOrderHolds, PTL DEF Spec

-----------------------------------------------------------------------------
(***************************************************************************)
(* The chains of parents                                                   *)
(***************************************************************************)
\* A parent has a smaller number than its child, in every state of a join.
LEMMA ParentsBelow ==
  ASSUME TypeOK, Shape
  PROVE  Descending
<1>1. PICK s \in Starts, k \in 0 .. N : ShapeIs(s, k)
  BY DEF Shape
<1>2. SUFFICES ASSUME NEW n \in Node  PROVE e_parent[n] < n
  BY DEF Descending
<1>3. n \in Nat /\ Dad(s, n) < n /\ Home(n) < n /\ None < n
  BY DadBelow DEF Node, None
<1>4. CASE AtRest
  BY <1>1, <1>3, <1>4 DEF ShapeIs, Resting, ParentsAre
<1>5. CASE ~AtRest
  <2>1. LinkingShape(s, k)
    BY <1>1, <1>5 DEF AtRest, ShapeIs
  <2>2. CASE pc[k] \notin LevelSteps
    BY <1>3, <2>1, <2>2 DEF LinkingShape, RingShape, Resting, ParentsAre
  <2>3. CASE pc[k] \in LevelSteps
    <3>1. s > 0 /\ ToldAre(s, 2*s + 3, Told(pc[k]))
      BY <2>1, <2>3 DEF LinkingShape, LevelShape
    <3>2. /\ s \in Nat /\ Home(s) \in Nat /\ Home(s) < s
          /\ Told(pc[k]) \in Nat
      BY <3>1, HomeOfStart, StartsClosed DEF Told
    <3>3. n >= 2*s + 3 + Told(pc[k]) => Home(s) < n
      BY <1>3, <3>2
    <3>4. QED
      BY <1>3, <3>1, <3>2, <3>3 DEF ToldAre
  <2>4. QED
    BY <2>2, <2>3
<1>6. QED
  BY <1>4, <1>5

\* In every state, while a level is being created too, the ancestors of a
\* member are members, and the chain of them leads to the top ring: create_level
\* in the adopt handler and join() (cpp/node.cpp) never leave a member on a
\* cycle or below a node that does not answer.
THEOREM ParentsLeadUp == Spec => []MembersRooted
<1>1. TypeOK /\ HelloOrder /\ Shape => MembersRooted
  <2> SUFFICES ASSUME TypeOK, HelloOrder, Shape, NEW n \in Node, pc[n] = "run"
               PROVE  Rooted(n) /\ \A m \in Ancestors(n) : pc[m] = "run"
    BY DEF MembersRooted
  <2>1. Rooted(n) /\ \A m \in Ancestors(n) : m \in Node /\ m < n
    BY ParentsBelow, AncestorsBelow DEF TypeOK
  <2>2. \A m \in 0 .. n-1 : pc[m] = "run"
    BY DEF HelloOrder
  <2>3. \A m \in Ancestors(n) : m \in 0 .. n-1
    BY <2>1 DEF Node
  <2>4. QED
    BY <2>1, <2>2, <2>3
<1>2. QED
  BY <1>1, TypeCorrect, HelloOrderHolds, NetworkShape, PTL

-----------------------------------------------------------------------------
(***************************************************************************)
(* Who gets a new parent                                                   *)
(***************************************************************************)
\* Only the two requests to the moved children change the parent of another
\* node than the one that joins.
LEMMA OwnParent ==
  ASSUME TypeOK, NEW m \in Node, Start(m) \/ JoinStep(m), ~Parent2(m), ~Parent3(m),
         NEW n \in Node, n # m
  PROVE  e_parent'[n] = e_parent[n]
<1>0. e_parent \in [Node -> MaybeNode]
  BY DEF TypeOK, LinksTypeOK
<1>1. CASE Start(m)
  BY <1>0, <1>1 DEF Start, SayHello
<1>2. CASE AskInfo(m) \/ AskEdges(m) \/ FetchJobs(m) \/ Activate(m)
  BY <1>2 DEF AskInfo, AskEdges, FetchJobs, Activate, links
<1>3. CASE RingNext(m) \/ RingPrev(m) \/ AdoptBelow(m)
  BY <1>0, <1>3 DEF RingNext, RingPrev, AdoptBelow, SetNext
<1>4. CASE AskParent(m) \/ AskParentNext(m)
  BY <1>0, <1>4 DEF AskParent, AskParentNext, AskAdopt
<1>5. CASE CreateLevel(m)
  BY <1>0, <1>5 DEF CreateLevel, GetNext, GetPrev, ClosePrev, CloseNext, Adopt2, Adopt3,
     AdoptKid, AdoptMe, Next3, Prev2, SetNext, SetPrev, links
<1>6. QED
  BY <1>1, <1>2, <1>3, <1>4, <1>5 DEF JoinStep, Request

\* Those two children go from their parent to its first child.
LEMMA MovedToSibling ==
  ASSUME TypeOK, Shape, NEW m \in Node, Parent2(m) \/ Parent3(m), NEW n \in Node,
         e_parent'[n] # e_parent[n]
  PROVE  e_parent[n] # None /\ e_parent'[n] = e_children[e_parent[n]][1]
<1>1. PICK s \in Starts, k \in 0 .. N : ShapeIs(s, k)
  BY DEF Shape
<1>2. PICK e : e = 2*s + 3
  OBVIOUS
<1>3. /\ pc[m] \in LevelSteps
      /\ (Parent2(m) => pc[m] = "parent_2") /\ (Parent3(m) => pc[m] = "parent_3")
  BY DEF Parent2, Parent3, TellKid, LevelStep, Calls, LevelSteps
<1>4. /\ m = k /\ k \in Node /\ LevelShape(s, k)
      /\ s \in Nat /\ s > 0 /\ s \in Node /\ e \in Nat /\ e \in Starts /\ e > 0 /\ k = e + 2
      /\ e \in Node /\ e + 1 \in Node /\ Home(e) = s /\ Home(e + 1) = s
      /\ loc[k].kids[1] = s /\ loc[k].kids[3] = e /\ loc[k].kids[4] = e + 1
  BY <1>1, <1>2, <1>3, LevelFacts
<1> DEFINE p == Home(s)
<1>5. p \in Nat /\ p < s /\ p \in Node /\ p # s /\ p # None
  <2>1. p \in Nat /\ p < s
    BY <1>4, HomeOfStart
  <2>2. QED
    BY <1>4, <2>1, NAssumption DEF Node, None
<1>6. KidSeq(e, e, p) = <<s, s + 1>>
  BY <1>2, <1>4, <1>5, KidCut
<1>7. KidSeq(e, e + 1, p) = <<s, s + 1>> /\ KidSeq(e, e + 2, p) = <<s, s + 1>>
  <2>1. Dad(e, e) = s /\ Dad(e, e + 1) = s
    BY <1>4 DEF Dad
  <2>2. KidSeq(e, e + 1, p) = KidSeq(e, e, p)
    <3>1. e \in Starts /\ e > 0 /\ e \in Nat /\ e <= e /\ e <= 2*e + 4
      BY <1>4
    <3>2. \A q \in Nat : q # Dad(e, e) => KidSeq(e, e + 1, q) = KidSeq(e, e, q)
      BY <3>1, KidGrow
    <3>3. QED
      BY <1>5, <2>1, <3>2
  <2>3. e + 1 \in Nat /\ e <= e + 1 /\ e + 1 <= 2*e + 4 /\ e + 1 + 1 = e + 2
    BY <1>4
  <2>4. KidSeq(e, e + 1 + 1, p) = KidSeq(e, e + 1, p)
    BY <1>4, <1>5, <2>1, <2>3, KidGrow
  <2>5. QED
    BY <1>6, <2>2, <2>3, <2>4
<1>8. e_children[p] = <<s, s + 1>>
  <2>1. Grown(pc[k]) \in {1, 2}
    BY <1>3, <1>4 DEF Grown
  <2>2. e_children[p] = KidSeq(e, e + Grown(pc[k]), p)
    BY <1>2, <1>4, <1>5 DEF LevelShape, KidsAre
  <2>3. QED
    BY <1>7, <2>1, <2>2
<1>9. e_children[p][1] = s
  BY <1>8
<1>10. ASSUME NEW c \in {e, e + 1}, e_parent' = [e_parent EXCEPT ![c] = s], n = c,
              e_parent[c] = p
       PROVE  e_parent[n] # None /\ e_parent'[n] = e_children[e_parent[n]][1]
  <2>1. e_parent'[c] = s
    BY <1>4, <1>10 DEF TypeOK, LinksTypeOK
  <2>2. QED
    BY <1>5, <1>9, <1>10, <2>1
<1>11. ToldAre(s, e, Told(pc[k]))
  BY <1>2, <1>4 DEF LevelShape
<1>12. CASE Parent2(m)
  <2>1. e_parent' = [e_parent EXCEPT ![e] = s]
    BY <1>4, <1>12 DEF Parent2, TellKid, SetParent
  <2>2. n = e
    BY <2>1 DEF TypeOK, LinksTypeOK
  <2>3. Told(pc[k]) = 0
    BY <1>3, <1>4, <1>12 DEF Told
  <2>4. e_parent[e] = p
    BY <1>4, <1>11, <2>3 DEF ToldAre
  <2>5. QED
    BY <1>10, <2>1, <2>2, <2>4
<1>13. CASE Parent3(m)
  <2>1. e_parent' = [e_parent EXCEPT ![e+1] = s]
    BY <1>4, <1>13 DEF Parent3, TellKid, SetParent
  <2>2. n = e + 1
    BY <2>1 DEF TypeOK, LinksTypeOK
  <2>3. Told(pc[k]) = 1
    BY <1>3, <1>4, <1>13 DEF Told
  <2>4. e_parent[e + 1] = p
    BY <1>4, <1>11, <2>3 DEF ToldAre
  <2>5. QED
    BY <1>10, <2>1, <2>2, <2>4
<1>14. QED
  BY <1>12, <1>13

\* A member gets a new parent only when its parent hands it to its first child:
\* the set_edge requests of create_level in join() (cpp/node.cpp:672-675) name
\* the node that has just adopted it, and no other request of any join changes
\* the parent of a node that is not joining itself.
THEOREM ParentsHandedOn == Spec => ParentChangesToSibling
<1> DEFINE A == \A n \in Node : WAIT[n] \/ e_parent'[n] = e_parent[n] \/
                  (e_parent[n] # None /\ e_parent'[n] = e_children[e_parent[n]][1])
<1>1. TypeOK /\ HelloOrder /\ Shape /\ Next => A
  <2> SUFFICES ASSUME TypeOK, HelloOrder, Shape, Next, NEW n \in Node, ~WAIT[n],
                      e_parent'[n] # e_parent[n]
               PROVE  e_parent[n] # None /\ e_parent'[n] = e_children[e_parent[n]][1]
    OBVIOUS
  <2>1. PICK m \in Node : Start(m) \/ JoinStep(m)
    BY DEF Next
  <2>2. pc[n] = "run"
    BY DEF HelloOrder
  <2>3. CASE Parent2(m) \/ Parent3(m)
    BY <2>3, MovedToSibling
  <2>4. CASE ~Parent2(m) /\ ~Parent3(m)
    <3>1. n = m
      BY <2>1, <2>4, OwnParent
    <3>2. CASE Start(m)
      BY <2>2, <3>1, <3>2 DEF Start
    <3>3. CASE AskInfo(m)
      BY <2>2, <3>1, <3>3 DEF AskInfo, Calls
    <3>4. CASE InnerStep(m)
      <4>1. Joining(m)
        BY <3>4, InnerStepFrame
      <4>2. "run" \notin JoiningSteps
        BY DEF JoiningSteps, LinkSteps, RingSteps, AdoptSteps, LevelSteps
      <4>3. QED
        BY <2>2, <3>1, <4>1, <4>2 DEF Joining
    <3>5. CASE Activate(m)
      BY <2>2, <3>1, <3>5 DEF Activate
    <3>6. QED
      BY <2>1, <3>2, <3>3, <3>4, <3>5 DEF JoinStep, Request, InnerStep
  <2>5. QED
    BY <2>3, <2>4
<1>2. UNCHANGED vars => A
  BY DEF vars, links
<1> HIDE DEF A
<1>3. TypeOK /\ HelloOrder /\ Shape /\ [Next]_vars => [A]_vars
  BY <1>1, <1>2
<1>4. [][A]_vars => ParentChangesToSibling
  BY PTL DEF A, ParentChangesToSibling
<1>5. QED
  BY <1>3, <1>4, TypeCorrect, HelloOrderHolds, NetworkShape, PTL DEF Spec

-----------------------------------------------------------------------------
(***************************************************************************)
(* The network at rest                                                     *)
(***************************************************************************)
\* Nobody links itself: all links follow from how many nodes there are.
LEMMA RestFacts ==
  ASSUME TypeOK, Shape, AtRest
  PROVE  \E s \in Starts, k \in 0 .. N :
           /\ Linked = 0 .. k-1 /\ Size(s, k) /\ Resting(s, k) /\ s <= k /\ k \in Nat
BY NAssumption, SizeFacts DEF Shape, ShapeIs

\* Whenever no node is linking itself, every level is one ring: the set_edge
\* requests of join() (cpp/node.cpp:624-628, 649-655, 670-681) leave no next
\* without its prev, for any number of nodes.
THEOREM LevelsAreRings == Spec => []RingsConsistent
<1>1. TypeOK /\ Shape => RingsConsistent
  BY RestFacts, RestRings DEF RingsConsistent, TypeOK
<1>2. QED
  BY <1>1, TypeCorrect, NetworkShape, PTL

\* Whenever no node is linking itself, e_parent and e_children agree and no
\* node keeps more than four children: every child that the adopt handler
\* (cpp/node.cpp:196-236) has added or cut off has been told by join().
THEOREM ChildrenAgree == Spec => []TreeConsistent
<1>1. TypeOK /\ Shape => TreeConsistent
  BY RestFacts, RestTree DEF TreeConsistent, TypeOK
<1>2. QED
  BY <1>1, TypeCorrect, NetworkShape, PTL

\* Nodes are spread over the tree: at most three have no parent, and the
\* redirection and create_level answers of the adopt handler (cpp/node.cpp:196-
\* 236) give every node of a level two children before the next level but one
\* gets its first node.
THEOREM LevelsFill == Spec => []TreeBalanced
<1>1. TypeOK /\ Shape => TreeBalanced
  BY RestFacts, RestBalanced DEF TreeBalanced, TypeOK
<1>2. QED
  BY <1>1, TypeCorrect, NetworkShape, PTL

\* A breadth first search along all edges, as failover() (cpp/node.cpp) makes it
\* to reset the network and the job broadcasts make it, starts at any linked
\* node and finds every other one.
THEOREM SearchReachesAll == Spec => []SearchComplete
<1>1. TypeOK /\ Shape => SearchComplete
  BY RestFacts, RestConnected DEF SearchComplete, TypeOK
<1>2. QED
  BY <1>1, TypeCorrect, NetworkShape, PTL

=============================================================================
