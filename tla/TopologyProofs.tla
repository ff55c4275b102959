--------------------------- MODULE TopologyProofs -----------------------------
(***************************************************************************)
(* The shape that joins give to a network, and what the operators of       *)
(* module Topology say of it: the levels are rings and a balanced tree,    *)
(* and a search from any node finds all.  The C++ nodes and the Java nodes *)
(* build the same shape, so all of this is about the links alone.          *)
(*                                                                         *)
(* Nodes are linked in the order of their numbers, and the links of k      *)
(* linked nodes follow from k.  The nodes of a level are an interval of    *)
(* numbers, which starts at 0, 3, 9, 21 ..., and its ring runs through     *)
(* them in order.  Nodes fill the lowest level below the parents in the    *)
(* order of their ring, two for each, and the last two go to the first     *)
(* parent again; the next node makes those two the first of a new level.   *)
(***************************************************************************)
EXTENDS Topology, DataLemmas

-----------------------------------------------------------------------------
(***************************************************************************)
(* The tree                                                                *)
(***************************************************************************)
\* Where the levels start: a level of c .. 2c+2 is followed by one from 2c+3.
Starts ==
  {c \in Nat : \A T \in SUBSET Nat : 0 \in T /\ (\A d \in T : 2*d + 3 \in T) => c \in T}

\* The parent of n when the level of n is full.  The first level below the top
\* ring starts below node 2, the contact of node 3.
Home(n) ==
  IF n < 3 THEN None
  ELSE IF n < 9 THEN (IF n < 5 THEN 2 ELSE IF n < 7 THEN 0 ELSE 1)
  ELSE (n - 3) \div 2

\* The first of the two nodes whose home is p.
First(p) == IF p > 2 THEN 2*p + 3 ELSE IF p = 2 THEN 3 ELSE IF p = 0 THEN 5 ELSE 7

\* s is the start of the lowest level; two more nodes than fill it are with the
\* first parent.
Dad(s, n) == IF n >= 2*s + 3 THEN Home(s) ELSE Home(n)

\* The children of p when the nodes up to j are linked.
KidSeq(s, j, p) ==
  LET c == First(p) IN
  IF p = Home(s) /\ j > 2*s + 4       THEN <<s, s + 1, 2*s + 3, 2*s + 4>>
  ELSE IF p = Home(s) /\ j = 2*s + 4  THEN <<s, s + 1, 2*s + 3>>
  ELSE IF c + 1 < j /\ c + 1 < 2*s + 3 THEN <<c, c + 1>>
  ELSE IF c + 1 = j /\ c < 2*s + 3     THEN <<c>>
  ELSE <<>>

KidsAre(s, j) == \A p \in Node : e_children[p] = KidSeq(s, j, p)

ParentsAre(s, j) == \A n \in Node : e_parent[n] = IF n < j THEN Dad(s, n) ELSE None

-----------------------------------------------------------------------------
(***************************************************************************)
(* The rings                                                               *)
(***************************************************************************)
\* The next edges of c .. e-1 run upwards, and the last one goes to z.
NextsAre(c, e, z) == \A m \in c .. e-1 : e_next[m] = IF m = e-1 THEN z ELSE m + 1

PrevsAre(c, e, z) == \A m \in c .. e-1 : e_prev[m] = IF m = c THEN z ELSE m - 1

RingIs(c, e) == NextsAre(c, e, c) /\ PrevsAre(c, e, e-1)

\* The levels above s are full rings.
RingsAbove(s) == \A c \in Starts : c < s => RingIs(c, 2*c + 3)

\* How many nodes there are when s starts the lowest level.
Size(s, k) ==
  /\ s = 0 => k <= 3
  /\ s = 3 => 4 <= k
  /\ s > 3 => s + 3 <= k
  /\ s > 0 => k <= 2*s + 5

Resting(s, k) == KidsAre(s, k) /\ ParentsAre(s, k) /\ RingsAbove(s) /\ RingIs(s, k)

-----------------------------------------------------------------------------
(***************************************************************************)
(* Arithmetic of the levels                                                *)
(***************************************************************************)
LEMMA StartsClosed ==
  /\ 0 \in Starts /\ Starts \subseteq Nat
  /\ \A d \in Starts : 2*d + 3 \in Starts
<1>1. 0 \in Starts /\ Starts \subseteq Nat
  BY DEF Starts
<1>2. ASSUME NEW d \in Starts  PROVE 2*d + 3 \in Starts
  <2>1. d \in Nat /\ 2*d + 3 \in Nat
    BY <1>1
  <2>2. ASSUME NEW T \in SUBSET Nat, 0 \in T, \A e \in T : 2*e + 3 \in T
        PROVE  2*d + 3 \in T
    BY <2>2 DEF Starts
  <2>3. QED
    BY <2>1, <2>2 DEF Starts
<1>3. QED
  BY <1>1, <1>2

\* A property of starts holds of all of them when it passes from level to level.
LEMMA StartsInduction ==
  ASSUME NEW T \in SUBSET Starts, 0 \in T, \A d \in T : 2*d + 3 \in T
  PROVE  T = Starts
BY StartsClosed DEF Starts

LEMMA StartsFacts ==
  ASSUME NEW s \in Starts
  PROVE  /\ s \in Nat
         /\ s = 0 \/ \E d \in Starts : s = 2*d + 3
         /\ s = 0 \/ s = 3 \/ \E d \in Starts : d >= 3 /\ s = 2*d + 3
<1> DEFINE T == {c \in Starts : c = 0 \/ \E d \in Starts : c = 2*d + 3}
<1>1. T = Starts
  <2>1. 0 \in T /\ \A d \in T : 2*d + 3 \in T
    BY StartsClosed
  <2>2. QED
    BY <2>1, StartsInduction
<1>2. s \in Nat /\ (s = 0 \/ \E d \in Starts : s = 2*d + 3)
  BY <1>1, StartsClosed
<1>3. ASSUME s # 0, s # 3  PROVE \E d \in Starts : d >= 3 /\ s = 2*d + 3
  <2>1. PICK d \in Starts : s = 2*d + 3
    BY <1>2, <1>3
  <2>2. d # 0 /\ d \in Nat /\ (d = 0 \/ \E c \in Starts : c \in Nat /\ d = 2*c + 3)
    BY <1>1, <1>3, <2>1, StartsClosed
  <2>3. QED
    BY <2>1, <2>2
<1>4. QED
  BY <1>2, <1>3

\* No level starts within another one.
LEMMA StartsGap ==
  ASSUME NEW c \in Starts, NEW d \in Starts, c < d
  PROVE  2*c + 3 <= d
<1> DEFINE T == {e \in Starts : \A b \in Starts : b < e => 2*b + 3 <= e}
<1>1. 0 \in T
  BY StartsClosed
<1>2. ASSUME NEW e \in T  PROVE 2*e + 3 \in T
  <2>1. ASSUME NEW b \in Starts, b < 2*e + 3  PROVE 2*b + 3 <= 2*e + 3
    <3>1. CASE b = 0
      BY <3>1, StartsClosed
    <3>2. CASE b # 0
      <4>1. PICK a \in Starts : b = 2*a + 3
        BY <3>2, StartsFacts
      <4>2. a \in Nat /\ e \in Nat /\ a < e
        BY <2>1, <4>1, StartsClosed
      <4>3. 2*a + 3 <= e
        BY <4>2
      <4>4. QED
        BY <4>1, <4>2, <4>3
    <3>3. QED
      BY <3>1, <3>2
  <2>2. QED
    BY <2>1, StartsClosed
<1>3. T = Starts
  BY <1>1, <1>2, StartsInduction
<1>4. QED
  BY <1>3

LEMMA Halves ==
  ASSUME NEW n \in Nat
  PROVE  /\ (2*n) \div 2 = n /\ (2*n + 1) \div 2 = n
         /\ \E p \in Nat : n = 2*p \/ n = 2*p + 1
<1>1. (2*n) \div 2 = n /\ (2*n + 1) \div 2 = n
  OBVIOUS
<1>2. n \div 2 \in Nat /\ (n = 2*(n \div 2) \/ n = 2*(n \div 2) + 1)
  OBVIOUS
<1>3. QED
  BY <1>1, <1>2

LEMMA HomeFacts ==
  ASSUME NEW n \in Nat
  PROVE  /\ Home(n) = None <=> n < 3
         /\ n >= 3 => /\ Home(n) \in Nat /\ Home(n) < n
                      /\ n = First(Home(n)) \/ n = First(Home(n)) + 1
                      /\ n >= 9 => 2 * Home(n) + 3 = n \/ 2 * Home(n) + 4 = n
<1>1. CASE n < 9
  BY <1>1 DEF Home, First, None
<1>2. CASE n >= 9
  <2>1. PICK p \in Nat : n - 3 = 2*p \/ n - 3 = 2*p + 1
    <3>1. n - 3 \in Nat
      BY <1>2
    <3>2. QED
      BY <3>1, Halves
  <2>2. Home(n) = p /\ p >= 3
    <3>1. Home(n) = (n - 3) \div 2
      BY <1>2 DEF Home
    <3>2. QED
      BY <1>2, <2>1, <3>1
  <2>3. First(p) = 2*p + 3
    BY <2>2 DEF First
  <2>4. QED
    BY <1>2, <2>1, <2>2, <2>3 DEF None
<1>3. QED
  BY <1>1, <1>2

LEMMA FirstFacts ==
  ASSUME NEW p \in Nat
  PROVE  /\ First(p) \in Nat /\ First(p) >= 3 /\ First(p) > p
         /\ p >= 3 => First(p) = 2*p + 3
         /\ Home(First(p)) = p /\ Home(First(p) + 1) = p
         /\ \E i \in Nat : First(p) = 2*i + 3
<1>1. CASE p < 3
  <2>1. 3 = 2*0 + 3 /\ 5 = 2*1 + 3 /\ 7 = 2*2 + 3
    OBVIOUS
  <2>2. QED
    BY <1>1, <2>1 DEF First, Home
<1>2. CASE p >= 3
  <2>1. First(p) = 2*p + 3
    BY <1>2 DEF First
  <2>2. Home(2*p + 3) = (2*p + 3 - 3) \div 2 /\ Home(2*p + 4) = (2*p + 4 - 3) \div 2
    BY <1>2 DEF Home
  <2>3. 2*p + 3 - 3 = 2*p /\ 2*p + 4 - 3 = 2*p + 1
    OBVIOUS
  <2>4. QED
    BY <1>2, <2>1, <2>2, <2>3, Halves
<1>3. QED
  BY <1>1, <1>2

\* Below the first parent of a level is its first node.
LEMMA HomeOfStart ==
  ASSUME NEW s \in Starts, s > 0
  PROVE  /\ Home(s) \in Nat /\ First(Home(s)) = s /\ Home(s) < s /\ Home(s) = Home(s + 1)
         /\ s >= 3
         /\ (s = 3 /\ Home(s) = 2) \/ (s >= 9 /\ s = 2 * Home(s) + 3)
<1>1. CASE s = 3
  BY <1>1 DEF Home, First
<1>2. CASE s # 3
  <2>1. PICK d \in Starts : d >= 3 /\ s = 2*d + 3
    BY <1>2, StartsFacts
  <2>2. d \in Nat /\ s = First(d) /\ s + 1 = First(d) + 1
    BY <2>1, FirstFacts, StartsClosed
  <2>3. Home(s) = d /\ Home(s + 1) = d
    BY <2>2, FirstFacts
  <2>4. QED
    BY <2>1, <2>2, <2>3
<1>3. QED
  BY <1>1, <1>2

-----------------------------------------------------------------------------
(***************************************************************************)
(* The children                                                            *)
(***************************************************************************)
\* Every new node extends the children of one node.
LEMMA KidGrow ==
  ASSUME NEW s \in Starts, s > 0, NEW k \in Nat, s <= k, k <= 2*s + 4
  PROVE  /\ Dad(s, k) \in Nat /\ Dad(s, k) < s
         /\ KidSeq(s, k + 1, Dad(s, k)) = Append(KidSeq(s, k, Dad(s, k)), k)
         /\ \A p \in Nat : p # Dad(s, k) => KidSeq(s, k + 1, p) = KidSeq(s, k, p)
<1>1. /\ s \in Nat /\ Home(s) \in Nat /\ First(Home(s)) = s /\ s >= 3 /\ Home(s) < s
      /\ \E i \in Nat : s = 2*i + 3
  BY HomeOfStart, FirstFacts, StartsFacts
<1>2. CASE k < 2*s + 3
  <2> DEFINE p == Home(k)
             c == First(p)
  <2>1. /\ Dad(s, k) = p /\ p \in Nat /\ (k = c \/ k = c + 1) /\ c \in Nat
        /\ \E i \in Nat : c = 2*i + 3
    <3>1. k >= 3 /\ Dad(s, k) = p
      BY <1>1, <1>2 DEF Dad
    <3>2. p \in Nat /\ (k = c \/ k = c + 1)
      BY <3>1, HomeFacts
    <3>3. c \in Nat /\ \E i \in Nat : c = 2*i + 3
      BY <3>2, FirstFacts
    <3>4. QED
      BY <3>1, <3>2, <3>3
  <2>2. p < s
    BY <1>1, <1>2, HomeFacts
  <2>3. KidSeq(s, k + 1, p) = Append(KidSeq(s, k, p), k)
    <3>1. CASE k = c
      <4>1. KidSeq(s, k + 1, p) = <<k>> /\ KidSeq(s, k, p) = <<>>
        BY <1>1, <1>2, <2>1, <3>1 DEF KidSeq
      <4>2. QED
        BY <4>1
    <3>2. CASE k = c + 1
      <4>1. KidSeq(s, k + 1, p) = <<c, k>> /\ KidSeq(s, k, p) = <<c>>
        BY SMTT(30), <1>1, <1>2, <2>1, <3>2 DEF KidSeq
      <4>2. QED
        BY <4>1
    <3>3. QED
      BY <2>1, <3>1, <3>2
  <2>4. ASSUME NEW q \in Nat, q # p  PROVE KidSeq(s, k + 1, q) = KidSeq(s, k, q)
    <3>1. First(q) # k /\ First(q) + 1 # k /\ First(q) \in Nat
      BY <2>4, FirstFacts
    <3>2. QED
      BY <1>1, <1>2, <3>1 DEF KidSeq
  <2>5. QED
    BY <2>1, <2>2, <2>3, <2>4
<1>3. CASE k >= 2*s + 3
  <2> DEFINE p == Home(s)
  <2>1. Dad(s, k) = p /\ (k = 2*s + 3 \/ k = 2*s + 4)
    BY <1>1, <1>3 DEF Dad
  <2>2. KidSeq(s, k + 1, p) = Append(KidSeq(s, k, p), k)
    <3>1. CASE k = 2*s + 3
      <4>1. KidSeq(s, k + 1, p) = <<s, s + 1, k>> /\ KidSeq(s, k, p) = <<s, s + 1>>
        BY <1>1, <3>1 DEF KidSeq
      <4>2. QED
        BY <4>1
    <3>2. CASE k = 2*s + 4
      <4>1. /\ KidSeq(s, k + 1, p) = <<s, s + 1, 2*s + 3, k>>
            /\ KidSeq(s, k, p) = <<s, s + 1, 2*s + 3>>
        BY <1>1, <3>2 DEF KidSeq
      <4>2. QED
        BY <4>1
    <3>3. QED
      BY <2>1, <3>1, <3>2
  <2>3. ASSUME NEW q \in Nat, q # p  PROVE KidSeq(s, k + 1, q) = KidSeq(s, k, q)
    <3>1. PICK c \in Nat : c = First(q)
      BY FirstFacts
    <3>2. \E i \in Nat : c = 2*i + 3
      BY <3>1, FirstFacts
    <3>3. c + 1 < 2*s + 3 \/ ~(c < 2*s + 3)
      BY <1>1, <3>2
    <3>4. ASSUME NEW j \in {k, k + 1}
          PROVE  KidSeq(s, j, q) = IF c + 1 < 2*s + 3 THEN <<c, c + 1>> ELSE <<>>
      <4>1. j \in Nat /\ j >= 2*s + 3
        BY <1>1, <1>3
      <4>2. c + 1 < 2*s + 3 => c + 1 < j
        BY <1>1, <4>1
      <4>3. ~(c < 2*s + 3) => ~(c + 1 < 2*s + 3)
        BY <1>1
      <4>4. QED
        BY <2>3, <3>1, <3>3, <4>2, <4>3 DEF KidSeq
    <3>5. QED
      BY <3>4
  <2>4. QED
    BY <1>1, <2>1, <2>2, <2>3
<1>4. QED
  BY <1>1, <1>2, <1>3

\* The children of the parent of the last node, and what its answer is.
LEMMA KidsOfLast ==
  ASSUME NEW s \in Starts, s > 0, NEW k \in Nat, s < k, k <= 2*s + 5,
         NEW p, p = Dad(s, k-1)
  PROVE  /\ Len(KidSeq(s, k, p)) = 4 => p = Home(s) /\ k = 2*s + 5
         /\ Len(KidSeq(s, k, p)) = 2 =>
              k <= 2*s + 3 /\ p = Home(k-1) /\ First(p) = k - 2
         /\ Len(KidSeq(s, k, p)) \notin {2, 4} => p = Dad(s, k) /\ k <= 2*s + 4
         /\ k = 2*s + 5 => KidSeq(s, k, p) = <<s, s + 1, 2*s + 3, 2*s + 4>>
<1>1. /\ s \in Nat /\ Home(s) \in Nat /\ First(Home(s)) = s /\ s >= 3
      /\ \E i \in Nat : s = 2*i + 3
  BY HomeOfStart, FirstFacts, StartsFacts
<1>2. CASE k <= 2*s + 3
  <2> DEFINE c == First(p)
  <2>1. /\ p = Home(k-1) /\ p \in Nat /\ (k - 1 = c \/ k - 1 = c + 1) /\ c \in Nat
        /\ \E i \in Nat : c = 2*i + 3
    <3>1. k - 1 \in Nat /\ k - 1 >= 3 /\ k - 1 < 2*s + 3
      BY <1>1, <1>2
    <3>2. p = Home(k-1)
      BY <1>1, <3>1 DEF Dad
    <3>3. p \in Nat /\ (k - 1 = c \/ k - 1 = c + 1)
      BY <3>1, <3>2, HomeFacts
    <3>4. c \in Nat /\ \E i \in Nat : c = 2*i + 3
      BY <3>3, FirstFacts
    <3>5. QED
      BY <3>2, <3>3, <3>4
  <2>2. CASE k - 1 = c
    <3>1. KidSeq(s, k, p) = <<c>> /\ k < 2*s + 3
      BY SMTT(30), <1>1, <1>2, <2>1, <2>2 DEF KidSeq
    <3>2. Home(k) = p
      BY <2>1, <2>2, FirstFacts
    <3>3. Len(KidSeq(s, k, p)) = 1 /\ Dad(s, k) = p
      BY <1>1, <3>1, <3>2 DEF Dad
    <3>4. k <= 2*s + 4 /\ k # 2*s + 5
      BY <1>1, <3>1
    <3>5. QED
      BY <3>3, <3>4
  <2>3. CASE k - 1 = c + 1
    <3>1. KidSeq(s, k, p) = <<c, c + 1>>
      BY SMTT(30), <1>1, <1>2, <2>1, <2>3 DEF KidSeq
    <3>2. Len(KidSeq(s, k, p)) = 2
      BY <3>1
    <3>3. c = k - 2 /\ k # 2*s + 5
      BY <1>1, <1>2, <2>1, <2>3
    <3>4. QED
      BY <1>2, <2>1, <3>2, <3>3
  <2>4. QED
    BY <2>1, <2>2, <2>3
<1>3. CASE k = 2*s + 4
  <2>1. p = Home(s) /\ Dad(s, k) = Home(s) /\ KidSeq(s, k, p) = <<s, s + 1, 2*s + 3>>
    BY <1>1, <1>3 DEF Dad, KidSeq
  <2>2. Len(KidSeq(s, k, p)) = 3
    BY <2>1
  <2>3. k <= 2*s + 4 /\ k # 2*s + 5
    BY <1>1, <1>3
  <2>4. QED
    BY <2>1, <2>2, <2>3
<1>4. CASE k = 2*s + 5
  <2>1. p = Home(s) /\ KidSeq(s, k, p) = <<s, s + 1, 2*s + 3, 2*s + 4>>
    BY <1>1, <1>4 DEF Dad, KidSeq
  <2>2. Len(KidSeq(s, k, p)) = 4
    BY <2>1
  <2>3. QED
    BY <1>1, <1>4, <2>1, <2>2
<1>5. QED
  BY <1>1, <1>2, <1>3, <1>4

\* Only the first parent of a full level has four children.
LEMMA KidsBelowFour ==
  ASSUME NEW s \in Nat, NEW j \in Nat, j <= 2*s + 4, NEW p
  PROVE  Len(KidSeq(s, j, p)) # 4
<1>1. Len(<<>>) # 4
  OBVIOUS
<1>2. QED
  BY <1>1 DEF KidSeq

\* Opening a level cuts the children of one node.
LEMMA KidCut ==
  ASSUME NEW s \in Starts, s > 0, NEW p \in Nat
  PROVE  /\ p # Home(s) => KidSeq(2*s + 3, 2*s + 3, p) = KidSeq(s, 2*s + 5, p)
         /\ p = Home(s) => KidSeq(2*s + 3, 2*s + 3, p) = <<s, s + 1>>
<1>1. /\ s \in Nat /\ Home(s) \in Nat /\ First(Home(s)) = s /\ s >= 3
      /\ \E i \in Nat : s = 2*i + 3
  BY HomeOfStart, FirstFacts, StartsFacts
<1>2. First(p) \in Nat /\ \E i \in Nat : First(p) = 2*i + 3
  BY FirstFacts
<1>3. Home(2*s + 3) = s /\ Home(s) # s
  BY <1>1, FirstFacts, HomeFacts
<1>4. ASSUME p # Home(s)  PROVE KidSeq(2*s + 3, 2*s + 3, p) = KidSeq(s, 2*s + 5, p)
  BY SMTT(30), <1>1, <1>2, <1>3, <1>4 DEF KidSeq
<1>5. ASSUME p = Home(s)  PROVE KidSeq(2*s + 3, 2*s + 3, p) = <<s, s + 1>>
  BY <1>1, <1>3, <1>5 DEF KidSeq
<1>6. QED
  BY <1>4, <1>5

\* The top ring has no children while it is the only one.
LEMMA NoKids ==
  ASSUME NEW j \in Nat, j <= 3, NEW p \in Nat
  PROVE  KidSeq(0, j, p) = <<>> /\ KidSeq(3, 3, p) = <<>>
<1>1. First(p) \in Nat /\ First(p) >= 3 /\ Home(0) = None /\ p # None
  BY FirstFacts DEF None, Home
<1>2. QED
  BY <1>1 DEF KidSeq

\* From the first level on, a node below the lowest level has no children.
LEMMA KidsOfLow ==
  ASSUME NEW s \in Starts, NEW j \in Nat, j <= 2*s + 5, s = 0 => j <= 3,
         NEW p \in Nat, s <= p
  PROVE  KidSeq(s, j, p) = <<>>
<1>1. CASE s = 0
  BY <1>1, NoKids
<1>2. CASE s > 0
  <2>1. s \in Nat /\ s >= 3 /\ Home(s) < s /\ First(p) = 2*p + 3 /\ Home(s) \in Nat
    BY <1>2, HomeOfStart, FirstFacts, StartsClosed
  <2>2. p # Home(s) /\ ~(First(p) < 2*s + 3) /\ ~(First(p) + 1 < 2*s + 3)
    BY <2>1
  <2>3. QED
    BY <2>2 DEF KidSeq
<1>3. QED
  BY <1>1, <1>2, StartsClosed

-----------------------------------------------------------------------------
(***************************************************************************)
(* What a request does to the shape                                        *)
(***************************************************************************)
LEMMA SizeFacts ==
  ASSUME NEW s \in Starts, NEW k \in Nat, Size(s, k)
  PROVE  /\ s \in Nat /\ s <= k
         /\ s = 0 => k <= 3
         /\ s > 0 => s >= 3 /\ s < k /\ k <= 2*s + 5
BY StartsFacts, HomeOfStart DEF Size

LEMMA RingsAboveKept ==
  ASSUME NEW s \in Starts, RingsAbove(s),
         \A m \in Nat : m < s => e_next'[m] = e_next[m] /\ e_prev'[m] = e_prev[m]
  PROVE  RingsAbove(s)'
<1>1. SUFFICES ASSUME NEW c \in Starts, c < s  PROVE RingIs(c, 2*c + 3)'
  BY DEF RingsAbove
<1>2. c \in Nat /\ s \in Nat /\ 2*c + 3 <= s
  BY <1>1, StartsGap, StartsClosed
<1>3. RingIs(c, 2*c + 3)
  BY <1>1 DEF RingsAbove
<1>4. ASSUME NEW m \in c .. 2*c + 3 - 1
      PROVE  /\ e_next'[m] = IF m = 2*c + 3 - 1 THEN c ELSE m + 1
             /\ e_prev'[m] = IF m = c THEN 2*c + 3 - 1 ELSE m - 1
  <2>1. m \in Nat /\ m < s
    BY <1>2
  <2>2. e_next'[m] = e_next[m] /\ e_prev'[m] = e_prev[m]
    BY <2>1
  <2>3. QED
    BY <1>2, <1>3, <2>2 DEF RingIs, NextsAre, PrevsAre
<1>5. QED
  BY <1>2, <1>4 DEF RingIs, NextsAre, PrevsAre

LEMMA RingsAboveNext ==
  ASSUME NEW s \in Starts, RingsAbove(s), RingIs(s, 2*s + 3)
  PROVE  RingsAbove(2*s + 3)
<1>1. SUFFICES ASSUME NEW c \in Starts, c < 2*s + 3  PROVE RingIs(c, 2*c + 3)
  BY DEF RingsAbove
<1>2. c \in Nat /\ s \in Nat
  BY StartsClosed
<1>3. c < s \/ c = s
  BY <1>1, <1>2, StartsGap
<1>4. QED
  BY <1>3 DEF RingsAbove

\* A part of a ring that no request touches stays as it is.
LEMMA NextsKept ==
  ASSUME NEW c \in Nat, NEW e \in Nat, NEW z, NextsAre(c, e, z),
         \A m \in Nat : c <= m /\ m < e => e_next'[m] = e_next[m]
  PROVE  NextsAre(c, e, z)'
<1>1. ASSUME NEW m \in c .. e-1  PROVE e_next'[m] = IF m = e-1 THEN z ELSE m + 1
  <2>1. m \in Nat /\ c <= m /\ m < e
    OBVIOUS
  <2>2. e_next'[m] = e_next[m]
    BY <2>1
  <2>3. QED
    BY <2>2 DEF NextsAre
<1>2. QED
  BY <1>1 DEF NextsAre

LEMMA PrevsKept ==
  ASSUME NEW c \in Nat, NEW e \in Nat, NEW z, PrevsAre(c, e, z),
         \A m \in Nat : c <= m /\ m < e => e_prev'[m] = e_prev[m]
  PROVE  PrevsAre(c, e, z)'
<1>1. ASSUME NEW m \in c .. e-1  PROVE e_prev'[m] = IF m = c THEN z ELSE m - 1
  <2>1. m \in Nat /\ c <= m /\ m < e
    OBVIOUS
  <2>2. e_prev'[m] = e_prev[m]
    BY <2>1
  <2>3. QED
    BY <2>2 DEF PrevsAre
<1>2. QED
  BY <1>1 DEF PrevsAre

\* Steps that touch no link below k keep what is known of those links.
LEMMA RestKept ==
  ASSUME NEW s \in Starts, NEW k \in Nat, s <= k, Resting(s, k),
         e_parent' = e_parent, e_children' = e_children,
         \A m \in Nat : m < k => e_next'[m] = e_next[m] /\ e_prev'[m] = e_prev[m]
  PROVE  Resting(s, k)'
<1>1. s \in Nat /\ \A m \in Nat : m < s => e_next'[m] = e_next[m] /\ e_prev'[m] = e_prev[m]
  BY StartsClosed
<1>2. KidsAre(s, k)' /\ ParentsAre(s, k)'
  BY DEF Resting, KidsAre, ParentsAre
<1>3. RingsAbove(s)'
  BY <1>1, RingsAboveKept DEF Resting
<1>4. NextsAre(s, k, s)'
  BY <1>1, NextsKept DEF Resting, RingIs
<1>5. PrevsAre(s, k, k-1)'
  BY <1>1, PrevsKept DEF Resting, RingIs
<1>6. QED
  BY <1>2, <1>3, <1>4, <1>5 DEF Resting, RingIs

LEMMA RestUnchanged ==
  ASSUME NEW s \in Starts, NEW k \in Nat, UNCHANGED links
  PROVE  /\ Resting(s, k) => Resting(s, k)'
         /\ KidsAre(s, k) => KidsAre(s, k)'
         /\ ParentsAre(s, k) => ParentsAre(s, k)'
BY DEF Resting, KidsAre, ParentsAre, RingsAbove, RingIs, NextsAre, PrevsAre, links

\* What a node that joins the top ring will leave behind, but for the ring.
LEMMA TopRing ==
  ASSUME NEW k \in Nat, k < 3, Resting(0, k)
  PROVE  KidsAre(0, k + 1) /\ ParentsAre(0, k + 1) /\ Size(0, k + 1)
<1>1. ASSUME NEW p \in Node  PROVE e_children[p] = KidSeq(0, k + 1, p)
  <2>1. p \in Nat /\ KidSeq(0, k, p) = <<>> /\ KidSeq(0, k + 1, p) = <<>>
    BY NoKids DEF Node
  <2>2. QED
    BY <2>1 DEF Resting, KidsAre
<1>2. ASSUME NEW p \in Node  PROVE e_parent[p] = IF p < k + 1 THEN Dad(0, p) ELSE None
  <2>1. p \in Nat /\ e_parent[p] = IF p < k THEN Dad(0, p) ELSE None
    BY DEF Resting, ParentsAre, Node
  <2>2. Dad(0, k) = None
    BY DEF Dad, Home
  <2>3. QED
    BY <2>1, <2>2
<1>3. QED
  BY <1>1, <1>2 DEF KidsAre, ParentsAre, Size

\* What an adoption changes.
LEMMA KidAdded ==
  ASSUME LinksTypeOK, NEW s \in Starts, s > 0, NEW k \in Node, s <= k, k <= 2*s + 4,
         KidsAre(s, k), NEW p \in Node, p = Dad(s, k),
         e_children' = [e_children EXCEPT ![p] = Append(e_children[p], k)]
  PROVE  KidsAre(s, k + 1)'
<1>1. k \in Nat /\ p \in Nat
  BY DEF Node
<1>2. /\ KidSeq(s, k + 1, p) = Append(KidSeq(s, k, p), k)
      /\ \A q \in Nat : q # p => KidSeq(s, k + 1, q) = KidSeq(s, k, q)
  BY <1>1, KidGrow
<1>3. ASSUME NEW q \in Node  PROVE e_children'[q] = KidSeq(s, k + 1, q)
  <2>1. q \in Nat /\ e_children[q] = KidSeq(s, k, q)
    BY DEF KidsAre, Node
  <2>2. CASE q = p
    BY <1>2, <2>1, <2>2 DEF LinksTypeOK
  <2>3. CASE q # p
    BY <1>2, <2>1, <2>3 DEF LinksTypeOK
  <2>4. QED
    BY <2>2, <2>3
<1>4. QED
  BY <1>3 DEF KidsAre

LEMMA ParentAdded ==
  ASSUME LinksTypeOK, NEW s \in Starts, NEW k \in Node, ParentsAre(s, k),
         e_parent' = [e_parent EXCEPT ![k] = Dad(s, k)]
  PROVE  ParentsAre(s, k + 1)'
<1>1. ASSUME NEW q \in Node
      PROVE  e_parent'[q] = IF q < k + 1 THEN Dad(s, q) ELSE None
  <2>1. q \in Nat /\ k \in Nat /\ e_parent[q] = IF q < k THEN Dad(s, q) ELSE None
    BY DEF ParentsAre, Node
  <2>2. CASE q = k
    BY <2>1, <2>2 DEF LinksTypeOK
  <2>3. CASE q # k
    <3>1. q < k + 1 <=> q < k
      BY <2>1, <2>3
    <3>2. e_parent'[q] = e_parent[q]
      BY <2>3 DEF LinksTypeOK
    <3>3. QED
      BY <2>1, <3>1, <3>2
  <2>4. QED
    BY <2>2, <2>3
<1>2. QED
  BY <1>1 DEF ParentsAre

\* The fourth node, alone on its ring, is adopted below the third.
LEMMA LevelOpened ==
  ASSUME LinksTypeOK, Resting(0, 3), 3 \in Node,
         e_children' = [e_children EXCEPT ![2] = Append(e_children[2], 3)],
         e_parent' = [e_parent EXCEPT ![3] = 2],
         \A m \in Nat : m < 3 => e_next'[m] = e_next[m] /\ e_prev'[m] = e_prev[m],
         e_next'[3] = 3, e_prev'[3] = 3
  PROVE  Resting(3, 4)'
<1>1. 2 \in Node /\ 3 \in Starts /\ 0 \in Starts /\ 2*0 + 3 = 3
  <2>1. 0 \in Starts /\ 2*0 + 3 \in Starts
    BY StartsClosed
  <2>2. QED
    BY <2>1, NAssumption DEF Node
<1>2. Dad(3, 3) = 2 /\ \A q \in Nat : q < 3 => Dad(3, q) = None /\ Dad(0, q) = None
  BY DEF Dad, Home
<1>3. KidsAre(3, 3) /\ ParentsAre(3, 3)
  <2>1. ASSUME NEW p \in Node  PROVE e_children[p] = KidSeq(3, 3, p)
    <3>1. p \in Nat /\ KidSeq(0, 3, p) = <<>> /\ KidSeq(3, 3, p) = <<>>
      BY NoKids DEF Node
    <3>2. QED
      BY <3>1 DEF Resting, KidsAre
  <2>2. ASSUME NEW p \in Node  PROVE e_parent[p] = IF p < 3 THEN Dad(3, p) ELSE None
    <3>1. p \in Nat /\ e_parent[p] = IF p < 3 THEN Dad(0, p) ELSE None
      BY DEF Resting, ParentsAre, Node
    <3>2. QED
      BY <1>2, <3>1
  <2>3. QED
    BY <2>1, <2>2 DEF KidsAre, ParentsAre
<1>4. KidsAre(3, 4)' /\ ParentsAre(3, 4)'
  <2>1. 3 > 0 /\ 3 <= 3 /\ 3 <= 2*3 + 4 /\ 3 + 1 = 4 /\ 2 = Dad(3, 3)
    BY <1>2
  <2>2. KidsAre(3, 3 + 1)'
    BY <1>1, <1>3, <2>1, KidAdded
  <2>3. ParentsAre(3, 3 + 1)'
    BY <1>1, <1>2, <1>3, ParentAdded
  <2>4. QED
    BY <2>1, <2>2, <2>3
<1>5. RingsAbove(3)'
  <2>1. RingsAbove(0) /\ RingIs(0, 2*0 + 3)
    BY <1>1 DEF Resting
  <2>2. RingsAbove(3)
    BY <1>1, <2>1, RingsAboveNext
  <2>3. QED
    BY <1>1, <2>2, RingsAboveKept
<1>6. RingIs(3, 4)'
  BY DEF RingIs, NextsAre, PrevsAre
<1>7. QED
  BY <1>4, <1>5, <1>6 DEF Resting

\* The ring from s opens behind its last node to let k in ...
LEMMA RingOpened ==
  ASSUME LinksTypeOK, NEW s \in Starts, NEW k \in Nat, s < k, k - 1 \in Node,
         RingsAbove(s), NextsAre(s, k, s), PrevsAre(s, k, k-1),
         e_next' = [e_next EXCEPT ![k-1] = k], UNCHANGED e_prev
  PROVE  /\ e_next[k-1] = s
         /\ RingsAbove(s)' /\ NextsAre(s, k, k)' /\ PrevsAre(s, k, k-1)'
<1>0. s \in Nat /\ k - 1 \in Nat /\ s <= k - 1 /\ e_next \in [Node -> MaybeNode]
      /\ \A m \in 0 .. k-1 : m \in Node
  <2>1. s \in Nat /\ e_next \in [Node -> MaybeNode]
    BY StartsClosed DEF LinksTypeOK
  <2>2. k - 1 \in 0 .. N-1 /\ N \in Nat
    BY NAssumption DEF Node
  <2>3. \A m \in 0 .. k-1 : m \in Node
    BY <2>2 DEF Node
  <2>4. QED
    BY <2>1, <2>2, <2>3
<1>1. e_next[k-1] = s
  <2>1. k - 1 \in s .. k-1
    BY <1>0
  <2>2. QED
    BY <2>1 DEF NextsAre
<1>2. RingsAbove(s)' /\ PrevsAre(s, k, k-1)'
  <2>1. \A m \in Nat : m < s => e_next'[m] = e_next[m] /\ e_prev'[m] = e_prev[m]
    <3>1. ASSUME NEW m \in Nat, m < s  PROVE m \in Node /\ m # k - 1
      BY <1>0, <3>1
    <3>2. QED
      BY <1>0, <3>1
  <2>2. QED
    BY <1>0, <2>1, RingsAboveKept, PrevsKept
<1>3. NextsAre(s, k, k)'
  <2>1. ASSUME NEW m \in s .. k-1  PROVE e_next'[m] = IF m = k-1 THEN k ELSE m + 1
    <3>1. m \in Node /\ m \in Nat
      BY <1>0
    <3>2. CASE m = k - 1
      BY <1>0, <3>1, <3>2
    <3>3. CASE m # k - 1
      <4>1. e_next'[m] = e_next[m]
        BY <1>0, <3>1, <3>3
      <4>2. QED
        BY <3>3, <4>1 DEF NextsAre
    <3>4. QED
      BY <3>2, <3>3
  <2>2. QED
    BY <2>1 DEF NextsAre
<1>4. QED
  BY <1>1, <1>2, <1>3

\* ... and closes around k.
LEMMA RingClosed ==
  ASSUME LinksTypeOK, NEW s \in Starts, NEW k \in Nat, s < k, k \in Node,
         RingsAbove(s), NextsAre(s, k, k), PrevsAre(s, k, k-1),
         e_prev' = [e_prev EXCEPT ![s] = k, ![k] = k - 1],
         e_next' = [e_next EXCEPT ![k] = s]
  PROVE  RingsAbove(s)' /\ RingIs(s, k + 1)'
<1>0. /\ s \in Nat /\ s \in Node /\ k - 1 \in Nat /\ k + 1 - 1 = k
      /\ e_next \in [Node -> MaybeNode] /\ e_prev \in [Node -> MaybeNode]
      /\ \A m \in 0 .. k : m \in Node
  <2>1. s \in Nat /\ e_next \in [Node -> MaybeNode] /\ e_prev \in [Node -> MaybeNode]
    BY StartsClosed DEF LinksTypeOK
  <2>2. k \in 0 .. N-1 /\ N \in Nat
    BY NAssumption DEF Node
  <2>3. \A m \in 0 .. k : m \in Node
    BY <2>2 DEF Node
  <2>4. s \in Node
    BY <2>1, <2>3
  <2>5. QED
    BY <2>1, <2>2, <2>3, <2>4
<1>1. e_prev'[s] = k /\ e_prev'[k] = k - 1 /\ e_next'[k] = s
  BY <1>0
<1>2. /\ \A m \in Node : m # k => e_next'[m] = e_next[m]
      /\ \A m \in Node : m # k /\ m # s => e_prev'[m] = e_prev[m]
  BY <1>0
<1>3. RingsAbove(s)'
  <2>1. \A m \in Nat : m < s => e_next'[m] = e_next[m] /\ e_prev'[m] = e_prev[m]
    <3>1. ASSUME NEW m \in Nat, m < s  PROVE m \in Node /\ m # k /\ m # s
      BY <1>0, <3>1
    <3>2. QED
      BY <1>2, <3>1
  <2>2. QED
    BY <2>1, RingsAboveKept
<1>4. NextsAre(s, k + 1, s)'
  <2>1. ASSUME NEW m \in s .. k + 1 - 1
        PROVE  e_next'[m] = IF m = k + 1 - 1 THEN s ELSE m + 1
    <3>1. m \in Node /\ m \in Nat
      BY <1>0
    <3>2. CASE m = k
      BY <1>0, <1>1, <3>2
    <3>3. CASE m # k
      <4>1. e_next'[m] = e_next[m] /\ m \in s .. k-1
        BY <1>0, <1>2, <3>1, <3>3
      <4>2. e_next[m] = IF m = k-1 THEN k ELSE m + 1
        BY <4>1 DEF NextsAre
      <4>3. QED
        BY <1>0, <3>1, <3>3, <4>1, <4>2
    <3>4. QED
      BY <3>2, <3>3
  <2>2. QED
    BY <2>1 DEF NextsAre
<1>5. PrevsAre(s, k + 1, k + 1 - 1)'
  <2>1. ASSUME NEW m \in s .. k + 1 - 1
        PROVE  e_prev'[m] = IF m = s THEN k + 1 - 1 ELSE m - 1
    <3>1. m \in Node /\ m \in Nat
      BY <1>0
    <3>2. CASE m = k \/ m = s
      BY <1>0, <1>1, <3>2
    <3>3. CASE m # k /\ m # s
      <4>1. e_prev'[m] = e_prev[m] /\ m \in s .. k-1
        BY <1>0, <1>2, <3>1, <3>3
      <4>2. e_prev[m] = IF m = s THEN k-1 ELSE m - 1
        BY <4>1 DEF PrevsAre
      <4>3. QED
        BY <3>3, <4>1, <4>2
    <3>4. QED
      BY <3>2, <3>3
  <2>2. QED
    BY <1>0, <2>1 DEF PrevsAre
<1>6. QED
  BY <1>3, <1>4, <1>5 DEF RingIs

\* The full parent sends the node to the next one of its ring, whose turn it is.
LEMMA RedirectTarget ==
  ASSUME NEW s \in Starts, s > 0, NEW k \in Nat, s < k, k <= 2*s + 3, RingsAbove(s),
         NEW p \in Nat, p = Home(k-1), First(p) = k - 2
  PROVE  e_next[p] = Dad(s, k) /\ (k = 2*s + 3 \/ k = First(Home(k)))
<1>1. s \in Nat /\ s >= 3 /\ ((s = 3 /\ Home(s) = 2) \/ (s >= 9 /\ s = 2 * Home(s) + 3))
  BY HomeOfStart, StartsClosed
<1>2. CASE s = 3
  <2>1. e_next[0] = 1 /\ e_next[1] = 2 /\ e_next[2] = 0
    <3>1. RingIs(0, 2*0 + 3)
      BY <1>2, StartsClosed DEF RingsAbove
    <3>2. NextsAre(0, 3, 0)
      BY <3>1 DEF RingIs
    <3>3. 0 \in 0 .. 3-1 /\ 1 \in 0 .. 3-1 /\ 2 \in 0 .. 3-1
      OBVIOUS
    <3>4. QED
      BY <3>2, <3>3 DEF NextsAre
  <2>2. p < 3
    BY <1>2, FirstFacts
  <2>3. CASE p = 2
    <3>1. k = 5
      BY <2>3 DEF First
    <3>2. Dad(s, k) = 0 /\ First(Home(k)) = 5
      BY <1>2, <3>1 DEF Dad, Home, First
    <3>3. QED
      BY <2>1, <2>3, <3>1, <3>2
  <2>4. CASE p = 0
    <3>1. k = 7
      BY <2>4 DEF First
    <3>2. Dad(s, k) = 1 /\ First(Home(k)) = 7
      BY <1>2, <3>1 DEF Dad, Home, First
    <3>3. QED
      BY <2>1, <2>4, <3>1, <3>2
  <2>5. CASE p = 1
    <3>1. k = 9
      BY <2>5 DEF First
    <3>2. Dad(s, k) = 2 /\ k = 2*s + 3
      BY <1>2, <3>1 DEF Dad, Home
    <3>3. QED
      BY <2>1, <2>5, <3>2
  <2>6. QED
    BY <2>2, <2>3, <2>4, <2>5
<1>3. CASE s # 3
  <2>1. PICK a \in Starts : a >= 3 /\ s = 2*a + 3
    BY <1>1, <1>3, StartsFacts
  <2>2. a \in Nat /\ a < s /\ s >= 9 /\ Home(s) = a
    <3>1. a \in Nat /\ s = First(a)
      BY <2>1, FirstFacts, StartsClosed
    <3>2. Home(s) = a
      BY <3>1, FirstFacts
    <3>3. QED
      BY <1>1, <2>1, <3>1, <3>2
  <2>3. NextsAre(a, s, a)
    BY <2>1, <2>2 DEF RingsAbove, RingIs
  <2>4. k = 2*p + 5 /\ p >= a /\ p <= s - 1 /\ p >= 3
    <3>1. p >= 3
      <4>1. First(p) >= 8
        BY <1>1, <1>3, <2>2
      <4>2. QED
        BY <4>1 DEF First
    <3>2. First(p) = 2*p + 3
      BY <3>1, FirstFacts
    <3>3. QED
      BY <2>1, <2>2, <3>1, <3>2
  <2>5. p \in a .. s-1
    BY <2>2, <2>4
  <2>6. CASE p = s - 1
    <3>1. k = 2*s + 3 /\ Dad(s, k) = a
      BY <1>1, <2>2, <2>4, <2>6 DEF Dad
    <3>2. e_next[p] = a
      BY <2>3, <2>5, <2>6 DEF NextsAre
    <3>3. QED
      BY <3>1, <3>2
  <2>7. CASE p # s - 1
    <3>1. e_next[p] = p + 1
      BY <2>3, <2>5, <2>7 DEF NextsAre
    <3>2. p + 1 \in Nat /\ First(p + 1) = k
      <4>1. First(p + 1) = 2*(p + 1) + 3
        BY <2>4 DEF First
      <4>2. QED
        BY <2>4, <4>1
    <3>3. Home(k) = p + 1
      BY <3>2, FirstFacts
    <3>4. k < 2*s + 3
      BY <1>1, <2>2, <2>4, <2>5, <2>7
    <3>5. Dad(s, k) = p + 1
      BY <1>1, <3>3, <3>4 DEF Dad
    <3>6. QED
      BY <3>1, <3>2, <3>3, <3>5
  <2>8. QED
    BY <2>6, <2>7
<1>4. QED
  BY <1>2, <1>3

-----------------------------------------------------------------------------
(***************************************************************************)
(* Walks and searches                                                      *)
(***************************************************************************)
\* w starts with a and goes on from each value by F.
Iterates(w, F, a, h) == w[0] = a /\ \A k \in 1 .. h : w[k] = F[w[k-1]]

\* Such a function exists.
LEMMA Iteration ==
  ASSUME NEW D, NEW F \in [D -> D], NEW a \in D, NEW h \in Nat
  PROVE  \E w \in [0 .. h -> D] : Iterates(w, F, a, h)
<1> DEFINE T == {i \in Nat : ~ \E w \in [0 .. i -> D] : Iterates(w, F, a, i)}
<1>1. SUFFICES ASSUME T # {}  PROVE FALSE
  OBVIOUS
<1>2. PICK i \in T : \A j \in T : i <= j
  BY <1>1, Smallest
<1>n. i \in Nat /\ (i # 0 => i - 1 \in Nat /\ i - 1 \notin T)
  <2>1. i \in Nat
    OBVIOUS
  <2> HIDE DEF T
  <2>2. QED
    BY <1>2, <2>1
<1>3. CASE i = 0
  <2>1. [k \in 0 .. 0 |-> a] \in [0 .. 0 -> D] /\ Iterates([k \in 0 .. 0 |-> a], F, a, 0)
    BY DEF Iterates
  <2>2. QED
    BY <1>2, <1>3, <2>1
<1>4. CASE i # 0
  <2>1. i - 1 \in Nat /\ i - 1 \notin T
    BY <1>n, <1>4
  <2>2. PICK v \in [0 .. i-1 -> D] : Iterates(v, F, a, i-1)
    BY <2>1
  <2> DEFINE w == [k \in 0 .. i |-> IF k = i THEN F[v[i-1]] ELSE v[k]]
  <2>3. i - 1 \in 0 .. i-1 /\ v[i-1] \in D /\ F[v[i-1]] \in D
    BY <2>1, <2>2
  <2>4. w \in [0 .. i -> D] /\ w[0] = a
    BY <1>4, <2>2, <2>3 DEF Iterates
  <2>5. ASSUME NEW k \in 1 .. i  PROVE w[k] = F[w[k-1]]
    <3>1. k - 1 \in 0 .. i-1 /\ w[k-1] = v[k-1]
      BY <2>5
    <3>2. CASE k = i
      BY <3>1, <3>2
    <3>3. CASE k # i
      <4>1. k \in 1 .. i-1 /\ w[k] = v[k]
        BY <2>5, <3>3
      <4>2. QED
        BY <2>2, <3>1, <4>1 DEF Iterates
    <3>4. QED
      BY <3>2, <3>3
  <2>6. Iterates(w, F, a, i)
    BY <2>4, <2>5 DEF Iterates
  <2>7. QED
    BY <1>2, <2>4, <2>6
<1>5. QED
  BY <1>3, <1>4

\* A walk goes on along the edge as long as there is one.
LEMMA FollowDef ==
  ASSUME NEW f \in [Node -> MaybeNode], NEW n \in MaybeNode
  PROVE  /\ Follow(f, n) \in [0 .. N -> MaybeNode]
         /\ Follow(f, n)[0] = n
         /\ \A k \in 1 .. N :
              Follow(f, n)[k] = IF Follow(f, n)[k-1] = None THEN None ELSE f[Follow(f, n)[k-1]]
<1> DEFINE G == [m \in MaybeNode |-> IF m = None THEN None ELSE f[m]]
           P(w) == w = [k \in 0 .. N |-> IF k = 0 THEN n
                                         ELSE LET m == w[k-1] IN IF m = None THEN None ELSE f[m]]
<1>1. N \in Nat
  BY NAssumption
<1>2. G \in [MaybeNode -> MaybeNode]
  BY DEF MaybeNode
<1>3. PICK w \in [0 .. N -> MaybeNode] : Iterates(w, G, n, N)
  <2> HIDE DEF G
  <2>1. QED
    BY <1>1, <1>2, Iteration
<1>4. P(w)
  <2>1. ASSUME NEW k \in 0 .. N
        PROVE  w[k] = IF k = 0 THEN n
                      ELSE LET m == w[k-1] IN IF m = None THEN None ELSE f[m]
    <3>1. CASE k = 0
      BY <1>3, <3>1 DEF Iterates
    <3>2. CASE k # 0
      <4>1. k \in 1 .. N /\ k - 1 \in 0 .. N
        BY <1>1, <3>2
      <4>2. w[k-1] \in MaybeNode /\ w[k] = G[w[k-1]]
        BY <1>3, <4>1 DEF Iterates
      <4>3. QED
        BY <3>2, <4>2
    <3>3. QED
      BY <3>1, <3>2
  <2>2. QED
    BY <2>1
<1>5. P(Follow(f, n))
  BY <1>4, Zenon DEF Follow
<1> DEFINE v == Follow(f, n)
<1>6. v = [k \in 0 .. N |-> v[k]] /\ \A k \in 0 .. N : v[k] = IF k = 0 THEN n
                      ELSE IF v[k-1] = None THEN None ELSE f[v[k-1]]
  BY <1>5
<1> HIDE DEF v
<1>7. ASSUME NEW k \in 0 .. N  PROVE v[k] = w[k]
  <2> DEFINE U == {i \in 0 .. N : v[i] # w[i]}
  <2>1. SUFFICES ASSUME U # {}  PROVE FALSE
    OBVIOUS
  <2>2. PICK i \in U : \A j \in U : i <= j
    <3>1. U \in SUBSET Nat
      BY <1>1
    <3>2. QED
      BY <2>1, <3>1, Smallest
  <2>3. v[0] = n /\ 0 \in 0 .. N
    <3>1. 0 \in 0 .. N
      BY <1>1
    <3>2. QED
      BY <1>6, <3>1
  <2>4. i # 0 /\ i \in 0 .. N /\ v[i] # w[i]
    BY <1>3, <2>3 DEF Iterates
  <2>5. i \in 1 .. N /\ i - 1 \in 0 .. N /\ ~(i <= i - 1)
    BY <1>1, <2>4
  <2>6. v[i-1] = w[i-1]
    BY <2>2, <2>5
  <2>7. w[i-1] \in MaybeNode /\ w[i] = IF w[i-1] = None THEN None ELSE f[w[i-1]]
    BY <1>3, <2>5 DEF Iterates
  <2>8. v[i] = IF v[i-1] = None THEN None ELSE f[v[i-1]]
    BY <1>6, <2>4
  <2>9. QED
    BY <2>4, <2>6, <2>7, <2>8
<1>8. \A k \in 0 .. N : v[k] \in MaybeNode
  BY <1>3, <1>7
<1>9. v \in [0 .. N -> MaybeNode]
  BY <1>6, <1>8
<1>10. 0 \in 0 .. N /\ \A k \in 1 .. N : k \in 0 .. N /\ k # 0
  BY <1>1
<1>11. QED
  BY <1>6, <1>9, <1>10 DEF v

\* A walk does not leave a set that its edges do not leave.
LEMMA WalkStays ==
  ASSUME NEW f \in [Node -> MaybeNode], NEW n \in Node, NEW B, n \in B,
         \A m \in B : m \in Node /\ f[m] \in B \cup {None}
  PROVE  Path(f, n) \subseteq B
<1> DEFINE w == Follow(f, n)
           T == {k \in 0 .. N : w[k] \notin B \cup {None}}
<1>0. N \in Nat /\ n \in MaybeNode /\ None \notin Node
  BY NAssumption DEF MaybeNode, Node, None
<1>1. /\ w \in [0 .. N -> MaybeNode] /\ w[0] = n
      /\ \A k \in 1 .. N : w[k] = IF w[k-1] = None THEN None ELSE f[w[k-1]]
  BY <1>0, FollowDef
<1> HIDE DEF w
<1>2. T = {}
  <2>1. SUFFICES ASSUME T # {}  PROVE FALSE
    OBVIOUS
  <2>2. T \in SUBSET Nat
    BY <1>0
  <2>3. PICK k \in T : \A j \in T : k <= j
    BY <2>1, <2>2, Smallest
  <2>4. k \in 1 .. N /\ k - 1 \in 0 .. N /\ ~(k <= k - 1)
    <3>1. k # 0
      BY <1>1
    <3>2. QED
      BY <1>0, <2>3, <3>1
  <2>5. w[k-1] \in B \cup {None}
    BY <2>3, <2>4
  <2>6. w[k] \in B \cup {None}
    BY <1>1, <2>4, <2>5
  <2>7. QED
    BY <2>3, <2>6
<1>3. QED
  BY <1>2 DEF w, Path

\* Along an edge that leads to smaller numbers a walk comes to an end.
LEMMA WalkDown ==
  ASSUME NEW f \in [Node -> MaybeNode], \A m \in Node : f[m] < m, NEW n \in Node
  PROVE  /\ \A k \in 0 .. N : Follow(f, n)[k] = None \/ Follow(f, n)[k] <= n - k
         /\ Follow(f, n)[N] = None
<1> DEFINE w == Follow(f, n)
           Low(k) == w[k] = None \/ w[k] <= n - k
           T == {k \in 0 .. N : ~Low(k)}
<1>0. N \in Nat /\ n \in MaybeNode /\ n \in Nat /\ n < N /\ None \notin Node
  BY NAssumption DEF MaybeNode, Node, None
<1>1. /\ w \in [0 .. N -> MaybeNode] /\ w[0] = n
      /\ \A k \in 1 .. N : w[k] = IF w[k-1] = None THEN None ELSE f[w[k-1]]
  BY <1>0, FollowDef
<1> HIDE DEF w
<1>2. \A k \in 0 .. N : Low(k)
  <2>1. SUFFICES ASSUME T # {}  PROVE FALSE
    OBVIOUS
  <2>2. T \in SUBSET Nat
    BY <1>0
  <2>3. PICK k \in T : \A j \in T : k <= j
    BY <2>1, <2>2, Smallest
  <2>4. Low(0)
    BY <1>0, <1>1
  <2>5. k \in 1 .. N /\ k - 1 \in 0 .. N /\ ~(k <= k - 1) /\ k \in Nat
    BY <1>0, <2>3, <2>4
  <2>6. Low(k - 1)
    BY <2>3, <2>5
  <2>7. w[k] = IF w[k-1] = None THEN None ELSE f[w[k-1]]
    BY <1>1, <2>5
  <2>8. CASE w[k-1] = None
    BY <2>3, <2>7, <2>8
  <2>9. CASE w[k-1] # None
    <3>1. w[k-1] \in Node /\ w[k-1] <= n - (k-1)
      BY <1>1, <2>5, <2>6, <2>9 DEF MaybeNode
    <3>2. f[w[k-1]] < w[k-1] /\ f[w[k-1]] \in MaybeNode /\ w[k-1] \in Nat
      BY <3>1 DEF Node
    <3>3. f[w[k-1]] <= n - k
      <4>1. f[w[k-1]] \in Int
        BY <3>2 DEF MaybeNode, Node, None
      <4>2. QED
        BY <1>0, <2>5, <3>1, <3>2, <4>1
    <3>4. QED
      BY <2>3, <2>7, <2>9, <3>3
  <2>10. QED
    BY <2>8, <2>9
<1>3. w[N] = None
  <2>1. N \in 0 .. N /\ w[N] \in MaybeNode /\ Low(N)
    BY <1>0, <1>1, <1>2
  <2>2. w[N] \notin Node
    BY <1>0, <2>1 DEF Node, None
  <2>3. QED
    BY <2>1, <2>2 DEF MaybeNode
<1>4. QED
  BY <1>2, <1>3 DEF w

\* A walk from n is one from the next node, but for the first step.
LEMMA WalkNext ==
  ASSUME NEW f \in [Node -> MaybeNode], NEW n \in Node, f[n] \in Node
  PROVE  \A k \in 1 .. N : Follow(f, n)[k] = Follow(f, f[n])[k-1]
<1> DEFINE w == Follow(f, n)
           v == Follow(f, f[n])
           T == {k \in 1 .. N : w[k] # v[k-1]}
<1>0. N \in Nat /\ n \in MaybeNode /\ f[n] \in MaybeNode /\ n # None
  BY NAssumption DEF MaybeNode, Node, None
<1>1. /\ w[0] = n
      /\ \A k \in 1 .. N : w[k] = IF w[k-1] = None THEN None ELSE f[w[k-1]]
  BY <1>0, FollowDef
<1>2. /\ v[0] = f[n]
      /\ \A k \in 1 .. N : v[k] = IF v[k-1] = None THEN None ELSE f[v[k-1]]
  BY <1>0, FollowDef
<1> HIDE DEF w, v
<1>3. SUFFICES ASSUME T # {}  PROVE FALSE
  BY DEF w, v
<1>4. PICK k \in T : \A j \in T : k <= j
  <2>1. T \in SUBSET Nat
    BY <1>0
  <2>2. QED
    BY <1>3, <2>1, Smallest
<1>5. CASE k = 1
  <2>1. 1 \in 1 .. N /\ 1 - 1 = 0
    BY <1>4, <1>5
  <2>2. w[1] = f[n]
    BY <1>0, <1>1, <2>1
  <2>3. QED
    BY <1>2, <1>4, <1>5, <2>1, <2>2
<1>6. CASE k # 1
  <2>1. k \in 1 .. N /\ k - 1 \in 1 .. N /\ ~(k <= k - 1)
    BY <1>0, <1>4, <1>6
  <2>2. w[k-1] = v[k-1-1]
    BY <1>4, <2>1
  <2>3. w[k] = IF w[k-1] = None THEN None ELSE f[w[k-1]]
    BY <1>1, <2>1
  <2>4. v[k-1] = IF v[k-1-1] = None THEN None ELSE f[v[k-1-1]]
    BY <1>2, <2>1
  <2>5. QED
    BY <1>4, <2>2, <2>3, <2>4
<1>7. QED
  BY <1>5, <1>6

-----------------------------------------------------------------------------
(***************************************************************************)
(* The chains of parents                                                   *)
(***************************************************************************)
LEMMA DadBelow ==
  ASSUME NEW s \in Starts, NEW n \in Nat
  PROVE  Dad(s, n) < n /\ (n >= 3 /\ s > 0 => Dad(s, n) \in Nat) /\ Home(n) < n
<1>1. s \in Nat /\ Home(n) < n /\ (n >= 3 => Home(n) \in Nat)
  <2>1. s \in Nat
    BY StartsClosed
  <2>2. CASE n < 3
    BY <2>1, <2>2 DEF Home, None
  <2>3. CASE n >= 3
    BY <2>1, <2>3, HomeFacts
  <2>4. QED
    BY <2>2, <2>3
<1>2. CASE s = 0
  BY <1>1, <1>2 DEF Dad, Home, None
<1>3. CASE s > 0
  <2>1. Home(s) \in Nat /\ Home(s) < s
    BY <1>3, HomeOfStart
  <2>2. QED
    BY <1>1, <1>3, <2>1 DEF Dad
<1>4. QED
  BY <1>1, <1>2, <1>3

\* A parent has a smaller number than its child.
Descending == \A n \in Node : e_parent[n] < n

LEMMA RestDescends ==
  ASSUME NEW s \in Starts, NEW k \in Int, ParentsAre(s, k)
  PROVE  Descending
<1>1. SUFFICES ASSUME NEW n \in Node  PROVE e_parent[n] < n
  BY DEF Descending
<1>2. n \in Nat /\ Dad(s, n) < n /\ None < n
  BY DadBelow DEF Node, None
<1>3. QED
  BY <1>2 DEF ParentsAre


\* Hence its ancestors have, and the chain of them ends.
LEMMA AncestorsBelow ==
  ASSUME LinksTypeOK, Descending, NEW n \in Node
  PROVE  Rooted(n) /\ \A m \in Ancestors(n) : m \in Node /\ m < n
<1>1. e_parent \in [Node -> MaybeNode] /\ n \in MaybeNode /\ n \in Nat
  BY DEF LinksTypeOK, MaybeNode, Node
<1>2. /\ \A k \in 0 .. N : Follow(e_parent, n)[k] = None \/ Follow(e_parent, n)[k] <= n - k
      /\ Follow(e_parent, n)[N] = None
  BY <1>1, WalkDown DEF Descending
<1>3. ASSUME NEW m \in Ancestors(n)  PROVE m \in Node /\ m < n
  <2>1. PICK k \in 0 .. N : m = Follow(e_parent, n)[k] /\ m # None /\ m # n
    BY <1>3 DEF Ancestors, Path
  <2>2. m \in Node /\ m <= n - k /\ k \in Nat
    <3>1. Follow(e_parent, n)[k] \in MaybeNode
      BY <1>1, FollowDef
    <3>2. m \in Node
      BY <2>1, <3>1 DEF MaybeNode
    <3>3. k \in Nat /\ m <= n - k
      BY <1>2, <2>1, NAssumption
    <3>4. QED
      BY <3>2, <3>3
  <2>3. QED
    BY <1>1, <2>1, <2>2 DEF Node
<1>4. QED
  BY <1>2, <1>3 DEF Rooted

-----------------------------------------------------------------------------
(***************************************************************************)
(* The levels                                                              *)
(***************************************************************************)
\* A node is one level below its parent.
LEMMA LevelUp ==
  ASSUME LinksTypeOK, Descending, NEW n \in Node
  PROVE  /\ Level(n) \in Nat
         /\ e_parent[n] = None => Level(n) = 0
         /\ e_parent[n] # None => Level(n) = Level(e_parent[n]) + 1
<1>1. e_parent \in [Node -> MaybeNode] /\ n \in MaybeNode /\ N \in Nat /\ 1 \in 1 .. N
  BY NAssumption DEF LinksTypeOK, MaybeNode
<1>2. ASSUME NEW m \in Node
      PROVE  IsFiniteSet(Ancestors(m)) /\ Cardinality(Ancestors(m)) \in Nat
  <2>1. IsFiniteSet(Node)
    BY <1>1, FS_Interval DEF Node
  <2>2. Ancestors(m) \subseteq Node
    BY AncestorsBelow
  <2>3. IsFiniteSet(Ancestors(m))
    BY <2>1, <2>2, FS_Subset, Zenon
  <2>4. QED
    BY <2>3, FS_CardinalityType, Zenon
<1>3. ASSUME e_parent[n] = None  PROVE Level(n) = 0
  <2>1. Path(e_parent, n) \subseteq {n}
    <3>1. \A m \in {n} : m \in Node /\ e_parent[m] \in {n} \cup {None}
      BY <1>3
    <3>2. n \in {n}
      OBVIOUS
    <3>3. QED
      BY <1>1, <3>1, <3>2, WalkStays, Zenon
  <2>2. Ancestors(n) = {}
    BY <2>1 DEF Ancestors
  <2>3. QED
    BY <2>2, FS_EmptySet DEF Level
<1>4. ASSUME e_parent[n] # None  PROVE Level(n) = Level(e_parent[n]) + 1
  <2> DEFINE p == e_parent[n]
             w == Follow(e_parent, n)
             v == Follow(e_parent, p)
  <2>1. p \in Node /\ p < n /\ n \in Nat
    BY <1>1, <1>4 DEF MaybeNode, Node, Descending
  <2>2. \A k \in 1 .. N : w[k] = v[k-1]
    BY <1>1, <2>1, WalkNext
  <2>3. w[0] = n /\ v[0] = p /\ v[N] = None
    <3>1. \A m \in Node : e_parent[m] < m
      BY DEF Descending
    <3>2. v[N] = None
      BY <1>1, <2>1, <3>1, WalkDown
    <3>3. p \in MaybeNode
      BY <2>1 DEF MaybeNode
    <3>4. QED
      BY <1>1, <3>2, <3>3, FollowDef
  <2> HIDE DEF w, v, p
  <2>4. ASSUME NEW m \in Ancestors(n)  PROVE m \in Ancestors(p) \cup {p}
    <3>1. PICK k \in 0 .. N : m = w[k] /\ m # n /\ m # None
      BY <2>4 DEF Ancestors, Path, w
    <3>2. k \in 1 .. N /\ k - 1 \in 0 .. N
      BY <1>1, <2>3, <3>1
    <3>3. m = v[k-1]
      BY <2>2, <3>1, <3>2
    <3>4. QED
      BY <3>1, <3>2, <3>3 DEF Ancestors, Path, v
  <2>5. ASSUME NEW m \in Ancestors(p) \cup {p}  PROVE m \in Ancestors(n)
    <3>1. m # n
      <4>1. \A a \in Ancestors(p) : a \in Node /\ a < p
        BY <2>1, AncestorsBelow
      <4>2. CASE m = p
        BY <2>1, <4>2
      <4>3. CASE m \in Ancestors(p)
        <5>1. m \in Int /\ p \in Int /\ m < p /\ p < n
          BY <2>1, <4>1, <4>3 DEF Node
        <5>2. QED
          BY <5>1, <2>1
      <4>4. QED
        BY <4>2, <4>3
    <3>2. PICK k \in 0 .. N : m = v[k] /\ m # None
      <4>1. 0 \in 0 .. N /\ p # None
        BY <1>1, <1>4 DEF p
      <4>2. CASE m = p
        BY <2>3, <4>1, <4>2
      <4>3. CASE m \in Ancestors(p)
        BY <4>3 DEF Ancestors, Path, v
      <4>4. QED
        BY <4>2, <4>3
    <3>3. k # N
      BY <2>3, <3>2
    <3>4. k + 1 \in 0 .. N /\ k + 1 \in 1 .. N /\ k + 1 - 1 = k
      BY <1>1, <3>3
    <3>5. w[k + 1] = m
      BY <2>2, <3>2, <3>4
    <3>6. QED
      BY <3>1, <3>2, <3>4, <3>5 DEF Ancestors, Path, w
  <2>6. Ancestors(n) = Ancestors(p) \cup {p}
    BY <2>4, <2>5
  <2>7. p \notin Ancestors(p)
    BY DEF Ancestors
  <2>8. Cardinality(Ancestors(n)) = Cardinality(Ancestors(p)) + 1
    BY <1>2, <2>1, <2>6, <2>7, FS_AddElement
  <2>9. QED
    BY <2>8 DEF Level, p
<1>5. QED
  BY <1>2, <1>3, <1>4 DEF Level

\* The nodes of the level that starts at c when there are k, s the start of
\* the lowest level.
LevelEnd(s, k, c) == IF c = s THEN k ELSE 2*c + 3

Band(s, k, c) == c .. LevelEnd(s, k, c) - 1

\* Every node is in one of them.
LEMMA BandOf ==
  ASSUME NEW s \in Starts, NEW k \in Nat, s <= k, NEW n \in 0 .. k-1
  PROVE  \E c \in Starts : c <= s /\ n \in Band(s, k, c)
<1> DEFINE T == {d \in Starts : \A m \in 0 .. d-1 :
                                  \E c \in Starts : c < d /\ c <= m /\ m < 2*c + 3}
<1>1. T = Starts
  <2>1. 0 \in T
    BY StartsClosed
  <2>2. ASSUME NEW d \in T  PROVE 2*d + 3 \in T
    <3>1. d \in Nat /\ 2*d + 3 \in Starts
      BY StartsClosed
    <3>2. ASSUME NEW m \in 0 .. 2*d + 3 - 1
          PROVE  \E c \in Starts : c < 2*d + 3 /\ c <= m /\ m < 2*c + 3
      <4>1. CASE m < d
        <5>1. m \in 0 .. d-1
          BY <3>1, <3>2, <4>1
        <5>2. PICK c \in Starts : c < d /\ c <= m /\ m < 2*c + 3
          BY <5>1
        <5>3. c \in Nat /\ c < 2*d + 3
          BY <3>1, <5>2, StartsClosed
        <5>4. QED
          BY <5>2, <5>3
      <4>2. CASE m >= d
        <5>1. d < 2*d + 3 /\ d <= m /\ m < 2*d + 3 /\ d \in Starts
          BY <3>1, <3>2, <4>2
        <5>2. QED
          BY <5>1
      <4>3. QED
        BY <3>1, <3>2, <4>1, <4>2
    <3>3. QED
      BY <3>1, <3>2
  <2>3. QED
    BY <2>1, <2>2, StartsInduction
<1>2. s \in Nat
  BY StartsClosed
<1>3. CASE n < s
  <2>1. n \in 0 .. s-1
    BY <1>2, <1>3
  <2>2. PICK c \in Starts : c < s /\ c <= n /\ n < 2*c + 3
    BY <1>1, <2>1
  <2>3. c \in Nat /\ c <= s /\ c # s
    BY <1>2, <2>2, StartsClosed
  <2>4. n \in Band(s, k, c)
    BY <2>2, <2>3 DEF Band, LevelEnd
  <2>5. QED
    BY <2>3, <2>4
<1>4. CASE n >= s
  <2>1. s <= s /\ n \in Band(s, k, s)
    BY <1>2, <1>4 DEF Band, LevelEnd
  <2>2. QED
    BY <2>1
<1>5. QED
  BY <1>2, <1>3, <1>4

LEMMA BandFacts ==
  ASSUME NEW s \in Starts, NEW k \in Nat, s <= k, NEW c \in Starts, c <= s,
         NEW n \in Band(s, k, c)
  PROVE  /\ c \in Nat /\ s \in Nat /\ LevelEnd(s, k, c) \in Nat /\ LevelEnd(s, k, c) <= k
         /\ n \in 0 .. k-1 /\ n \in Nat /\ c <= n /\ n < LevelEnd(s, k, c)
         /\ c < s => n < 2*c + 3 /\ LevelEnd(s, k, c) = 2*c + 3 /\ 2*c + 3 <= s
<1>1. c \in Nat /\ s \in Nat
  BY StartsClosed
<1>2. c < s => 2*c + 3 <= s
  BY StartsGap
<1>3. /\ LevelEnd(s, k, c) \in Nat /\ LevelEnd(s, k, c) <= k
      /\ c < s => LevelEnd(s, k, c) = 2*c + 3
  BY <1>1, <1>2 DEF LevelEnd
<1>4. n \in Nat /\ c <= n /\ n < LevelEnd(s, k, c)
  BY <1>1, <1>3 DEF Band
<1>5. QED
  BY <1>1, <1>2, <1>3, <1>4

\* A node of a lower level has its parent in the level above, one of the top
\* ring has none.
LEMMA ParentBand ==
  ASSUME NEW s \in Starts, NEW k \in Nat, s <= k, Size(s, k)
  PROVE  /\ \A n \in Band(s, k, 0) : Dad(s, n) = None
         /\ \A c \in Starts : 2*c + 3 <= s =>
              \A n \in Band(s, k, 2*c + 3) : Dad(s, n) \in Band(s, k, c)
<1>0. s \in Nat /\ 0 \in Starts /\ (s = 0 => k <= 3) /\ (s > 0 => k <= 2*s + 5)
  BY StartsClosed DEF Size
<1>1. ASSUME NEW n \in Band(s, k, 0)  PROVE Dad(s, n) = None
  <2>1. n \in Nat /\ n < 3
    <3>1. n \in Nat /\ n < k /\ (0 < s => n < 2*0 + 3)
      BY <1>0, BandFacts
    <3>2. QED
      BY <1>0, <3>1
  <2>2. s > 0 => ~(n >= 2*s + 3)
    BY <1>0, <2>1
  <2>3. QED
    BY <1>0, <2>1, <2>2 DEF Dad, Home
<1>2. ASSUME NEW c \in Starts, 2*c + 3 <= s, NEW n \in Band(s, k, 2*c + 3)
      PROVE  Dad(s, n) \in Band(s, k, c)
  <2> DEFINE d == 2*c + 3
  <2>1. c \in Nat /\ d \in Starts /\ d \in Nat /\ d > 0
    BY StartsClosed
  <2>2. n \in Nat /\ d <= n /\ n < k /\ (d < s => n < 2*d + 3)
    BY <1>0, <1>2, <2>1, BandFacts
  <2> HIDE DEF d
  <2>3. ASSUME NEW m \in Nat, d <= m, m < 2*d + 3
        PROVE  Home(m) \in Nat /\ c <= Home(m) /\ Home(m) < 2*c + 3
    <3>1. m >= 3
      BY <2>1, <2>3 DEF d
    <3>2. CASE m >= 9
      <4>1. Home(m) \in Nat /\ (2 * Home(m) + 3 = m \/ 2 * Home(m) + 4 = m)
        BY <3>1, <3>2, HomeFacts
      <4>2. QED
        BY <2>1, <2>3, <4>1 DEF d
    <3>3. CASE m < 9
      <4>1. c = 0
        <5>1. c = 0 \/ c >= 3
          BY StartsFacts, HomeOfStart, <2>1
        <5>2. QED
          BY <2>1, <2>3, <3>3, <5>1 DEF d
      <4>2. QED
        BY <3>1, <3>3, <4>1 DEF Home
    <3>4. QED
      BY <2>1, <2>3, <3>2, <3>3
  <2>4. Dad(s, n) \in Nat /\ c <= Dad(s, n) /\ Dad(s, n) < 2*c + 3
    <3>1. CASE n < 2*s + 3
      <4>1. Dad(s, n) = Home(n)
        BY <1>0, <2>2, <3>1 DEF Dad
      <4>2. n < 2*d + 3
        BY <1>2, <2>1, <2>2, <3>1, <1>0 DEF d
      <4>3. QED
        BY <2>2, <2>3, <4>1, <4>2
    <3>2. CASE n >= 2*s + 3
      <4>1. Dad(s, n) = Home(s) /\ d = s
        BY <1>0, <1>2, <2>1, <2>2, <3>2 DEF Dad, d
      <4>2. QED
        BY <2>1, <2>3, <4>1
    <3>3. QED
      BY <1>0, <2>2, <3>1, <3>2
  <2>5. c # s /\ LevelEnd(s, k, c) = 2*c + 3
    BY <1>0, <1>2, <2>1 DEF LevelEnd
  <2>6. QED
    BY <2>1, <2>4, <2>5 DEF Band
<1>3. QED
  BY <1>1, <1>2

\* All nodes of a level have the same depth d, the ones above it have less.
DepthIs(s, k, c, d) ==
  /\ \A n \in Band(s, k, c) : Level(n) = d
  /\ \A b \in Starts : b < c => \A n \in Band(s, k, b) : Level(n) < d
  /\ \A b \in Starts : 2*b + 3 = c => \A n \in Band(s, k, b) : Level(n) + 1 = d

LEMMA LevelDepth ==
  ASSUME LinksTypeOK, NEW s \in Starts, NEW k \in 0 .. N, k \in Nat, s <= k,
         Size(s, k), ParentsAre(s, k)
  PROVE  \A c \in Starts : c <= s => \E d \in Nat : DepthIs(s, k, c, d)
<1> DEFINE T == {c \in Starts : c <= s => \E d \in Nat : DepthIs(s, k, c, d)}
<1>0. s \in Nat /\ 0 \in Starts /\ 0 <= s /\ Descending
  BY StartsClosed, RestDescends
<1>1. ASSUME NEW c \in Starts, c <= s, NEW n \in Band(s, k, c)
      PROVE  n \in Node /\ e_parent[n] = Dad(s, n)
  <2>1. n \in 0 .. k-1 /\ k <= N
    BY <1>1, BandFacts, NAssumption
  <2>2. n \in Node /\ n < k
    BY <2>1, NAssumption DEF Node
  <2>3. QED
    BY <2>2 DEF ParentsAre
<1>2. 0 \in T
  <2>1. ASSUME NEW n \in Band(s, k, 0)  PROVE Level(n) = 0
    <3>1. n \in Node /\ e_parent[n] = None
      BY <1>0, <1>1, ParentBand
    <3>2. QED
      BY <1>0, <3>1, LevelUp
  <2>2. \A b \in Starts : ~(b < 0) /\ 2*b + 3 # 0
    BY StartsClosed
  <2>3. DepthIs(s, k, 0, 0)
    BY <2>1, <2>2 DEF DepthIs
  <2>4. QED
    BY <1>0, <2>3
<1>3. ASSUME NEW c \in T  PROVE 2*c + 3 \in T
  <2>1. c \in Starts /\ c \in Nat /\ 2*c + 3 \in Starts
    BY StartsClosed
  <2>2. SUFFICES ASSUME 2*c + 3 <= s  PROVE \E d \in Nat : DepthIs(s, k, 2*c + 3, d)
    BY <2>1
  <2>3. c <= s /\ c < s
    BY <1>0, <2>1, <2>2
  <2>4. PICK d \in Nat : DepthIs(s, k, c, d)
    BY <1>3, <2>3
  <2>5. ASSUME NEW n \in Band(s, k, 2*c + 3)  PROVE Level(n) = d + 1
    <3>1. n \in Node /\ e_parent[n] = Dad(s, n)
      BY <1>1, <2>1, <2>2
    <3>2. Dad(s, n) \in Band(s, k, c)
      BY <2>1, <2>2, ParentBand
    <3>3. Level(e_parent[n]) = d /\ e_parent[n] \in Node
      BY <1>1, <2>1, <2>3, <2>4, <3>1, <3>2 DEF DepthIs
    <3>4. e_parent[n] # None
      BY <3>3 DEF Node, None
    <3>5. QED
      BY <1>0, <3>1, <3>3, <3>4, LevelUp
  <2>6. ASSUME NEW b \in Starts, b < 2*c + 3, NEW n \in Band(s, k, b)
        PROVE  Level(n) < d + 1
    <3>1. b <= c
      <4>1. ~(c < b)
        <5>1. c < b => 2*c + 3 <= b
          BY <2>1, StartsGap
        <5>2. b \in Nat
          BY StartsClosed
        <5>3. QED
          BY <2>1, <2>6, <5>1, <5>2
      <4>2. QED
        BY <2>1, <4>1, StartsClosed
    <3>2. n \in Node
      BY <1>0, <1>1, <2>1, <2>3, <3>1, StartsClosed
    <3>3. Level(n) \in Nat
      BY <1>0, <3>2, LevelUp
    <3>4. Level(n) = d \/ Level(n) < d
      <4>1. b = c \/ b < c
        BY <2>1, <3>1, StartsClosed
      <4>2. QED
        BY <2>4, <4>1 DEF DepthIs
    <3>5. QED
      BY <3>3, <3>4
  <2>7. ASSUME NEW b \in Starts, 2*b + 3 = 2*c + 3, NEW n \in Band(s, k, b)
        PROVE  Level(n) + 1 = d + 1
    <3>1. b = c
      BY <2>1, <2>7, StartsClosed
    <3>2. QED
      BY <2>4, <3>1 DEF DepthIs
  <2>8. DepthIs(s, k, 2*c + 3, d + 1) /\ d + 1 \in Nat
    BY <2>5, <2>6, <2>7 DEF DepthIs
  <2>9. QED
    BY <2>8
<1>4. T = Starts
  <2>1. T \in SUBSET Starts
    OBVIOUS
  <2> HIDE DEF T
  <2>2. QED
    BY <1>2, <1>3, <2>1, StartsInduction
<1>5. QED
  BY <1>4

\* The depth tells the levels apart.
LEMMA LevelsCompare ==
  ASSUME LinksTypeOK, NEW s \in Starts, NEW k \in 0 .. N, k \in Nat, s <= k,
         Size(s, k), ParentsAre(s, k),
         NEW b \in Starts, b <= s, NEW n \in Band(s, k, b),
         NEW c \in Starts, c <= s, NEW m \in Band(s, k, c)
  PROVE  /\ Level(n) = Level(m) <=> b = c
         /\ Level(m) > Level(n) + 1 => b < c /\ 2*b + 3 < c
<1>1. PICK d \in Nat : DepthIs(s, k, b, d)
  BY LevelDepth
<1>2. PICK f \in Nat : DepthIs(s, k, c, f)
  BY LevelDepth
<1>3. Level(n) = d /\ Level(m) = f
  BY <1>1, <1>2 DEF DepthIs
<1>4. /\ b < c => d < f
      /\ c < b => f < d
      /\ b = c => f = d
      /\ 2*b + 3 = c => d + 1 = f
  <2>1. b < c => Level(n) < f
    BY <1>2 DEF DepthIs
  <2>2. c < b => Level(m) < d
    BY <1>1 DEF DepthIs
  <2>3. b = c => Level(n) = f
    BY <1>2 DEF DepthIs
  <2>4. 2*b + 3 = c => Level(n) + 1 = f
    BY <1>2 DEF DepthIs
  <2>5. QED
    BY <1>3, <2>1, <2>2, <2>3, <2>4
<1>5. b \in Nat /\ c \in Nat /\ (b < c => 2*b + 3 <= c)
  BY StartsClosed, StartsGap
<1>6. QED
  BY <1>3, <1>4, <1>5

-----------------------------------------------------------------------------
(***************************************************************************)
(* Every level is a ring                                                   *)
(***************************************************************************)
LEMMA RingOfBand ==
  ASSUME NEW s \in Starts, NEW k \in Nat, s <= k, RingsAbove(s), RingIs(s, k),
         NEW c \in Starts, c <= s, NEW n \in Band(s, k, c)
  PROVE  LET e == LevelEnd(s, k, c) IN
         /\ e_next[n] = IF n = e - 1 THEN c ELSE n + 1
         /\ e_prev[n] = IF n = c THEN e - 1 ELSE n - 1
<1>1. c \in Nat /\ s \in Nat
  BY StartsClosed
<1>2. RingIs(c, LevelEnd(s, k, c))
  BY <1>1 DEF RingsAbove, LevelEnd
<1>3. QED
  BY <1>2 DEF RingIs, NextsAre, PrevsAre, Band

\* A walk along next passes every node of the level once.
LEMMA RingWalk ==
  ASSUME e_next \in [Node -> MaybeNode], NEW c \in Nat, NEW e \in Nat, e <= N,
         \A m \in c .. e-1 : e_next[m] = IF m = e - 1 THEN c ELSE m + 1,
         NEW n \in c .. e-1
  PROVE  Ring(n) = c .. e-1
<1> DEFINE w == Follow(e_next, n)
           At(j) == IF n + j < e THEN n + j ELSE n + j - e + c
<1>0. /\ N \in Nat /\ n \in Nat /\ c <= n /\ n < e /\ n \in Node /\ n \in MaybeNode
      /\ \A m \in c .. e-1 : m \in Node /\ m # None
  BY NAssumption DEF Node, MaybeNode, None
<1>1. /\ w \in [0 .. N -> MaybeNode] /\ w[0] = n
      /\ \A k \in 1 .. N : w[k] = IF w[k-1] = None THEN None ELSE e_next[w[k-1]]
  BY <1>0, FollowDef
<1>2. Ring(n) \subseteq c .. e-1
  <2>1. \A m \in c .. e-1 : m \in Node /\ e_next[m] \in (c .. e-1) \cup {None}
    <3>1. SUFFICES ASSUME NEW m \in c .. e-1  PROVE e_next[m] \in c .. e-1
      BY <1>0
    <3>2. CASE m = e - 1
      BY <1>0, <3>1, <3>2
    <3>3. CASE m # e - 1
      <4>1. e_next[m] = m + 1
        BY <3>3
      <4>2. m + 1 \in c .. e-1
        BY <1>0, <3>1, <3>3
      <4>3. QED
        BY <4>1, <4>2
    <3>4. QED
      BY <3>2, <3>3
  <2>2. Path(e_next, n) \subseteq c .. e-1
    BY <1>0, <2>1, WalkStays
  <2>3. QED
    BY <2>2 DEF Ring
<1> HIDE DEF w
<1>3. \A j \in 0 .. e-c-1 : j \in 0 .. N /\ w[j] = At(j)
  <2> DEFINE T == {j \in 0 .. e-c-1 : w[j] # At(j)}
  <2>1. SUFFICES ASSUME T # {}  PROVE FALSE
    BY <1>0
  <2>2. PICK j \in T : \A i \in T : j <= i
    <3>1. T \in SUBSET Nat
      BY <1>0
    <3>2. QED
      BY <2>1, <3>1, Smallest
  <2>3. j # 0
    BY <1>0, <1>1, <2>2
  <2>4. j \in Nat /\ j \in 1 .. N /\ j - 1 \in 0 .. e-c-1 /\ ~(j <= j - 1) /\ j <= e - c - 1
    BY <1>0, <2>2, <2>3
  <2>5. w[j-1] = At(j-1)
    BY <2>2, <2>4
  <2>6. At(j-1) \in c .. e-1
    BY <1>0, <2>4
  <2>7. w[j] = e_next[At(j-1)]
    BY <1>0, <1>1, <2>4, <2>5, <2>6
  <2>8. CASE At(j-1) = e - 1
    <3>1. At(j) = c
      BY <1>0, <2>4, <2>8
    <3>2. QED
      BY <2>2, <2>6, <2>7, <2>8, <3>1
  <2>9. CASE At(j-1) # e - 1
    <3>1. At(j) = At(j-1) + 1
      BY <1>0, <2>4, <2>9
    <3>2. e_next[At(j-1)] = At(j-1) + 1
      BY <2>6, <2>9
    <3>3. QED
      BY <2>2, <2>7, <3>1, <3>2
  <2>10. QED
    BY <2>8, <2>9
<1>4. ASSUME NEW m \in c .. e-1  PROVE m \in Ring(n)
  <2> DEFINE j == IF m >= n THEN m - n ELSE m - n + e - c
  <2>1. j \in 0 .. e-c-1 /\ At(j) = m
    BY <1>0, <1>4
  <2>2. j \in 0 .. N /\ w[j] = m
    BY <1>3, <2>1
  <2>3. m # None
    BY <1>0
  <2>4. QED
    BY <2>2, <2>3 DEF Ring, Path, w
<1>5. QED
  BY <1>2, <1>4

\* Next and previous are inverse, and the nodes of a level are one ring.
LEMMA RestRings ==
  ASSUME LinksTypeOK, NEW s \in Starts, NEW k \in 0 .. N, Size(s, k), Resting(s, k)
  PROVE  RingsOf(0 .. k-1)
<1> DEFINE Linked == 0 .. k-1
<1>1. s <= k /\ k \in Nat
  BY NAssumption, SizeFacts
<1>2. /\ ParentsAre(s, k) /\ RingsAbove(s) /\ RingIs(s, k)
      /\ e_next \in [Node -> MaybeNode] /\ N \in Nat
  BY <1>1, NAssumption DEF Resting, LinksTypeOK
<1>3. ASSUME NEW n \in Linked
      PROVE  /\ e_next[n] \in Linked /\ e_prev[e_next[n]] = n
             /\ e_prev[n] \in Linked /\ e_next[e_prev[n]] = n
             /\ Ring(n) = {m \in Linked : Level(m) = Level(n)}
  <2>1. PICK c \in Starts : c <= s /\ n \in Band(s, k, c)
    BY <1>1, BandOf
  <2>2. PICK e \in Nat : e = LevelEnd(s, k, c)
    BY <1>1, <2>1, BandFacts
  <2>3. /\ c \in Nat /\ n \in Nat /\ c <= n /\ n < e /\ e <= k
        /\ Band(s, k, c) = c .. e-1
    BY <1>1, <2>1, <2>2, BandFacts DEF Band
  <2>4. \A m \in c .. e-1 : /\ e_next[m] = IF m = e - 1 THEN c ELSE m + 1
                            /\ e_prev[m] = IF m = c THEN e - 1 ELSE m - 1
    BY <1>1, <1>2, <2>1, <2>2, <2>3, RingOfBand
  <2>5. \A m \in c .. e-1 : m \in Linked
    BY <1>1, <2>3
  <2>6. e_next[n] \in Linked /\ e_prev[e_next[n]] = n
    <3>1. CASE n = e - 1
      <4>1. e_next[n] = c /\ c \in c .. e-1 /\ e_prev[c] = e - 1
        BY <2>3, <2>4, <3>1
      <4>2. QED
        BY <2>5, <3>1, <4>1
    <3>2. CASE n # e - 1
      <4>1. e_next[n] = n + 1 /\ n + 1 \in c .. e-1 /\ n + 1 # c /\ n + 1 - 1 = n
        BY <2>3, <2>4, <3>2
      <4>2. e_prev[n + 1] = n + 1 - 1
        BY <2>3, <2>4, <4>1
      <4>3. QED
        BY <2>5, <4>1, <4>2
    <3>3. QED
      BY <3>1, <3>2
  <2>7. e_prev[n] \in Linked /\ e_next[e_prev[n]] = n
    <3>1. CASE n = c
      <4>1. e_prev[n] = e - 1 /\ e - 1 \in c .. e-1 /\ e_next[e - 1] = c
        BY <2>3, <2>4, <3>1
      <4>2. QED
        BY <2>5, <3>1, <4>1
    <3>2. CASE n # c
      <4>1. e_prev[n] = n - 1 /\ n - 1 \in c .. e-1 /\ n - 1 # e - 1 /\ n - 1 + 1 = n
        BY <2>3, <2>4, <3>2
      <4>2. e_next[n - 1] = n - 1 + 1
        BY <2>4, <4>1
      <4>3. QED
        BY <2>5, <4>1, <4>2
    <3>3. QED
      BY <3>1, <3>2
  <2>8. Ring(n) = c .. e-1
    <3>1. e <= N /\ n \in c .. e-1
      BY <1>2, <2>3
    <3>2. \A m \in c .. e-1 : e_next[m] = IF m = e - 1 THEN c ELSE m + 1
      BY <2>4
    <3>3. QED
      BY <1>2, <2>3, <3>1, <3>2, RingWalk
  <2>9. ASSUME NEW m \in Linked  PROVE m \in c .. e-1 <=> Level(m) = Level(n)
    <3>1. PICK b \in Starts : b <= s /\ m \in Band(s, k, b)
      BY <1>1, BandOf
    <3>2. Level(n) = Level(m) <=> c = b
      BY <1>1, <1>2, <2>1, <3>1, LevelsCompare
    <3>3. m \in c .. e-1 => Level(m) = Level(n)
      <4>1. ASSUME m \in Band(s, k, c)  PROVE Level(n) = Level(m)
        BY <1>1, <1>2, <2>1, <4>1, LevelsCompare
      <4>2. QED
        BY <2>3, <4>1
    <3>4. QED
      BY <2>3, <3>1, <3>2, <3>3
  <2>10. QED
    BY <2>5, <2>6, <2>7, <2>8, <2>9
<1>4. QED
  BY <1>3 DEF RingsOf

-----------------------------------------------------------------------------
(***************************************************************************)
(* The levels are a tree                                                   *)
(***************************************************************************)
SeqRange(q) == {q[i] : i \in DOMAIN q}

\* The sequence q has the elements of S, at most four, each of them once.
Lists(q, S) == SeqRange(q) = S /\ Len(q) = Cardinality(S) /\ Len(q) <= 4

LEMMA ListsNone == Lists(<<>>, {})
BY FS_EmptySet DEF Lists, SeqRange

LEMMA ListsOne == ASSUME NEW a  PROVE Lists(<<a>>, {a}) /\ IsFiniteSet({a})
<1>1. SeqRange(<<a>>) = {a} /\ Len(<<a>>) = 1
  BY DEF SeqRange
<1>2. Cardinality({a}) = 1 /\ IsFiniteSet({a})
  BY FS_Singleton
<1>3. QED
  BY <1>1, <1>2 DEF Lists

LEMMA ListsTwo ==
  ASSUME NEW a, NEW b, a # b  PROVE Lists(<<a, b>>, {a, b}) /\ IsFiniteSet({a, b})
<1>1. SeqRange(<<a, b>>) = {a, b} /\ Len(<<a, b>>) = 2
  BY DEF SeqRange
<1>2. Cardinality({a}) = 1 /\ IsFiniteSet({a}) /\ b \notin {a} /\ {a} \cup {b} = {a, b}
  BY FS_Singleton
<1>3. IsFiniteSet({a} \cup {b}) /\ Cardinality({a} \cup {b}) = Cardinality({a}) + 1
  BY <1>2, FS_AddElement
<1>4. QED
  BY <1>1, <1>2, <1>3 DEF Lists

LEMMA ListsThree ==
  ASSUME NEW a, NEW b, NEW c, a # b, a # c, b # c
  PROVE  Lists(<<a, b, c>>, {a, b, c}) /\ IsFiniteSet({a, b, c})
<1>1. SeqRange(<<a, b, c>>) = {a, b, c}
  BY DEF SeqRange
<1>2. Len(<<a, b, c>>) = 3 /\ Len(<<a, b>>) = 2
  OBVIOUS
<1>3. /\ Cardinality({a, b}) = 2 /\ IsFiniteSet({a, b}) /\ c \notin {a, b}
      /\ {a, b} \cup {c} = {a, b, c}
  BY <1>2, ListsTwo DEF Lists
<1>4. IsFiniteSet({a, b} \cup {c}) /\ Cardinality({a, b} \cup {c}) = Cardinality({a, b}) + 1
  BY <1>3, FS_AddElement
<1>5. QED
  BY <1>1, <1>2, <1>3, <1>4 DEF Lists

LEMMA ListsFour ==
  ASSUME NEW a, NEW b, NEW c, NEW d, a # b, a # c, a # d, b # c, b # d, c # d
  PROVE  Lists(<<a, b, c, d>>, {a, b, c, d})
<1>1. SeqRange(<<a, b, c, d>>) = {a, b, c, d}
  BY DEF SeqRange
<1>2. Len(<<a, b, c, d>>) = 4 /\ Len(<<a, b, c>>) = 3
  OBVIOUS
<1>3. /\ Cardinality({a, b, c}) = 3 /\ IsFiniteSet({a, b, c}) /\ d \notin {a, b, c}
      /\ {a, b, c} \cup {d} = {a, b, c, d}
  <2>1. Lists(<<a, b, c>>, {a, b, c}) /\ IsFiniteSet({a, b, c})
    BY ListsThree
  <2>2. Cardinality({a, b, c}) = 3
    BY <1>2, <2>1 DEF Lists
  <2>3. d \notin {a, b, c} /\ {a, b, c} \cup {d} = {a, b, c, d}
    OBVIOUS
  <2>4. QED
    BY <2>1, <2>2, <2>3
<1>4. Cardinality({a, b, c} \cup {d}) = Cardinality({a, b, c}) + 1
  BY <1>3, FS_AddElement
<1>5. QED
  BY <1>1, <1>2, <1>3, <1>4 DEF Lists

\* The children of p are the nodes whose parent is p.
LEMMA KidSet ==
  ASSUME NEW s \in Starts, NEW k \in Nat, Size(s, k), NEW p \in Nat
  PROVE  Lists(KidSeq(s, k, p), {m \in 0 .. k-1 : Dad(s, m) = p})
<1> DEFINE K == {m \in 0 .. k-1 : Dad(s, m) = p}
           c == First(p)
           q == KidSeq(s, k, p)
<1>0. /\ s \in Nat /\ p # None /\ c \in Nat /\ c >= 3
      /\ \E i \in Nat : c = 2*i + 3
      /\ (s = 0 => k <= 3) /\ (s > 0 => k <= 2*s + 5 /\ s < k /\ s >= 3)
  <2>1. s \in Nat /\ (s = 0 => k <= 3) /\ (s > 0 => k <= 2*s + 5 /\ s < k /\ s >= 3)
    BY SizeFacts
  <2>2. c \in Nat /\ c >= 3
    BY FirstFacts
  <2>3. \E i \in Nat : c = 2*i + 3
    BY FirstFacts
  <2> HIDE DEF c
  <2>4. p # None
    BY DEF None
  <2>5. QED
    BY <2>1, <2>2, <2>3, <2>4
<1>1. \A m \in Nat : Home(m) = p <=> m = c \/ m = c + 1
  <2>1. ASSUME NEW m \in Nat, Home(m) = p  PROVE m = c \/ m = c + 1
    BY <1>0, <2>1, HomeFacts
  <2>2. QED
    BY <2>1, FirstFacts
<1> SUFFICES Lists(q, K)
  OBVIOUS
<1> HIDE DEF q, c
<1>2. CASE s = 0
  <2>1. q = <<>>
    BY <1>0, <1>2, NoKids DEF q
  <2>2. ASSUME NEW m \in 0 .. k-1  PROVE Dad(s, m) = None
    BY <1>0, <1>2, <2>2 DEF Dad, Home
  <2>3. K = {}
    BY <1>0, <2>2
  <2>4. QED
    BY <2>1, <2>3, ListsNone
<1>3. CASE s > 0 /\ p = Home(s)
  <2>1. c = s /\ s >= 3 /\ s < k /\ k <= 2*s + 5
    BY <1>0, <1>3, HomeOfStart DEF c
  <2>2. \A m \in Nat : Dad(s, m) = p <=> m = s \/ m = s + 1 \/ m >= 2*s + 3
    BY <1>0, <1>1, <1>3, <2>1 DEF Dad
  <2>3. PICK b \in Nat, x \in Nat, y \in Nat : b = s + 1 /\ x = 2*s + 3 /\ y = 2*s + 4
    BY <1>0
  <2>4. s # b /\ s # x /\ s # y /\ b # x /\ b # y /\ x # y
    BY <1>0, <2>1, <2>3
  <2>5. CASE k = 2*s + 5
    <3>1. q = <<s, b, x, y>>
      BY <1>0, <1>3, <2>3, <2>5 DEF q, KidSeq
    <3>2. \A m \in 0 .. k-1 : Dad(s, m) = p <=> m \in {s, b, x, y}
      BY <1>0, <2>1, <2>2, <2>3, <2>5
    <3>3. {s, b, x, y} \subseteq 0 .. k-1
      BY <1>0, <2>1, <2>3, <2>5
    <3>4. K = {s, b, x, y}
      BY <3>2, <3>3
    <3> HIDE DEF K
    <3>5. QED
      BY <2>4, <3>1, <3>4, ListsFour
  <2>6. CASE k = 2*s + 4
    <3>1. q = <<s, b, x>>
      BY <1>0, <1>3, <2>3, <2>6 DEF q, KidSeq
    <3>2. \A m \in 0 .. k-1 : Dad(s, m) = p <=> m \in {s, b, x}
      BY <1>0, <2>1, <2>2, <2>3, <2>6
    <3>3. {s, b, x} \subseteq 0 .. k-1
      BY <1>0, <2>1, <2>3, <2>6
    <3>4. K = {s, b, x}
      BY <3>2, <3>3
    <3> HIDE DEF K
    <3>5. QED
      BY <2>4, <3>1, <3>4, ListsThree
  <2>7. CASE k <= 2*s + 3 /\ k # s + 1
    <3>1. q = <<s, b>>
      BY <1>0, <2>1, <2>3, <2>7 DEF q, KidSeq, c
    <3>2. \A m \in 0 .. k-1 : Dad(s, m) = p <=> m \in {s, b}
      BY <1>0, <2>1, <2>2, <2>3, <2>7
    <3>3. {s, b} \subseteq 0 .. k-1
      BY <1>0, <2>1, <2>3, <2>7
    <3>4. K = {s, b}
      BY <3>2, <3>3
    <3> HIDE DEF K
    <3>5. QED
      BY <2>4, <3>1, <3>4, ListsTwo
  <2>8. CASE k = s + 1
    <3>1. q = <<s>>
      BY <1>0, <2>1, <2>8 DEF q, KidSeq, c
    <3>2. \A m \in 0 .. k-1 : Dad(s, m) = p <=> m \in {s}
      BY <1>0, <2>1, <2>2, <2>8
    <3>3. {s} \subseteq 0 .. k-1
      BY <1>0, <2>1, <2>8
    <3>4. K = {s}
      BY <3>2, <3>3
    <3> HIDE DEF K
    <3>5. QED
      BY <3>1, <3>4, ListsOne
  <2>9. QED
    BY <1>0, <2>1, <2>5, <2>6, <2>7, <2>8
<1>4. CASE s > 0 /\ p # Home(s)
  <2>1. \A m \in Nat : Dad(s, m) = p <=> (m = c \/ m = c + 1) /\ m < 2*s + 3
    BY <1>0, <1>1, <1>4 DEF Dad
  <2>2. PICK b \in Nat : b = c + 1
    BY <1>0
  <2>3. CASE b < k /\ b < 2*s + 3
    <3>1. q = <<c, b>>
      BY <1>4, <2>2, <2>3 DEF q, KidSeq, c
    <3>2. \A m \in 0 .. k-1 : Dad(s, m) = p <=> m \in {c, b}
      BY <1>0, <2>1, <2>2, <2>3
    <3>3. {c, b} \subseteq 0 .. k-1 /\ c # b
      BY <1>0, <2>2, <2>3
    <3>4. K = {c, b}
      BY <3>2, <3>3
    <3> HIDE DEF K
    <3>5. QED
      BY <3>1, <3>3, <3>4, ListsTwo
  <2>4. CASE b = k /\ c < 2*s + 3
    <3>1. q = <<c>>
      BY <1>0, <1>4, <2>2, <2>4 DEF q, KidSeq, c
    <3>2. \A m \in 0 .. k-1 : Dad(s, m) = p <=> m \in {c}
      BY <1>0, <2>1, <2>2, <2>4
    <3>3. {c} \subseteq 0 .. k-1
      BY <1>0, <2>2, <2>4
    <3>4. K = {c}
      BY <3>2, <3>3
    <3> HIDE DEF K
    <3>5. QED
      BY <3>1, <3>4, ListsOne
  <2>5. CASE ~(b < k /\ b < 2*s + 3) /\ ~(b = k /\ c < 2*s + 3)
    <3>1. q = <<>>
      BY <1>0, <1>4, <2>2, <2>5 DEF q, KidSeq, c
    <3>2. c >= k \/ c >= 2*s + 3
      BY <1>0, <2>2, <2>5
    <3>3. K = {}
      BY <1>0, <2>1, <3>2
    <3> HIDE DEF K
    <3>4. QED
      BY <3>1, <3>3, ListsNone
  <2>6. QED
    BY <2>3, <2>4, <2>5
<1>5. QED
  BY <1>0, <1>2, <1>3, <1>4

\* At rest the children of a node are the nodes that it is the parent of.
LEMMA RestKids ==
  ASSUME NEW s \in Starts, NEW k \in 0 .. N, k \in Nat, NEW M, M = 0 .. k-1,
         Size(s, k), KidsAre(s, k), ParentsAre(s, k), NEW n \in M
  PROVE  Lists(e_children[n], {m \in M : e_parent[m] = n}) /\ n \in Node
<1>1. N \in Nat /\ n \in Nat /\ n \in Node /\ e_children[n] = KidSeq(s, k, n)
  BY NAssumption DEF Node, KidsAre
<1>2. \A m \in 0 .. k-1 : e_parent[m] = Dad(s, m)
  <2>1. SUFFICES ASSUME NEW m \in 0 .. k-1  PROVE e_parent[m] = Dad(s, m)
    OBVIOUS
  <2>2. m \in Node /\ m < k
    BY <1>1 DEF Node
  <2>3. QED
    BY <2>2 DEF ParentsAre
<1>3. {m \in M : e_parent[m] = n} = {m \in 0 .. k-1 : Dad(s, m) = n}
  BY <1>2
<1>4. QED
  BY <1>1, <1>3, KidSet

\* Parents and children agree.
LEMMA RestTree ==
  ASSUME LinksTypeOK, NEW s \in Starts, NEW k \in 0 .. N, Size(s, k), Resting(s, k)
  PROVE  TreeOf(0 .. k-1)
<1> DEFINE Linked == 0 .. k-1
<1>1. s <= k /\ k \in Nat
  BY NAssumption, SizeFacts
<1>d. Descending
  BY RestDescends DEF Resting
<1>2. ASSUME NEW n \in Linked
      PROVE  /\ Rooted(n)
             /\ Len(e_children[n]) = Cardinality(Children(n))
             /\ Len(e_children[n]) <= 4
             /\ Children(n) = {m \in Linked : e_parent[m] = n}
  <2>1. Lists(e_children[n], {m \in Linked : e_parent[m] = n}) /\ n \in Node
    BY <1>1, RestKids DEF Resting
  <2>2. Children(n) = SeqRange(e_children[n])
    BY DEF Children, SeqRange
  <2>3. Rooted(n)
    BY <2>1, <1>d, AncestorsBelow
  <2>4. QED
    BY <2>1, <2>2, <2>3 DEF Lists
<1>3. QED
  BY <1>2 DEF TreeOf

\* Every level is full before the next but one is opened.
LEMMA RestBalanced ==
  ASSUME LinksTypeOK, NEW s \in Starts, NEW k \in 0 .. N, Size(s, k), Resting(s, k)
  PROVE  BalancedOf(0 .. k-1)
<1> DEFINE Linked == 0 .. k-1
<1>1. s <= k /\ k \in Nat
  BY NAssumption, SizeFacts
<1>2. KidsAre(s, k) /\ ParentsAre(s, k) /\ N \in Nat /\ s \in Nat
  BY <1>1, NAssumption, StartsClosed DEF Resting
<1>3. Cardinality({n \in Linked : e_parent[n] = None}) <= 3
  <2> DEFINE R == {n \in Linked : e_parent[n] = None}
  <2>1. ASSUME NEW n \in R  PROVE n \in 0 .. 2
    <3>1. n \in Nat /\ n < k /\ e_parent[n] = Dad(s, n)
      <4>1. n \in Nat /\ n < k /\ n \in Node
        BY <1>1, <1>2 DEF Node
      <4>2. QED
        BY <1>2, <4>1 DEF ParentsAre
    <3>2. ASSUME n >= 3  PROVE FALSE
      <4>1. s > 0
        BY <1>1, <1>2, <3>1, <3>2 DEF Size
      <4>2. Dad(s, n) \in Nat
        BY <3>1, <3>2, <4>1, DadBelow
      <4>3. QED
        BY <3>1, <4>2 DEF None
    <3>3. QED
      BY <3>1, <3>2
  <2>2. IsFiniteSet(0 .. 2) /\ Cardinality(0 .. 2) = 3
    <3>1. 0 \in Int /\ 2 \in Int /\ ~(0 > 2) /\ 2 - 0 + 1 = 3
      OBVIOUS
    <3>2. QED
      BY <3>1, FS_Interval
  <2>3. R \subseteq 0 .. 2
    BY <2>1
  <2>4. Cardinality(R) <= 3
    <3> HIDE DEF R
    <3>1. IsFiniteSet(R) /\ Cardinality(R) <= Cardinality(0 .. 2)
      BY <2>2, <2>3, FS_Subset
    <3>2. QED
      BY <2>2, <3>1
  <2>5. QED
    BY <2>4
<1>4. ASSUME NEW n \in Linked, NEW m \in Linked, Level(m) > Level(n) + 1
      PROVE  Len(e_children[n]) >= 2
  <2>1. PICK b \in Starts : b <= s /\ n \in Band(s, k, b)
    BY <1>1, BandOf
  <2>2. PICK c \in Starts : c <= s /\ m \in Band(s, k, c)
    BY <1>1, BandOf
  <2>3. b < c /\ 2*b + 3 < c
    BY <1>1, <1>2, <1>4, <2>1, <2>2, LevelsCompare
  <2>4. b \in Nat /\ c \in Nat /\ 2*b + 3 \in Starts
    BY StartsClosed
  <2>5. PICK d \in Nat : d = 2*b + 3
    BY <2>4
  <2>6. 2*d + 3 <= c
    BY <2>3, <2>4, <2>5, StartsGap
  <2>7. n \in Nat /\ n < d /\ n \in Node
    <3>1. b < s
      BY <1>2, <2>2, <2>3, <2>4
    <3>2. n \in Nat /\ n < 2*b + 3 /\ n \in 0 .. k-1
      BY <1>1, <2>1, <3>1, BandFacts
    <3>3. QED
      BY <1>2, <2>5, <3>2 DEF Node
  <2> DEFINE f == First(n)
  <2>8. f \in Nat /\ f + 1 < s
    <3>1. CASE n >= 3
      <4>1. f = 2*n + 3
        BY <2>7, <3>1 DEF First
      <4>2. QED
        BY <1>2, <2>2, <2>4, <2>6, <2>7, <4>1
    <3>2. CASE n < 3
      <4>1. f \in Nat /\ f + 1 <= 8
        BY <2>7, <3>2 DEF First
      <4>2. s >= 9
        BY <1>2, <2>2, <2>4, <2>5, <2>6
      <4>3. QED
        BY <1>2, <4>1, <4>2
    <3>3. QED
      BY <2>7, <3>1, <3>2
  <2>9. n # Home(s)
    <3>1. s > 0
      BY <1>2, <2>8
    <3>2. First(Home(s)) = s
      BY <3>1, HomeOfStart
    <3>3. QED
      BY <1>2, <2>8, <3>2
  <2>10. e_children[n] = <<f, f + 1>>
    <3>1. f + 1 < k /\ f + 1 < 2*s + 3
      BY <1>1, <1>2, <2>8
    <3>2. KidSeq(s, k, n) = <<f, f + 1>>
      BY <2>9, <3>1 DEF KidSeq
    <3>3. QED
      BY <1>2, <2>7, <3>2 DEF KidsAre
  <2>11. Len(<<f, f + 1>>) = 2
    OBVIOUS
  <2>12. QED
    BY <2>10, <2>11
<1>5. QED
  BY <1>3, <1>4 DEF BalancedOf

-----------------------------------------------------------------------------
(***************************************************************************)
(* The search finds all                                                    *)
(***************************************************************************)
\* One round of a search: the neighbours of the nodes found so far are added.
Widen == [S \in SUBSET Node |-> S \cup UNION {Neighbours(m) : m \in S}]

\* A search is the iteration of that round.
LEMMA ReachedDef ==
  ASSUME LinksTypeOK, NEW n \in Node
  PROVE  \E w \in [0 .. N -> SUBSET Node] : Iterates(w, Widen, {n}, N) /\ Reached(n) = w[N]
<1> DEFINE P(w) == w = [k \in 0 .. N |-> IF k = 0 THEN {n}
                          ELSE LET S == w[k-1] IN S \cup UNION {Neighbours(m) : m \in S}]
           L == CHOOSE w : P(w)
<1>1. N \in Nat
  BY NAssumption
<1>2. Widen \in [SUBSET Node -> SUBSET Node]
  <2>1. ASSUME NEW m \in Node  PROVE Neighbours(m) \subseteq Node
    <3>1. /\ e_parent[m] \in MaybeNode /\ e_next[m] \in MaybeNode /\ e_prev[m] \in MaybeNode
          /\ e_children[m] \in Seq(Node)
      BY DEF LinksTypeOK
    <3>2. Children(m) \subseteq Node
      BY <3>1 DEF Children
    <3>3. QED
      BY <3>1, <3>2 DEF Neighbours, MaybeNode
  <2>2. ASSUME NEW S \in SUBSET Node
        PROVE  S \cup UNION {Neighbours(m) : m \in S} \in SUBSET Node
    BY <2>1
  <2>3. QED
    BY <2>2 DEF Widen
<1>3. PICK w \in [0 .. N -> SUBSET Node] : Iterates(w, Widen, {n}, N)
  <2>1. {n} \in SUBSET Node
    OBVIOUS
  <2>2. QED
    BY <1>1, <1>2, <2>1, Iteration
<1>4. P(w)
  <2>1. ASSUME NEW k \in 0 .. N
        PROVE  w[k] = IF k = 0 THEN {n}
                      ELSE LET S == w[k-1] IN S \cup UNION {Neighbours(m) : m \in S}
    <3>1. CASE k = 0
      BY <1>3, <3>1 DEF Iterates
    <3>2. CASE k # 0
      <4>1. k \in 1 .. N /\ k - 1 \in 0 .. N
        BY <1>1, <3>2
      <4>2. w[k-1] \in SUBSET Node /\ w[k] = Widen[w[k-1]]
        BY <1>3, <4>1 DEF Iterates
      <4>3. Widen[w[k-1]] = w[k-1] \cup UNION {Neighbours(m) : m \in w[k-1]}
        BY <4>2 DEF Widen
      <4>4. QED
        BY <3>2, <4>2, <4>3
    <3>3. QED
      BY <3>1, <3>2
  <2>2. QED
    BY <2>1
<1>5. P(L)
  <2> HIDE DEF P
  <2>1. QED
    BY <1>4, Zenon
<1>6. Reached(n) = L[N]
  BY Zenon DEF Reached
<1> HIDE DEF L
<1>7. \A k \in 0 .. N : L[k] = IF k = 0 THEN {n}
                          ELSE L[k-1] \cup UNION {Neighbours(m) : m \in L[k-1]}
  BY <1>5
<1>8. \A k \in 0 .. N : w[k] = IF k = 0 THEN {n}
                          ELSE w[k-1] \cup UNION {Neighbours(m) : m \in w[k-1]}
  BY <1>4
<1>9. \A k \in 0 .. N : L[k] = w[k]
  <2> DEFINE T == {k \in 0 .. N : L[k] # w[k]}
  <2>1. SUFFICES ASSUME T # {}  PROVE FALSE
    OBVIOUS
  <2>2. PICK k \in T : \A j \in T : k <= j
    <3>1. T \in SUBSET Nat
      BY <1>1
    <3>2. QED
      BY <2>1, <3>1, Smallest
  <2>3. CASE k = 0
    <3>1. L[0] = {n} /\ w[0] = {n}
      BY <1>7, <1>8, <2>2, <2>3
    <3>2. QED
      BY <2>2, <2>3, <3>1
  <2>4. CASE k # 0
    <3>1. k - 1 \in 0 .. N /\ ~(k <= k - 1)
      BY <1>1, <2>2, <2>4
    <3>2. L[k-1] = w[k-1]
      BY <2>2, <3>1
    <3>3. L[k] = L[k-1] \cup UNION {Neighbours(m) : m \in L[k-1]}
      BY <1>7, <2>2, <2>4
    <3>4. w[k] = w[k-1] \cup UNION {Neighbours(m) : m \in w[k-1]}
      BY <1>8, <2>2, <2>4
    <3>5. QED
      BY <2>2, <3>2, <3>3, <3>4
  <2>5. QED
    BY <2>3, <2>4
<1>10. QED
  BY <1>1, <1>3, <1>6, <1>9

\* After N rounds there is nothing left to add.
LEMMA ReachedClosed ==
  ASSUME LinksTypeOK, NEW n \in Node
  PROVE  /\ n \in Reached(n) /\ Reached(n) \subseteq Node
         /\ \A m \in Reached(n) : Neighbours(m) \subseteq Reached(n)
<1>1. PICK w \in [0 .. N -> SUBSET Node] : Iterates(w, Widen, {n}, N) /\ Reached(n) = w[N]
  BY ReachedDef
<1>2. N \in Nat /\ IsFiniteSet(Node) /\ Cardinality(Node) = N
  <2>1. N \in Nat /\ N \in Int /\ N - 1 \in Int /\ 0 \in Int /\ N - 1 - 0 + 1 = N /\ ~(0 > N - 1)
    BY NAssumption
  <2>2. QED
    BY <2>1, FS_Interval DEF Node
<1> DEFINE Closed(S) == \A m \in S : Neighbours(m) \subseteq S
           Good(k) == n \in w[k] /\ (Closed(w[k]) \/ Cardinality(w[k]) > k)
           T == {k \in 0 .. N : ~Good(k)}
<1>3. ASSUME NEW k \in 1 .. N, Good(k-1)  PROVE Good(k)
  <2>1. k - 1 \in 0 .. N /\ k \in 0 .. N /\ k \in Nat
    BY <1>2
  <2>2. w[k-1] \subseteq Node /\ w[k] \subseteq Node /\ w[k] = Widen[w[k-1]]
    BY <1>1, <2>1 DEF Iterates
  <2>3. w[k] = w[k-1] \cup UNION {Neighbours(m) : m \in w[k-1]}
    BY <2>2 DEF Widen
  <2>4. n \in w[k]
    BY <1>3, <2>3
  <2>5. CASE Closed(w[k-1])
    <3>1. w[k] = w[k-1]
      BY <2>3, <2>5
    <3>2. QED
      BY <2>4, <2>5, <3>1
  <2>6. CASE ~Closed(w[k-1])
    <3>1. Cardinality(w[k-1]) > k - 1
      BY <1>3, <2>6
    <3>2. w[k-1] # w[k] /\ w[k-1] \subseteq w[k]
      BY <2>3, <2>6
    <3>3. IsFiniteSet(w[k])
      BY <1>2, <2>2, FS_Subset
    <3>4. /\ Cardinality(w[k-1]) \in Nat /\ Cardinality(w[k]) \in Nat
          /\ Cardinality(w[k-1]) < Cardinality(w[k])
      <4>1. IsFiniteSet(w[k-1]) /\ Cardinality(w[k-1]) <= Cardinality(w[k])
            /\ Cardinality(w[k-1]) # Cardinality(w[k])
        BY <3>2, <3>3, FS_Subset
      <4>2. Cardinality(w[k-1]) \in Nat /\ Cardinality(w[k]) \in Nat
        BY <3>3, <4>1, FS_CardinalityType
      <4>3. QED
        BY <4>1, <4>2
    <3>5. Cardinality(w[k]) > k
      BY <2>1, <3>1, <3>4
    <3>6. QED
      BY <2>4, <3>5
  <2>7. QED
    BY <2>5, <2>6
<1>4. Good(0)
  <2>1. w[0] = {n}
    BY <1>1 DEF Iterates
  <2>2. Cardinality({n}) = 1
    BY FS_Singleton
  <2>3. QED
    BY <2>1, <2>2
<1>5. Good(N)
  <2> HIDE DEF Good
  <2>1. T = {}
    <3>1. SUFFICES ASSUME T # {}  PROVE FALSE
      OBVIOUS
    <3>2. PICK k \in T : \A j \in T : k <= j
      <4>1. T \in SUBSET Nat
        BY <1>2
      <4>2. QED
        BY <3>1, <4>1, Smallest
    <3>3. k # 0
      BY <1>4, <3>2
    <3>4. k \in 1 .. N /\ k - 1 \in 0 .. N /\ ~(k <= k - 1)
      BY <1>2, <3>2, <3>3
    <3>5. Good(k - 1)
      BY <3>2, <3>4
    <3>6. QED
      BY <1>3, <3>2, <3>4, <3>5
  <2>2. N \in 0 .. N
    BY <1>2
  <2>3. QED
    BY <2>1, <2>2
<1>6. w[N] \subseteq Node /\ ~(Cardinality(w[N]) > N)
  <2>1. N \in 0 .. N
    BY <1>2
  <2>2. w[N] \subseteq Node
    BY <1>1, <2>1
  <2>3. IsFiniteSet(w[N]) /\ Cardinality(w[N]) <= N
    BY <1>2, <2>2, FS_Subset
  <2>4. Cardinality(w[N]) \in Nat
    BY <2>3, FS_CardinalityType
  <2>5. QED
    BY <1>2, <2>2, <2>3, <2>4
<1>7. QED
  BY <1>1, <1>5, <1>6

\* Each node but the first has a neighbour with a smaller number, of which it
\* is a neighbour too.
LEMMA SmallerNeighbour ==
  ASSUME NEW s \in Starts, NEW k \in 0 .. N, k \in Nat, NEW M, M = 0 .. k-1,
         s <= k, Size(s, k), Resting(s, k), NEW m \in M, m # 0
  PROVE  \E p \in M : p < m /\ p \in Neighbours(m) /\ m \in Neighbours(p)
<1>0. /\ N \in Nat /\ s \in Nat /\ m \in Nat /\ m < k /\ m \in Node
      /\ KidsAre(s, k) /\ ParentsAre(s, k) /\ RingsAbove(s) /\ RingIs(s, k)
  BY NAssumption, StartsClosed DEF Node, Resting
<1>1. PICK c \in Starts : c <= s /\ m \in Band(s, k, c)
  BY BandOf
<1>2. PICK e \in Nat : e = LevelEnd(s, k, c)
  BY <1>1, BandFacts
<1>3. c \in Nat /\ c <= m /\ m < e /\ e <= k /\ Band(s, k, c) = c .. e-1
  BY <1>1, <1>2, BandFacts DEF Band
<1>4. CASE m # c
  <2>1. PICK p \in Nat : p = m - 1
    BY <1>0, <1>3, <1>4
  <2>2. p \in M /\ p < m /\ p \in c .. e-1 /\ p # e - 1 /\ p + 1 = m
    BY <1>0, <1>3, <1>4, <2>1
  <2>3. e_prev[m] = p
    BY <1>0, <1>1, <1>2, <1>4, <2>1, RingOfBand
  <2>4. e_next[p] = m
    BY <1>0, <1>1, <1>2, <1>3, <2>2, RingOfBand
  <2>5. p # None /\ m # None
    BY <1>0 DEF None
  <2>6. p \in Neighbours(m) /\ m \in Neighbours(p)
    BY <2>3, <2>4, <2>5 DEF Neighbours
  <2>7. QED
    BY <2>2, <2>6
<1>5. CASE m = c
  <2>1. s > 0 /\ m >= 3
    <3>1. c > 0
      BY <1>0, <1>5
    <3>2. c >= 3
      BY <3>1, HomeOfStart
    <3>3. QED
      BY <1>0, <1>1, <1>3, <1>5, <3>2
  <2> DEFINE p == e_parent[m]
  <2>2. p = Dad(s, m)
    BY <1>0 DEF ParentsAre
  <2>3. p \in Nat /\ p < m
    BY <1>0, <2>1, <2>2, DadBelow
  <2>4. p \in M
    BY <1>0, <2>3
  <2>5. Lists(e_children[p], {h \in M : e_parent[h] = p})
    BY <1>0, <2>4, RestKids
  <2>6. m \in Children(p)
    BY <2>5 DEF Lists, SeqRange, Children
  <2>7. p # None /\ m # None
    BY <1>0, <2>3 DEF None
  <2>8. p \in Neighbours(m) /\ m \in Neighbours(p)
    BY <2>6, <2>7 DEF Neighbours
  <2>9. QED
    BY <2>3, <2>4, <2>8
<1>6. QED
  BY <1>4, <1>5

\* A search finds every linked node from every other one.
LEMMA RestConnected ==
  ASSUME LinksTypeOK, NEW s \in Starts, NEW k \in 0 .. N, Size(s, k), Resting(s, k)
  PROVE  ConnectedOf(0 .. k-1)
<1> DEFINE Linked == 0 .. k-1
<1>1. s <= k /\ k \in Nat
  BY NAssumption, SizeFacts
<1> SUFFICES ASSUME NEW n \in Linked  PROVE Linked \subseteq Reached(n)
  BY DEF ConnectedOf
<1>2. N \in Nat /\ n \in Node /\ LinksTypeOK /\ Linked \subseteq Nat
  BY <1>1, NAssumption DEF Node
<1> DEFINE R == Reached(n)
<1>3. n \in R /\ \A m \in R : Neighbours(m) \subseteq R
  BY <1>2, ReachedClosed
<1> HIDE DEF R
<1>4. \A m \in Linked : m # 0 =>
        \E p \in Linked : p < m /\ p \in Neighbours(m) /\ m \in Neighbours(p)
  BY <1>1, SmallerNeighbour
<1>5. 0 \in R
  <2> DEFINE T == R \cap Linked
  <2>1. T # {} /\ T \in SUBSET Nat
    BY <1>2, <1>3
  <2>2. PICK m \in T : \A x \in T : m <= x
    BY <2>1, Smallest
  <2>3. ASSUME m # 0  PROVE FALSE
    <3>1. PICK p \in Linked : p < m /\ p \in Neighbours(m)
      BY <1>4, <2>2, <2>3
    <3>2. p \in T /\ p \in Nat /\ m \in Nat
      BY <1>2, <1>3, <2>2, <3>1
    <3>3. m <= p
      BY <2>2, <3>2
    <3>4. QED
      BY <3>1, <3>2, <3>3
  <2>4. QED
    BY <2>2, <2>3
<1>6. ASSUME Linked \ R # {}  PROVE FALSE
  <2>1. Linked \ R \in SUBSET Nat
    BY <1>2
  <2>2. PICK m \in Linked \ R : \A x \in Linked \ R : m <= x
    BY <1>6, <2>1, Smallest
  <2>3. m # 0
    BY <1>5, <2>2
  <2>4. PICK p \in Linked : p < m /\ m \in Neighbours(p)
    BY <1>4, <2>2, <2>3
  <2>5. p \in R
    <3>1. p \in Nat /\ m \in Nat /\ ~(m <= p)
      BY <1>2, <2>2, <2>4
    <3>2. QED
      BY <2>2, <2>4, <3>1
  <2>6. QED
    BY <1>3, <2>2, <2>4, <2>5
<1>7. QED
  BY <1>6 DEF R

-----------------------------------------------------------------------------
(***************************************************************************)
(* A network at rest without one of its nodes                              *)
(***************************************************************************)
\* A set that has one number of an interval and with each its neighbours has all.
LEMMA SegmentFills ==
  ASSUME NEW p \in Nat, NEW q \in Nat, NEW V, NEW v \in p .. q, v \in V,
         \A t \in p .. q : t \in V => /\ t < q => t + 1 \in V
                                      /\ p < t => t - 1 \in V
  PROVE  p .. q \subseteq V
<1> SUFFICES ASSUME NEW x \in p .. q, x \notin V  PROVE FALSE
  OBVIOUS
<1>1. CASE v < x
  <2> DEFINE T == {t \in p .. q : v < t /\ t \notin V}
  <2>1. T \in SUBSET Nat /\ T # {}
    BY <1>1
  <2>2. PICK t \in T : \A y \in T : t <= y
    BY <2>1, Smallest
  <2>3. t - 1 \in p .. q /\ t - 1 < q /\ t - 1 + 1 = t /\ v <= t - 1 /\ ~(t <= t - 1)
    BY <2>2
  <2>4. t - 1 \in V
    BY <2>2, <2>3
  <2>5. QED
    BY <2>2, <2>3, <2>4
<1>2. CASE x < v
  <2> DEFINE T == {i \in Nat : p <= v - i /\ v - i \notin V}
  <2>1. v - x \in T
    BY <1>2
  <2>2. PICK i \in T : \A y \in T : i <= y
    BY <2>1, Smallest
  <2>3. i # 0 /\ i \in Nat /\ p <= v - i
    BY <2>2
  <2>4. /\ i - 1 \in Nat /\ v - (i - 1) \in p .. q /\ p < v - (i - 1)
        /\ v - (i - 1) - 1 = v - i /\ ~(i <= i - 1)
    BY <2>3
  <2>5. v - (i - 1) \in V
    BY <2>2, <2>4
  <2>6. v - i \in V
    BY <2>4, <2>5
  <2>7. QED
    BY <2>2, <2>6
<1>3. QED
  BY <1>1, <1>2

\* A ring that has lost one node is still connected.
LEMMA RingWithout ==
  ASSUME NEW a \in Nat, NEW e \in Nat, RingIs(a, e), NEW c \in Nat, NEW V,
         NEW v \in a .. e-1, v \in V, v # c,
         \A t \in a .. e-1 : t \in V /\ t # c => {e_next[t], e_prev[t]} \ {c} \subseteq V
  PROVE  (a .. e-1) \ {c} \subseteq V
<1>1. ASSUME NEW t \in a .. e-1, t \in V, t # c
      PROVE  /\ t < e-1 /\ t + 1 # c => t + 1 \in V
             /\ t > a /\ t - 1 # c => t - 1 \in V
             /\ t = e-1 /\ a # c => a \in V
             /\ t = a /\ e-1 # c => e-1 \in V
  <2>1. /\ e_next[t] = IF t = e-1 THEN a ELSE t + 1
        /\ e_prev[t] = IF t = a THEN e-1 ELSE t - 1
    BY DEF RingIs, NextsAre, PrevsAre
  <2>2. {e_next[t], e_prev[t]} \ {c} \subseteq V
    BY <1>1
  <2>3. QED
    BY <2>1, <2>2
<1>2. ASSUME NEW p \in Nat, NEW q \in Nat, a <= p, q <= e-1, c \notin p .. q,
             NEW w \in p .. q, w \in V
      PROVE  p .. q \subseteq V
  <2>1. ASSUME NEW t \in p .. q, t \in V
        PROVE  /\ t < q => t + 1 \in V
               /\ p < t => t - 1 \in V
    <3>1. /\ t \in a .. e-1 /\ t # c
          /\ t < q => t < e-1 /\ t + 1 # c
          /\ p < t => t > a /\ t - 1 # c
      BY <1>2
    <3>2. QED
      BY <1>1, <2>1, <3>1
  <2>2. QED
    BY <1>2, <2>1, SegmentFills
<1>3. CASE c \notin a .. e-1
  <2>1. e - 1 \in Nat /\ a <= a /\ e - 1 <= e - 1
    OBVIOUS
  <2>2. a .. e-1 \subseteq V
    BY <1>2, <1>3, <2>1
  <2>3. QED
    BY <2>2
<1>4. CASE c \in a .. e-1
  <2> DEFINE Low == a .. c-1
             High == c+1 .. e-1
  <2>1. /\ v \in Low \/ v \in High
        /\ (a .. e-1) \ {c} = Low \cup High
        /\ c + 1 \in Nat /\ e - 1 \in Nat
        /\ Low # {} => a \in Low /\ a # c /\ c - 1 \in Nat
        /\ High # {} => e-1 \in High /\ e-1 # c
        /\ a \in a .. e-1 /\ e-1 \in a .. e-1
    BY <1>4
  <2>2. ASSUME NEW w \in Low, w \in V  PROVE Low \subseteq V
    <3>1. c - 1 \in Nat /\ a <= a /\ c - 1 <= e-1 /\ c \notin a .. c-1
      BY <1>4, <2>2
    <3>2. QED
      BY <1>2, <2>2, <3>1
  <2>3. ASSUME NEW w \in High, w \in V  PROVE High \subseteq V
    <3>1. c + 1 \in Nat /\ e-1 \in Nat /\ a <= c + 1 /\ e-1 <= e-1 /\ c \notin c+1 .. e-1
      BY <1>4
    <3>2. QED
      BY <1>2, <2>3, <3>1
  <2> HIDE DEF Low, High
  <2>4. CASE v \in Low
    <3>1. a \in V /\ Low \subseteq V
      BY <2>1, <2>2, <2>4
    <3>2. High # {} => e-1 \in V
      BY <1>1, <2>1, <2>4, <3>1
    <3>3. QED
      BY <2>1, <2>3, <3>1, <3>2
  <2>5. CASE v \in High
    <3>1. e-1 \in V /\ High \subseteq V
      BY <2>1, <2>3, <2>5
    <3>2. Low # {} => a \in V
      BY <1>1, <2>1, <2>5, <3>1
    <3>3. QED
      BY <2>1, <2>2, <3>1, <3>2
  <2>6. QED
    BY <2>1, <2>4, <2>5
<1>5. QED
  BY <1>3, <1>4


\* No node is in two levels.
LEMMA BandsApart ==
  ASSUME NEW s \in Starts, NEW k \in Nat, s <= k, NEW a \in Starts, NEW b \in Starts,
         a <= s, b <= s, NEW n \in Band(s, k, a) \cap Band(s, k, b)
  PROVE  a = b
<1>1. ASSUME NEW c \in Starts, NEW d \in Starts, c < d, d <= s,
             n \in Band(s, k, c), n \in Band(s, k, d)
      PROVE  FALSE
  <2>1. c < s /\ c <= s
    BY <1>1, StartsClosed
  <2>2. n < 2*c + 3 /\ d <= n /\ n \in Nat
    BY <1>1, <2>1, BandFacts
  <2>3. 2*c + 3 <= d
    BY <1>1, StartsGap
  <2>4. QED
    BY <1>1, <2>2, <2>3, StartsClosed
<1>2. a \in Nat /\ b \in Nat
  BY StartsClosed
<1>3. QED
  BY <1>1, <1>2

\* Every node below the top ring is a child of its parent.
LEMMA ChildOfDad ==
  ASSUME NEW s \in Starts, NEW k \in 0 .. N, s <= k, Size(s, k), Resting(s, k),
         NEW b \in Starts, 2*b + 3 <= s, NEW n \in Band(s, k, 2*b + 3)
  PROVE  /\ Dad(s, n) \in Band(s, k, b) /\ Dad(s, n) = e_parent[n]
         /\ Dad(s, n) \in Neighbours(n) /\ n \in Neighbours(Dad(s, n))
<1>0. /\ N \in Nat /\ k \in Nat /\ s \in Nat /\ b \in Nat /\ 2*b + 3 \in Starts
      /\ KidsAre(s, k) /\ ParentsAre(s, k)
  BY NAssumption, StartsClosed DEF Resting
<1>1. n \in 0 .. k-1 /\ n \in Nat /\ n \in Node
  BY <1>0, BandFacts DEF Node
<1>2. PICK p : p = Dad(s, n)
  OBVIOUS
<1>3. p \in Band(s, k, b)
  BY <1>0, <1>2, ParentBand
<1>4. p \in 0 .. k-1 /\ p \in Nat
  <2>1. b <= s
    BY <1>0
  <2>2. QED
    BY <1>0, <1>3, <2>1, BandFacts
<1>5. e_parent[n] = p
  BY <1>0, <1>1, <1>2 DEF ParentsAre
<1>6. Lists(e_children[p], {h \in 0 .. k-1 : e_parent[h] = p})
  BY <1>0, <1>4, RestKids
<1>7. n \in Children(p)
  BY <1>1, <1>5, <1>6 DEF Lists, SeqRange, Children
<1>8. p # None /\ n # None
  BY <1>1, <1>4 DEF None
<1>9. QED
  BY <1>2, <1>3, <1>5, <1>7, <1>8 DEF Neighbours

\* When a level has a node below it, one of those has a parent other than c, but
\* for a level of one or two nodes, which are all below node 2.
LEMMA OtherParent ==
  ASSUME NEW s \in Starts, NEW k \in 0 .. N, s <= k, Size(s, k),
         NEW b \in Starts, 2*b + 3 <= s, NEW c, c # 2 \/ k \notin {4, 5}
  PROVE  \E n \in Band(s, k, 2*b + 3) : Dad(s, n) # c
<1>0. /\ N \in Nat /\ k \in Nat /\ s \in Nat /\ b \in Nat /\ 2*b + 3 \in Starts
  BY NAssumption, StartsClosed
<1>1. PICK e : e = LevelEnd(s, k, 2*b + 3)
  OBVIOUS
<1>2. Band(s, k, 2*b + 3) = 2*b + 3 .. e-1
  BY <1>1 DEF Band
<1>3. CASE b = 0
  <2>0. Band(s, k, 2*b + 3) = 3 .. e-1
    BY <1>2, <1>3
  <2>1. s \in Nat /\ (s = 3 \/ s >= 9)
    BY <1>0, <1>3, HomeOfStart
  <2>2. e = 9 \/ (s = 3 /\ e = k)
    BY <1>0, <1>1, <1>3, <2>1 DEF LevelEnd
  <2>3. e = 9 \/ (e = k /\ 4 <= k)
    BY <2>2 DEF Size
  <2>4. CASE c # 2
    <3>1. 3 \in 3 .. e-1 /\ Dad(s, 3) = 2
      <4>1. ~(3 >= 2*s + 3)
        BY <2>1
      <4>2. e - 1 \in Int /\ 3 <= e - 1
        BY <1>0, <2>3
      <4>3. QED
        BY <4>1, <4>2 DEF Dad, Home
    <3>2. QED
      BY <2>0, <2>4, <3>1
  <2>5. CASE c = 2 /\ k \notin {4, 5}
    <3>1. 5 \in 3 .. e-1 /\ Dad(s, 5) = 0
      <4>1. ~(5 >= 2*s + 3)
        BY <2>1
      <4>2. QED
        BY <1>0, <2>3, <2>5, <4>1 DEF Dad, Home
    <3>2. 5 \in Band(s, k, 2*b + 3)
      BY <2>0, <3>1
    <3>3. Dad(s, 5) # c
      BY <2>5, <3>1
    <3>4. QED
      BY <3>2, <3>3
  <2>6. QED
    BY <2>4, <2>5
<1>4. CASE b # 0
  <2> DEFINE m == 2*b + 3
  <2>1. b >= 3 /\ m \in Nat /\ m + 2 < 2*s + 3 /\ s > 3
    BY <1>0, <1>4, HomeOfStart
  <2>2. m + 2 < e /\ e \in Nat
    <3>1. CASE m = s
      BY <1>1, <2>1, <3>1 DEF LevelEnd, Size
    <3>2. CASE m # s
      BY <1>1, <2>1, <3>2 DEF LevelEnd
    <3>3. QED
      BY <3>1, <3>2
  <2>3. m \in m .. e-1 /\ m + 2 \in m .. e-1
    BY <2>1, <2>2
  <2>4. Dad(s, m) = b
    <3>1. Home(First(b)) = b /\ First(b) = m
      BY <1>0, <2>1, FirstFacts
    <3>2. ~(m >= 2*s + 3)
      BY <1>0, <2>1
    <3>3. QED
      BY <3>1, <3>2 DEF Dad
  <2>5. Dad(s, m + 2) = b + 1
    <3>1. Home(First(b + 1)) = b + 1 /\ First(b + 1) = m + 2
      <4>1. b + 1 \in Nat /\ b + 1 >= 3 /\ 2*(b + 1) + 3 = m + 2
        BY <1>0, <2>1
      <4>2. QED
        BY <4>1, FirstFacts
    <3>2. ~(m + 2 >= 2*s + 3)
      BY <1>0, <2>1
    <3>3. QED
      BY <3>1, <3>2 DEF Dad
  <2>6. b # b + 1
    BY <1>0
  <2>7. QED
    BY <1>2, <2>3, <2>4, <2>5, <2>6
<1>5. QED
  BY <1>3, <1>4

\* Without node c, a search from its neighbour d on its ring still finds all other
\* nodes: level by level, since a level is entered and left by several nodes.
LEMMA RestWithout ==
  ASSUME LinksTypeOK, NEW s \in Starts, NEW k \in 0 .. N, Size(s, k), Resting(s, k),
         NEW c \in 0 .. k-1, c # 2 \/ k \notin {4, 5},
         NEW d \in 0 .. k-1, d # c, e_next[d] = c,
         NEW V, d \in V, \A t \in 0 .. k-1 : t \in V /\ t # c => Neighbours(t) \ {c} \subseteq V
  PROVE  (0 .. k-1) \ {c} \subseteq V
<1>0. /\ N \in Nat /\ k \in Nat /\ s \in Nat /\ s <= k
      /\ RingsAbove(s) /\ RingIs(s, k)
  BY NAssumption, SizeFacts DEF Resting
<1> DEFINE Nodes(b) == Band(s, k, b)
           Whole(b) == Nodes(b) \ {c} \subseteq V
<1>1. ASSUME NEW b \in Starts, b <= s, NEW v \in Nodes(b), v \in V, v # c
      PROVE  Whole(b)
  <2>1. PICK e : e = LevelEnd(s, k, b)
    OBVIOUS
  <2>2. /\ b \in Nat /\ e \in Nat /\ e <= k /\ Nodes(b) = b .. e-1
    BY <1>0, <1>1, <2>1, BandFacts DEF Band
  <2>3. RingIs(b, e)
    BY <1>0, <1>1, <2>1, <2>2 DEF RingsAbove, LevelEnd
  <2>4. ASSUME NEW t \in b .. e-1, t \in V, t # c
        PROVE  {e_next[t], e_prev[t]} \ {c} \subseteq V
    <3>1. t \in 0 .. k-1
      BY <1>0, <2>2
    <3>2. Neighbours(t) \ {c} \subseteq V
      BY <2>4, <3>1
    <3>3. e_next[t] \in Nat /\ e_prev[t] \in Nat
      <4>1. /\ e_next[t] = IF t = e-1 THEN b ELSE t + 1
            /\ e_prev[t] = IF t = b THEN e-1 ELSE t - 1
        BY <2>3 DEF RingIs, NextsAre, PrevsAre
      <4>2. t \in Int /\ b <= t /\ t <= e-1
        BY <2>2
      <4>3. QED
        BY <2>2, <4>1, <4>2
    <3>4. e_next[t] # None /\ e_prev[t] # None
      BY <3>3 DEF None
    <3>5. QED
      BY <3>2, <3>4 DEF Neighbours
  <2>5. v \in b .. e-1 /\ c \in Nat
    BY <1>0, <1>1, <2>2
  <2>6. (b .. e-1) \ {c} \subseteq V
    BY <1>1, <2>2, <2>3, <2>4, <2>5, RingWithout
  <2>7. QED
    BY <2>2, <2>6
<1>2. PICK a \in Starts : a <= s /\ c \in Nodes(a)
  BY <1>0, BandOf
<1>3. ASSUME NEW b \in Starts, b <= s, c \in Nodes(b)  PROVE b = a
  BY <1>0, <1>2, <1>3, BandsApart
<1>4. d \in Nodes(a)
  <2>1. PICK b \in Starts : b <= s /\ d \in Nodes(b)
    BY <1>0, BandOf
  <2>2. e_next[d] \in Nodes(b)
    <3>1. PICK e : e = LevelEnd(s, k, b)
      OBVIOUS
    <3>2. b \in Nat /\ e \in Nat /\ b <= d /\ d < e /\ d \in Nat /\ Nodes(b) = b .. e-1
      BY <1>0, <2>1, <3>1, BandFacts DEF Band
    <3>3. e_next[d] = IF d = e - 1 THEN b ELSE d + 1
      BY <1>0, <2>1, <3>1, RingOfBand
    <3>4. QED
      BY <3>2, <3>3
  <2>3. QED
    BY <1>3, <2>1, <2>2
<1>5. Whole(a)
  BY <1>1, <1>2, <1>4
<1> HIDE DEF Nodes
<1>6. ASSUME NEW b \in Starts, 2*b + 3 <= a, Whole(2*b + 3)  PROVE Whole(b)
  <2>1. /\ b \in Nat /\ a \in Nat /\ 2*b + 3 \in Starts /\ 2*b + 3 <= s /\ b <= s /\ b # a
    BY <1>0, <1>2, <1>6, StartsClosed
  <2>2. PICK n \in Nodes(2*b + 3) : n # c
    <3>1. CASE 2*b + 3 = a
      BY <1>4, <3>1
    <3>2. CASE 2*b + 3 # a
      <4>1. c \notin Nodes(2*b + 3)
        BY <1>3, <2>1, <3>2
      <4>2. 2*b + 3 \in Nodes(2*b + 3)
        BY <1>0, <1>2, <1>6, <2>1, <3>2 DEF Nodes, Band, LevelEnd
      <4>3. QED
        BY <4>1, <4>2
    <3>3. QED
      BY <3>1, <3>2
  <2>3. n \in V /\ n \in 0 .. k-1
    BY <1>0, <1>6, <2>1, <2>2, BandFacts DEF Nodes
  <2>4. Dad(s, n) \in Nodes(b) /\ Dad(s, n) \in Neighbours(n)
    BY <1>0, <2>1, <2>2, ChildOfDad DEF Nodes
  <2>5. c \notin Nodes(b)
    BY <1>3, <2>1
  <2>6. Dad(s, n) \in V /\ Dad(s, n) # c
    BY <2>2, <2>3, <2>4, <2>5
  <2>7. QED
    BY <1>1, <2>1, <2>4, <2>6
<1>7. ASSUME NEW b \in Starts, a <= b, 2*b + 3 <= s, Whole(b)  PROVE Whole(2*b + 3)
  <2>1. /\ b \in Nat /\ a \in Nat /\ 2*b + 3 \in Starts /\ b <= s /\ 2*b + 3 # a
    BY <1>0, <1>2, <1>7, StartsClosed
  <2>2. PICK n \in Nodes(2*b + 3) : Dad(s, n) # c
    <3>1. s <= k
      BY <1>0
    <3>2. \E n \in Band(s, k, 2*b + 3) : Dad(s, n) # c
      <4> HIDE DEF Whole
      <4>1. QED
        BY <1>7, <3>1, OtherParent
    <3>3. QED
      BY <3>2 DEF Nodes
  <2>3. PICK p : p = Dad(s, n)
    OBVIOUS
  <2>4. p \in Nodes(b) /\ n \in Neighbours(p)
    BY <1>0, <1>7, <2>2, <2>3, ChildOfDad DEF Nodes
  <2>5. p \in V /\ p \in 0 .. k-1
    BY <1>0, <1>7, <2>1, <2>2, <2>3, <2>4, BandFacts DEF Nodes
  <2>6. n # c
    BY <1>3, <1>7, <2>1, <2>2
  <2>7. n \in V
    BY <2>2, <2>3, <2>4, <2>5, <2>6
  <2>8. QED
    BY <1>1, <1>7, <2>1, <2>2, <2>6, <2>7
<1> HIDE DEF Whole
<1>8. ASSUME NEW b \in Starts, b <= a  PROVE Whole(b)
  <2> DEFINE T == {h \in Starts : h <= a /\ Whole(h) => \A x \in Starts : x <= h => Whole(x)}
  <2>1. 0 \in T
    <3>1. ASSUME NEW x \in Starts, x <= 0  PROVE x = 0
      BY <3>1, StartsClosed
    <3>2. QED
      BY <3>1, StartsClosed
  <2>2. ASSUME NEW h \in T  PROVE 2*h + 3 \in T
    <3>1. SUFFICES ASSUME 2*h + 3 <= a, Whole(2*h + 3), NEW x \in Starts, x <= 2*h + 3
                   PROVE  Whole(x)
      BY StartsClosed
    <3>2. h \in Starts /\ h \in Nat /\ a \in Nat /\ x \in Nat /\ h <= a
      BY <3>1, StartsClosed
    <3>3. Whole(h)
      BY <1>6, <3>1, <3>2
    <3>4. x = 2*h + 3 \/ x <= h
      <4>1. h < x => 2*h + 3 <= x
        BY <3>2, StartsGap
      <4>2. QED
        BY <3>1, <3>2, <4>1
    <3>5. QED
      BY <3>1, <3>2, <3>3, <3>4
  <2>3. T = Starts
    BY <2>1, <2>2, StartsInduction
  <2>4. a \in T /\ a <= a
    BY <2>3, StartsClosed
  <2>5. QED
    BY <1>5, <1>8, <2>4
<1>9. ASSUME NEW b \in Starts, a <= b, b <= s  PROVE Whole(b)
  <2> DEFINE T == {h \in Starts : a <= h /\ h <= s => Whole(h)}
  <2>1. 0 \in T
    <3>1. a <= 0 => a = 0
      BY StartsClosed
    <3>2. QED
      BY <1>5, <3>1, StartsClosed
  <2>2. ASSUME NEW h \in T  PROVE 2*h + 3 \in T
    <3>1. SUFFICES ASSUME a <= 2*h + 3, 2*h + 3 <= s  PROVE Whole(2*h + 3)
      BY StartsClosed
    <3>2. h \in Starts /\ h \in Nat /\ a \in Nat /\ h <= s
      BY <1>0, <3>1, StartsClosed
    <3>3. CASE a = 2*h + 3
      BY <1>5, <3>3
    <3>4. CASE a # 2*h + 3
      <4>1. h < a => 2*h + 3 <= a
        BY <3>2, StartsGap
      <4>2. a <= h
        BY <3>1, <3>2, <3>4, <4>1
      <4>3. QED
        BY <1>7, <3>1, <3>2, <4>2
    <3>5. QED
      BY <3>3, <3>4
  <2>3. T = Starts
    BY <2>1, <2>2, StartsInduction
  <2>4. QED
    BY <1>9, <2>3
<1>10. ASSUME NEW n \in 0 .. k-1, n # c  PROVE n \in V
  <2>1. PICK b \in Starts : b <= s /\ n \in Nodes(b)
    BY <1>0, BandOf DEF Nodes
  <2>2. Whole(b)
    BY <1>8, <1>9, <2>1, StartsClosed
  <2>3. QED
    BY <1>10, <2>1, <2>2 DEF Whole
<1>11. QED
  BY <1>10

=============================================================================
