----------------------------- MODULE DataLemmas ------------------------------
(***************************************************************************)
(* Facts about numbers, finite sets and sequences that the proofs of       *)
(* several components need, and about the operators Without and AllEdges   *)
(* of NodeLinks.  Where an induction is needed it is one over the          *)
(* counterexamples: a set of them would have a smallest element.           *)
(***************************************************************************)
EXTENDS NodeLinks, SequenceTheorems, FiniteSetTheorems, WellFoundedInduction, TLAPS

\* A set of numbers has a smallest one.
LEMMA Smallest ==
  ASSUME NEW T \in SUBSET Nat, T # {}
  PROVE  \E x \in T : \A y \in T : x <= y
<1>1. PICK x \in T : \A y \in T : ~ (<<y, x>> \in OpToRel(<, Nat))
  BY NatLessThanWellFounded, WFMin, Zenon
<1>2. ASSUME NEW y \in T  PROVE x <= y
  <2>1. ~(y < x)
    BY <1>1 DEF OpToRel
  <2>2. QED
    BY <2>1
<1>3. QED
  BY <1>2

\* A finite set S of numbers has an element with exactly k smaller ones in S.
LEMMA RankOnto ==
  ASSUME NEW S \in SUBSET Nat, IsFiniteSet(S), NEW k \in Nat, k < Cardinality(S)
  PROVE  \E j \in S : Cardinality({i \in S : i < j}) = k
<1> DEFINE Below(j) == {i \in S : i < j}
           T == {h \in Nat : h < Cardinality(S) /\ \A j \in S : Cardinality(Below(j)) # h}
<1>f. ASSUME NEW j \in S  PROVE IsFiniteSet(Below(j))
  BY FS_Subset
<1>c. Cardinality(S) \in Nat
  BY FS_CardinalityType
<1>1. SUFFICES ASSUME T # {}  PROVE FALSE
  OBVIOUS
<1>2. PICK h \in T : \A y \in T : h <= y
  BY <1>1, Smallest
<1>3. CASE h = 0
  <2>1. S # {}
    BY <1>2, <1>3, FS_EmptySet
  <2>2. PICK j \in S : \A i \in S : j <= i
    BY <2>1, Smallest
  <2>3. ASSUME NEW i \in S  PROVE ~(i < j)
    BY <2>2
  <2>4. Below(j) = {}
    BY <2>3
  <2>5. QED
    BY <1>2, <1>3, <2>4, FS_EmptySet
<1>4. CASE h # 0
  <2>1. h - 1 \in Nat /\ h - 1 < Cardinality(S) /\ h - 1 \notin T
    BY <1>2, <1>4, <1>c
  <2>2. PICK j \in S : Cardinality(Below(j)) = h - 1
    BY <2>1
  <2> DEFINE Upto == Below(j) \cup {j}
             Above == S \ Upto
  <2>3. IsFiniteSet(Upto) /\ Cardinality(Upto) = h
    <3>1. IsFiniteSet(Below(j)) /\ j \notin Below(j)
      BY <1>f
    <3>2. IsFiniteSet(Upto) /\ Cardinality(Upto) = Cardinality(Below(j)) + 1
      BY <3>1, FS_AddElement, Zenon
    <3>3. QED
      BY <2>1, <2>2, <3>2
  <2>4. Above # {}
    <3>1. Upto \subseteq S
      OBVIOUS
    <3>2. Upto # S
      BY <1>2, <2>3
    <3>3. QED
      BY <3>1, <3>2
  <2>5. PICK m \in Above : \A i \in Above : m <= i
    BY <2>4, Smallest
  <2>6. Below(m) = Upto
    <3>1. ASSUME NEW i \in Below(m)  PROVE i \in Upto
      BY <2>5
    <3>2. ASSUME NEW i \in Upto  PROVE i \in Below(m)
      <4>1. m > j
        BY <2>5
      <4>2. QED
        BY <4>1
    <3>3. QED
      BY <3>1, <3>2
  <2>7. QED
    BY <1>2, <2>3, <2>5, <2>6
<1>5. QED
  BY <1>3, <1>4

-----------------------------------------------------------------------------
\* The elements of a sequence.
Elems(s) == {s[i] : i \in DOMAIN s}

LEMMA AppendElems ==
  ASSUME NEW S, NEW s \in Seq(S), NEW e \in S
  PROVE  Elems(Append(s, e)) = Elems(s) \cup {e}
<1>1. /\ Append(s, e) \in Seq(S) /\ Len(Append(s, e)) = Len(s) + 1
      /\ \A i \in 1 .. Len(s) : Append(s, e)[i] = s[i]
      /\ Append(s, e)[Len(s) + 1] = e
  BY AppendProperties
<1>2. /\ Len(s) \in Nat /\ DOMAIN s = 1 .. Len(s)
      /\ DOMAIN Append(s, e) = 1 .. Len(s) + 1
  BY <1>1, LenProperties
<1>3. QED
  BY <1>1, <1>2 DEF Elems

LEMMA TailElems ==
  ASSUME NEW S, NEW s \in Seq(S), s # <<>>
  PROVE  Elems(s) = {Head(s)} \cup Elems(Tail(s))
<1>1. /\ Tail(s) \in Seq(S) /\ Len(Tail(s)) = Len(s) - 1
      /\ \A i \in 1 .. Len(Tail(s)) : Tail(s)[i] = s[i+1]
  BY HeadTailProperties
<1>2. /\ Len(s) \in Nat \ {0} /\ DOMAIN s = 1 .. Len(s) /\ Head(s) = s[1]
      /\ DOMAIN Tail(s) = 1 .. Len(s) - 1
  BY <1>1, LenProperties, EmptySeq
<1>3. ASSUME NEW i \in 1 .. Len(s)  PROVE s[i] \in {Head(s)} \cup Elems(Tail(s))
  <2>1. CASE i = 1
    BY <2>1, <1>2
  <2>2. CASE i # 1
    <3>1. i - 1 \in DOMAIN Tail(s) /\ Tail(s)[i-1] = s[i]
      BY <2>2, <1>1, <1>2
    <3>2. QED
      BY <3>1 DEF Elems
  <2>3. QED
    BY <2>1, <2>2
<1>4. ASSUME NEW i \in 1 .. Len(s) - 1  PROVE Tail(s)[i] \in Elems(s)
  BY <1>1, <1>2 DEF Elems
<1>5. QED
  BY <1>2, <1>3, <1>4 DEF Elems

LEMMA ConcatElems ==
  ASSUME NEW S, NEW s \in Seq(S), NEW t \in Seq(S)
  PROVE  s \o t \in Seq(S) /\ Elems(s \o t) = Elems(s) \cup Elems(t)
<1>1. /\ s \o t \in Seq(S) /\ Len(s \o t) = Len(s) + Len(t)
      /\ \A i \in 1 .. Len(s) + Len(t) :
           (s \o t)[i] = IF i <= Len(s) THEN s[i] ELSE t[i - Len(s)]
  BY ConcatProperties
<1>2. /\ Len(s) \in Nat /\ Len(t) \in Nat /\ DOMAIN s = 1 .. Len(s) /\ DOMAIN t = 1 .. Len(t)
      /\ DOMAIN (s \o t) = 1 .. Len(s) + Len(t)
  BY <1>1, LenProperties
<1> DEFINE r == s \o t
<1>3. ASSUME NEW x \in Elems(r)  PROVE x \in Elems(s) \cup Elems(t)
  <2>1. PICK i \in 1 .. Len(s) + Len(t) : x = r[i]
    BY <1>2, <1>3 DEF Elems
  <2>2. CASE i <= Len(s)
    BY <1>1, <1>2, <2>1, <2>2 DEF Elems
  <2>3. CASE ~(i <= Len(s))
    <3>1. x = t[i - Len(s)] /\ i - Len(s) \in 1 .. Len(t)
      BY <1>1, <1>2, <2>1, <2>3
    <3>2. QED
      BY <1>2, <3>1 DEF Elems
  <2>4. QED
    BY <2>2, <2>3
<1>4. ASSUME NEW x \in Elems(s)  PROVE x \in Elems(r)
  <2>1. PICK i \in 1 .. Len(s) : x = s[i]
    BY <1>2, <1>4 DEF Elems
  <2>2. i \in 1 .. Len(s) + Len(t) /\ i <= Len(s)
    BY <1>2
  <2>3. r[i] = x
    BY <1>1, <2>1, <2>2
  <2>4. QED
    BY <1>2, <2>2, <2>3 DEF Elems
<1>5. ASSUME NEW x \in Elems(t)  PROVE x \in Elems(r)
  <2>1. PICK i \in 1 .. Len(t) : x = t[i]
    BY <1>2, <1>5 DEF Elems
  <2>2. PICK h \in 1 .. Len(s) + Len(t) : h = i + Len(s) /\ ~(h <= Len(s)) /\ h - Len(s) = i
    BY <1>2
  <2>3. r[h] = x
    BY <1>1, <2>1, <2>2
  <2>4. QED
    BY <1>2, <2>3 DEF Elems
<1>6. QED
  BY <1>1, <1>3, <1>4, <1>5

\* w[k] is what remains of the first k elements of s without those in S.
Sifts(w, s, S, h) ==
  /\ w[0] = <<>>
  /\ \A k \in 1 .. h : w[k] = IF s[k] \in S THEN w[k-1] ELSE Append(w[k-1], s[k])

CanSift(V, s, S, h) ==
  \E w \in [0 .. h -> Seq(V \ S)] :
    Sifts(w, s, S, h) /\ Elems(w[h]) = {s[i] : i \in 1 .. h} \ S

LEMMA Sifting ==
  ASSUME NEW V, NEW s \in Seq(V), NEW S, NEW h \in 0 .. Len(s)
  PROVE  CanSift(V, s, S, h)
<1> DEFINE Fine(w, i) == Sifts(w, s, S, i) /\ Elems(w[i]) = {s[x] : x \in 1 .. i} \ S
           T == {i \in 0 .. Len(s) : ~ \E w \in [0 .. i -> Seq(V \ S)] : Fine(w, i)}
<1>0. Len(s) \in Nat /\ \A k \in 1 .. Len(s) : s[k] \in V
  BY LenProperties, ElementOfSeq
<1>1. SUFFICES ASSUME T # {}  PROVE FALSE
  BY DEF CanSift
<1>2. PICK i \in T : \A j \in T : i <= j
  <2>1. T \in SUBSET Nat
    BY <1>0
  <2>2. QED
    BY <1>1, <2>1, Smallest
<1>n. i \in 0 .. Len(s) /\ (i # 0 => i - 1 \in 0 .. Len(s) /\ i - 1 \notin T)
  <2>1. i \in 0 .. Len(s)
    OBVIOUS
  <2>2. i # 0 => i - 1 \in 0 .. Len(s) /\ ~(i <= i - 1)
    BY <1>0, <2>1
  <2> HIDE DEF T
  <2>3. QED
    BY <1>2, <2>1, <2>2
<1>3. CASE i = 0
  <2> DEFINE w == [k \in 0 .. 0 |-> <<>>]
  <2>1. <<>> \in Seq(V \ S) /\ Elems(<<>>) = {}
    BY DEF Elems
  <2>2. w \in [0 .. 0 -> Seq(V \ S)] /\ w[0] = <<>>
    BY <2>1
  <2>3. Sifts(w, s, S, 0) /\ {s[x] : x \in 1 .. 0} \ S = {}
    BY <2>2 DEF Sifts
  <2>4. Fine(w, 0)
    BY <2>1, <2>2, <2>3
  <2> HIDE DEF w, Fine
  <2>5. QED
    BY <1>2, <1>3, <2>2, <2>4
<1>4. CASE i # 0
  <2>1. i - 1 \in 0 .. Len(s) /\ i - 1 \notin T
    BY <1>n, <1>4
  <2>2. PICK v \in [0 .. i-1 -> Seq(V \ S)] : Fine(v, i - 1)
    BY <2>1
  <2> DEFINE q == IF s[i] \in S THEN v[i-1] ELSE Append(v[i-1], s[i])
             w == [k \in 0 .. i |-> IF k = i THEN q ELSE v[k]]
  <2>3. i \in 1 .. Len(s) /\ i - 1 \in 0 .. i-1 /\ s[i] \in V
    BY <1>0, <1>n, <1>4
  <2>4. v[i-1] \in Seq(V \ S) /\ Elems(v[i-1]) = {s[x] : x \in 1 .. i-1} \ S
    BY <2>2, <2>3
  <2>5. q \in Seq(V \ S) /\ Elems(q) = {s[x] : x \in 1 .. i} \ S
    <3>1. {s[x] : x \in 1 .. i} = {s[x] : x \in 1 .. i-1} \cup {s[i]}
      <4>1. \A x : x \in 1 .. i <=> x \in 1 .. i-1 \/ x = i
        BY <1>0, <2>3
      <4>2. QED
        BY <4>1, Zenon
    <3>2. CASE s[i] \in S
      BY <2>4, <3>1, <3>2
    <3>3. CASE s[i] \notin S
      <4>1. s[i] \in V \ S
        BY <2>3, <3>3
      <4>2. Append(v[i-1], s[i]) \in Seq(V \ S)
        BY <2>4, <4>1, AppendProperties
      <4>3. Elems(Append(v[i-1], s[i])) = Elems(v[i-1]) \cup {s[i]}
        <5> DEFINE W == V \ S
                   u == v[i-1]
                   e == s[i]
        <5>1. u \in Seq(W) /\ e \in W
          BY <2>4, <4>1
        <5> HIDE DEF W, u, e
        <5>2. Elems(Append(u, e)) = Elems(u) \cup {e}
          BY <5>1, AppendElems
        <5>3. QED
          BY <5>2 DEF u, e
      <4>4. QED
        BY <2>4, <3>1, <3>3, <4>2, <4>3
    <3>4. QED
      BY <3>2, <3>3
  <2>6. w \in [0 .. i -> Seq(V \ S)] /\ w[0] = <<>> /\ w[i] = q
    <3>1. ASSUME NEW k \in 0 .. i  PROVE w[k] \in Seq(V \ S)
      <4>1. CASE k = i
        BY <2>5, <4>1
      <4>2. CASE k # i
        <5>1. k \in 0 .. i-1 /\ w[k] = v[k]
          BY <2>3, <4>2
        <5>2. QED
          BY <5>1
      <4>3. QED
        BY <4>1, <4>2
    <3>2. w[0] = v[0] /\ v[0] = <<>>
      BY <1>n, <1>4, <2>2 DEF Sifts
    <3>3. w[i] = q
      BY <1>n
    <3>4. QED
      BY <3>1, <3>2, <3>3
  <2>7. ASSUME NEW k \in 1 .. i
        PROVE  w[k] = IF s[k] \in S THEN w[k-1] ELSE Append(w[k-1], s[k])
    <3>1. k - 1 \in 0 .. i-1 /\ w[k-1] = v[k-1]
      BY <2>3
    <3>2. CASE k = i
      BY <2>6, <3>1, <3>2
    <3>3. CASE k # i
      <4>1. k \in 1 .. i-1 /\ w[k] = v[k]
        BY <2>3, <3>3
      <4>2. QED
        BY <2>2, <3>1, <4>1 DEF Sifts
    <3>4. QED
      BY <3>2, <3>3
  <2>8. Sifts(w, s, S, i)
    BY <2>6, <2>7 DEF Sifts
  <2>9. Fine(w, i)
    BY <2>5, <2>6, <2>8
  <2>10. w \in [0 .. i -> Seq(V \ S)]
    BY <2>6
  <2> HIDE DEF w, Fine
  <2>11. QED
    BY <1>2, <2>9, <2>10
<1>5. QED
  BY <1>3, <1>4

\* The elements of a sequence that are not in S.
LEMMA WithoutElems ==
  ASSUME NEW V, NEW s \in Seq(V), NEW S
  PROVE  Without(s, S) \in Seq(V \ S) /\ Elems(Without(s, S)) = Elems(s) \ S
<1> DEFINE h == Len(s)
           P(w) == w = [i \in 0 .. Len(s) |->
                          IF i = 0 THEN <<>>
                          ELSE IF s[i] \in S THEN w[i-1] ELSE Append(w[i-1], s[i])]
           L == CHOOSE w : P(w)
<1>0. h \in Nat /\ h \in 0 .. Len(s) /\ DOMAIN s = 1 .. h
  BY LenProperties
<1>1. PICK w \in [0 .. h -> Seq(V \ S)] :
         Sifts(w, s, S, h) /\ Elems(w[h]) = {s[i] : i \in 1 .. h} \ S
  <2> HIDE DEF h
  <2>1. h \in 0 .. Len(s)
    BY <1>0
  <2>2. CanSift(V, s, S, h)
    BY <2>1, Sifting
  <2>3. QED
    BY <2>2 DEF CanSift
<1>2. P(w)
  <2>1. ASSUME NEW i \in 0 .. h
        PROVE  w[i] = IF i = 0 THEN <<>>
                      ELSE IF s[i] \in S THEN w[i-1] ELSE Append(w[i-1], s[i])
    <3>1. CASE i = 0
      BY <1>1, <3>1 DEF Sifts
    <3>2. CASE i # 0
      <4>1. i \in 1 .. h
        BY <1>0, <3>2
      <4> HIDE DEF h
      <4>2. QED
        BY <1>1, <3>2, <4>1 DEF Sifts
    <3>3. QED
      BY <3>1, <3>2
  <2>2. QED
    BY <2>1
<1>3. P(L)
  <2> HIDE DEF P
  <2>1. QED
    BY <1>2, Zenon
<1>4. Without(s, S) = L[h]
  BY Zenon DEF Without
<1>5. \A i \in 0 .. h : L[i] = IF i = 0 THEN <<>>
                      ELSE IF s[i] \in S THEN L[i-1] ELSE Append(L[i-1], s[i])
  <2> HIDE DEF L
  <2>1. QED
    BY <1>3
<1> HIDE DEF L, P
<1>6. \A i \in 0 .. h : L[i] = w[i]
  <2> DEFINE T == {i \in 0 .. h : L[i] # w[i]}
  <2>1. SUFFICES ASSUME T # {}  PROVE FALSE
    OBVIOUS
  <2>2. PICK i \in T : \A j \in T : i <= j
    <3>1. T \in SUBSET Nat
      BY <1>0
    <3>2. QED
      BY <2>1, <3>1, Smallest
  <2>3. CASE i = 0
    <3>1. L[0] = <<>> /\ w[0] = <<>>
      BY <1>0, <1>1, <1>5 DEF Sifts
    <3>2. QED
      BY <2>2, <2>3, <3>1
  <2>4. CASE i # 0
    <3>1. i \in 1 .. h /\ i - 1 \in 0 .. h /\ ~(i <= i - 1)
      BY <1>0, <2>2, <2>4
    <3>2. L[i-1] = w[i-1]
      BY <2>2, <3>1
    <3>3. L[i] = IF s[i] \in S THEN L[i-1] ELSE Append(L[i-1], s[i])
      BY <1>5, <2>2, <2>4
    <3>4. w[i] = IF s[i] \in S THEN w[i-1] ELSE Append(w[i-1], s[i])
      BY <1>1, <3>1 DEF Sifts
    <3>5. QED
      BY <2>2, <3>2, <3>3, <3>4
  <2>5. QED
    BY <2>3, <2>4
<1>7. L[h] = w[h] /\ w[h] \in Seq(V \ S)
  BY <1>0, <1>6
<1>8. QED
  BY <1>0, <1>1, <1>4, <1>7 DEF Elems

\* The edges of a node, as a sequence, are edges that exist: those to its
\* neighbours.
LEMMA EdgesOf ==
  ASSUME LinksTypeOK, NEW t \in Node
  PROVE  AllEdges(t) \in Seq(Node) /\ Elems(AllEdges(t)) = Neighbours(t)
<1> DEFINE ring == <<e_parent[t], e_next[t], e_prev[t]>>
           s == e_children[t] \o ring
<1>1. /\ e_children[t] \in Seq(Node)
      /\ e_parent[t] \in MaybeNode /\ e_next[t] \in MaybeNode /\ e_prev[t] \in MaybeNode
  BY DEF LinksTypeOK
<1>2. e_children[t] \in Seq(MaybeNode)
  <2>1. \A i \in 1 .. Len(e_children[t]) : e_children[t][i] \in MaybeNode
    BY <1>1, ElementOfSeq DEF MaybeNode
  <2>2. /\ Len(e_children[t]) \in Nat
        /\ e_children[t] = [i \in 1 .. Len(e_children[t]) |-> e_children[t][i]]
    BY <1>1, LenProperties
  <2>3. QED
    BY <2>1, <2>2
<1>3. ring \in Seq(MaybeNode) /\ DOMAIN ring = 1 .. 3
  BY <1>1
<1>4. Elems(ring) = {e_parent[t], e_next[t], e_prev[t]}
  <2>1. ring[1] = e_parent[t] /\ ring[2] = e_next[t] /\ ring[3] = e_prev[t]
    OBVIOUS
  <2>2. Elems(ring) = {ring[i] : i \in 1 .. 3}
    BY <1>3 DEF Elems
  <2> HIDE DEF ring
  <2>3. {ring[i] : i \in 1 .. 3} = {ring[1], ring[2], ring[3]}
    <3>1. 1 .. 3 = {1, 2, 3}
      OBVIOUS
    <3>2. {ring[i] : i \in {1, 2, 3}} = {ring[1], ring[2], ring[3]}
      OBVIOUS
    <3>3. QED
      BY <3>1, <3>2
  <2>4. QED
    BY <2>1, <2>2, <2>3
<1>5. MaybeNode \ {None} = Node
  BY NAssumption DEF MaybeNode, None, Node
<1> HIDE DEF ring
<1>6. s \in Seq(MaybeNode) /\ Elems(s) = Elems(e_children[t]) \cup Elems(ring)
  BY <1>2, <1>3, ConcatElems
<1> HIDE DEF s
<1>7. /\ Without(s, {None}) \in Seq(MaybeNode \ {None})
      /\ Elems(Without(s, {None})) = Elems(s) \ {None}
  BY <1>6, WithoutElems
<1>8. AllEdges(t) = Without(s, {None})
  BY DEF AllEdges, s, ring
<1>9. Neighbours(t) = Elems(s) \ {None}
  <2>1. Children(t) = Elems(e_children[t])
    BY DEF Children, Elems
  <2>2. Neighbours(t) = (Children(t) \cup {e_parent[t], e_next[t], e_prev[t]}) \ {None}
    BY DEF Neighbours
  <2>3. QED
    BY <1>4, <1>6, <2>1, <2>2
<1>10. QED
  BY <1>5, <1>7, <1>8, <1>9

\* A search goes on with the nodes it knows of and has not seen yet.
LEMMA SearchGoesOn ==
  ASSUME NEW q \in Seq(Node), NEW more \in Seq(Node), NEW seen, q # <<>>
  PROVE  /\ Without(Tail(q) \o more, seen) \in Seq(Node)
         /\ Elems(Without(Tail(q) \o more, seen)) = (Elems(Tail(q)) \cup Elems(more)) \ seen
<1> DEFINE s == Tail(q) \o more
<1>1. Tail(q) \in Seq(Node)
  BY HeadTailProperties
<1>2. s \in Seq(Node) /\ Elems(s) = Elems(Tail(q)) \cup Elems(more)
  <2>1. \A u, v \in Seq(Node) : u \o v \in Seq(Node) /\ Elems(u \o v) = Elems(u) \cup Elems(v)
    BY ConcatElems
  <2>2. QED
    BY <1>1, <2>1
<1> HIDE DEF s
<1>3. Without(s, seen) \in Seq(Node \ seen) /\ Elems(Without(s, seen)) = Elems(s) \ seen
  BY <1>2, WithoutElems
<1> DEFINE r == Without(s, seen)
<1>4. r \in Seq(Node \ seen)
  BY <1>3
<1> HIDE DEF r
<1>5. r \in Seq(Node)
  <2>1. Len(r) \in Nat /\ r = [i \in 1 .. Len(r) |-> r[i]]
    BY <1>4, LenProperties
  <2>2. \A i \in 1 .. Len(r) : r[i] \in Node
    BY <1>4, ElementOfSeq
  <2>3. QED
    BY <2>1, <2>2
<1>6. QED
  BY <1>2, <1>3, <1>5 DEF r, s

=============================================================================
