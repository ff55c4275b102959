---------------------------- MODULE BackupProofs -----------------------------
(***************************************************************************)
(* Proofs about the points of modules Backup and Visualize, for every      *)
(* number of nodes, jobs, points and server threads.                       *)
(***************************************************************************)
EXTENDS Visualize, DataLemmas

-----------------------------------------------------------------------------
(***************************************************************************)
(* The inductive invariant                                                 *)
(***************************************************************************)
\* A worker that sends has made the point, and one that consumes has as many
\* requests in its queue as it still takes.
RoundState ==
  \A n \in Node :
    /\ pc[n] \in {"next", "prev"} => Known(n) # {} /\ made[n][WorkedOn(n)] > 0
    /\ pc[n] = "consume" <=> left[n] > 0
    /\ left[n] <= Len(queue[n])

\* An answered point that no race has lost is kept where the job is still known,
\* and at its own node while that lives and knows the job: nobody makes a job
\* known again there.
AckedState ==
  \A a \in Safe :
    /\ a[1] \in up => a[2][2] \in Known(a[1]) /\ a[2] \in Queued(a[1]) \cup backup[a[1]]
    /\ stage[a[2][1]][a[2][2]] # "absent"
    /\ a[2][1] \in up /\ a[2][2] \in Known(a[2][1]) => a[2][3] <= made[a[2][1]][a[2][2]]

BInv == BTypeOK /\ RoundState /\ AckedState


-----------------------------------------------------------------------------
(***************************************************************************)
(* What the steps read                                                     *)
(***************************************************************************)
LEMMA NodeFacts == /\ IsFiniteSet(Node) /\ Node \subseteq Int
                   /\ \A n \in Node : n \in Nat /\ n \in MaybeNode /\ n # None
BY NAssumption, FS_Interval DEF Node, MaybeNode, None

\* A node that knows a job works on one of them: the jobs it knows are
\* numbered without a gap.
LEMMA WorkedOnKnown ==
  ASSUME NEW n \in Node, Known(n) # {}
  PROVE  WorkedOn(n) \in Known(n)
<1> DEFINE K == Known(n)
<1>1. K \in SUBSET Nat /\ K \subseteq Job
  BY BackupAssumption DEF Known, Job
<1>2. IsFiniteSet(K)
  <2>1. J \in Int /\ 1 \in Int
    BY BackupAssumption
  <2>2. IsFiniteSet(1 .. J)
    BY <2>1, FS_Interval
  <2>3. QED
    BY <1>1, <2>2, FS_Subset DEF Job
<1>3. Cardinality(K) \in Nat \ {0}
  BY <1>2, FS_CardinalityType, FS_EmptySet
<1>4. n % Cardinality(K) \in Nat /\ n % Cardinality(K) < Cardinality(K)
  BY <1>3, NodeFacts
<1>5. \E j \in K : Cardinality({i \in K : i < j}) = n % Cardinality(K)
  BY <1>1, <1>2, <1>4, RankOnto
<1>6. QED
  BY <1>5 DEF WorkedOn

LEMMA KnownType == \A n \in Node : Known(n) \subseteq Job
BY DEF Known

\* The point that a sender sends.
LEMMA LatestPoint ==
  ASSUME BTypeOK, RoundState, NEW n \in Node, pc[n] \in {"next", "prev"}
  PROVE  /\ Latest(n) \in Point
         /\ Latest(n)[1] = n /\ Latest(n)[2] = WorkedOn(n)
         /\ Latest(n)[3] = made[n][WorkedOn(n)]
         /\ WorkedOn(n) \in Known(n)
<1>1. WorkedOn(n) \in Known(n) /\ made[n][WorkedOn(n)] > 0
  BY WorkedOnKnown DEF RoundState
<1>2. WorkedOn(n) \in Job
  BY <1>1, KnownType
<1>3. made[n][WorkedOn(n)] \in 1 .. MaxPoints
  BY <1>1, <1>2, BackupAssumption DEF BTypeOK
<1>4. QED
  BY <1>1, <1>2, <1>3 DEF Latest, Point

LEMMA QueueFacts ==
  ASSUME BTypeOK, NEW t \in Node
  PROVE  /\ queue[t] \in Seq(Point) /\ Len(queue[t]) \in Nat
         /\ Queued(t) = Elems(queue[t])
         /\ left[t] \in Nat
BY LenProperties DEF BTypeOK, Queued, Elems

LEMMA AckedType ==
  ASSUME BTypeOK, NEW a \in Safe
  PROVE  /\ a[1] \in Node /\ a[2] \in Point
         /\ a[2][1] \in Node /\ a[2][2] \in Job /\ a[2][3] \in Nat
         /\ made[a[2][1]][a[2][2]] \in Nat
<1>1. a[1] \in Node /\ a[2] \in Point
  BY DEF BTypeOK, Safe
<1>2. a[2][1] \in Node /\ a[2][2] \in Job /\ a[2][3] \in 1 .. MaxPoints
  BY <1>1 DEF Point
<1>3. made[a[2][1]][a[2][2]] \in 0 .. MaxPoints
  BY <1>2 DEF BTypeOK
<1>4. QED
  BY <1>1, <1>2, <1>3, BackupAssumption

\* The first request of the queue of a node that consumes.
LEMMA HeadPoint ==
  ASSUME BTypeOK, RoundState, NEW n \in Node, pc[n] = "consume"
  PROVE  /\ Head(queue[n]) \in Point /\ Tail(queue[n]) \in Seq(Point)
         /\ Len(Tail(queue[n])) = Len(queue[n]) - 1
         /\ left[n] - 1 \in Nat /\ left[n] - 1 <= Len(Tail(queue[n]))
         /\ Queued(n) = {Head(queue[n])} \cup Elems(Tail(queue[n]))
<1>1. queue[n] \in Seq(Point) /\ left[n] \in Nat /\ left[n] > 0
      /\ left[n] <= Len(queue[n]) /\ Queued(n) = Elems(queue[n])
  BY QueueFacts DEF RoundState
<1>2. queue[n] # <<>>
  BY <1>1, EmptySeq
<1>3. QED
  BY <1>1, <1>2, HeadTailProperties, TailElems

-----------------------------------------------------------------------------
(***************************************************************************)
(* Every step keeps the invariant                                          *)
(***************************************************************************)
LEMMA BInitInv == BInit => BInv
<1> SUFFICES ASSUME BInit  PROVE BInv
  OBVIOUS
<1>1. \A n \in Node : (n + 1) % N \in Node /\ (n - 1) % N \in Node
  BY NAssumption DEF Node
<1>2. LinksTypeOK
  BY <1>1 DEF BInit, LinksTypeOK, MaybeNode
<1>3. BTypeOK
  BY <1>2, BackupAssumption DEF BInit, BTypeOK
<1>4. RoundState
  BY DEF BInit, RoundState
<1>5. AckedState
  BY DEF BInit, AckedState, Safe
<1>6. QED
  BY <1>3, <1>4, <1>5 DEF BInv


\* The end of a turn: the rest of the round is len requests long.
LEMMA TakeState ==
  ASSUME BTypeOK, NEW n \in Node, NEW len \in Nat, Take(n, len)
  PROVE  /\ pc' \in [Node -> {"loop", "next", "prev", "consume"}]
         /\ left' \in [Node -> Nat]
         /\ left'[n] = len
         /\ pc'[n] = IF len = 0 THEN "loop" ELSE "consume"
         /\ \A m \in Node \ {n} : pc'[m] = pc[m] /\ left'[m] = left[m]
BY DEF Take, BTypeOK

LEMMA WorkInv ==
  ASSUME BInv, NEW n \in Node, Work(n)
  PROVE  BInv'
<1> USE DEF BInv, net, jobdata, links, history, Safe
<1>a. /\ UNCHANGED <<e_parent, e_prev, e_next, e_children, up, WAIT>>
      /\ UNCHANGED <<stage, backup, queue, waiting, acked, raced>>
      /\ \A m \in Node : Known(m)' = Known(m) /\ Queued(m)' = Queued(m)
                         /\ WorkedOn(m)' = WorkedOn(m)
  BY DEF Work, Known, Queued, WorkedOn
<1>1. CASE Known(n) # {} /\ made[n][WorkedOn(n)] < MaxPoints
  <2> DEFINE w == WorkedOn(n)
  <2>1. w \in Known(n) /\ w \in Job
    BY <1>1, WorkedOnKnown, KnownType
  <2>2. /\ made' = [made EXCEPT ![n][w] = @ + 1]
        /\ pc' = [pc EXCEPT ![n] = "next"] /\ left' = left /\ pc[n] = "loop"
    BY <1>1 DEF Work
  <2>3. /\ made \in [Node -> [Job -> 0 .. MaxPoints]]
        /\ made[n][w] \in 0 .. MaxPoints /\ made[n][w] < MaxPoints
    BY <1>1, <2>1 DEF BTypeOK
  <2>4. made' \in [Node -> [Job -> 0 .. MaxPoints]]
    BY <2>1, <2>2, <2>3, BackupAssumption
  <2>5. \A m \in Node, j \in Job : made'[m][j] >= made[m][j]
    BY <2>1, <2>2, <2>3, BackupAssumption DEF BTypeOK
  <2>6. BTypeOK'
    BY <1>a, <2>2, <2>4 DEF BTypeOK, LinksTypeOK
  <2>7. RoundState'
    <3>1. made'[n][w] > 0
      BY <2>1, <2>2, <2>3
    <3>2. ASSUME NEW m \in Node \ {n}  PROVE made'[m] = made[m]
      BY <2>2, <2>3
    <3>3. QED
      BY <1>1, <1>a, <2>2, <3>1, <3>2 DEF RoundState, BTypeOK
  <2>8. AckedState'
    <3>1. ASSUME NEW a \in Safe, a[2][3] <= made[a[2][1]][a[2][2]]
          PROVE a[2][3] <= made'[a[2][1]][a[2][2]]
      <4>1. made'[a[2][1]][a[2][2]] \in Int
        BY AckedType, <2>4, BackupAssumption
      <4>2. QED
        BY <4>1, <3>1, <2>5, AckedType
    <3>2. QED
      BY <1>a, <3>1, AckedType DEF AckedState
  <2>9. QED
    BY <2>6, <2>7, <2>8
<1>2. CASE ~(Known(n) # {} /\ made[n][WorkedOn(n)] < MaxPoints)
  <2>1. Take(n, Len(queue[n])) /\ made' = made /\ Len(queue[n]) \in Nat
    BY <1>2, QueueFacts DEF Work
  <2>2. BTypeOK'
    BY <1>a, <2>1, TakeState DEF BTypeOK, LinksTypeOK
  <2>3. RoundState'
    BY <1>a, <2>1, TakeState DEF RoundState
  <2>4. AckedState'
    BY <1>a, <2>1, AckedType DEF AckedState
  <2>5. QED
    BY <2>2, <2>3, <2>4
<1>3. QED
  BY <1>1, <1>2


\* A request that is pushed to t.
LEMMA PushQueue ==
  ASSUME BTypeOK, RoundState, NEW n \in Node, pc[n] \in {"next", "prev"},
         NEW t \in Node, Push(n, t)
  PROVE  /\ queue' \in [Node -> Seq(Point)]
         /\ \A m \in Node : Len(queue[m]) <= Len(queue'[m])
         /\ \A m \in Node : Queued(m) \subseteq Queued(m)'
         /\ Latest(n) \in Queued(t)'
<1>1. Latest(n) \in Point
  BY LatestPoint
<1>2. queue[t] \in Seq(Point) /\ Len(queue[t]) \in Nat
  BY QueueFacts
<1>3. /\ queue' = [queue EXCEPT ![t] = Append(queue[t], Latest(n))]
      /\ queue \in [Node -> Seq(Point)]
  BY DEF Push, BTypeOK
<1>4. /\ Append(queue[t], Latest(n)) \in Seq(Point)
      /\ Len(Append(queue[t], Latest(n))) = Len(queue[t]) + 1
  BY <1>1, <1>2, AppendProperties
<1>5. Queued(t)' = Queued(t) \cup {Latest(n)}
  <2>1. queue'[t] = Append(queue[t], Latest(n))
    BY <1>3
  <2>2. Queued(t)' = Elems(queue'[t]) /\ Queued(t) = Elems(queue[t])
    BY DEF Queued, Elems
  <2>3. QED
    BY <1>1, <1>2, <2>1, <2>2, AppendElems
<1>6. ASSUME NEW m \in Node, m # t  PROVE queue'[m] = queue[m]
  BY <1>3, <1>6
<1>7. \A m \in Node : Len(queue[m]) \in Nat
  BY QueueFacts
<1>8. queue' \in [Node -> Seq(Point)]
  BY <1>3, <1>4
<1>9. ASSUME NEW m \in Node
      PROVE  Len(queue[m]) <= Len(queue'[m]) /\ Queued(m) \subseteq Queued(m)'
  <2>1. CASE m = t
    BY <1>2, <1>3, <1>4, <1>5, <2>1
  <2>2. CASE m # t
    BY <1>6, <1>7, <2>2 DEF Queued
  <2>3. QED
    BY <2>1, <2>2
<1>10. QED
  BY <1>5, <1>8, <1>9

LEMMA SendInv ==
  ASSUME BInv, NEW n \in up, Send(n)
  PROVE  BInv'
<1> USE DEF BInv, net, jobdata, links, history, Safe
<1>a. n \in Node /\ pc[n] \in {"next", "prev"}
  BY DEF Send, BTypeOK
<1>b. /\ UNCHANGED <<e_parent, e_prev, e_next, e_children, up, WAIT>>
      /\ UNCHANGED <<stage, made, backup, waiting>>
      /\ \A m \in Node : Known(m)' = Known(m) /\ WorkedOn(m)' = WorkedOn(m)
  BY DEF Send, Known, WorkedOn
<1>1. /\ queue' \in [Node -> Seq(Point)]
      /\ \A m \in Node : Len(queue[m]) <= Len(queue'[m])
      /\ \A m \in Node : Queued(m) \subseteq Queued(m)'
      /\ acked' \subseteq Node \X Point /\ raced' \subseteq acked'
      /\ \A a \in Safe' \ Safe :
            \E t \in Node : /\ a = <<t, Latest(n)>> /\ WorkedOn(n) \in Known(t)
                            /\ Latest(n) \in Queued(t)'
  <2>1. CASE UNCHANGED queue /\ acked' \subseteq Node \X Point /\ raced' \subseteq acked'
             /\ Safe' = Safe
    BY <2>1, QueueFacts DEF Queued, BTypeOK
  <2>2. CASE \E t \in up : Push(n, t)
    <3>1. PICK t \in up : Push(n, t)
      BY <2>2
    <3>2. t \in Node /\ Latest(n) \in Point
      BY <1>a, LatestPoint DEF BTypeOK
    <3>3. /\ acked' = acked \cup Answered(n, t) /\ raced' = raced \ Answered(n, t)
          /\ \/ Answered(n, t) = {}
             \/ Answered(n, t) = {<<t, Latest(n)>>} /\ WorkedOn(n) \in Known(t)
      BY <3>1 DEF Push, Answered
    <3>4. acked' \subseteq Node \X Point /\ raced' \subseteq acked'
      BY <3>2, <3>3 DEF BTypeOK
    <3>5. /\ queue' \in [Node -> Seq(Point)]
          /\ \A m \in Node : Len(queue[m]) <= Len(queue'[m])
          /\ \A m \in Node : Queued(m) \subseteq Queued(m)'
          /\ Latest(n) \in Queued(t)'
      BY <1>a, <3>1, <3>2, PushQueue
    <3>6. \A a \in Safe' \ Safe : a = <<t, Latest(n)>> /\ WorkedOn(n) \in Known(t)
      BY <3>3
    <3>7. QED
      BY <3>2, <3>4, <3>5, <3>6
  <2>3. ASSUME NEW t \in up, PushLost(n, t)
        PROVE  acked' \subseteq Node \X Point /\ raced' \subseteq acked' /\ Safe' = Safe
    <3>1. t \in Node /\ Latest(n) \in Point
      BY <1>a, LatestPoint DEF BTypeOK
    <3>2. Answered(n, t) \subseteq Node \X Point
      BY <3>1 DEF Answered
    <3>3. /\ acked' = acked \cup Answered(n, t)
          /\ raced' = raced \cup (Answered(n, t) \ acked)
      BY <2>3 DEF PushLost
    <3>4. QED
      BY <3>2, <3>3 DEF BTypeOK
  <2>4. CASE UNCHANGED <<queue, history>>
    BY <2>4, QueueFacts DEF Queued, BTypeOK
  <2>5. CASE Target(n) \in up
    BY <2>1, <2>2, <2>3, <2>5 DEF Send, PushLost
  <2>6. CASE Target(n) \notin up
    BY <2>4, <2>6 DEF Send
  <2>7. QED
    BY <2>5, <2>6
<1>2. \/ pc' = [pc EXCEPT ![n] = "prev"] /\ left' = left
      \/ Take(n, Len(queue'[n])) /\ Len(queue'[n]) \in Nat
  BY <1>a, <1>1, LenProperties DEF Send
<1>3. BTypeOK'
  BY <1>a, <1>b, <1>1, <1>2, TakeState DEF BTypeOK, LinksTypeOK
<1>4. RoundState'
  <2>q. \A m \in Node : left[m] \in Nat /\ Len(queue[m]) \in Nat /\ Len(queue'[m]) \in Nat
    BY <1>1, QueueFacts, LenProperties
  <2>1. CASE pc' = [pc EXCEPT ![n] = "prev"] /\ left' = left
    BY <1>a, <1>b, <1>1, <2>1, <2>q DEF RoundState, BTypeOK
  <2>2. CASE Take(n, Len(queue'[n])) /\ Len(queue'[n]) \in Nat
    <3>1. /\ left'[n] = Len(queue'[n])
          /\ pc'[n] = IF left'[n] = 0 THEN "loop" ELSE "consume"
          /\ \A m \in Node \ {n} : pc'[m] = pc[m] /\ left'[m] = left[m]
      BY <1>a, <2>2, TakeState
    <3>2. ASSUME NEW m \in Node
          PROVE  /\ pc'[m] \in {"next", "prev"} => pc[m] \in {"next", "prev"}
                 /\ pc'[m] = "consume" <=> left'[m] > 0
                 /\ left'[m] <= Len(queue'[m])
      <4>1. CASE m = n
        BY <2>q, <3>1, <4>1
      <4>2. CASE m # n
        BY <1>1, <2>q, <3>1, <4>2 DEF RoundState
      <4>3. QED
        BY <4>1, <4>2
    <3>3. QED
      BY <1>b, <3>2 DEF RoundState
  <2>3. QED
    BY <1>2, <2>1, <2>2
<1>5. AckedState'
  <2>1. ASSUME NEW a \in Safe
        PROVE  /\ a[1] \in up => a[2][2] \in Known(a[1])' /\ a[2] \in Queued(a[1])' \cup backup'[a[1]]
               /\ stage'[a[2][1]][a[2][2]] # "absent"
               /\ a[2][1] \in up' /\ a[2][2] \in Known(a[2][1])'
                    => a[2][3] <= made'[a[2][1]][a[2][2]]
    BY <1>b, <1>1, AckedType DEF AckedState
  <2>2. ASSUME NEW a \in Safe' \ Safe
        PROVE  /\ a[2][2] \in Known(a[1])' /\ a[2] \in Queued(a[1])'
               /\ stage'[a[2][1]][a[2][2]] # "absent"
               /\ a[2][3] <= made'[a[2][1]][a[2][2]]
    <3>1. PICK t \in Node : /\ a = <<t, Latest(n)>> /\ WorkedOn(n) \in Known(t)
                            /\ Latest(n) \in Queued(t)'
      BY <1>1
    <3>2. /\ Latest(n)[1] = n /\ Latest(n)[2] = WorkedOn(n)
          /\ Latest(n)[3] = made[n][WorkedOn(n)] /\ WorkedOn(n) \in Known(n)
          /\ Latest(n) \in Point
      BY <1>a, LatestPoint
    <3>3. stage[n][WorkedOn(n)] = "known"
      BY <3>2 DEF Known
    <3>4. made[n][WorkedOn(n)] \in Int
      BY <1>a, <3>2, KnownType, BackupAssumption DEF BTypeOK
    <3>5. QED
      BY <1>b, <3>1, <3>2, <3>3, <3>4
  <2>3. QED
    BY <1>b, <2>1, <2>2 DEF AckedState
<1>6. QED
  BY <1>3, <1>4, <1>5

LEMMA ConsumeInv ==
  ASSUME BInv, NEW n \in Node, Consume(n)
  PROVE  BInv'
<1> USE DEF BInv, net, jobdata, links, history, Safe
<1> DEFINE p == Head(queue[n])
<1>a. /\ UNCHANGED <<e_parent, e_prev, e_next, e_children, up, WAIT>>
      /\ UNCHANGED <<stage, made, waiting, acked, raced>>
      /\ pc[n] = "consume"
      /\ \A m \in Node : Known(m)' = Known(m) /\ WorkedOn(m)' = WorkedOn(m)
  BY DEF Consume, Known, WorkedOn
<1>b. /\ p \in Point /\ Tail(queue[n]) \in Seq(Point)
      /\ Len(Tail(queue[n])) = Len(queue[n]) - 1
      /\ left[n] - 1 \in Nat /\ left[n] - 1 <= Len(Tail(queue[n]))
      /\ Queued(n) = {p} \cup Elems(Tail(queue[n]))
  BY <1>a, HeadPoint
<1>1. /\ queue' = [queue EXCEPT ![n] = Tail(queue[n])]
      /\ queue' \in [Node -> Seq(Point)]
      /\ Queued(n)' = Elems(Tail(queue[n]))
      /\ \A m \in Node \ {n} : queue'[m] = queue[m] /\ Queued(m)' = Queued(m)
  BY <1>b DEF Consume, BTypeOK, Queued, Elems
<1>2. /\ backup' \in [Node -> SUBSET Point]
      /\ \A m \in Node : backup[m] \subseteq backup'[m]
      /\ p[2] \in Known(n) => p \in backup'[n]
  BY <1>b DEF Consume, BTypeOK
<1>3. /\ pc' \in [Node -> {"loop", "next", "prev", "consume"}]
      /\ left' \in [Node -> Nat]
      /\ left'[n] = left[n] - 1
      /\ pc'[n] = IF left'[n] = 0 THEN "loop" ELSE "consume"
      /\ \A m \in Node \ {n} : pc'[m] = pc[m] /\ left'[m] = left[m]
  BY <1>b, TakeState DEF Consume
<1>4. BTypeOK'
  BY <1>a, <1>1, <1>2, <1>3 DEF BTypeOK, LinksTypeOK
<1>5. RoundState'
  BY <1>a, <1>b, <1>1, <1>3 DEF RoundState, BTypeOK
<1>6. AckedState'
  <2>1. ASSUME NEW a \in Safe, a[1] \in up
        PROVE  a[2][2] \in Known(a[1])' /\ a[2] \in Queued(a[1])' \cup backup'[a[1]]
    <3>1. /\ a[2][2] \in Known(a[1]) /\ a[2] \in Queued(a[1]) \cup backup[a[1]]
          /\ a[1] \in Node
      BY <2>1, AckedType DEF AckedState
    <3>2. CASE a[1] # n
      BY <1>a, <1>1, <1>2, <3>1, <3>2
    <3>3. CASE a[1] = n
      BY <1>a, <1>b, <1>1, <1>2, <3>1, <3>3
    <3>4. QED
      BY <3>2, <3>3
  <2>2. QED
    BY <1>a, <2>1, AckedType DEF AckedState
<1>7. QED
  BY <1>4, <1>5, <1>6


\* Steps that move no points.
LEMMA PointsKept ==
  ASSUME BInv, UNCHANGED <<pc, stage, made, queue, backup, left, acked, raced>>, up' \subseteq up
  PROVE  RoundState' /\ AckedState'
<1>1. ASSUME NEW m
      PROVE  Known(m)' = Known(m) /\ WorkedOn(m)' = WorkedOn(m) /\ Queued(m)' = Queued(m)
  BY DEF Known, WorkedOn, Queued
<1>2. RoundState'
  BY <1>1 DEF BInv, RoundState
<1>3. AckedState'
  BY <1>1 DEF BInv, AckedState, Safe
<1>4. QED
  BY <1>2, <1>3

LEMMA WaitInv ==
  ASSUME BInv, NEW n \in Node, Wait(n)
  PROVE  BInv'
<1> USE DEF BInv, net, jobdata, links, history, Safe
<1>1. waiting[n] \in 0 .. Pool /\ waiting[n] < Pool /\ Pool \in Nat
  BY BackupAssumption DEF Wait, HasThread, BTypeOK
<1>2. BTypeOK'
  BY <1>1 DEF Wait, BTypeOK, LinksTypeOK
<1>3. RoundState' /\ AckedState'
  BY PointsKept DEF Wait
<1>4. QED
  BY <1>2, <1>3

\* A handler that has job_mutex keeps threads and locks.
LEMMA LocksKeep ==
  ASSUME BTypeOK, NEW t \in Node, NEW busy \in {0, 1}, Locks(t, busy)
  PROVE  /\ UNCHANGED <<e_parent, e_prev, e_next, e_children, up, WAIT, pc, queue, left>>
         /\ \A m \in Node : Queued(m)' = Queued(m)
         /\ waiting' \in [Node -> 0 .. Pool]
         /\ t \in up /\ pc[t] = "loop"
<1>1. waiting[t] \in 0 .. Pool /\ Pool \in Nat
  BY BackupAssumption DEF BTypeOK
<1>2. waiting' \in [Node -> 0 .. Pool]
  <2>1. CASE waiting[t] > busy
    <3>1. waiting[t] - 1 \in 0 .. Pool
      BY <1>1, <2>1
    <3>2. QED
      BY <2>1, <3>1 DEF Locks, BTypeOK
  <2>2. CASE ~(waiting[t] > busy)
    BY <2>2 DEF Locks, BTypeOK
  <2>3. QED
    BY <2>1, <2>2
<1>3. QED
  BY <1>2 DEF Locks, InRound, net, links, Queued

LEMMA ServeInv ==
  ASSUME BInv, NEW n \in Node, NEW busy \in {0, 1}, Serve(n, busy)
  PROVE  BInv'
<1> USE DEF BInv
<1>a. /\ UNCHANGED <<e_parent, e_prev, e_next, e_children, up, WAIT, pc, queue, left>>
      /\ \A m \in Node : Queued(m)' = Queued(m)
      /\ waiting' \in [Node -> 0 .. Pool]
      /\ n \in up /\ pc[n] = "loop"
  BY LocksKeep DEF Serve
<1>1. CASE Read
  <2>1. BTypeOK'
    BY <1>a, <1>1 DEF Read, jobdata, history, BTypeOK, LinksTypeOK
  <2>2. RoundState' /\ AckedState'
    BY <1>a, <1>1, PointsKept DEF Read, jobdata, history
  <2>3. QED
    BY <2>1, <2>2
<1>2. ASSUME NEW j \in Job, AddJob(n, j)
      PROVE  BInv'
  <2>1. /\ stage' = [stage EXCEPT ![n][j] = "known"] /\ stage[n][j] = "absent"
        /\ UNCHANGED <<made, backup, acked, raced>>
        /\ stage \in [Node -> [Job -> {"absent", "known", "removed"}]]
    BY <1>2 DEF AddJob, history, BTypeOK
  <2>2. stage' \in [Node -> [Job -> {"absent", "known", "removed"}]]
    BY <2>1
  <2>3. BTypeOK'
    BY <1>a, <2>1, <2>2 DEF BTypeOK, LinksTypeOK
  <2>4. ASSUME NEW m \in Node \ {n}  PROVE Known(m)' = Known(m) /\ WorkedOn(m)' = WorkedOn(m)
    BY <2>1 DEF Known, WorkedOn
  <2>5. RoundState'
    BY <1>a, <2>1, <2>4 DEF RoundState
  <2>6. ASSUME NEW m \in Node, NEW i \in Job
        PROVE  /\ stage[m][i] # "absent" => stage'[m][i] = stage[m][i]
               /\ i \in Known(m) => i \in Known(m)'
               /\ i \in Known(m)' /\ stage[m][i] # "absent" => i \in Known(m)
    BY <2>1 DEF Known
  <2>7. AckedState'
    BY <1>a, <2>1, <2>6, AckedType DEF AckedState, Safe
  <2>8. QED
    BY <2>3, <2>5, <2>7
<1>3. ASSUME NEW j \in Job, RemoveJob(n, j)
      PROVE  BInv'
  <2>1. /\ stage' = [stage EXCEPT ![n][j] = "removed"]
        /\ made' = [made EXCEPT ![n][j] = 0]
        /\ backup' = [backup EXCEPT ![n] = {p \in @ : p[2] # j}]
        /\ acked' = acked \ AboutJob(n, j) /\ raced' = raced \ AboutJob(n, j)
        /\ stage \in [Node -> [Job -> {"absent", "known", "removed"}]]
        /\ made \in [Node -> [Job -> 0 .. MaxPoints]]
        /\ backup \in [Node -> SUBSET Point]
    BY <1>3 DEF RemoveJob, BTypeOK
  <2>2. /\ stage' \in [Node -> [Job -> {"absent", "known", "removed"}]]
        /\ made' \in [Node -> [Job -> 0 .. MaxPoints]]
        /\ backup' \in [Node -> SUBSET Point]
        /\ acked' \subseteq acked /\ raced' \subseteq acked'
        /\ \A a \in Safe' : a[1] # n \/ a[2][2] # j
        /\ Safe' \subseteq Safe
    <3>1. acked' \subseteq acked /\ raced' \subseteq acked' /\ Safe' \subseteq Safe
      BY <2>1 DEF BTypeOK, Safe
    <3>2. \A a \in Safe' : a[1] # n \/ a[2][2] # j
      BY <2>1 DEF BTypeOK, Safe, AboutJob
    <3>3. QED
      BY <2>1, <3>1, <3>2, BackupAssumption
  <2>3. BTypeOK'
    BY <1>a, <2>2 DEF BTypeOK, LinksTypeOK
  <2>4. ASSUME NEW m \in Node \ {n}
        PROVE /\ Known(m)' = Known(m) /\ WorkedOn(m)' = WorkedOn(m)
              /\ made'[m] = made[m] /\ backup'[m] = backup[m]
    BY <2>1 DEF Known, WorkedOn
  <2>5. RoundState'
    BY <1>a, <2>4 DEF RoundState
  <2>6. /\ Known(n)' = Known(n) \ {j}
        /\ \A i \in Job \ {j} : made'[n][i] = made[n][i]
        /\ backup'[n] = {p \in backup[n] : p[2] # j}
        /\ \A m \in Node, i \in Job : stage[m][i] # "absent" => stage'[m][i] # "absent"
    BY <2>1 DEF Known
  <2>7. ASSUME NEW a \in Safe, a[1] # n \/ a[2][2] # j, a[1] \in up
        PROVE  a[2][2] \in Known(a[1])' /\ a[2] \in Queued(a[1])' \cup backup'[a[1]]
    <3>1. /\ a[1] \in Node /\ a[2][2] \in Known(a[1])
          /\ a[2] \in Queued(a[1]) \cup backup[a[1]]
      BY <2>7, AckedType DEF AckedState
    <3>2. QED
      BY <1>a, <2>4, <2>6, <2>7, <3>1
  <2>8. ASSUME NEW a \in Safe, a[2][1] \in up, a[2][2] \in Known(a[2][1])'
        PROVE  a[2][3] <= made'[a[2][1]][a[2][2]]
    <3>1. a[2][1] \in Node /\ a[2][2] \in Job
      BY AckedType
    <3>2. a[2][2] \in Known(a[2][1]) /\ made'[a[2][1]][a[2][2]] = made[a[2][1]][a[2][2]]
      BY <2>4, <2>6, <2>8, <3>1
    <3>3. QED
      BY <2>8, <3>2 DEF AckedState
  <2>9. AckedState'
    BY <1>a, <2>2, <2>6, <2>7, <2>8, AckedType DEF AckedState
  <2>10. QED
    BY <2>3, <2>5, <2>9
<1>4. QED
  BY <1>1, <1>2, <1>3 DEF Serve

LEMMA BNextInv ==
  ASSUME BInv, [BNext]_bvars
  PROVE  BInv'
<1>1. ASSUME NEW n \in Node, WorkerRound(n)
      PROVE  BInv'
  BY <1>1, WorkInv, SendInv, ConsumeInv DEF WorkerRound
<1>2. CASE UNCHANGED bvars
  <2>1. BTypeOK'
    BY <1>2 DEF BInv, BTypeOK, LinksTypeOK, bvars, net, jobdata, links, history
  <2>2. RoundState' /\ AckedState'
    BY <1>2, PointsKept DEF bvars, net, jobdata, history
  <2>3. QED
    BY <2>1, <2>2 DEF BInv
<1>3. QED
  BY <1>1, <1>2, WaitInv, ServeInv DEF BNext

-----------------------------------------------------------------------------
\* Points, queues, backups and waiting handlers keep their types; no node has
\* more waiting handlers than server threads.
THEOREM BackupTypeCorrect == BSpec => []BTypeOK
<1>1. BInv => BTypeOK
  BY DEF BInv
<1>2. QED
  BY <1>1, BInitInv, BNextInv, PTL DEF BSpec

\* A node keeps each point it has answered and not lost in the race for its queue,
\* in that queue or in the backup of the job, as long as the job is not removed
\* there (node.cpp:410, node.hpp:378-391).
THEOREM BackupKept == BSpec => []NoBackupLost
<1>1. BInv => NoBackupLost
  BY DEF BInv, AckedState, NoBackupLost
<1>2. QED
  BY <1>1, BInitInv, BNextInv, PTL DEF BSpec


-----------------------------------------------------------------------------
(***************************************************************************)
(* The same with crashes, resets and searches (module Visualize)           *)
(***************************************************************************)
\* A search holds a thread of its living node, and no more processes are down
\* than may crash.
IsSearch(v) ==
  /\ v = [at |-> v.at, job |-> v.job, queue |-> v.queue, visited |-> v.visited]
  /\ v.at \in MaybeNode /\ v.job \in 0 .. J

VizState ==
  /\ IsSearch(viz)
  /\ viz.at # None => viz.at \in up /\ waiting[viz.at] > 0
  /\ watched \subseteq Node \X Point
  /\ drawn \in BOOLEAN
  /\ Cardinality(Node \ up) <= MaxCrashes

VInv == BInv /\ VizState

LEMMA CrashInv ==
  ASSUME BInv, NEW n \in Node, Crash(n)
  PROVE  BInv'
<1> USE DEF BInv, links, history, Safe
<1>a. /\ UNCHANGED <<e_parent, e_prev, e_next, e_children, stage, acked, raced>>
      /\ up' = up \ {n}
      /\ \A m \in Node \ {n} : /\ pc'[m] = pc[m] /\ made'[m] = made[m]
                               /\ queue'[m] = queue[m] /\ backup'[m] = backup[m]
                               /\ left'[m] = left[m]
      /\ pc'[n] = "loop" /\ queue'[n] = <<>> /\ left'[n] = 0
  BY DEF Crash, BTypeOK
<1>b. ASSUME NEW m
      PROVE  /\ Known(m)' = Known(m) /\ WorkedOn(m)' = WorkedOn(m)
             /\ m \in Node \ {n} => Queued(m)' = Queued(m)
  BY <1>a DEF Known, WorkedOn, Queued
<1>1. BTypeOK'
  BY BackupAssumption DEF Crash, BTypeOK, LinksTypeOK
<1>2. RoundState'
  BY <1>a, <1>b, EmptySeq DEF RoundState
<1>3. AckedState'
  BY <1>a, <1>b, AckedType DEF AckedState
<1>4. QED
  BY <1>1, <1>2, <1>3

LEMMA RelinkInv ==
  ASSUME BInv, NEW n \in Node, ResetAll(n) \/ JoinAgain(n)
  PROVE  BInv'
<1> USE DEF BInv
<1>1. RoundState' /\ AckedState'
  BY PointsKept DEF ResetAll, JoinAgain, jobdata, history
<1>2. LinksTypeOK'
  <2>1. CASE ResetAll(n)
    BY <2>1 DEF ResetAll, links, BTypeOK, LinksTypeOK
  <2>2. CASE JoinAgain(n)
    <3>1. n \in MaybeNode
      BY NodeFacts
    <3>2. CASE e_next' = [e_next EXCEPT ![n] = n] /\ e_prev' = [e_prev EXCEPT ![n] = n]
      BY <2>2, <3>1, <3>2 DEF JoinAgain, BTypeOK, LinksTypeOK
    <3>3. ASSUME NEW m \in up \ WAIT,
                 e_next' = [e_next EXCEPT ![m] = n, ![n] = e_next[m]],
                 e_prev' = [e_prev EXCEPT ![e_next[m]] = n, ![n] = m]
          PROVE  LinksTypeOK'
      <4>1. m \in Node /\ m \in MaybeNode /\ e_next[m] \in MaybeNode
        BY NodeFacts DEF BTypeOK, LinksTypeOK
      <4>2. QED
        BY <2>2, <3>1, <3>3, <4>1 DEF JoinAgain, BTypeOK, LinksTypeOK
    <3>4. QED
      BY <2>2, <3>2, <3>3 DEF JoinAgain
  <2>3. QED
    BY <2>1, <2>2
<1>3. BTypeOK'
  BY <1>2 DEF ResetAll, JoinAgain, jobdata, history, BTypeOK
<1>4. QED
  BY <1>1, <1>3

\* The handler of a search takes a thread and gives it back.
LEMMA SearchInv ==
  ASSUME BInv, VizState, \/ \E t \in Node, j \in Job : Visualize(t, j)
                         \/ Visit \/ Answer
  PROVE  BInv'
<1> USE DEF BInv, net, jobdata, links, history, Safe
<1>1. CASE Visit
  BY <1>1, BNextInv DEF Visit
<1>2. CASE Answer \/ \E t \in Node, j \in Job : Visualize(t, j)
  <2>1. RoundState' /\ AckedState'
    BY <1>2, PointsKept DEF Answer, Visualize
  <2>2. waiting' \in [Node -> 0 .. Pool]
    <3>1. CASE Answer
      <4>1. viz.at \in Node /\ waiting[viz.at] > 0
        BY <3>1 DEF Answer, Searching, VizState, BTypeOK
      <4>2. waiting[viz.at] - 1 \in 0 .. Pool
        BY <4>1, BackupAssumption DEF BTypeOK
      <4>3. QED
        BY <3>1, <4>1, <4>2 DEF Answer, BTypeOK
    <3>2. ASSUME NEW t \in Node, NEW j \in Job, Visualize(t, j)
          PROVE  waiting' \in [Node -> 0 .. Pool]
      <4>1. waiting[t] + 1 \in 0 .. Pool
        BY <3>2, BackupAssumption DEF Visualize, HasThread, BTypeOK
      <4>2. QED
        BY <3>2, <4>1 DEF Visualize, BTypeOK
    <3>3. QED
      BY <1>2, <3>1, <3>2
  <2>3. BTypeOK'
    BY <1>2, <2>2 DEF Answer, Visualize, BTypeOK, LinksTypeOK
  <2>4. QED
    BY <2>1, <2>3
<1>3. QED
  BY <1>1, <1>2


\* The search itself stays as it is, its node alive and its thread held.
LEMMA VizKept ==
  ASSUME BTypeOK, VizState, UNCHANGED <<viz, watched, drawn, up>>,
         viz.at # None => waiting'[viz.at] > 0
  PROVE  VizState'
BY DEF VizState

LEMMA NoSearchIsSearch == IsSearch(NoSearch)
BY BackupAssumption DEF IsSearch, NoSearch, MaybeNode

LEMMA VInitInv == VInit => VInv
<1> SUFFICES ASSUME VInit  PROVE VInv
  OBVIOUS
<1>1. BInv
  BY BInitInv DEF VInit
<1>2. Node \ up = {} /\ Cardinality({}) = 0
  BY FS_EmptySet DEF VInit, BInit
<1>3. VizState
  <2>1. viz.at = None
    BY DEF VInit, NoSearch
  <2>2. Cardinality(Node \ up) <= MaxCrashes
    BY <1>2, VisualizeAssumption
  <2>3. QED
    BY <2>1, <2>2, NoSearchIsSearch DEF VInit, VizState
<1>4. QED
  BY <1>1, <1>3 DEF VInv

LEMMA WorkersVizState ==
  ASSUME VInv, NEW n \in Node, UNCHANGED <<viz, watched, drawn>>,
         WorkerRound(n) \/ Wait(n) \/ JoinAgain(n) \/ Serve(n, Held(n))
  PROVE  VizState'
<1> USE DEF VInv, BInv
<1>1. UNCHANGED up
  BY DEF WorkerRound, Work, Send, Consume, Wait, JoinAgain, Serve, Locks, net
<1>2. viz.at # None => viz.at \in Node /\ waiting[viz.at] \in Nat /\ waiting[viz.at] > 0
  BY BackupAssumption DEF VizState, BTypeOK
<1>3. ASSUME viz.at # None  PROVE waiting'[viz.at] > 0
  <2>1. CASE WorkerRound(n) \/ JoinAgain(n)
    BY <1>2, <1>3, <2>1 DEF WorkerRound, Work, Send, Consume, JoinAgain
  <2>2. CASE Wait(n)
    BY <1>2, <1>3, <2>2 DEF Wait, BTypeOK
  <2>3. CASE Serve(n, Held(n))
    <3>1. CASE viz.at = n
      BY <1>2, <1>3, <2>3, <3>1 DEF Serve, Locks, Held, BTypeOK
    <3>2. CASE viz.at # n
      BY <1>2, <1>3, <2>3, <3>2 DEF Serve, Locks, Held, BTypeOK
    <3>3. QED
      BY <3>1, <3>2
  <2>4. QED
    BY <2>1, <2>2, <2>3
<1>4. QED
  BY <1>1, <1>3, VizKept

LEMMA CrashVizState ==
  ASSUME VInv, NEW n \in Node, CrashAt(n)
  PROVE  VizState'
<1> USE DEF VInv, BInv
<1>1. /\ up' = up \ {n} /\ n \in up /\ Cardinality(Node \ up) < MaxCrashes
      /\ waiting' = [waiting EXCEPT ![n] = 0]
      /\ up \subseteq Node /\ waiting \in [Node -> 0 .. Pool]
  BY DEF CrashAt, Crash, BTypeOK
<1>2. Cardinality(Node \ up') <= MaxCrashes
  <2>1. Node \ up' = (Node \ up) \cup {n} /\ n \notin Node \ up
    BY <1>1
  <2>2. IsFiniteSet(Node \ up)
    BY NodeFacts, FS_Subset
  <2>3. Cardinality(Node \ up') = Cardinality(Node \ up) + 1 /\ Cardinality(Node \ up) \in Nat
    BY <2>1, <2>2, FS_AddElement, FS_CardinalityType
  <2>4. QED
    BY <1>1, <2>3, VisualizeAssumption
<1>3. watched' \subseteq Node \X Point /\ drawn' \in BOOLEAN
  BY DEF CrashAt, Forget, VizState
<1>4. CASE viz.at = n
  <2>1. viz' = NoSearch /\ viz'.at = None
    BY <1>4 DEF CrashAt, NoSearch
  <2>2. QED
    BY <1>2, <1>3, <2>1, NoSearchIsSearch DEF VizState
<1>5. CASE viz.at # n
  BY <1>1, <1>2, <1>3, <1>5 DEF CrashAt, VizState
<1>6. QED
  BY <1>4, <1>5

LEMMA SearchVizState ==
  ASSUME VInv, \/ \E t \in Node, j \in Job : Visualize(t, j)
               \/ Visit \/ Answer
  PROVE  VizState'
<1> USE DEF VInv, BInv
<1>1. ASSUME NEW t \in Node, NEW j \in Job, Visualize(t, j)
      PROVE  VizState'
  <2>1. /\ viz' = [at |-> t, job |-> j, queue |-> <<t>>, visited |-> {}]
        /\ t \in up /\ up' = up /\ drawn' = FALSE
        /\ waiting' = [waiting EXCEPT ![t] = @ + 1]
    BY <1>1 DEF Visualize, net
  <2>2. t \in MaybeNode /\ j \in 0 .. J
    BY NodeFacts, BackupAssumption DEF Job
  <2>3. waiting'[t] > 0
    BY <2>1, BackupAssumption DEF BTypeOK
  <2>4. watched' \subseteq Node \X Point
    BY <1>1 DEF Visualize, Watchable, BTypeOK
  <2>5. viz'.at = t
    BY <2>1
  <2>6. IsSearch(viz')
    BY <2>1, <2>2 DEF IsSearch
  <2>7. QED
    BY <2>1, <2>2, <2>3, <2>4, <2>5, <2>6 DEF VizState
<1>2. CASE Visit
  <2> DEFINE t == Head(viz.queue)
             seen == viz.visited \cup {t}
             edges == IF t \in up THEN AllEdges(t) ELSE <<>>
             rest == Without(Tail(viz.queue) \o edges, seen)
  <2>1. viz' = [[viz EXCEPT !.visited = seen] EXCEPT !.queue = rest]
    BY <1>2 DEF Visit
  <2> HIDE DEF t, seen, rest
  <2>2. viz = [at |-> viz.at, job |-> viz.job, queue |-> viz.queue, visited |-> viz.visited]
    BY DEF VizState, IsSearch
  <2>3. viz' = [at |-> viz.at, job |-> viz.job, queue |-> rest, visited |-> seen]
    BY <2>1, <2>2
  <2>4. IsSearch(viz') /\ viz'.at = viz.at
    BY <2>3 DEF IsSearch, VizState
  <2>5. UNCHANGED <<up, waiting, watched>> /\ drawn' \in BOOLEAN
    BY <1>2 DEF Visit, bvars, net
  <2>6. QED
    BY <2>4, <2>5 DEF VizState
<1>3. CASE Answer
  <2>1. viz' = NoSearch /\ viz'.at = None
    BY <1>3 DEF Answer, NoSearch
  <2>2. QED
    BY <1>3, <2>1, NoSearchIsSearch DEF Answer, net, VizState
<1>4. QED
  BY <1>1, <1>2, <1>3


LEMMA VNextInv ==
  ASSUME VInv, [VNext]_vvars
  PROVE  VInv'
<1> USE DEF VInv
<1>1. ASSUME NEW n \in Node, UNCHANGED <<viz, watched, drawn>>,
             WorkerRound(n) \/ Wait(n) \/ JoinAgain(n) \/ Serve(n, Held(n))
      PROVE  VInv'
  <2>1. VizState'
    BY <1>1, WorkersVizState
  <2>2. Held(n) \in {0, 1}
    BY DEF Held
  <2>3. CASE WorkerRound(n) \/ Wait(n)
    <3>1. BNext
      BY <2>3 DEF BNext
    <3>2. QED
      BY <2>1, <3>1, BNextInv
  <2>4. QED
    BY <1>1, <2>1, <2>2, <2>3, RelinkInv, ServeInv
<1>2. ASSUME NEW n \in Node, CrashAt(n)
      PROVE  VInv'
  BY <1>2, CrashVizState, CrashInv DEF CrashAt
<1>3. ASSUME NEW n \in Node, ResetDuring(n)
      PROVE  VInv'
  <2>1. BInv'
    BY <1>3, RelinkInv DEF ResetDuring
  <2>2. VizState'
    BY <1>3 DEF ResetDuring, ResetAll, Forget, VizState
  <2>3. QED
    BY <2>1, <2>2
<1>4. CASE \/ \E t \in Node, j \in Job : Visualize(t, j)
           \/ Visit \/ Answer
  BY <1>4, SearchInv, SearchVizState
<1>5. CASE UNCHANGED vvars
  <2>1. BInv'
    BY <1>5, BNextInv DEF vvars
  <2>2. VizState'
    BY <1>5, VizKept DEF vvars, bvars, net, VizState, BInv
  <2>3. QED
    BY <2>1, <2>2
<1>6. QED
  BY <1>1, <1>2, <1>3, <1>4, <1>5 DEF VNext

\* Crashes, resets and rejoins of the others do not lose such a point either.
THEOREM BackupKeptThroughCrashes == VSpec => []NoBackupLost
<1>1. VInv => NoBackupLost
  BY DEF VInv, BInv, AckedState, NoBackupLost
<1>2. QED
  BY <1>1, VInitInv, VNextInv, PTL DEF VSpec

\* A search asks nodes only.
SearchFields == viz.queue \in Seq(Node) /\ viz.visited \subseteq Node

\* What a search that has visited a node makes of its queue.
LEMMA VisitStep ==
  ASSUME BTypeOK, VizState, SearchFields, Visit
  PROVE  LET t == Head(viz.queue) IN
         /\ t \in Node
         /\ Elems(viz.queue) = {t} \cup Elems(Tail(viz.queue))
         /\ viz'.at = viz.at /\ viz'.job = viz.job
         /\ viz'.visited = viz.visited \cup {t}
         /\ viz'.queue \in Seq(Node)
         /\ Elems(viz'.queue) =
              (Elems(Tail(viz.queue)) \cup (IF t \in up THEN Neighbours(t) ELSE {}))
                \ viz'.visited
<1> DEFINE t == Head(viz.queue)
           seen == viz.visited \cup {t}
           edges == IF t \in up THEN AllEdges(t) ELSE <<>>
           rest == Without(Tail(viz.queue) \o edges, seen)
<1>1. viz' = [[viz EXCEPT !.visited = seen] EXCEPT !.queue = rest] /\ viz.queue # <<>>
  BY DEF Visit
<1>2. viz.queue \in Seq(Node) /\ t \in Node
  BY <1>1, HeadTailProperties DEF SearchFields
<1>3. edges \in Seq(Node) /\ Elems(edges) = IF t \in up THEN Neighbours(t) ELSE {}
  <2>1. AllEdges(t) \in Seq(Node) /\ Elems(AllEdges(t)) = Neighbours(t)
    BY <1>2, EdgesOf DEF BTypeOK
  <2>2. <<>> \in Seq(Node) /\ Elems(<<>>) = {}
    BY DEF Elems
  <2>3. QED
    BY <2>1, <2>2
<1>4. Elems(viz.queue) = {t} \cup Elems(Tail(viz.queue))
  BY <1>1, <1>2, TailElems
<1> HIDE DEF t, seen, edges
<1>5. /\ rest \in Seq(Node)
      /\ Elems(rest) = (Elems(Tail(viz.queue)) \cup Elems(edges)) \ seen
  BY <1>1, <1>2, <1>3, SearchGoesOn
<1> HIDE DEF rest
<1>6. viz = [at |-> viz.at, job |-> viz.job, queue |-> viz.queue, visited |-> viz.visited]
  BY DEF VizState, IsSearch
<1>7. viz' = [at |-> viz.at, job |-> viz.job, queue |-> rest, visited |-> seen]
  BY <1>1, <1>6
<1>8. /\ viz'.at = viz.at /\ viz'.job = viz.job
      /\ viz'.visited = seen /\ viz'.queue = rest
  BY <1>7
<1>9. QED
  BY <1>2, <1>3, <1>4, <1>5, <1>8 DEF t, seen

LEMMA VisitFields ==
  ASSUME BTypeOK, VizState, SearchFields, Visit
  PROVE  SearchFields'
BY VisitStep DEF SearchFields

LEMMA VNextFields ==
  ASSUME BTypeOK, VizState, SearchFields, [VNext]_vvars
  PROVE  SearchFields'
<1> USE DEF SearchFields
<1>1. CASE UNCHANGED viz
  BY <1>1
<1>2. CASE viz' = NoSearch
  BY <1>2 DEF NoSearch
<1>3. ASSUME NEW t \in Node, NEW j \in Job, Visualize(t, j)
      PROVE  SearchFields'
  <2>1. <<t>> \in Seq(Node)
    OBVIOUS
  <2>2. QED
    BY <1>3, <2>1 DEF Visualize
<1>4. CASE Visit
  BY <1>4, VisitFields
<1>5. QED
  BY <1>1, <1>2, <1>3, <1>4 DEF VNext, CrashAt, ResetDuring, Answer, vvars

\* Types through crashes, resets and searches: a search asks nodes only, and
\* waiting, which it counts in, stays within the threads of its node.
THEOREM CrashTypeCorrect == VSpec => []VTypeOK
<1>1. VInit => SearchFields
  BY DEF VInit, NoSearch, SearchFields
<1>2. VInv => BTypeOK /\ VizState
  BY DEF VInv, BInv
<1>3. BTypeOK /\ VizState /\ SearchFields => VTypeOK
  BY DEF VizState, IsSearch, SearchFields, VTypeOK
<1>4. QED
  BY <1>1, <1>2, <1>3, VInitInv, VNextInv, VNextFields, PTL DEF VSpec

\* Three nodes cannot all be down after two crashes.
LEMMA OneOfThreeLives ==
  ASSUME Cardinality(Node \ up) <= 2,
         NEW a \in Node, NEW b \in Node, NEW c \in Node, a # b, a # c, b # c
  PROVE  a \in up \/ b \in up \/ c \in up
<1>1. SUFFICES ASSUME {a, b, c} \subseteq Node \ up  PROVE FALSE
  OBVIOUS
<1>2. IsFiniteSet({a}) /\ Cardinality({a}) = 1
  BY FS_Singleton
<1>3. IsFiniteSet({a} \cup {b}) /\ Cardinality({a} \cup {b}) = 2
  <2>1. b \notin {a}
    OBVIOUS
  <2>2. IsFiniteSet({a} \cup {b}) /\ Cardinality({a} \cup {b}) = Cardinality({a}) + 1
    BY <1>2, <2>1, FS_AddElement, Zenon
  <2>3. QED
    BY <1>2, <2>2
<1>4. IsFiniteSet({a} \cup {b} \cup {c}) /\ Cardinality({a} \cup {b} \cup {c}) = 3
  <2>1. c \notin {a} \cup {b}
    OBVIOUS
  <2>2. /\ IsFiniteSet({a} \cup {b} \cup {c})
        /\ Cardinality({a} \cup {b} \cup {c}) = Cardinality({a} \cup {b}) + 1
    BY <1>3, <2>1, FS_AddElement, Zenon
  <2>3. QED
    BY <1>3, <2>2
<1>5. IsFiniteSet(Node \ up) /\ Cardinality(Node \ up) \in Nat
  BY NodeFacts, FS_Subset, FS_CardinalityType
<1>6. {a} \cup {b} \cup {c} \subseteq Node \ up
  BY <1>1
<1>7. Cardinality({a} \cup {b} \cup {c}) <= Cardinality(Node \ up)
  BY <1>5, <1>6, FS_Subset
<1>8. QED
  BY <1>4, <1>5, <1>7

\* A set with two elements or more has two different ones.
LEMMA TwoOf ==
  ASSUME NEW S, IsFiniteSet(S), Cardinality(S) >= 2
  PROVE  \E a, b \in S : a # b
<1>1. S # {}
  BY FS_EmptySet
<1>2. PICK a \in S : TRUE
  BY <1>1
<1>3. S # {a}
  BY FS_Singleton
<1>4. QED
  BY <1>2, <1>3

\* A point that two other nodes have answered, and not lost in the race for their
\* queues, survives two crashes (README.md:2).
THEOREM TwoCopiesSurvive ==
  ASSUME MaxCrashes <= 2
  PROVE  VSpec => []CopiesSurvive
<1>1. ASSUME VInv  PROVE CopiesSurvive
  <2> USE <1>1 DEF VInv, BInv
  <2>1. SUFFICES ASSUME NEW p \in Point,
                        Cardinality({t \in Node \ {p[1]} : <<t, p>> \in Safe}) >= 2,
                        \A t \in Node : stage[t][p[2]] # "removed"
                 PROVE  \E t \in up : p \in Stored(t) \cup Queued(t)
    BY DEF CopiesSurvive
  <2> DEFINE S == {t \in Node \ {p[1]} : <<t, p>> \in Safe}
  <2>2. S \subseteq Node /\ IsFiniteSet(S) /\ Cardinality(S) >= 2
    BY <2>1, NodeFacts, FS_Subset
  <2>3. PICK a, b \in S : a # b
    <3> HIDE DEF S
    <3>1. QED
      BY <2>2, TwoOf
  <2>4. p[1] \in Node /\ p[2] \in Job
    BY DEF Point
  <2>5. Cardinality(Node \ up) <= 2
    <3>1. Cardinality(Node \ up) \in Nat
      BY NodeFacts, FS_Subset, FS_CardinalityType
    <3>2. QED
      BY <3>1, VisualizeAssumption DEF VizState
  <2>6. CASE a \in up \/ b \in up
    BY <2>6 DEF AckedState, Stored
  <2>7. CASE p[1] \in up
    <3>1. stage[p[1]][p[2]] = "known"
      BY <2>1, <2>4 DEF AckedState, BTypeOK
    <3>2. p[2] \in Known(p[1])
      BY <2>4, <3>1 DEF Known
    <3>3. p[3] <= made[p[1]][p[2]]
      BY <2>7, <3>2 DEF AckedState
    <3>4. p \in PointsOf(p[1])
      BY <3>2, <3>3 DEF PointsOf
    <3>5. QED
      BY <2>7, <3>4 DEF Stored
  <2>8. QED
    BY <2>2, <2>3, <2>4, <2>5, <2>6, <2>7, OneOfThreeLives
<1>2. QED
  BY <1>1, VInitInv, VNextInv, PTL DEF VSpec

-----------------------------------------------------------------------------
(***************************************************************************)
(* Pictures                                                                *)
(***************************************************************************)
\* The nodes of R are on one ring: who follows next edges meets all of them.
OneRing(R) ==
  /\ \A n \in R : e_next[n] \in R /\ e_prev[e_next[n]] = n
  /\ \A V \in SUBSET R : V # {} /\ (\A n \in V : e_next[n] \in V) => V = R

\* Living nodes are on one ring, with crashed ones, or have been reset.
Ringed ==
  \E R \in SUBSET Node : OneRing(R) /\ up \ WAIT \subseteq R /\ R \cap WAIT = {}

\* The remainders of the numbers around 0 .. M-1.
LEMMA SmallMod ==
  ASSUME NEW M \in Nat, M > 0
  PROVE  \A a \in 0 .. M-1 : a % M = a
<1>1. SUFFICES ASSUME NEW a \in 0 .. M-1  PROVE a % M = a
  OBVIOUS
<1>2. a \in Int /\ 0 <= a /\ a < M
  BY <1>1
<1>3. QED
  BY <1>2, SMTT(30)

LEMMA EdgeMod ==
  ASSUME NEW M \in Nat, M > 0
  PROVE  M % M = 0 /\ -1 % M = M - 1
<1>1. M % M = 0
  BY SMTT(30)
<1>2. -1 % M = M - 1
  BY SMTT(30)
<1>3. QED
  BY <1>1, <1>2

LEMMA InitRinged == BInit => Ringed
<1> SUFFICES ASSUME BInit  PROVE Ringed
  OBVIOUS
<1>0. N \in Nat /\ N > 0 /\ Node = 0 .. N-1
  BY NAssumption DEF Node
<1>1. ASSUME NEW n \in Node  PROVE e_next[n] = IF n = N-1 THEN 0 ELSE n + 1
  <2>1. e_next[n] = (n + 1) % N
    BY DEF BInit
  <2>2. CASE n = N-1
    <3>1. n + 1 = N
      BY <1>0, <2>2
    <3>2. QED
      BY <1>0, <2>1, <2>2, <3>1, EdgeMod
  <2>3. CASE n # N-1
    <3>1. n + 1 \in 0 .. N-1
      BY <1>0, <2>3
    <3>2. (n + 1) % N = n + 1
      BY <1>0, <3>1, SmallMod
    <3>3. QED
      BY <2>1, <2>3, <3>2
  <2>4. QED
    BY <2>2, <2>3
<1>2. ASSUME NEW n \in Node  PROVE e_prev[n] = IF n = 0 THEN N-1 ELSE n - 1
  <2>1. e_prev[n] = (n - 1) % N
    BY DEF BInit
  <2>2. CASE n = 0
    <3>1. n - 1 = -1
      BY <2>2
    <3>2. QED
      BY <1>0, <2>1, <2>2, <3>1, EdgeMod
  <2>3. CASE n # 0
    <3>1. n - 1 \in 0 .. N-1
      BY <1>0, <2>3
    <3>2. (n - 1) % N = n - 1
      BY <1>0, <3>1, SmallMod
    <3>3. QED
      BY <2>1, <2>3, <3>2
  <2>4. QED
    BY <2>2, <2>3
<1>3. \A n \in Node : e_next[n] \in Node /\ e_prev[e_next[n]] = n
  BY <1>0, <1>1, <1>2
<1>4. ASSUME NEW V \in SUBSET Node, V # {}, \A n \in V : e_next[n] \in V
      PROVE  V = Node
  <2>1. ASSUME NEW v \in V, NEW n \in Node, v <= n, n \notin V  PROVE FALSE
    <3> DEFINE T == {m \in Nat : v <= m /\ m \in Node /\ m \notin V}
    <3>1. n \in T /\ T \in SUBSET Nat
      BY <1>0, <2>1
    <3>2. PICK m \in T : \A y \in T : m <= y
      <4> HIDE DEF T
      <4>1. QED
        BY <3>1, Smallest
    <3>3. m # v /\ m - 1 \in Node /\ m - 1 \notin T /\ v <= m - 1
      BY <1>0, <2>1, <3>2
    <3>4. m - 1 \in V
      BY <1>0, <3>3
    <3>5. e_next[m - 1] = m
      BY <1>0, <1>1, <3>2, <3>3
    <3>6. QED
      BY <1>4, <3>2, <3>4, <3>5
  <2>2. N-1 \in V
    <3>1. PICK v \in V : TRUE
      BY <1>4
    <3>2. v <= N-1 /\ N-1 \in Node
      BY <1>0
    <3>3. QED
      BY <2>1, <3>2
  <2>3. 0 \in V
    BY <1>0, <1>1, <1>4, <2>2
  <2>4. SUFFICES ASSUME NEW n \in Node  PROVE n \in V
    OBVIOUS
  <2>5. 0 <= n
    BY <1>0
  <2>6. QED
    BY <2>1, <2>3, <2>5
<1>5. OneRing(Node) /\ up \ WAIT \subseteq Node /\ Node \cap WAIT = {}
  BY <1>3, <1>4 DEF OneRing, BInit
<1>6. QED
  BY <1>5 DEF Ringed

\* A node that joins again comes between two others.
LEMMA InsertRinged ==
  ASSUME LinksTypeOK, NEW R \in SUBSET Node, OneRing(R),
         NEW n \in Node \ R, NEW m \in R,
         e_next' = [e_next EXCEPT ![m] = n, ![n] = e_next[m]],
         e_prev' = [e_prev EXCEPT ![e_next[m]] = n, ![n] = m]
  PROVE  OneRing(R \cup {n})'
<1>0. PICK x : x = e_next[m]
  OBVIOUS
<1>1. /\ m \in Node /\ n \in Node /\ m # n /\ x \in R /\ x \in Node /\ x # n
      /\ e_next'[m] = n /\ e_next'[n] = x
      /\ \A q \in Node \ {m, n} : e_next'[q] = e_next[q]
      /\ e_prev'[x] = n /\ e_prev'[n] = m
      /\ \A q \in Node \ {x, n} : e_prev'[q] = e_prev[q]
  BY <1>0 DEF OneRing, LinksTypeOK
<1>2. \A q \in R : e_next[q] \in R /\ e_prev[e_next[q]] = q
  BY DEF OneRing
<1>3. ASSUME NEW q \in R, q # m
      PROVE  e_next'[q] = e_next[q] /\ e_next[q] # x /\ e_prev'[e_next'[q]] = q
  <2>1. q # n /\ e_next'[q] = e_next[q]
    BY <1>1, <1>3
  <2>2. e_next[q] # x
    BY <1>0, <1>2, <1>3
  <2>3. e_next[q] \in Node \ {x, n}
    BY <1>2, <2>2
  <2>4. e_prev'[e_next[q]] = e_prev[e_next[q]]
    BY <1>1, <2>3
  <2>5. QED
    BY <1>2, <2>1, <2>2, <2>4
<1>4. ASSUME NEW q \in R \cup {n}
      PROVE  e_next'[q] \in R \cup {n} /\ e_prev'[e_next'[q]] = q
  BY <1>1, <1>2, <1>3
<1>5. ASSUME NEW V \in SUBSET (R \cup {n}), V # {}, \A q \in V : e_next'[q] \in V
      PROVE  V = R \cup {n}
  <2>1. n \in V => x \in V
    BY <1>1, <1>5
  <2>2. m \in V => n \in V
    BY <1>1, <1>5
  <2>3. V \ {n} # {}
    BY <1>1, <1>5, <2>1
  <2>4. ASSUME NEW q \in V \ {n}  PROVE e_next[q] \in V \ {n}
    <3>1. CASE q = m
      BY <1>0, <1>1, <2>1, <2>2, <2>4, <3>1
    <3>2. CASE q # m
      BY <1>2, <1>3, <1>5, <2>4, <3>2
    <3>3. QED
      BY <3>1, <3>2
  <2>5. V \ {n} = R
    <3>1. V \ {n} \in SUBSET R
      OBVIOUS
    <3>2. QED
      BY <2>3, <2>4, <3>1 DEF OneRing
  <2>6. QED
    BY <2>2, <2>5
<1>6. QED
  BY <1>4, <1>5 DEF OneRing

LEMMA NextRinged ==
  ASSUME BTypeOK, Ringed, [VNext]_vvars
  PROVE  Ringed'
<1>0. LinksTypeOK /\ up \subseteq Node /\ WAIT \subseteq up
  BY DEF BTypeOK
<1>1. PICK R \in SUBSET Node : OneRing(R) /\ up \ WAIT \subseteq R /\ R \cap WAIT = {}
  BY DEF Ringed
<1>2. CASE UNCHANGED links /\ up' \ WAIT' \subseteq up \ WAIT /\ WAIT' \subseteq WAIT
  <2>1. OneRing(R)'
    BY <1>1, <1>2 DEF links, OneRing
  <2>2. QED
    BY <1>1, <1>2, <2>1 DEF Ringed
<1>3. ASSUME NEW n \in Node, ResetAll(n)  PROVE Ringed'
  <2>1. OneRing({})'
    BY DEF OneRing
  <2>2. up' \ WAIT' \subseteq {} /\ {} \cap WAIT' = {}
    BY <1>3 DEF ResetAll
  <2>3. QED
    BY <2>1, <2>2 DEF Ringed
<1>4. ASSUME NEW n \in Node, JoinAgain(n)  PROVE Ringed'
  <2>0. n \in WAIT /\ n \notin R /\ WAIT' = WAIT \ {n} /\ up' = up
    BY <1>1, <1>4 DEF JoinAgain
  <2>1. CASE /\ WAIT = up
             /\ e_next' = [e_next EXCEPT ![n] = n]
             /\ e_prev' = [e_prev EXCEPT ![n] = n]
    <3>1. e_next'[n] = n /\ e_prev'[n] = n
      BY <1>0, <2>1 DEF LinksTypeOK
    <3>2. OneRing({n})'
      BY <3>1 DEF OneRing
    <3>3. up' \ WAIT' \subseteq {n} /\ {n} \cap WAIT' = {}
      BY <2>0, <2>1
    <3>4. QED
      BY <3>2, <3>3 DEF Ringed
  <2>2. ASSUME NEW m \in up \ WAIT,
               e_next' = [e_next EXCEPT ![m] = n, ![n] = e_next[m]],
               e_prev' = [e_prev EXCEPT ![e_next[m]] = n, ![n] = m]
        PROVE  Ringed'
    <3>1. OneRing(R \cup {n})'
      BY <1>0, <1>1, <2>0, <2>2, InsertRinged
    <3>2. PICK Q \in SUBSET Node : Q = R \cup {n}
      OBVIOUS
    <3>3. OneRing(Q)'
      BY <3>1, <3>2 DEF OneRing
    <3>4. up' \ WAIT' \subseteq Q /\ Q \cap WAIT' = {}
      BY <1>1, <2>0, <3>2
    <3>5. QED
      BY <3>3, <3>4 DEF Ringed
  <2>3. QED
    BY <1>4, <2>1, <2>2 DEF JoinAgain
<1>5. CASE UNCHANGED net
  BY <1>2, <1>5 DEF net
<1>6. ASSUME NEW n \in Node, Crash(n)  PROVE Ringed'
  BY <1>2, <1>6 DEF Crash
<1>7. ASSUME NEW n \in Node, WorkerRound(n) \/ Wait(n) \/ Serve(n, Held(n))
      PROVE  UNCHANGED net
  BY <1>7 DEF WorkerRound, Work, Send, Consume, Wait, Serve, Locks
<1>8. ASSUME \/ \E t \in Node, j \in Job : Visualize(t, j)
             \/ Visit \/ Answer \/ UNCHANGED vvars
      PROVE  UNCHANGED net
  BY <1>8 DEF Visualize, Visit, Answer, vvars, bvars
<1>9. QED
  BY <1>3, <1>4, <1>5, <1>6, <1>7, <1>8 DEF VNext, CrashAt, ResetDuring

\* The ring is open at one place at most: then all living nodes are connected.
LEMMA HoldsTogether ==
  ASSUME BTypeOK, Ringed, RingHolds(up),
         NEW V \in SUBSET up, V # {},
         \A t \in V : {e_next[t], e_prev[t]} \cap up \subseteq V
  PROVE  V = up
<1>1. PICK R \in SUBSET Node : OneRing(R) /\ up \subseteq R
  BY DEF Ringed, RingHolds
<1> DEFINE Out == {e_next[n] : n \in up} \ up
<1>2. \A a, b \in Out : a = b
  <2>1. Cardinality(Out) <= 1
    BY DEF RingHolds
  <2>2. IsFiniteSet(Out)
    <3>1. Out \subseteq Node
      BY <1>1 DEF OneRing
    <3>2. QED
      BY <3>1, NodeFacts, FS_Subset
  <2>3. SUFFICES ASSUME NEW a \in Out, NEW b \in Out, a # b  PROVE FALSE
    OBVIOUS
  <2>4. Cardinality({a, b}) = 2
    <3>1. {a, b} = {a} \cup {b} /\ b \notin {a}
      BY <2>3
    <3>2. IsFiniteSet({a}) /\ Cardinality({a}) = 1
      BY FS_Singleton
    <3>3. Cardinality({a} \cup {b}) = Cardinality({a}) + 1
      BY <3>1, <3>2, FS_AddElement, Zenon
    <3>4. QED
      BY <3>1, <3>2, <3>3
  <2>5. {a, b} \subseteq Out
    OBVIOUS
  <2> HIDE DEF Out
  <2>6. Cardinality({a, b}) <= Cardinality(Out) /\ Cardinality(Out) \in Nat
    BY <2>2, <2>5, FS_Subset, FS_CardinalityType
  <2>7. QED
    BY <2>1, <2>4, <2>6
<1> HIDE DEF Out
<1>3. SUFFICES ASSUME up \ V # {}  PROVE FALSE
  OBVIOUS
<1>4. V \in SUBSET R /\ up \ V \in SUBSET R /\ V # R /\ up \ V # R
  BY <1>1, <1>3
<1>5. PICK v \in V : e_next[v] \notin V
  BY <1>1, <1>4 DEF OneRing
<1>6. PICK u \in up \ V : e_next[u] \notin up \ V
  BY <1>1, <1>3, <1>4 DEF OneRing
<1>7. e_next[v] \in Out
  BY <1>5 DEF Out
<1>8. e_next[u] \in Out
  <2>1. e_next[u] \notin V
    <3>1. e_prev[e_next[u]] = u
      BY <1>1, <1>6 DEF OneRing
    <3>2. QED
      BY <1>6, <3>1
  <2>2. QED
    BY <1>6, <2>1 DEF Out
<1>9. e_next[v] = e_next[u]
  BY <1>2, <1>7, <1>8
<1>10. v = e_prev[e_next[v]] /\ u = e_prev[e_next[u]]
  BY <1>1, <1>5, <1>6 DEF OneRing
<1>11. QED
  BY <1>6, <1>9, <1>10

\* What tells whether a node has a point.
LEMMA StoredIs ==
  \A n \in Node, p \in Point :
    /\ p \in Stored(n) <=>
         \/ p \in backup[n]
         \/ p[1] = n /\ stage[n][p[2]] = "known" /\ p[3] <= made[n][p[2]]
    /\ (p \in Stored(n))' <=>
         \/ p \in backup'[n]
         \/ p[1] = n /\ stage'[n][p[2]] = "known" /\ p[3] <= made'[n][p[2]]
<1>1. \A p \in Point : p[2] \in Job
  BY DEF Point
<1>2. QED
  BY <1>1 DEF Stored, PointsOf, Known

\* The node of x has its point, or has forgotten the job.
Forgot(x) == stage[x[1]][x[2][2]] = "removed"

Kept(x) == Forgot(x) \/ x[2] \in Stored(x[1])

LEMMA WatchedType ==
  ASSUME NEW x \in Node \X Point
  PROVE  x[1] \in Node /\ x[2] \in Point /\ x[2][2] \in Job /\ x[2][3] \in Int
BY DEF Point

LEMMA SameDataKept ==
  ASSUME NEW x \in Node \X Point, Kept(x), stage' = stage,
         made'[x[1]] = made[x[1]], backup'[x[1]] = backup[x[1]]
  PROVE  Kept(x)'
BY WatchedType, StoredIs DEF Kept, Forgot

\* What a node has stays as long as the node lives and knows the job.
LEMMA WorkersKeep ==
  ASSUME BInv, NEW x \in Node \X Point, Kept(x), NEW n \in Node,
         WorkerRound(n) \/ Wait(n) \/ Serve(n, Held(n))
  PROVE  Kept(x)' /\ (Forgot(x) => Forgot(x)')
<1>0. BTypeOK /\ x[1] \in Node /\ x[2] \in Point /\ x[2][2] \in Job /\ x[2][3] \in Int
  BY WatchedType DEF BInv
<1>1. CASE UNCHANGED jobdata
  BY <1>1, SameDataKept DEF jobdata, Forgot
<1>2. CASE Work(n) /\ made' # made
  <2>1. Known(n) # {} /\ made' = [made EXCEPT ![n][WorkedOn(n)] = @ + 1]
        /\ stage' = stage /\ backup' = backup
    BY <1>2 DEF Work
  <2>2. WorkedOn(n) \in Job
    BY <2>1, WorkedOnKnown, KnownType
  <2>3. \A m \in Node, j \in Job :
          made[m][j] \in Int /\ made'[m][j] \in Int /\ made[m][j] <= made'[m][j]
    <3>1. \A m \in Node, j \in Job : made[m][j] \in Int
      BY <1>0, BackupAssumption DEF BTypeOK
    <3>2. made \in [Node -> [Job -> 0 .. MaxPoints]]
      BY <1>0 DEF BTypeOK
    <3>3. QED
      BY <2>1, <2>2, <3>1, <3>2
  <2>4. x[2][3] <= made[x[1]][x[2][2]] => x[2][3] <= made'[x[1]][x[2][2]]
    BY <1>0, <2>3
  <2>5. QED
    BY <1>0, <2>1, <2>4, StoredIs DEF Kept, Forgot
<1>3. CASE Consume(n)
  <2>1. stage' = stage /\ made' = made /\ backup[x[1]] \subseteq backup'[x[1]]
    BY <1>0, <1>3 DEF Consume, BTypeOK
  <2>2. QED
    BY <1>0, <2>1, StoredIs DEF Kept, Forgot
<1>4. ASSUME NEW j \in Job, AddJob(n, j)
      PROVE  Kept(x)' /\ (Forgot(x) => Forgot(x)')
  <2>1. stage[n][j] = "absent" /\ stage' = [stage EXCEPT ![n][j] = "known"]
        /\ made' = made /\ backup' = backup
        /\ stage \in [Node -> [Job -> {"absent", "known", "removed"}]]
    BY <1>0, <1>4 DEF AddJob, BTypeOK
  <2>2. stage[x[1]][x[2][2]] # "absent" => stage'[x[1]][x[2][2]] = stage[x[1]][x[2][2]]
    BY <1>0, <2>1
  <2>3. QED
    BY <1>0, <2>1, <2>2, StoredIs DEF Kept, Forgot
<1>5. ASSUME NEW j \in Job, RemoveJob(n, j)
      PROVE  Kept(x)' /\ (Forgot(x) => Forgot(x)')
  <2>1. /\ stage' = [stage EXCEPT ![n][j] = "removed"]
        /\ made' = [made EXCEPT ![n][j] = 0]
        /\ backup' = [backup EXCEPT ![n] = {p \in @ : p[2] # j}]
        /\ stage \in [Node -> [Job -> {"absent", "known", "removed"}]]
        /\ made \in [Node -> [Job -> 0 .. MaxPoints]]
        /\ backup \in [Node -> SUBSET Point]
    BY <1>0, <1>5 DEF RemoveJob, BTypeOK
  <2>2. CASE x[1] = n /\ x[2][2] = j
    BY <1>0, <2>1, <2>2 DEF Kept, Forgot
  <2>3. CASE x[1] # n \/ x[2][2] # j
    <3>1. /\ stage'[x[1]][x[2][2]] = stage[x[1]][x[2][2]]
          /\ made'[x[1]][x[2][2]] = made[x[1]][x[2][2]]
          /\ x[2] \in backup[x[1]] => x[2] \in backup'[x[1]]
      BY <1>0, <2>1, <2>3
    <3>2. QED
      BY <1>0, <3>1, StoredIs DEF Kept, Forgot
  <2>4. QED
    BY <2>2, <2>3
<1>6. CASE WorkerRound(n) \/ Wait(n)
  BY <1>1, <1>2, <1>3, <1>6 DEF WorkerRound, Work, Send, Wait, jobdata
<1>7. CASE Serve(n, Held(n))
  BY <1>1, <1>4, <1>5, <1>7 DEF Serve, Read
<1>8. QED
  BY <1>6, <1>7

\* The nodes that the search has met.
Met == viz.visited \cup Elems(viz.queue)

\* All neighbours of the living nodes it has visited are among them.
Spreads == \A t \in viz.visited \cap up : Neighbours(t) \subseteq Met

\* A watched point is there to be drawn until its node is visited.
Owed(x) ==
  /\ x[1] \in up /\ x[2][2] = viz.job
  /\ Kept(x)
  /\ x[1] \in viz.visited => drawn \/ Forgot(x)

Watch ==
  watched # {} =>
    /\ viz.at \in up /\ RingHolds(up)
    /\ viz.at \in Met /\ Spreads
    /\ \A x \in watched : Owed(x)

LEMMA WorkersWatch ==
  ASSUME VInv, Watch, NEW n \in Node, UNCHANGED <<viz, watched, drawn>>,
         WorkerRound(n) \/ Wait(n) \/ Serve(n, Held(n))
  PROVE  Watch'
<1>1. UNCHANGED <<links, up, WAIT>>
  BY DEF WorkerRound, Work, Send, Consume, Wait, Serve, Locks, net
<1>2. Met' = Met /\ (Spreads => Spreads') /\ (RingHolds(up) => RingHolds(up)')
  BY <1>1 DEF Met, Spreads, Neighbours, Children, RingHolds, links
<1>3. ASSUME NEW x \in watched, Owed(x)  PROVE Owed(x)'
  <2>1. x \in Node \X Point
    BY DEF VInv, VizState
  <2>2. Kept(x)' /\ (Forgot(x) => Forgot(x)')
    BY <1>3, <2>1, WorkersKeep DEF VInv, Owed
  <2>3. QED
    BY <1>1, <1>3, <2>2 DEF Owed
<1>4. QED
  BY <1>1, <1>2, <1>3 DEF Watch

LEMMA CrashWatch ==
  ASSUME VInv, Watch, NEW n \in Node, CrashAt(n)
  PROVE  Watch'
<1>1. SUFFICES ASSUME watched' # {}  PROVE Watch'
  BY DEF Watch
<1>2. /\ viz.at # n /\ RingHolds(up \ {n}) /\ \A x \in watched : x[1] # n
      /\ watched' = watched /\ viz' = viz
  BY <1>1 DEF CrashAt, Forget
<1>3. drawn' = drawn
  BY <1>2 DEF CrashAt, Forget, VInv, VizState
<1>4. /\ up' = up \ {n} /\ WAIT' = WAIT \ {n} /\ UNCHANGED <<links, stage>>
      /\ made' = [made EXCEPT ![n] = [j \in Job |-> 0]]
      /\ backup' = [backup EXCEPT ![n] = {}]
      /\ made \in [Node -> [Job -> 0 .. MaxPoints]]
      /\ backup \in [Node -> SUBSET Point]
  BY DEF CrashAt, Crash, VInv, BInv, BTypeOK
<1>5. RingHolds(up)'
  BY <1>2, <1>4 DEF RingHolds, links
<1>6. Met' = Met /\ (Spreads => Spreads')
  BY <1>2, <1>4 DEF Met, Spreads, Neighbours, Children, links
<1>7. ASSUME NEW x \in watched, Owed(x)  PROVE Owed(x)'
  <2>1. x \in Node \X Point /\ x[1] # n /\ x[1] \in Node
    BY <1>2 DEF VInv, VizState
  <2>2. made'[x[1]] = made[x[1]] /\ backup'[x[1]] = backup[x[1]]
    BY <1>4, <2>1
  <2>3. Kept(x)'
    BY <1>4, <1>7, <2>1, <2>2, SameDataKept DEF Owed
  <2>4. Forgot(x) => Forgot(x)'
    BY <1>4 DEF Forgot
  <2>5. QED
    BY <1>2, <1>3, <1>4, <1>7, <2>1, <2>3, <2>4 DEF Owed
<1>8. QED
  BY <1>1, <1>2, <1>4, <1>5, <1>6, <1>7 DEF Watch

\* The search begins at its own node, and watches a point that is there.
LEMMA BeginWatch ==
  ASSUME VInv, NEW t \in Node, NEW j \in Job, Visualize(t, j)
  PROVE  Watch'
<1>1. /\ viz' = [at |-> t, job |-> j, queue |-> <<t>>, visited |-> {}]
      /\ t \in up /\ UNCHANGED <<links, up, WAIT, stage, made, backup>>
  BY DEF Visualize, net, jobdata
<1>2. viz'.at = t /\ viz'.job = j /\ viz'.queue = <<t>> /\ viz'.visited = {}
  BY <1>1
<1>3. \A x \in watched' : x \in Watchable(j)
  BY DEF Visualize
<1>4. t \in Met'
  BY <1>2 DEF Met, Elems
<1>5. Spreads'
  BY <1>2 DEF Spreads
<1>6. ASSUME NEW x \in Watchable(j)
      PROVE  Owed(x)' /\ RingHolds(up)'
  <2>1. x[1] \in up /\ x[2][2] = j /\ x[2] \in Stored(x[1]) /\ RingHolds(up)
        /\ x \in Node \X Point
    BY <1>6 DEF Watchable, VInv, BInv, BTypeOK
  <2>2. Kept(x)'
    BY <1>1, <2>1, SameDataKept DEF Kept
  <2>3. RingHolds(up)'
    BY <1>1, <2>1 DEF RingHolds, links
  <2>4. QED
    BY <1>1, <1>2, <2>1, <2>2, <2>3 DEF Owed
<1>7. QED
  BY <1>1, <1>2, <1>3, <1>4, <1>5, <1>6 DEF Watch

LEMMA VisitWatch ==
  ASSUME VInv, SearchFields, Watch, Visit
  PROVE  Watch'
<1>0. BTypeOK /\ VizState
  BY DEF VInv, BInv
<1>1. PICK t : t = Head(viz.queue)
  OBVIOUS
<1>2. /\ t \in Node
      /\ Elems(viz.queue) = {t} \cup Elems(Tail(viz.queue))
      /\ viz'.at = viz.at /\ viz'.job = viz.job
      /\ viz'.visited = viz.visited \cup {t}
      /\ Elems(viz'.queue) =
           (Elems(Tail(viz.queue)) \cup (IF t \in up THEN Neighbours(t) ELSE {}))
             \ viz'.visited
  BY <1>0, <1>1, VisitStep
<1>3. UNCHANGED <<links, up, WAIT, stage, made, backup, watched>>
      /\ drawn' = (drawn \/ (t \in up /\ \E x \in watched : x[2] \in DataOf(t)))
  BY <1>1 DEF Visit, bvars, net, jobdata
<1>4. Met \subseteq Met' /\ (t \in up => Neighbours(t) \subseteq Met')
  BY <1>2 DEF Met
<1>5. \A m \in Node : Neighbours(m)' = Neighbours(m)
  BY <1>3 DEF Neighbours, Children, links
<1>6. ASSUME Spreads  PROVE Spreads'
  <2>1. SUFFICES ASSUME NEW m \in (viz.visited \cup {t}) \cap up
                 PROVE  Neighbours(m) \subseteq Met'
    BY <1>0, <1>2, <1>3, <1>5 DEF Spreads, BTypeOK
  <2>2. QED
    BY <1>4, <1>6, <2>1 DEF Spreads
<1>7. ASSUME NEW x \in watched, Owed(x)  PROVE Owed(x)'
  <2>1. x \in Node \X Point
    BY <1>0 DEF VizState
  <2>2. Kept(x)' /\ (Forgot(x) <=> Forgot(x)')
    BY <1>3, <1>7, <2>1, SameDataKept DEF Owed, Forgot
  <2>3. CASE x[1] = t /\ ~Forgot(x)
    <3>1. x[2] \in DataOf(t) /\ t \in up
      BY <1>7, <2>3 DEF Owed, Kept, DataOf
    <3>2. drawn'
      BY <1>3, <3>1
    <3>3. QED
      BY <1>2, <1>3, <1>7, <2>2, <3>2 DEF Owed
  <2>4. CASE x[1] # t \/ Forgot(x)
    <3>1. drawn => drawn'
      BY <1>3
    <3>2. QED
      BY <1>2, <1>3, <1>7, <2>2, <2>4, <3>1 DEF Owed
  <2>5. QED
    BY <2>3, <2>4
<1>8. RingHolds(up) => RingHolds(up)'
  BY <1>3 DEF RingHolds, links
<1>9. QED
  BY <1>2, <1>3, <1>4, <1>6, <1>7, <1>8 DEF Watch

LEMMA VNextWatch ==
  ASSUME VInv, SearchFields, Watch, [VNext]_vvars
  PROVE  Watch'
<1>1. CASE watched' = {}
  BY <1>1 DEF Watch
<1>2. ASSUME NEW n \in Node, JoinAgain(n), UNCHANGED <<viz, watched, drawn>>
      PROVE  Watch'
  <2>1. watched' = {}
    BY <1>2 DEF JoinAgain, Watch, RingHolds
  <2>2. QED
    BY <1>1, <2>1
<1>3. CASE UNCHANGED vvars
  BY <1>3 DEF vvars, bvars, net, links, jobdata, Watch, Met, Spreads, Neighbours, Children,
              RingHolds, Owed, Kept, Forgot, Stored, PointsOf, Known
<1>4. QED
  BY <1>1, <1>2, <1>3, WorkersWatch, CrashWatch, BeginWatch, VisitWatch
     DEF VNext, ResetDuring, Forget, Answer

\* A picture shows every point that a node had, of its own or as a backup, when
\* the search began, unless the node has crashed or forgotten the job since
\* (node.cpp:553-583): with any number of nodes and crashes.
THEOREM PicturesComplete == VSpec => PictureComplete
<1>1. VInit => SearchFields
  BY DEF VInit, NoSearch, SearchFields
<1>2. VInit => Watch /\ Ringed
  BY InitRinged DEF VInit, Watch
<1>3. VInv => BTypeOK /\ VizState
  BY DEF VInv, BInv
<1>4. ASSUME VInv, SearchFields, Ringed, Watch, Answer
      PROVE  drawn \/ \A x \in watched : viz.job \notin Known(x[1])
  <2>1. SUFFICES ASSUME NEW x \in watched
                 PROVE  drawn \/ viz.job \notin Known(x[1])
    OBVIOUS
  <2>2. Met = viz.visited
    BY <1>4 DEF Answer, Met, Elems
  <2>3. viz.at \in viz.visited \cap up /\ RingHolds(up) /\ Spreads /\ Owed(x)
    BY <1>4, <2>1, <2>2 DEF Watch
  <2>4. ASSUME NEW t \in viz.visited \cap up
        PROVE  {e_next[t], e_prev[t]} \cap up \subseteq viz.visited \cap up
    <3>1. None \notin up
      BY <1>3, <1>4, NodeFacts DEF BTypeOK
    <3>2. {e_next[t], e_prev[t]} \cap up \subseteq Neighbours(t)
      BY <3>1 DEF Neighbours
    <3>3. QED
      BY <2>2, <2>3, <3>2 DEF Spreads
  <2>5. viz.visited \cap up = up
    BY <1>3, <1>4, <2>3, <2>4, HoldsTogether
  <2>6. drawn \/ Forgot(x)
    BY <2>3, <2>5 DEF Owed
  <2>7. QED
    BY <2>3, <2>6 DEF Owed, Forgot, Known
<1>5. VInv /\ SearchFields /\ Ringed /\ Watch /\ [VNext]_vvars
        => [Answer => drawn \/ \A x \in watched : viz.job \notin Known(x[1])]_vvars
  BY <1>4
<1>6. VInv /\ SearchFields /\ Ringed /\ Watch /\ [VNext]_vvars
        => VInv' /\ SearchFields' /\ Ringed' /\ Watch'
  BY <1>3, VNextInv, VNextFields, NextRinged, VNextWatch
<1>7. QED
  BY <1>1, <1>2, <1>5, <1>6, VInitInv, PTL DEF VSpec, PictureComplete

=============================================================================
