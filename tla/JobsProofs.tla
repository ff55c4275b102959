----------------------------- MODULE JobsProofs -------------------------------
(***************************************************************************)
(* Proofs about the broadcasts of module Jobs, for every number of jobs,   *)
(* entry nodes and threads: their types for every number of nodes, and     *)
(* that they get to all nodes as long as no level is split, which the      *)
(* twelfth node does.  With twelve nodes run split_misses shows that       *)
(* NewReachesAll does not hold.                                            *)
(***************************************************************************)
EXTENDS Jobs, JoinShapeProofs

-----------------------------------------------------------------------------
(***************************************************************************)
(* The inductive invariant                                                 *)
(***************************************************************************)
Active(n) == pc[n] \in {"activate", "run"}

\* Broadcast c has done its work at node n.
Hit(c, n) == IF c[1] = "new" THEN c[2] \in jobs[n] ELSE c[2] \notin jobs[n]

Pending(c) == Elems(cast[c].queue)

Covered(c) == cast[c].visited \cup Pending(c)

\* A search goes up: from every node it has visited to the parent, and from a
\* node of the top ring to the others.  And it goes down: a child whose parent
\* is done is done or in the queue, or it has fetched what the parent had.
Spreads(c) ==
  /\ Covered(c) # {}
  /\ \A t \in cast[c].visited :
       /\ pc[t] = "run" /\ Hit(c, t)
       /\ e_parent[t] # None => e_parent[t] \in Covered(c)
       /\ t < 3 => 0 .. 2 \subseteq Covered(c)
  /\ \A m \in Node :
       Active(m) /\ e_parent[m] # None /\ Hit(c, e_parent[m]) => Hit(c, m) \/ m \in Pending(c)

Spread(c) == \A m \in Node : Active(m) => Hit(c, m)

TopRuns == 0 .. 2 \subseteq Node /\ \A n \in 0 .. 2 : pc[n] = "run"

\* Where the two broadcasts of job j are.
JobState(j) ==
  LET new  == <<"new", j>>
      kill == <<"kill", j>>
  IN
  /\ cast[new].step = "idle" => \A n \in Node : j \notin jobs[n]
  /\ cast[new].step # "idle" => TopRuns
  /\ cast[kill].step # "idle" => cast[new].step = "done"
  /\ cast[new].step = "search" => Spreads(new)
  /\ cast[new].step = "done" /\ cast[kill].step = "idle" => Spread(new)
  /\ cast[kill].step = "search" => Spreads(kill)
  /\ cast[kill].step = "done" => Spread(kill)

CastInv ==
  /\ \A n \in Node : ~Active(n) => jobs[n] = {}
  /\ \A j \in Job : JobState(j)

-----------------------------------------------------------------------------
(***************************************************************************)
(* Type correctness                                                        *)
(***************************************************************************)
\* Broadcasts do not disturb the joins.
LEMMA JobsKeepJoins == JSpec => Spec
<1>1. JInit => Init
  BY DEF JInit
<1>2. [JNext]_jvars => [Next]_vars
  BY DEF JNext, Next, Worker, NewJob, KillJob, CastStarts, VisitNode, CastEnds, jvars
<1>3. QED
  BY <1>1, <1>2, PTL DEF JSpec, Spec

JobTypes == jobs \in [Node -> SUBSET Job] /\ cast \in [Casts -> CastState]

LEMMA CastFacts ==
  /\ \A j \in Job : <<"new", j>> \in Casts /\ <<"kill", j>> \in Casts /\ <<"new", j>> # <<"kill", j>>
  /\ \A c \in Casts : /\ c[1] \in {"new", "kill"} /\ c[2] \in Job
                      /\ c = <<"new", c[2]>> \/ c = <<"kill", c[2]>>
BY DEF Casts

LEMMA StartsTypes ==
  ASSUME JobTypes, NEW c \in Casts, NEW a \in Entry, CastStarts(c, a)
  PROVE  JobTypes'
<1>1. a \in Node /\ a \in MaybeNode
  BY JobsAssumption DEF MaybeNode
<1>2. <<a>> \in Seq(Node)
  BY <1>1
<1> DEFINE r == [step |-> "search", at |-> a, queue |-> <<a>>, visited |-> {}]
<1>3. r \in CastState
  BY <1>1, <1>2 DEF CastState
<1>4. cast' = [cast EXCEPT ![c] = r] /\ jobs' = jobs
  BY DEF CastStarts
<1> HIDE DEF r
<1>5. QED
  BY <1>3, <1>4 DEF JobTypes

\* What a visit does to the queue and the visited nodes.
LEMMA VisitFacts ==
  ASSUME JobTypes, TypeOK, NEW c \in Casts, VisitNode(c)
  PROVE  \E t \in Node, r \in CastState :
           /\ t = Head(cast[c].queue) /\ Answers(t)
           /\ cast[c].step = "search" /\ r.step = "search"
           /\ jobs' = [jobs EXCEPT ![t] = JobsAfter(c, t)]
           /\ cast' = [cast EXCEPT ![c] = r]
           /\ r.visited = cast[c].visited \cup {t}
           /\ Elems(r.queue) = ((Pending(c) \cup Neighbours(t)) \ r.visited)
           /\ Pending(c) \subseteq Node /\ t \in Pending(c)
<1> DEFINE q == cast[c].queue
<1>1. PICK t : t = Head(q)
  OBVIOUS
<1> DEFINE seen == cast[c].visited \cup {t}
           rest == Without(Tail(q) \o AllEdges(t), seen)
<1>2. q \in Seq(Node) /\ q # <<>> /\ cast[c] \in CastState
  BY DEF JobTypes, CastState, VisitNode
<1>3. t \in Node /\ Elems(q) = {t} \cup Elems(Tail(q)) /\ Elems(q) \subseteq Node
  <2> HIDE DEF q
  <2>1. t \in Node
    BY <1>1, <1>2, HeadTailProperties
  <2>2. Elems(q) = {t} \cup Elems(Tail(q))
    BY <1>1, <1>2, TailElems
  <2>3. Elems(q) \subseteq Node
    BY <1>2, ElementOfSeq, LenProperties DEF Elems
  <2>4. QED
    BY <2>1, <2>2, <2>3
<1>4. AllEdges(t) \in Seq(Node) /\ Elems(AllEdges(t)) = Neighbours(t)
  BY <1>3, EdgesOf DEF TypeOK
<1>5. seen \subseteq Node
  BY <1>2, <1>3 DEF CastState
<1>6. /\ rest \in Seq(Node)
      /\ Elems(rest) = (Elems(Tail(q)) \cup Neighbours(t)) \ seen
  <2> HIDE DEF q, seen
  <2>1. QED
    BY <1>2, <1>4, SearchGoesOn
<1>7. /\ cast' = [cast EXCEPT ![c].visited = seen, ![c].queue = rest]
      /\ jobs' = [jobs EXCEPT ![t] = JobsAfter(c, t)] /\ Answers(t) /\ cast[c].step = "search"
  BY <1>1 DEF VisitNode, Searching
<1> HIDE DEF rest, seen
<1>8. PICK r : r = [cast[c] EXCEPT !.visited = seen, !.queue = rest]
  OBVIOUS
<1>9. /\ r \in CastState /\ r.visited = seen /\ r.queue = rest /\ r.step = "search"
      /\ cast' = [cast EXCEPT ![c] = r]
  <2>1. cast[c] = [step |-> cast[c].step, at |-> cast[c].at, queue |-> cast[c].queue,
                   visited |-> cast[c].visited]
    BY <1>2 DEF CastState
  <2>2. r = [step |-> cast[c].step, at |-> cast[c].at, queue |-> rest, visited |-> seen]
    BY <1>8, <2>1
  <2>3. cast' = [cast EXCEPT ![c] = r]
    BY <1>7, <1>8 DEF JobTypes
  <2>4. QED
    BY <1>2, <1>5, <1>6, <1>7, <2>2, <2>3 DEF CastState
<1>10. Elems(r.queue) = (Pending(c) \cup Neighbours(t)) \ r.visited
  BY <1>3, <1>6, <1>9 DEF Pending, seen
<1>11. Pending(c) \subseteq Node /\ t \in Pending(c)
  BY <1>3 DEF Pending
<1>12. r.visited = cast[c].visited \cup {t}
  BY <1>9 DEF seen
<1>13. QED
  BY <1>1, <1>3, <1>7, <1>9, <1>10, <1>11, <1>12

LEMMA JNextTypes ==
  ASSUME TypeOK, JobTypes, [JNext]_jvars
  PROVE  JobTypes'
<1>1. ASSUME NEW c \in Casts, VisitNode(c)  PROVE JobTypes'
  <2>1. PICK t \in Node, r \in CastState :
          jobs' = [jobs EXCEPT ![t] = JobsAfter(c, t)] /\ cast' = [cast EXCEPT ![c] = r]
    BY <1>1, VisitFacts
  <2>2. JobsAfter(c, t) \subseteq Job
    BY <2>1, CastFacts DEF JobsAfter, JobTypes
  <2>3. QED
    BY <2>1, <2>2 DEF JobTypes
<1>2. ASSUME NEW c \in Casts, CastEnds(c)  PROVE JobTypes'
  <2> DEFINE r == [cast[c] EXCEPT !.step = "done", !.visited = {}]
  <2>1. cast' = [cast EXCEPT ![c] = r] /\ jobs' = jobs
    BY <1>2 DEF CastEnds, JobTypes
  <2>2. r \in CastState
    BY DEF JobTypes, CastState
  <2>3. QED
    BY <2>1, <2>2 DEF JobTypes
<1>3. ASSUME NEW n \in Node, Worker(n)  PROVE JobTypes'
  <2>1. e_parent[n] \in MaybeNode
    BY DEF TypeOK, LinksTypeOK
  <2>2. Fetched(n) \subseteq Job
    BY <2>1 DEF Fetched, JobTypes, MaybeNode
  <2>3. QED
    BY <1>3, <2>2 DEF Worker, JobTypes
<1>4. CASE UNCHANGED <<jobs, cast>>
  BY <1>4 DEF JobTypes
<1>5. ASSUME NEW j \in Job, NEW a \in Entry, NewJob(j, a) \/ KillJob(j, a)  PROVE JobTypes'
  BY <1>5, StartsTypes, CastFacts DEF NewJob, KillJob
<1>6. QED
  BY <1>1, <1>2, <1>3, <1>4, <1>5 DEF JNext, jvars

\* All variables keep their types while nodes join and jobs are broadcast.
THEOREM JobsTypeCorrect == JSpec => []JTypeOK
<1>1. JInit => JobTypes
  <2>1. [step |-> "idle", at |-> None, queue |-> <<>>, visited |-> {}] \in CastState
    BY DEF CastState, MaybeNode
  <2>2. QED
    BY <2>1 DEF JInit, JobTypes
<1>2. TypeOK /\ JobTypes => JTypeOK
  BY DEF JTypeOK, JobTypes
<1>3. QED
  BY <1>1, <1>2, JNextTypes, JobsKeepJoins, TypeCorrect, PTL DEF JSpec

-----------------------------------------------------------------------------
(***************************************************************************)
(* The tree while it has two levels                                        *)
(***************************************************************************)
\* No level is being split.  A node that is linked is a child of its parent, a
\* member with a smaller number; the top ring is closed.
Grove ==
  /\ \A n \in Node : pc[n] \notin LevelSteps
  /\ \A n \in Node : n < 3 /\ n \in Linked => e_parent[n] = None
  /\ \A n \in Node : n >= 3 /\ n \in Linked =>
       LET p == e_parent[n] IN
       p \in Node /\ p < n /\ pc[p] = "run" /\ n \in Children(p)
  /\ TopRuns => \A t \in 0 .. 2 : 0 .. 2 \subseteq {t, e_next[t], e_prev[t]}

\* The last node, when it enters a ring, is in the tree already.
LEMMA TreeOfShape ==
  ASSUME N < 12, TypeOK, NEW s \in Starts, NEW k \in 0 .. N, ShapeIs(s, k)
  PROVE  /\ \A n \in Node : pc[n] \notin LevelSteps
         /\ s = 0 \/ RingsAbove(s) \/ Resting(s, k)
         /\ \E h \in {k, k + 1} : Size(s, h) /\ KidsAre(s, h) /\ ParentsAre(s, h)
         /\ s = 0 => Resting(s, k) \/ k < 3
<1>0. k \in Nat
  BY NAssumption
<1>1. CASE AtRest
  BY <1>1 DEF ShapeIs, Resting, AtRest, LinkSteps
<1>2. CASE ~AtRest
  <2>1. PICK n \in Node : pc[n] \in LinkSteps
    BY <1>2 DEF AtRest
  <2>2. /\ n = k /\ k \in Node /\ LinkingShape(s, k)
        /\ \A m \in Node : pc[m] \in LinkSteps => m = k
        /\ s \in Nat /\ (s > 0 => s >= 3)
    BY <2>1, JoinerFacts
  <2>3. pc[k] \notin LevelSteps
    <3>1. SUFFICES ASSUME pc[k] \in LevelSteps  PROVE FALSE
      OBVIOUS
    <3>2. s > 0 /\ k = 2*s + 3 + 2
      BY <2>2, <3>1 DEF LinkingShape, LevelShape
    <3>3. s >= 3 /\ k < N
      BY <2>2, <3>2, NAssumption DEF Node
    <3>4. QED
      BY <2>2, <3>2, <3>3, NAssumption
  <2>4. RingShape(s, k) /\ Size(s, k)
    BY <2>2, <2>3 DEF LinkingShape, ShapeIs
  <2>5. \A m \in Node : pc[m] \notin LevelSteps
    BY <2>2, <2>3 DEF LinkSteps
  <2>6. CASE pc[k] \in RingSteps
    <3>1. KidsAre(s, k + 1) /\ ParentsAre(s, k + 1) /\ Size(s, k + 1) /\ RingsAbove(s)
      BY <2>4, <2>6 DEF RingShape
    <3>2. s = 0 => k < 3
      BY <1>0, <3>1 DEF Size
    <3>3. QED
      BY <2>5, <3>1, <3>2
  <2>7. CASE pc[k] \notin RingSteps
    BY <2>4, <2>5, <2>7 DEF RingShape, Resting
  <2>8. QED
    BY <2>6, <2>7
<1>3. QED
  BY <1>1, <1>2

LEMMA GroveHolds ==
  ASSUME N < 12, TypeOK, HelloOrder, Shape
  PROVE  Grove
<1>1. PICK s \in Starts, k \in 0 .. N : ShapeIs(s, k)
  BY DEF Shape
<1>2. /\ \A n \in Node : pc[n] \notin LevelSteps
      /\ s = 0 \/ RingsAbove(s) \/ Resting(s, k)
      /\ \E h \in {k, k + 1} : Size(s, h) /\ KidsAre(s, h) /\ ParentsAre(s, h)
      /\ s = 0 => Resting(s, k) \/ k < 3
  BY <1>1, TreeOfShape
<1>3. PICK h \in {k, k + 1} : Size(s, h) /\ KidsAre(s, h) /\ ParentsAre(s, h)
  BY <1>2
<1>4. /\ k \in Nat /\ h \in Nat /\ k <= h /\ s \in Nat /\ Linked = 0 .. k-1
      /\ Size(s, k) /\ Node \subseteq Nat
  <2>1. k \in Nat /\ s \in Nat /\ Node \subseteq Nat
    BY NAssumption, StartsClosed DEF Node
  <2>2. Linked = 0 .. k-1 /\ Size(s, k)
    BY <1>1 DEF ShapeIs
  <2>3. h \in Nat /\ k <= h
    BY <1>3, <2>1
  <2>4. QED
    BY <2>1, <2>2, <2>3
<1>5. ASSUME NEW n \in Node, n \in Linked
      PROVE  e_parent[n] = Dad(s, n) /\ n < k /\ n < h /\ n \in Nat
  <2>1. n < k /\ n < h /\ n \in Nat
    BY <1>4, <1>5
  <2>2. QED
    BY <1>3, <2>1 DEF ParentsAre
<1>6. ASSUME NEW n \in Node, n < 3, n \in Linked
      PROVE  e_parent[n] = None
  <2>1. n \in Nat /\ n < h /\ e_parent[n] = Dad(s, n)
    BY <1>5, <1>6
  <2>2. ~(n >= 2*s + 3)
    BY <1>4, <1>6, <2>1
  <2>3. QED
    BY <1>6, <2>1, <2>2 DEF Dad, Home
<1>7. ASSUME NEW n \in Node, n >= 3, n \in Linked
      PROVE  /\ e_parent[n] \in Node /\ e_parent[n] < n /\ pc[e_parent[n]] = "run"
             /\ n \in Children(e_parent[n])
  <2>1. n \in Nat /\ n < h /\ e_parent[n] = Dad(s, n)
    BY <1>5, <1>7
  <2>2. s > 0
    BY <1>3, <1>4, <1>7, <2>1 DEF Size
  <2>3. PICK p \in Nat : p = Dad(s, n) /\ p < n
    BY <1>7, <2>1, <2>2, DadBelow
  <2>4. p \in Node
    BY <2>1, <2>3, NAssumption DEF Node
  <2>5. pc[p] = "run"
    <3>1. Joining(n) \/ pc[n] = "run"
      BY <1>7 DEF Linked, Joining, JoiningSteps
    <3>2. p \in 0 .. n-1
      BY <2>1, <2>3
    <3>3. QED
      BY <3>1, <3>2 DEF HelloOrder
  <2>6. n \in Children(p)
    <3>1. Lists(KidSeq(s, h, p), {m \in 0 .. h-1 : Dad(s, m) = p})
      BY <1>3, <1>4, KidSet
    <3>2. n \in {m \in 0 .. h-1 : Dad(s, m) = p}
      BY <1>4, <2>1, <2>3
    <3>3. e_children[p] = KidSeq(s, h, p)
      BY <1>3, <2>4 DEF KidsAre
    <3>4. QED
      BY <3>1, <3>2, <3>3 DEF Lists, SeqRange, Children
  <2>7. QED
    BY <2>1, <2>3, <2>4, <2>5, <2>6
<1>8. ASSUME TopRuns
      PROVE  \A t \in 0 .. 2 : 0 .. 2 \subseteq {t, e_next[t], e_prev[t]}
  <2>1. RingIs(0, 3)
    <3>1. 2 < k
      <4>1. 2 \in Node /\ pc[2] = "run"
        BY <1>8 DEF TopRuns
      <4>2. 2 \in Linked
        BY <4>1 DEF Linked
      <4>3. QED
        BY <1>4, <4>2
    <3>2. CASE s = 0
      <4>1. k = 3 /\ Resting(s, k)
        BY <1>2, <1>4, <3>1, <3>2 DEF Size
      <4>2. QED
        BY <3>2, <4>1 DEF Resting
    <3>3. CASE s # 0
      <4>1. RingsAbove(s)
        BY <1>2, <3>3 DEF Resting
      <4>2. 0 \in Starts /\ 0 < s /\ 2*0 + 3 = 3
        BY <1>4, <3>3, StartsClosed
      <4>3. QED
        BY <4>1, <4>2 DEF RingsAbove
    <3>4. QED
      BY <3>2, <3>3
  <2>2. /\ e_next[0] = 1 /\ e_next[1] = 2 /\ e_next[2] = 0
        /\ e_prev[0] = 2 /\ e_prev[1] = 0 /\ e_prev[2] = 1
    BY <2>1 DEF RingIs, NextsAre, PrevsAre
  <2>3. 0 .. 2 = {0, 1, 2}
    OBVIOUS
  <2>4. QED
    BY <2>2, <2>3
<1>9. QED
  BY <1>2, <1>6, <1>7, <1>8 DEF Grove

-----------------------------------------------------------------------------
(***************************************************************************)
(* What joins leave alone                                                  *)
(***************************************************************************)
\* Nobody joins again: there is no reset in module Jobs.
FirstJoin == \A n \in Node : ~loc[n].again

LEMMA FirstJoinStep == TypeOK /\ FirstJoin /\ [Next]_vars => FirstJoin'
<1> SUFFICES ASSUME TypeOK, FirstJoin, [Next]_vars  PROVE FirstJoin'
  OBVIOUS
<1>1. loc \in [Node -> Locals]
  BY DEF TypeOK, ControlTypeOK
<1>2. ASSUME NEW n \in Node, NEW r \in Locals, ~r.again, loc' = [loc EXCEPT ![n] = r]
      PROVE  FirstJoin'
  BY <1>1, <1>2 DEF FirstJoin
<1>3. CASE UNCHANGED loc
  BY <1>3 DEF FirstJoin
<1>4. ASSUME NEW n \in Node, Start(n)  PROVE FirstJoin'
  BY <1>1, <1>3, <1>4 DEF FirstJoin, Start, SayHello, Locals
<1>5. ASSUME NEW n \in Node, JoinReturns(n)  PROVE FirstJoin'
  BY <1>1, <1>5 DEF FirstJoin, JoinReturns, NoLocals
<1>6. ASSUME NEW n \in Node, AskEdges(n) \/ RingNext(n) \/ AskParent(n) \/ AskParentNext(n)
                             \/ GetNext(n) \/ GetPrev(n)
      PROVE  FirstJoin'
  BY <1>1, <1>3, <1>6 DEF FirstJoin, Locals, AskEdges, RingNext, AskParent, AskParentNext,
     AskAdopt, GetNext, GetPrev
<1>7. ASSUME NEW n \in Node, JoinStep(n)  PROVE FirstJoin'
  BY <1>3, <1>5, <1>6, <1>7 DEF JoinStep, Request, AskInfo, RingPrev, AdoptBelow, CreateLevel,
     ClosePrev, CloseNext, Adopt2, Adopt3, Parent2, Parent3, AdoptKid, TellKid, AdoptMe, Next3, Prev2,
     FetchJobs, Activate
<1>8. QED
  BY <1>3, <1>4, <1>7 DEF Next, vars

\* A member, or a node about to be one, stays one and keeps its parent.  A node
\* that is new among them has just fetched the jobs.
LEMMA MembersStay ==
  ASSUME TypeOK, Grove, FirstJoin, NEW n \in Node, Start(n) \/ JoinStep(n)
  PROVE  /\ \A m \in Node : Active(m) => Active(m)' /\ e_parent'[m] = e_parent[m]
         /\ \A m \in Node : pc[m] = "run" => pc'[m] = "run" /\ m # n
         /\ pc[n] # "fetch" => \A m \in Node : Active(m)' => Active(m)
         /\ pc[n] = "fetch" => /\ pc' = [pc EXCEPT ![n] = "activate"] /\ UNCHANGED links
                               /\ ~Active(n)
<1> USE DEF Active, LinkSteps, RingSteps, AdoptSteps, LevelSteps
<1>0. pc \in [Node -> Steps] /\ e_parent \in [Node -> MaybeNode]
  BY DEF TypeOK, ControlTypeOK, LinksTypeOK
<1>1. pc[n] \notin LevelSteps
  BY DEF Grove
<1>2. CASE FetchJobs(n)
  BY <1>0, <1>2 DEF FetchJobs, Goto, links
<1>3. CASE Activate(n)
  BY <1>0, <1>3 DEF Activate, Goto, links
<1>4. ASSUME pc[n] \notin {"activate", "run", "fetch"},
             \A m \in Node : m # n => pc'[m] = pc[m] /\ e_parent'[m] = e_parent[m],
             pc'[n] \notin {"activate", "run"}
      PROVE  /\ \A m \in Node : Active(m) => Active(m)' /\ e_parent'[m] = e_parent[m]
             /\ \A m \in Node : pc[m] = "run" => pc'[m] = "run" /\ m # n
             /\ \A m \in Node : Active(m)' => Active(m)
  BY <1>4
<1>5. CASE Start(n)
  <2>1. /\ pc[n] \notin {"activate", "run", "fetch"} /\ pc'[n] \notin {"activate", "run"}
        /\ \A m \in Node : m # n => pc'[m] = pc[m] /\ e_parent'[m] = e_parent[m]
    BY <1>0, <1>5 DEF Start, SayHello, Goto
  <2>2. QED
    BY <1>4, <2>1
<1>6. CASE \/ AskInfo(n) \/ AskEdges(n) \/ RingNext(n) \/ RingPrev(n) \/ AdoptBelow(n)
           \/ AskParent(n) \/ AskParentNext(n)
  <2>1. ASSUME JoinReturns(n)
        PROVE  pc'[n] = "fetch" /\ \A m \in Node : m # n => pc'[m] = pc[m]
    BY <1>0, <2>1 DEF JoinReturns, FirstJoin, Goto
  <2>2. /\ pc[n] \notin {"activate", "run", "fetch"} /\ pc'[n] \notin {"activate", "run"}
        /\ \A m \in Node : m # n => pc'[m] = pc[m]
    BY <1>0, <1>6, <2>1 DEF AskInfo, AskEdges, RingNext, RingPrev, AdoptBelow, AskParent,
       AskParentNext, AskAdopt, Calls, Goto
  <2>3. \A m \in Node : m # n => e_parent'[m] = e_parent[m]
    BY <1>0, <1>6 DEF AskInfo, AskEdges, RingNext, RingPrev, AdoptBelow, AskParent,
       AskParentNext, AskAdopt, SetNext, links
  <2>4. QED
    BY <1>4, <2>2, <2>3
<1>7. CASE CreateLevel(n)
  BY <1>1, <1>7 DEF CreateLevel, GetNext, GetPrev, ClosePrev, CloseNext, Adopt2, Adopt3,
     Parent2, Parent3, AdoptKid, TellKid, AdoptMe, Next3, Prev2, LevelStep, Calls
<1>8. QED
  BY <1>2, <1>3, <1>5, <1>6, <1>7 DEF JoinStep, Request

-----------------------------------------------------------------------------
(***************************************************************************)
(* The broadcasts                                                          *)
(***************************************************************************)
Settling == TypeOK /\ HelloOrder /\ Grove /\ JobTypes

\* The parent of a member is a member.
LEMMA ParentRuns ==
  ASSUME Settling, NEW m \in Node, Active(m) \/ pc[m] = "fetch"
  PROVE  /\ m >= 3 \/ e_parent[m] = None
         /\ e_parent[m] # None =>
              /\ e_parent[m] \in Node /\ e_parent[m] < m
              /\ pc[e_parent[m]] = "run" /\ Active(e_parent[m])
              /\ m \in Children(e_parent[m])
<1>1. m \in Linked /\ m \in Nat
  BY NAssumption DEF Active, Linked, Node
<1>2. CASE m < 3
  BY <1>1, <1>2 DEF Settling, Grove
<1>3. CASE m >= 3
  BY <1>1, <1>3 DEF Settling, Grove, Active
<1>4. QED
  BY <1>1, <1>2, <1>3

\* A visit goes on to the parent, the children and the ring of the node.
LEMMA VisitSpreads ==
  ASSUME Settling, NEW c \in Casts, Spreads(c), TopRuns, VisitNode(c)
  PROVE  Spreads(c)'
<1>1. PICK t \in Node, r \in CastState :
        /\ Answers(t)
        /\ jobs' = [jobs EXCEPT ![t] = JobsAfter(c, t)]
        /\ cast' = [cast EXCEPT ![c] = r]
        /\ r.visited = cast[c].visited \cup {t}
        /\ Elems(r.queue) = ((Pending(c) \cup Neighbours(t)) \ r.visited)
        /\ Pending(c) \subseteq Node /\ t \in Pending(c)
  BY VisitFacts DEF Settling
<1>2. UNCHANGED <<pc, links>>
  BY DEF VisitNode, vars
<1>3. pc[t] = "run"
  BY <1>1 DEF Answers, Settling, HelloOrder
<1>4. cast'[c] = r /\ cast[c].visited \subseteq Node
  BY <1>1 DEF Settling, JobTypes, CastState
<1> DEFINE C == Covered(c)
           D == r.visited \cup Elems(r.queue)
           P == Elems(r.queue)
<1>5. Covered(c)' = D /\ Pending(c)' = P
  BY <1>4 DEF Covered, Pending
<1>6. C \subseteq D /\ Neighbours(t) \subseteq D /\ t \in D
  BY <1>1 DEF Covered
<1>7. Hit(c, t)' /\ \A m \in Node \ {t} : Hit(c, m)' <=> Hit(c, m)
  <2>1. jobs'[t] = JobsAfter(c, t) /\ \A m \in Node \ {t} : jobs'[m] = jobs[m]
    BY <1>1 DEF Settling, JobTypes
  <2>2. Hit(c, t)'
    BY <2>1, CastFacts DEF JobsAfter, Hit
  <2>3. QED
    BY <2>1, <2>2 DEF Hit
<1>8. ASSUME NEW u \in cast'[c].visited
      PROVE  /\ pc'[u] = "run" /\ Hit(c, u)'
             /\ e_parent'[u] # None => e_parent'[u] \in D
             /\ u < 3 => 0 .. 2 \subseteq D
  <2>1. u \in cast[c].visited \/ u = t
    BY <1>1, <1>4, <1>8
  <2>2. u \in Node
    BY <1>4, <2>1
  <2>3. CASE u # t
    BY <1>2, <1>6, <1>7, <2>1, <2>2, <2>3 DEF Spreads, links
  <2>4. CASE u = t
    <3>1. e_parent[t] # None => e_parent[t] \in Neighbours(t)
      BY DEF Neighbours
    <3>2. t < 3 => 0 .. 2 \subseteq {t} \cup Neighbours(t)
      <4>1. SUFFICES ASSUME t < 3, NEW i \in 0 .. 2, i # t
                     PROVE  i \in Neighbours(t)
        OBVIOUS
      <4>2. t \in 0 .. 2 /\ i # None
        BY <4>1, NAssumption DEF Node, None
      <4>3. i \in {e_next[t], e_prev[t]}
        BY <4>1, <4>2 DEF Settling, Grove
      <4>4. QED
        BY <4>2, <4>3 DEF Neighbours
    <3>3. QED
      BY <1>2, <1>3, <1>6, <1>7, <2>4, <3>1, <3>2 DEF links
  <2>5. QED
    BY <2>3, <2>4
<1>9. ASSUME NEW m \in Node, Active(m), e_parent[m] # None, Hit(c, e_parent[m])'
      PROVE  Hit(c, m)' \/ m \in P
  <2> DEFINE p == e_parent[m]
  <2>1. p \in Node /\ m \in Children(p)
    BY <1>9, ParentRuns
  <2>2. CASE m = t
    BY <1>7, <2>2
  <2>3. CASE m # t /\ m \in cast[c].visited
    BY <1>7, <2>3 DEF Spreads
  <2>4. CASE m # t /\ m \notin cast[c].visited /\ p = t
    <3>1. m \in Neighbours(t)
      BY <1>9, <2>1, <2>4, NAssumption DEF Neighbours, Node, None
    <3>2. QED
      BY <1>1, <2>4, <3>1
  <2>5. CASE m # t /\ m \notin cast[c].visited /\ p # t
    <3>1. Hit(c, p)
      BY <1>2, <1>7, <1>9, <2>1, <2>5 DEF links, Hit
    <3>2. Hit(c, m) \/ m \in Pending(c)
      BY <1>9, <3>1 DEF Spreads
    <3>3. QED
      BY <1>1, <1>7, <2>5, <3>2
  <2>6. QED
    BY <2>2, <2>3, <2>4, <2>5
<1> HIDE DEF D, P
<1>10. \A m \in Node : Active(m)' <=> Active(m)
  BY <1>2 DEF Active
<1>11. e_parent' = e_parent
  BY <1>2 DEF links
<1>12. Covered(c)' # {}
  BY <1>5, <1>6
<1>13. \A u \in cast'[c].visited :
         /\ pc'[u] = "run" /\ Hit(c, u)'
         /\ e_parent'[u] # None => e_parent'[u] \in Covered(c)'
         /\ u < 3 => 0 .. 2 \subseteq Covered(c)'
  BY <1>5, <1>8
<1>14. \A m \in Node : Active(m)' /\ e_parent'[m] # None /\ Hit(c, e_parent[m])'
                         => Hit(c, m)' \/ m \in Pending(c)'
  BY <1>5, <1>9, <1>10, <1>11
<1>15. QED
  BY <1>12, <1>13, <1>14 DEF Spreads

\* A search that ends has been at the whole top ring, and so everywhere.
LEMMA EndsSpread ==
  ASSUME Settling, NEW c \in Casts, Spreads(c), TopRuns, cast[c].queue = <<>>
  PROVE  Spread(c)
<1>0. Node \subseteq Nat
  BY NAssumption DEF Node
<1>1. Pending(c) = {} /\ Covered(c) = cast[c].visited
  BY DEF Pending, Covered, Elems
<1>2. cast[c].visited \subseteq Node /\ cast[c].visited # {}
  BY <1>1 DEF Settling, JobTypes, CastState, Spreads
<1>3. PICK t \in cast[c].visited : \A u \in cast[c].visited : t <= u
  BY <1>0, <1>2, Smallest
<1>4. t < 3
  <2>1. Active(t) /\ t \in Node
    BY <1>2, <1>3 DEF Spreads, Active
  <2>2. CASE e_parent[t] = None
    <3>1. t \in Linked
      BY <2>1 DEF Active, Linked
    <3>2. QED
      BY <1>0, <2>1, <2>2, <3>1 DEF Settling, Grove, None
  <2>3. CASE e_parent[t] # None
    <3>1. e_parent[t] \in cast[c].visited /\ e_parent[t] < t /\ e_parent[t] \in Node
      BY <1>1, <2>1, <2>3, ParentRuns DEF Spreads
    <3>2. QED
      BY <1>0, <1>3, <2>1, <3>1
  <2>4. QED
    BY <2>2, <2>3
<1>5. \A i \in 0 .. 2 : Hit(c, i)
  BY <1>1, <1>4 DEF Spreads
<1> DEFINE T == {m \in Node : Active(m) /\ ~Hit(c, m)}
<1>6. SUFFICES ASSUME T # {}  PROVE FALSE
  BY DEF Spread
<1>7. PICK m \in T : \A i \in T : m <= i
  BY <1>0, <1>6, Smallest
<1>8. m \in Nat /\ m >= 3
  <2>1. m \in Node /\ ~Hit(c, m)
    BY <1>7
  <2>2. m \in Nat /\ m \notin 0 .. 2
    BY <1>0, <1>5, <2>1
  <2>3. QED
    BY <2>2
<1>9. e_parent[m] # None
  <2>1. m \in Linked
    BY <1>7 DEF Active, Linked
  <2>2. QED
    BY <1>0, <1>7, <1>8, <2>1 DEF Settling, Grove, None
<1>10. e_parent[m] \in Node /\ e_parent[m] < m /\ Active(e_parent[m])
  BY <1>7, <1>9, ParentRuns
<1>11. e_parent[m] \notin T
  <2>1. PICK p \in Node : p = e_parent[m]
    BY <1>10
  <2>2. m \in Nat /\ p \in Nat /\ p < m
    BY <1>0, <1>8, <1>10, <2>1
  <2>3. p \in T => m <= p
    BY <1>7
  <2>4. QED
    BY <2>1, <2>2, <2>3
<1>12. QED
  BY <1>1, <1>7, <1>9, <1>10, <1>11 DEF Spreads

\* A step that leaves the nodes and a broadcast alone.
LEMMA SameSpread ==
  ASSUME Settling, NEW d \in Casts, cast'[d] = cast[d], UNCHANGED vars,
         \A n \in Node : Hit(d, n)' <=> Hit(d, n)
  PROVE  (Spreads(d) => Spreads(d)') /\ (Spread(d) => Spread(d)')
<1>1. pc' = pc /\ e_parent' = e_parent
  BY DEF vars, links
<1>2. /\ Covered(d)' = Covered(d) /\ Pending(d)' = Pending(d)
      /\ \A m \in Node : Active(m)' <=> Active(m)
  BY <1>1 DEF Covered, Pending, Active
<1>3. \A m \in Node : e_parent[m] # None => (Hit(d, e_parent[m])' <=> Hit(d, e_parent[m]))
  <2>1. SUFFICES ASSUME NEW m \in Node, e_parent[m] # None
                 PROVE  Hit(d, e_parent[m])' <=> Hit(d, e_parent[m])
    OBVIOUS
  <2>2. PICK p \in Node : p = e_parent[m]
    BY <2>1 DEF Settling, TypeOK, LinksTypeOK, MaybeNode
  <2>3. Hit(d, p)' <=> Hit(d, p)
    OBVIOUS
  <2>4. e_parent'[m] = p
    BY <1>1, <2>2
  <2>5. QED
    BY <2>2, <2>3, <2>4 DEF Hit
<1>4. cast[d].visited \subseteq Node
  BY DEF Settling, JobTypes, CastState
<1>5. ASSUME Spreads(d)  PROVE Spreads(d)'
  <2>1. Covered(d)' # {}
    BY <1>2, <1>5 DEF Spreads
  <2>2. \A u \in cast'[d].visited :
          /\ pc'[u] = "run" /\ Hit(d, u)'
          /\ e_parent'[u] # None => e_parent'[u] \in Covered(d)'
          /\ u < 3 => 0 .. 2 \subseteq Covered(d)'
    BY <1>1, <1>2, <1>4, <1>5 DEF Spreads
  <2>3. \A m \in Node : Active(m)' /\ e_parent'[m] # None /\ Hit(d, e_parent[m])'
                          => Hit(d, m)' \/ m \in Pending(d)'
    <3>1. SUFFICES ASSUME NEW m \in Node, Active(m)', e_parent'[m] # None, Hit(d, e_parent[m])'
                   PROVE  Hit(d, m)' \/ m \in Pending(d)'
      OBVIOUS
    <3>2. Active(m) /\ e_parent[m] # None /\ Hit(d, e_parent[m])
      BY <1>1, <1>2, <1>3, <3>1
    <3>3. Hit(d, m) \/ m \in Pending(d)
      BY <1>5, <3>2 DEF Spreads
    <3>4. QED
      BY <1>2, <3>3
  <2>4. QED
    BY <2>1, <2>2, <2>3 DEF Spreads
<1>6. Spread(d) => Spread(d)'
  BY <1>2 DEF Spread
<1>7. QED
  BY <1>5, <1>6

\* A step of broadcast c is none of the broadcasts of another job.
LEMMA OtherJob ==
  ASSUME Settling, CastInv, NEW c \in Casts, NEW j \in Job, j # c[2], UNCHANGED vars,
         \A d \in Casts \ {c} : cast'[d] = cast[d],
         \A n \in Node : j \in jobs'[n] <=> j \in jobs[n]
  PROVE  JobState(j)'
<1> DEFINE new  == <<"new", j>>
           kill == <<"kill", j>>
<1>1. /\ new \in Casts /\ kill \in Casts /\ cast'[new] = cast[new] /\ cast'[kill] = cast[kill]
  BY CastFacts
<1>2. \A n \in Node : (Hit(new, n)' <=> Hit(new, n)) /\ (Hit(kill, n)' <=> Hit(kill, n))
  BY DEF Hit
<1>3. /\ Spreads(new) => Spreads(new)'
      /\ Spread(new) => Spread(new)'
      /\ Spreads(kill) => Spreads(kill)'
      /\ Spread(kill) => Spread(kill)'
  BY <1>1, <1>2, SameSpread
<1>4. TopRuns => TopRuns'
  BY DEF TopRuns, vars
<1>5. JobState(j)
  BY DEF CastInv
<1>6. QED
  BY <1>1, <1>3, <1>4, <1>5 DEF JobState

LEMMA NewJobInv ==
  ASSUME Settling, CastInv, Settled >= 3, NEW j \in Job, NEW a \in Entry, NewJob(j, a)
  PROVE  CastInv'
<1> DEFINE new  == <<"new", j>>
           kill == <<"kill", j>>
           r == [step |-> "search", at |-> a, queue |-> <<a>>, visited |-> {}]
<1>1. /\ cast[new].step = "idle" /\ jobs' = jobs /\ UNCHANGED vars
      /\ cast' = [cast EXCEPT ![new] = r]
      /\ new \in Casts /\ kill \in Casts /\ new # kill
  BY CastFacts DEF NewJob, CastStarts
<1>2. /\ cast'[new] = r /\ \A d \in Casts \ {new} : cast'[d] = cast[d]
  BY <1>1 DEF Settling, JobTypes
<1> HIDE DEF r
<1>3. /\ r.step = "search" /\ r.visited = {} /\ Elems(r.queue) = {a}
  BY DEF r, Elems
<1>4. pc' = pc /\ e_parent' = e_parent
  BY <1>1 DEF vars, links
<1>5. TopRuns'
  <2>1. 0 .. 2 \subseteq 0 .. Settled-1 /\ 0 .. 2 \subseteq Node
    BY JobsAssumption, NAssumption DEF Node
  <2>2. \A n \in 0 .. 2 : pc[n] = "run"
    BY <2>1 DEF NewJob, Settling, HelloOrder
  <2>3. QED
    BY <1>4, <2>1, <2>2 DEF TopRuns
<1>6. cast[kill].step = "idle" /\ \A n \in Node : j \notin jobs[n]
  <2>1. JobState(j) /\ cast[kill].step \in {"idle", "search", "done"}
    BY <1>1 DEF CastInv, Settling, JobTypes, CastState
  <2>2. QED
    BY <1>1, <2>1 DEF JobState
<1>7. Spreads(new)'
  <2>1. Covered(new)' = {a} /\ cast'[new].visited = {}
    BY <1>2, <1>3 DEF Covered, Pending
  <2>2. ASSUME NEW m \in Node, e_parent'[m] # None  PROVE ~Hit(new, e_parent[m])'
    <3>1. e_parent'[m] \in Node
      BY <1>4, <2>2 DEF Settling, TypeOK, LinksTypeOK, MaybeNode
    <3>2. QED
      BY <1>1, <1>6, <3>1 DEF Hit
  <2>3. QED
    BY <2>1, <2>2 DEF Spreads
<1>8. JobState(j)'
  BY <1>1, <1>2, <1>3, <1>5, <1>6, <1>7 DEF JobState
<1>9. ASSUME NEW i \in Job, i # j  PROVE JobState(i)'
  BY <1>1, <1>2, <1>9, OtherJob
<1>10. \A n \in Node : ~Active(n)' => jobs'[n] = {}
  BY <1>1, <1>4 DEF CastInv, Active
<1>11. QED
  BY <1>8, <1>9, <1>10 DEF CastInv

LEMMA KillJobInv ==
  ASSUME Settling, CastInv, ~KillEarly, NEW j \in Job, NEW a \in Entry, KillJob(j, a)
  PROVE  CastInv'
<1> DEFINE new  == <<"new", j>>
           kill == <<"kill", j>>
           r == [step |-> "search", at |-> a, queue |-> <<a>>, visited |-> {}]
<1>1. /\ cast[kill].step = "idle" /\ cast[new].step = "done" /\ jobs' = jobs /\ UNCHANGED vars
      /\ cast' = [cast EXCEPT ![kill] = r]
      /\ new \in Casts /\ kill \in Casts /\ new # kill
  BY CastFacts DEF KillJob, CastStarts
<1>2. /\ cast'[kill] = r /\ \A d \in Casts \ {kill} : cast'[d] = cast[d]
  BY <1>1 DEF Settling, JobTypes
<1> HIDE DEF r
<1>3. /\ r.step = "search" /\ r.visited = {} /\ Elems(r.queue) = {a}
  BY DEF r, Elems
<1>4. pc' = pc /\ e_parent' = e_parent
  BY <1>1 DEF vars, links
<1>5. TopRuns' /\ Spread(new)
  <2>1. JobState(j)
    BY DEF CastInv
  <2>2. QED
    BY <1>1, <1>4, <2>1 DEF JobState, TopRuns
<1>6. Spreads(kill)'
  <2>1. Covered(kill)' = {a} /\ cast'[kill].visited = {}
    BY <1>2, <1>3 DEF Covered, Pending
  <2>2. ASSUME NEW m \in Node, Active(m)', e_parent'[m] # None  PROVE ~Hit(kill, e_parent[m])'
    <3>1. Active(m) /\ e_parent[m] # None
      BY <1>4, <2>2 DEF Active
    <3>2. PICK p \in Node : p = e_parent[m] /\ Active(p)
      BY <3>1, ParentRuns
    <3>3. j \in jobs[p]
      BY <1>5, <3>2 DEF Spread, Hit
    <3>4. QED
      BY <1>1, <1>4, <3>2, <3>3 DEF Hit
  <2>3. QED
    BY <2>1, <2>2 DEF Spreads
<1>7. JobState(j)'
  BY <1>1, <1>2, <1>3, <1>5, <1>6 DEF JobState
<1>8. ASSUME NEW i \in Job, i # j  PROVE JobState(i)'
  BY <1>1, <1>2, <1>8, OtherJob
<1>9. \A n \in Node : ~Active(n)' => jobs'[n] = {}
  BY <1>1, <1>4 DEF CastInv, Active
<1>10. QED
  BY <1>7, <1>8, <1>9 DEF CastInv

LEMMA VisitInv ==
  ASSUME Settling, CastInv, NEW c \in Casts, VisitNode(c)
  PROVE  CastInv'
<1> DEFINE j    == c[2]
           new  == <<"new", j>>
           kill == <<"kill", j>>
<1>1. PICK t \in Node, r \in CastState :
        /\ Answers(t)
        /\ cast[c].step = "search" /\ r.step = "search"
        /\ jobs' = [jobs EXCEPT ![t] = JobsAfter(c, t)]
        /\ cast' = [cast EXCEPT ![c] = r]
  BY VisitFacts DEF Settling
<1>2. UNCHANGED vars /\ pc' = pc
  BY DEF VisitNode, vars
<1>3. /\ cast'[c] = r /\ \A d \in Casts \ {c} : cast'[d] = cast[d]
      /\ jobs'[t] = JobsAfter(c, t) /\ \A n \in Node \ {t} : jobs'[n] = jobs[n]
  BY <1>1 DEF Settling, JobTypes
<1>4. j \in Job /\ new \in Casts /\ kill \in Casts /\ new # kill /\ (c = new \/ c = kill)
  BY CastFacts
<1>5. JobState(j) /\ cast[new].step \in {"idle", "search", "done"}
      /\ cast[kill].step \in {"idle", "search", "done"}
  BY <1>4 DEF CastInv, Settling, JobTypes, CastState
<1>6. Spreads(c) /\ TopRuns
  BY <1>1, <1>4, <1>5 DEF JobState
<1>7. Spreads(c)' /\ TopRuns'
  BY <1>2, <1>6, VisitSpreads DEF TopRuns
<1> HIDE DEF j
<1>8. JobState(j)'
  <2>1. CASE c = new
    <3>1. cast[kill].step = "idle"
      BY <1>1, <1>5, <2>1 DEF JobState
    <3>2. QED
      BY <1>1, <1>3, <1>4, <1>7, <2>1, <3>1 DEF JobState
  <2>2. CASE c = kill
    <3>1. cast[new].step = "done"
      BY <1>1, <1>5, <2>2 DEF JobState
    <3>2. QED
      BY <1>1, <1>3, <1>4, <1>7, <2>2, <3>1 DEF JobState
  <2>3. QED
    BY <1>4, <2>1, <2>2
<1>9. ASSUME NEW i \in Job, i # c[2]  PROVE JobState(i)'
  <2>1. \A n \in Node : i \in jobs'[n] <=> i \in jobs[n]
    BY <1>3, <1>9 DEF JobsAfter
  <2>2. QED
    BY <1>2, <1>3, <1>9, <2>1, OtherJob
<1>10. \A n \in Node : ~Active(n)' => jobs'[n] = {}
  <2>1. Active(t)'
    BY <1>1, <1>2 DEF Answers, Settling, HelloOrder, Active
  <2>2. QED
    BY <1>2, <1>3, <2>1 DEF CastInv, Active
<1>11. QED
  BY <1>8, <1>9, <1>10 DEF CastInv, j

LEMMA EndInv ==
  ASSUME Settling, CastInv, NEW c \in Casts, CastEnds(c)
  PROVE  CastInv'
<1> DEFINE j    == c[2]
           new  == <<"new", j>>
           kill == <<"kill", j>>
           r    == [cast[c] EXCEPT !.step = "done", !.visited = {}]
<1>1. /\ cast[c].step = "search" /\ cast[c].queue = <<>> /\ jobs' = jobs /\ UNCHANGED vars
      /\ cast' = [cast EXCEPT ![c] = r]
  BY DEF CastEnds, Searching, Settling, JobTypes
<1>2. r.step = "done"
  BY DEF Settling, JobTypes, CastState
<1> HIDE DEF r
<1>3. cast'[c] = r /\ \A d \in Casts \ {c} : cast'[d] = cast[d]
  BY <1>1 DEF Settling, JobTypes
<1>4. j \in Job /\ new \in Casts /\ kill \in Casts /\ new # kill /\ (c = new \/ c = kill)
  BY CastFacts
<1>5. JobState(j)
  BY <1>4 DEF CastInv
<1>6. Spreads(c) /\ TopRuns
  BY <1>1, <1>4, <1>5 DEF JobState
<1>7. Spread(c)' /\ TopRuns'
  <2>1. Spread(c)
    BY <1>1, <1>6, EndsSpread
  <2>2. QED
    BY <1>1, <1>6, <2>1 DEF Spread, Active, Hit, TopRuns, vars
<1> HIDE DEF j
<1>8. JobState(j)'
  <2>1. CASE c = new
    <3>1. cast[kill].step = "idle"
      BY <1>1, <1>4, <1>5, <2>1 DEF JobState, Settling, JobTypes, CastState
    <3>2. QED
      BY <1>2, <1>3, <1>4, <1>7, <2>1, <3>1 DEF JobState
  <2>2. CASE c = kill
    <3>1. cast[new].step = "done"
      BY <1>1, <1>5, <2>2 DEF JobState
    <3>2. QED
      BY <1>2, <1>3, <1>4, <1>7, <2>2, <3>1 DEF JobState
  <2>3. QED
    BY <1>4, <2>1, <2>2
<1>9. ASSUME NEW i \in Job, i # c[2]  PROVE JobState(i)'
  BY <1>1, <1>3, <1>9, OtherJob
<1>10. \A n \in Node : ~Active(n)' => jobs'[n] = {}
  BY <1>1 DEF CastInv, Active, vars
<1>11. QED
  BY <1>8, <1>9, <1>10 DEF CastInv, j

\* A node that fetches the jobs of its parent gets to where its parent is.
LEMMA JoinSpreads ==
  ASSUME Settling, FirstJoin, CastInv, NEW n \in Node,
         Start(n) \/ JoinStep(n), cast' = cast,
         jobs' = IF pc[n] = "fetch" THEN [jobs EXCEPT ![n] = Fetched(n)] ELSE jobs,
         NEW d \in Casts
  PROVE  /\ Spreads(d) => Spreads(d)'
         /\ TopRuns /\ Spread(d) => Spread(d)'
         /\ TopRuns => TopRuns'
<1>0. TypeOK /\ Grove
  BY DEF Settling
<1>1. /\ \A m \in Node : Active(m) => Active(m)' /\ e_parent'[m] = e_parent[m]
      /\ \A m \in Node : pc[m] = "run" => pc'[m] = "run" /\ m # n
      /\ pc[n] # "fetch" => \A m \in Node : Active(m)' => Active(m)
      /\ pc[n] = "fetch" => /\ pc' = [pc EXCEPT ![n] = "activate"] /\ UNCHANGED links
                            /\ ~Active(n)
  BY <1>0, MembersStay
<1>2. \A m \in Node : m # n \/ pc[n] # "fetch" => jobs'[m] = jobs[m]
  BY DEF Settling, JobTypes
<1>3. \A m \in Node : m # n \/ pc[n] # "fetch" => (Hit(d, m)' <=> Hit(d, m))
  BY <1>2 DEF Hit
<1>4. Covered(d)' = Covered(d) /\ Pending(d)' = Pending(d) /\ cast[d].visited \subseteq Node
  BY DEF Covered, Pending, Settling, JobTypes, CastState
<1>5. \A m \in Node : Active(m)' => Active(m) \/ (m = n /\ pc[n] = "fetch")
  <2>1. CASE pc[n] # "fetch"
    BY <1>1, <2>1
  <2>2. CASE pc[n] = "fetch"
    BY <1>1, <2>2 DEF Active, Settling, TypeOK, ControlTypeOK
  <2>3. QED
    BY <2>1, <2>2
\* The nodes that are new among the members have what their parents have.
<1>6. ASSUME pc[n] = "fetch", e_parent[n] # None
      PROVE  /\ e_parent'[n] = e_parent[n] /\ (Hit(d, e_parent[n])' <=> Hit(d, e_parent[n]))
             /\ Hit(d, e_parent[n]) => Hit(d, n)'
  <2>1. PICK p \in Node : p = e_parent[n] /\ pc[p] = "run"
    BY <1>6, ParentRuns
  <2>2. e_parent'[n] = p
    BY <1>1, <1>6, <2>1 DEF links
  <2>3. jobs'[n] = jobs[p] /\ jobs'[p] = jobs[p]
    <3>1. jobs[n] = {}
      BY <1>6 DEF CastInv, Active
    <3>2. Fetched(n) = jobs[p]
      BY <1>6, <2>1, <3>1 DEF Fetched
    <3>3. QED
      BY <1>2, <1>6, <2>1, <3>2 DEF Settling, JobTypes
  <2>4. QED
    BY <2>1, <2>2, <2>3 DEF Hit
<1>7. ASSUME NEW m \in Node, Active(m), e_parent[m] # None
      PROVE  e_parent'[m] = e_parent[m] /\ (Hit(d, e_parent[m])' <=> Hit(d, e_parent[m]))
  <2>1. PICK p \in Node : p = e_parent[m] /\ pc[p] = "run"
    BY <1>7, ParentRuns
  <2>2. e_parent'[m] = p /\ p # n
    BY <1>1, <1>7, <2>1
  <2>3. Hit(d, p)' <=> Hit(d, p)
    BY <1>3, <2>2
  <2>4. QED
    BY <2>1, <2>2, <2>3 DEF Hit
<1>8. ASSUME Spreads(d)  PROVE Spreads(d)'
  <2>1. Covered(d)' # {}
    BY <1>4, <1>8 DEF Spreads
  <2>2. ASSUME NEW u \in cast'[d].visited
        PROVE  /\ pc'[u] = "run" /\ Hit(d, u)'
               /\ e_parent'[u] # None => e_parent'[u] \in Covered(d)'
               /\ u < 3 => 0 .. 2 \subseteq Covered(d)'
    <3>1. u \in Node /\ u \in cast[d].visited
      BY <1>4, <2>2
    <3>2. /\ pc[u] = "run" /\ Hit(d, u)
          /\ e_parent[u] # None => e_parent[u] \in Covered(d)
          /\ u < 3 => 0 .. 2 \subseteq Covered(d)
      BY <1>8, <3>1 DEF Spreads
    <3>3. pc'[u] = "run" /\ u # n /\ e_parent'[u] = e_parent[u]
      BY <1>1, <3>1, <3>2 DEF Active
    <3>4. QED
      BY <1>3, <1>4, <3>1, <3>2, <3>3
  <2>3. ASSUME NEW m \in Node, Active(m)', e_parent'[m] # None, Hit(d, e_parent[m])'
        PROVE  Hit(d, m)' \/ m \in Pending(d)'
    <3>1. CASE Active(m)
      <4>1. e_parent[m] # None
        BY <1>1, <2>3, <3>1
      <4>2. Hit(d, m) \/ m \in Pending(d)
        BY <1>7, <1>8, <2>3, <3>1, <4>1 DEF Spreads
      <4>3. Hit(d, m)' <=> Hit(d, m)
        BY <1>1, <1>3, <3>1
      <4>4. QED
        BY <1>4, <4>2, <4>3
    <3>2. CASE m = n /\ pc[n] = "fetch"
      <4>1. e_parent[n] # None
        BY <1>1, <2>3, <3>2 DEF links
      <4>2. Hit(d, e_parent[n])'
        BY <2>3, <3>2
      <4>3. Hit(d, n)'
        BY <1>6, <3>2, <4>1, <4>2
      <4>4. QED
        BY <3>2, <4>3 DEF Hit
    <3>3. QED
      BY <1>5, <2>3, <3>1, <3>2
  <2>4. QED
    BY <2>1, <2>2, <2>3 DEF Spreads
<1>9. ASSUME TopRuns, Spread(d)  PROVE Spread(d)'
  <2>1. SUFFICES ASSUME NEW m \in Node, Active(m)'  PROVE Hit(d, m)'
    BY DEF Spread
  <2>2. CASE Active(m)
    BY <1>1, <1>3, <1>9, <2>2 DEF Spread
  <2>3. CASE m = n /\ pc[n] = "fetch"
    <3>1. e_parent[n] # None
      <4>1. n \in Nat /\ n \notin 0 .. 2
        BY <1>9, <2>3, NAssumption DEF TopRuns, Node
      <4>2. n >= 3 /\ n \in Linked
        BY <2>3, <4>1 DEF Linked
      <4>3. QED
        BY <1>0, <4>2, NAssumption DEF Grove, Node, None
    <3>2. Active(e_parent[n]) /\ e_parent[n] \in Node
      BY <2>3, <3>1, ParentRuns
    <3>3. QED
      BY <1>6, <1>9, <2>3, <3>1, <3>2 DEF Spread
  <2>4. QED
    BY <1>5, <2>1, <2>2, <2>3
<1>10. TopRuns => TopRuns'
  BY <1>1 DEF TopRuns
<1>11. QED
  BY <1>8, <1>9, <1>10

LEMMA JoinInv ==
  ASSUME Settling, FirstJoin, CastInv, NEW n \in Node,
         Start(n) \/ JoinStep(n), cast' = cast,
         jobs' = IF pc[n] = "fetch" THEN [jobs EXCEPT ![n] = Fetched(n)] ELSE jobs
  PROVE  CastInv'
<1>1. ASSUME NEW m \in Node, NEW j \in jobs'[m]  PROVE \E p \in Node : j \in jobs[p]
  <2>1. e_parent[n] \in MaybeNode
    BY DEF Settling, TypeOK, LinksTypeOK
  <2>2. jobs'[m] = jobs[m] \/ jobs'[m] = Fetched(n)
    BY DEF Settling, JobTypes
  <2>3. QED
    BY <1>1, <2>1, <2>2 DEF Fetched, MaybeNode
<1>2. ASSUME NEW j \in Job  PROVE JobState(j)'
  <2> DEFINE new  == <<"new", j>>
             kill == <<"kill", j>>
  <2>1. new \in Casts /\ kill \in Casts /\ JobState(j)
    BY CastFacts DEF CastInv
  <2>2. /\ Spreads(new) => Spreads(new)'
        /\ TopRuns /\ Spread(new) => Spread(new)'
        /\ Spreads(kill) => Spreads(kill)'
        /\ TopRuns /\ Spread(kill) => Spread(kill)'
        /\ TopRuns => TopRuns'
    BY <2>1, JoinSpreads
  <2>3. (\A m \in Node : j \notin jobs[m]) => \A m \in Node : j \notin jobs'[m]
    BY <1>1
  <2>4. QED
    BY <2>1, <2>2, <2>3 DEF JobState
<1>3. ASSUME NEW m \in Node, ~Active(m)'  PROVE jobs'[m] = {}
  <2>1. ~Active(m) /\ ~(m = n /\ pc[n] = "fetch")
    <3>1. Active(m) => Active(m)'
      BY MembersStay DEF Settling
    <3>2. pc[n] = "fetch" => pc'[n] = "activate"
      BY MembersStay DEF Settling, TypeOK, ControlTypeOK
    <3>3. QED
      BY <1>3, <3>1, <3>2 DEF Active
  <2>2. jobs'[m] = jobs[m]
    BY <2>1 DEF Settling, JobTypes
  <2>3. QED
    BY <2>1, <2>2 DEF CastInv
<1>4. QED
  BY <1>2, <1>3 DEF CastInv

LEMMA NextCastInv ==
  ASSUME N < 12, Settled >= 3, ~KillEarly, TypeOK, HelloOrder, Shape, FirstJoin,
         JobTypes, CastInv, [JNext]_jvars
  PROVE  CastInv'
<1>1. Settling
  BY GroveHolds DEF Settling
<1>2. ASSUME NEW n \in Node, Start(n), UNCHANGED <<jobs, cast>>  PROVE CastInv'
  <2>1. pc[n] # "fetch"
    BY <1>2 DEF Start
  <2>2. QED
    BY <1>1, <1>2, <2>1, JoinInv
<1>3. ASSUME NEW n \in Node, Worker(n)  PROVE CastInv'
  BY <1>1, <1>3, JoinInv DEF Worker
<1>4. ASSUME NEW j \in Job, NEW a \in Entry, NewJob(j, a) \/ KillJob(j, a)  PROVE CastInv'
  BY <1>1, <1>4, NewJobInv, KillJobInv
<1>5. ASSUME NEW c \in Casts, VisitNode(c) \/ CastEnds(c)  PROVE CastInv'
  BY <1>1, <1>5, VisitInv, EndInv
<1>6. CASE UNCHANGED jvars
  <2>1. UNCHANGED vars /\ jobs' = jobs /\ cast' = cast /\ pc' = pc
    BY <1>6 DEF jvars, vars
  <2>2. ASSUME NEW d \in Casts
        PROVE  (Spreads(d) => Spreads(d)') /\ (Spread(d) => Spread(d)')
    <3>1. \A n \in Node : Hit(d, n)' <=> Hit(d, n)
      BY <2>1 DEF Hit
    <3>2. QED
      BY <1>1, <2>1, <3>1, SameSpread
  <2>3. ASSUME NEW j \in Job  PROVE JobState(j)'
    <3>1. JobState(j)
      BY DEF CastInv
    <3>2. QED
      BY <2>1, <2>2, <3>1, CastFacts DEF JobState, TopRuns
  <2>4. QED
    BY <2>1, <2>3 DEF CastInv, Active
<1>7. QED
  BY <1>2, <1>3, <1>4, <1>5, <1>6 DEF JNext

CastsRight == FirstJoin /\ JobTypes /\ CastInv

LEMMA CastsStayRight ==
  ASSUME N < 12, Settled >= 3, KillEarly = FALSE
  PROVE  JSpec => []CastsRight
<1>1. JInit => CastsRight
  <2>1. SUFFICES ASSUME JInit  PROVE CastsRight
    OBVIOUS
  <2>2. FirstJoin
    BY <2>1 DEF JInit, Init, FirstJoin, NoLocals
  <2>3. JobTypes
    <3>1. [step |-> "idle", at |-> None, queue |-> <<>>, visited |-> {}] \in CastState
      BY DEF CastState, MaybeNode
    <3>2. QED
      BY <2>1, <3>1 DEF JInit, JobTypes
  <2>4. CastInv
    BY <2>1, CastFacts DEF JInit, CastInv, JobState
  <2>5. QED
    BY <2>2, <2>3, <2>4 DEF CastsRight
<1>2. TypeOK /\ HelloOrder /\ Shape /\ CastsRight /\ [JNext]_jvars /\ [Next]_vars => CastsRight'
  <2>1. SUFFICES ASSUME TypeOK, HelloOrder, Shape, CastsRight, [JNext]_jvars, [Next]_vars
                 PROVE  CastsRight'
    OBVIOUS
  <2>2. FirstJoin' /\ JobTypes' /\ CastInv'
    BY <2>1, FirstJoinStep, JNextTypes, NextCastInv DEF CastsRight
  <2>3. QED
    BY <2>2 DEF CastsRight
<1>3. JSpec => []TypeOK /\ []HelloOrder /\ []Shape /\ [][Next]_vars
  BY JobsKeepJoins, TypeCorrect, HelloOrderHolds, NetworkShape, PTL DEF Spec
<1>4. QED
  BY <1>1, <1>2, <1>3, PTL DEF JSpec

\* Once jobs_new has answered, every member has the job until somebody kills it,
\* also the members that joined during the search and the ones that join later:
\* with at most eleven nodes, where jobs start after the top ring is closed and
\* are killed after jobs_new has answered.  NewReachesAll of run jobs.
THEOREM NewReachesMembers ==
  ASSUME N < 12, Settled >= 3, KillEarly = FALSE
  PROVE  JSpec => []NewReachesAll
<1>1. CastsRight => NewReachesAll
  BY CastFacts DEF CastsRight, CastInv, JobState, Spread, Hit, Active, NewReachesAll
<1>2. QED
  BY <1>1, CastsStayRight, PTL

\* A job that was created and killed is nowhere any more, and no node that joins
\* brings it back from its parent: under the same conditions.  KilledIsGone of
\* run jobs.
THEOREM KilledStaysGone ==
  ASSUME N < 12, Settled >= 3, KillEarly = FALSE
  PROVE  JSpec => []KilledIsGone
<1>1. CastsRight => KilledIsGone
  <2>1. SUFFICES ASSUME CastsRight, NEW j \in Job, cast[<<"kill", j>>].step = "done",
                        NEW n \in Node, j \in jobs[n]
                 PROVE  FALSE
    BY DEF KilledIsGone
  <2>2. Active(n) /\ JobState(j)
    BY <2>1 DEF CastsRight, CastInv
  <2>3. QED
    BY <2>1, <2>2 DEF JobState, Spread, Hit
<1>2. QED
  BY <1>1, CastsStayRight, PTL

=============================================================================
