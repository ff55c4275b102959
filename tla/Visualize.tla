----------------------------- MODULE Visualize -------------------------------
(***************************************************************************)
(* The handler jobs_visualize of the C++ nodes (cpp/node.cpp): it asks the *)
(* nodes for the data of a job breadth first along the edges and merges    *)
(* their points and backup, while points are made, sent and stored and     *)
(* nodes crash and rejoin (module Backup).                                 *)
(*                                                                         *)
(* A search is watched for one point that one node has stored when the     *)
(* search starts; the others are merged in the same way.  There is one     *)
(* search at a time.                                                       *)
(***************************************************************************)
EXTENDS Backup

CONSTANT MaxCrashes   \* how many processes may crash

ASSUME VisualizeAssumption == MaxCrashes \in Nat

VARIABLES
  viz,      \* the search: its node, its job, queue and visited map
  watched,  \* history: a set of at most one <<n, p>>, point p stored at n
  drawn     \* the watched point has been merged

vvars == <<bvars, viz, watched, drawn>>

NoSearch == [at |-> None, job |-> 0, queue |-> <<>>, visited |-> {}]

VTypeOK ==
  /\ BTypeOK
  /\ viz \in [at : MaybeNode, job : 0 .. J, queue : Seq(Node), visited : SUBSET Node]
  /\ watched \subseteq Node \X Point
  /\ drawn \in BOOLEAN

VInit ==
  /\ BInit
  /\ viz = NoSearch
  /\ watched = {}
  /\ drawn = FALSE

Searching == viz.at # None

\* The search holds a thread of its node and no mutex.
Held(t) == IF viz.at = t THEN 1 ELSE 0

-----------------------------------------------------------------------------
(***************************************************************************)
(* Crashes, and what the survivors make of them.  How a crash is noticed,  *)
(* the search of a reset and the rejoin are in Failover; here a reset      *)
(* raises WAIT on all nodes at once and each takes its place on the ring   *)
(* in one step.                                                            *)
(***************************************************************************)
Crash(n) ==
  /\ n \in up /\ Cardinality(Node \ up) < MaxCrashes
  /\ up'      = up \ {n}
  /\ WAIT'    = WAIT \ {n}
  /\ pc'      = [pc EXCEPT ![n] = "loop"]
  /\ made'    = [made EXCEPT ![n] = [j \in Job |-> 0]]
  /\ queue'   = [queue EXCEPT ![n] = <<>>]
  /\ backup'  = [backup EXCEPT ![n] = {}]
  /\ left'    = [left EXCEPT ![n] = 0]
  /\ waiting' = [waiting EXCEPT ![n] = 0]
  /\ UNCHANGED <<links, stage, history>>

\* A worker between two rounds finds its next node dead and resets all nodes,
\* whatever their workers are doing.
ResetAll(n) ==
  /\ n \in up /\ pc[n] = "loop"
  /\ WAIT = {} /\ e_next[n] \notin up
  /\ WAIT' = up
  /\ UNCHANGED <<links, up, pc, jobdata, queue, left, waiting, history>>

\* The worker of n comes to the end of its round and joins those that are back.
JoinAgain(n) ==
  /\ n \in WAIT /\ pc[n] = "loop"
  /\ WAIT' = WAIT \ {n}
  /\ \/ /\ WAIT = up
        /\ e_next' = [e_next EXCEPT ![n] = n]
        /\ e_prev' = [e_prev EXCEPT ![n] = n]
     \/ \E m \in up \ WAIT :
          /\ e_next' = [e_next EXCEPT ![m] = n, ![n] = e_next[m]]
          /\ e_prev' = [e_prev EXCEPT ![e_next[m]] = n, ![n] = m]
  /\ UNCHANGED <<e_parent, e_children, up, pc, jobdata, queue, left, waiting, history>>

-----------------------------------------------------------------------------
\* The ring is open at one place at most, so a search in both directions gets
\* to all nodes.
RingHolds(alive) ==
  WAIT = {} /\ Cardinality({e_next[n] : n \in alive} \ alive) <= 1

Watchable(j) ==
  {x \in up \X Point : RingHolds(up) /\ x[2][2] = j /\ x[2] \in Stored(x[1])}

\* A request for a job of t, once its handler has had the mutex for the starting
\* points.
Visualize(t, j) ==
  /\ ~Searching
  /\ t \in Entry \ WAIT /\ j \in Known(t)
  /\ t \in up /\ ~InRound(t) /\ HasThread(t)
  /\ waiting' = [waiting EXCEPT ![t] = @ + 1]
  /\ viz' = [at |-> t, job |-> j, queue |-> <<t>>, visited |-> {}]
  /\ watched' \in IF Watchable(j) = {} THEN {{}} ELSE {{x} : x \in Watchable(j)}
  /\ drawn' = FALSE
  /\ UNCHANGED <<net, pc, jobdata, queue, left, history>>

\* Mutant: the handler of jobs_data leaves the backup out.
DataOfPointsOnly(t) == PointsOf(t)

\* The points and the backup in the answer of jobs_data.
DataOf(t) == {p \in Stored(t) : p[2] = viz.job}

\* The search takes t from its queue.  A living t answers when it is not in WAIT
\* and its mutex is free; a crashed one throws, and no edges of it are known.
\* Visited nodes leave the queue when it is extended.
Visit ==
  /\ Searching /\ viz.queue # <<>>
  /\ LET t     == Head(viz.queue)
         seen  == viz.visited \cup {t}
         edges == IF t \in up THEN AllEdges(t) ELSE <<>>
     IN
     /\ t \in up => HasThread(t) /\ ~InRound(t) /\ t \notin WAIT
     /\ viz' = [viz EXCEPT
          !.visited = seen,
          !.queue   = Without(Tail(@) \o edges, seen)]
     /\ drawn' = (drawn \/ (t \in up /\ \E x \in watched : x[2] \in DataOf(t)))
  /\ UNCHANGED <<bvars, watched>>

\* The points are sent to the client.
Answer ==
  /\ Searching /\ viz.queue = <<>>
  /\ viz' = NoSearch /\ watched' = {} /\ drawn' = FALSE
  /\ waiting' = [waiting EXCEPT ![viz.at] = @ - 1]
  /\ UNCHANGED <<net, pc, jobdata, queue, left, history>>

\* What is no longer owed to the client after node n has crashed.
Forget(keep) ==
  /\ watched' = IF keep THEN watched ELSE {}
  /\ drawn'   = (drawn /\ keep)

CrashAt(n) ==
  /\ Crash(n)
  /\ viz' = IF viz.at = n THEN NoSearch ELSE viz
  /\ Forget(viz.at # n /\ RingHolds(up \ {n}) /\ \A x \in watched : x[1] # n)

ResetDuring(n) ==
  /\ ResetAll(n)
  /\ Forget(FALSE)
  /\ UNCHANGED viz

VNext ==
  \/ \E n \in Node :
       \/ (WorkerRound(n) \/ Wait(n) \/ JoinAgain(n)) /\ UNCHANGED <<viz, watched, drawn>>
       \/ Serve(n, Held(n)) /\ UNCHANGED <<viz, watched, drawn>>
       \/ CrashAt(n) \/ ResetDuring(n)
       \/ \E j \in Job : Visualize(n, j)
  \/ Visit \/ Answer

VSpec == VInit /\ [][VNext]_vvars

-----------------------------------------------------------------------------
(***************************************************************************)
(* Properties                                                              *)
(***************************************************************************)
\* A point that two nodes beside its own have answered, and not lost in the race
\* for their queues, survives two crashes (README.md:2): unless its job is
\* killed, some living node has it.
CopiesSurvive ==
  \A p \in Point :
    /\ Cardinality({t \in Node \ {p[1]} : <<t, p>> \in Safe}) >= 2
    /\ \A t \in Node : stage[t][p[2]] # "removed"
    => \E t \in up : p \in Stored(t) \cup Queued(t)

\* A picture shows every point that a node had, of its own or as a backup, when
\* the search began, unless the node has crashed or forgotten the job since: the
\* points of crashed nodes appear as long as a living one has their backup.  It
\* is only owed while no reset relinks the ring (node.cpp:553-583).
PictureComplete ==
  [][Answer => drawn \/ \A x \in watched : viz.job \notin Known(x[1])]_vvars

=============================================================================
