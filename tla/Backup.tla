------------------------------- MODULE Backup --------------------------------
(***************************************************************************)
(* The points of the C++ nodes: the round of worker() that makes a point,  *)
(* sends it to both neighbours and stores what the neighbours have sent    *)
(* (cpp/node.hpp, namespace jobs), and the handlers that read or change    *)
(* the same data (cpp/node.cpp, namespace Handlers::jobs).                 *)
(*                                                                         *)
(* The nodes are those of the top ring.  up and WAIT do not change here:   *)
(* module Visualize adds crashes and what the survivors make of them.      *)
(* Each job is created and removed at most once per node: its id is a      *)
(* uuid4.                                                                  *)
(***************************************************************************)
EXTENDS NodeLinks

CONSTANTS
  J,           \* how many jobs there are
  Fresh,       \* the jobs that are created later
  Killed,      \* the jobs that are killed
  MaxPoints,   \* how many points a node makes for a job, beside the first
  Pool,        \* the threads of the HTTP server of a node (5 in the code)
  Entry        \* the nodes whose handlers may all be waiting for job_mutex

\* By their ids, in the order node_jobs is sorted by.
Job == 1 .. J

ASSUME BackupAssumption ==
  /\ J \in Nat
  /\ Fresh \subseteq Job
  /\ Killed \subseteq Job
  /\ MaxPoints \in Nat
  /\ Pool \in Nat \ {0}
  /\ Entry \subseteq Node

\* A backup_request: the node, the job, and the number of the point.
Point == Node \X Job \X (1 .. MaxPoints)

VARIABLES
  up,        \* the nodes whose process runs
  WAIT,      \* the nodes that are reset and not yet back on the ring
  pc,        \* the step of the worker thread
  stage,     \* node_jobs: what has become of each job at each node
  made,      \* how many points a node has made for each job
  queue,     \* backup_queue
  backup,    \* the backup maps of the jobs of a node
  left,      \* how many requests consume_backup_queue() has still to take
  waiting,   \* how many handlers of a node wait for its job_mutex
  acked,     \* history: <<t, p>> when t, knowing the job, has answered a backup of p
  raced      \* history: those of them that were lost in a race for the queue

net == <<links, up, WAIT>>

jobdata == <<stage, made, backup>>

history == <<acked, raced>>

bvars == <<net, pc, jobdata, queue, left, waiting, history>>

BTypeOK ==
  /\ LinksTypeOK
  /\ up \subseteq Node
  /\ WAIT \subseteq up
  /\ pc \in [Node -> {"loop", "next", "prev", "consume"}]
  /\ stage \in [Node -> [Job -> {"absent", "known", "removed"}]]
  /\ made \in [Node -> [Job -> 0 .. MaxPoints]]
  /\ queue \in [Node -> Seq(Point)]
  /\ backup \in [Node -> SUBSET Point]
  /\ left \in [Node -> Nat]
  /\ waiting \in [Node -> 0 .. Pool]
  /\ acked \subseteq Node \X Point
  /\ raced \subseteq acked

\* A ring of N nodes at work.
BInit ==
  /\ e_parent   = [n \in Node |-> None]
  /\ e_next     = [n \in Node |-> (n + 1) % N]
  /\ e_prev     = [n \in Node |-> (n - 1) % N]
  /\ e_children = [n \in Node |-> <<>>]
  /\ up = Node
  /\ WAIT = {}
  /\ pc      = [n \in Node |-> "loop"]
  /\ stage   = [n \in Node |-> [j \in Job |-> IF j \in Fresh THEN "absent" ELSE "known"]]
  /\ made    = [n \in Node |-> [j \in Job |-> 0]]
  /\ queue   = [n \in Node |-> <<>>]
  /\ backup  = [n \in Node |-> {}]
  /\ left    = [n \in Node |-> 0]
  /\ waiting = [n \in Node |-> 0]
  /\ acked   = {}
  /\ raced   = {}

-----------------------------------------------------------------------------
\* job_mutex is held by the worker from work() to the end of its round; the
\* handlers hold it for one step only.
InRound(n) == pc[n] # "loop"

Known(n) == {j \in Job : stage[n][j] = "known"}

\* Mutant: every node works on the first job.
WorkedOnFirst(n) == CHOOSE j \in Known(n) : \A i \in Known(n) : j <= i

\* node_jobs[uuid % node_jobs.size()], the job that n works on.
WorkedOn(n) ==
  CHOOSE j \in Known(n) :
    Cardinality({i \in Known(n) : i < j}) = n % Cardinality(Known(n))

PointsOf(n) ==
  {p \in Point : p[1] = n /\ p[2] \in Known(n) /\ p[3] <= made[n][p[2]]}

\* What job_data_to_json tells of all jobs.
Stored(n) == PointsOf(n) \cup backup[n]

Queued(n) == {queue[n][i] : i \in DOMAIN queue[n]}


HasThread(t) == waiting[t] < Pool

-----------------------------------------------------------------------------
(***************************************************************************)
(* The worker.                                                             *)
(***************************************************************************)
\* consume_backup_queue() takes as many requests as the queue has when it
\* starts; its end is the end of the round.
Take(n, len) ==
  /\ left' = [left EXCEPT ![n] = len]
  /\ pc'   = [pc EXCEPT ![n] = IF len = 0 THEN "loop" ELSE "consume"]

\* work() makes a point for one job.  At the bound of points the round goes on
\* as it does without jobs.
Work(n) ==
  /\ pc[n] = "loop"
  /\ n \notin WAIT
  /\ IF Known(n) # {} /\ made[n][WorkedOn(n)] < MaxPoints
     THEN /\ made' = [made EXCEPT ![n][WorkedOn(n)] = @ + 1]
          /\ pc'   = [pc EXCEPT ![n] = "next"]
          /\ UNCHANGED left
     ELSE Take(n, Len(queue[n])) /\ UNCHANGED made
  /\ UNCHANGED <<net, stage, backup, queue, waiting, history>>

\* The node that the worker of n is sending to.
Target(n) == IF pc[n] = "next" THEN e_next[n] ELSE e_prev[n]

\* Mutant: the end of the points instead of the back.
EndOfPoints(n) == <<n, WorkedOn(n), made[n][WorkedOn(n)] + 1>>

\* The back of the points of the job.
Latest(n) == <<n, WorkedOn(n), made[n][WorkedOn(n)]>>

\* What t answers to n, if it knows the job: for other jobs the request is dropped.
Answered(n, t) ==
  IF WorkedOn(n) \in Known(t) THEN {<<t, Latest(n)>>} ELSE {}

\* The jobs_backup handler of t pushes the point and answers: it takes no lock
\* and is not gated by WAIT.
Push(n, t) ==
  /\ queue' = [queue EXCEPT ![t] = Append(@, Latest(n))]
  /\ acked' = acked \cup Answered(n, t)
  /\ raced' = raced \ Answered(n, t)

\* Two threads in a std::queue is undefined behaviour; the model has the outcome
\* that the request is answered and its element is lost.
PushLost(n, t) ==
  /\ \/ pc[t] = "consume"
     \/ \E m \in up \ {n} : pc[m] \in {"next", "prev"} /\ Target(m) = t
  /\ acked' = acked \cup Answered(n, t)
  /\ raced' = raced \cup (Answered(n, t) \ acked)
  /\ UNCHANGED queue

\* send_backup() calls next and then prev; what the call throws is dropped.
Send(n) ==
  /\ pc[n] \in {"next", "prev"}
  /\ LET t == Target(n) IN
       IF t \in up
       THEN HasThread(t) /\ (Push(n, t) \/ PushLost(n, t))
       ELSE UNCHANGED <<queue, history>>
  /\ IF pc[n] = "next" THEN pc' = [pc EXCEPT ![n] = "prev"] /\ UNCHANGED left
     ELSE Take(n, Len(queue'[n]))
  /\ UNCHANGED <<net, jobdata, waiting>>

\* Mutant: the queue is cleared after its first requests have been taken.
ConsumeAndClear(n) ==
  /\ pc[n] = "consume"
  /\ LET p == Head(queue[n]) IN
       backup' = IF p[2] \in Known(n) THEN [backup EXCEPT ![n] = @ \cup {p}] ELSE backup
  /\ queue' = [queue EXCEPT ![n] = IF left[n] = 1 THEN <<>> ELSE Tail(@)]
  /\ Take(n, left[n] - 1)
  /\ UNCHANGED <<net, stage, made, waiting, history>>

\* One turn of consume_backup_queue(): a request for an unknown job is dropped.
Consume(n) ==
  /\ pc[n] = "consume"
  /\ LET p == Head(queue[n]) IN
       backup' = IF p[2] \in Known(n) THEN [backup EXCEPT ![n] = @ \cup {p}] ELSE backup
  /\ queue' = [queue EXCEPT ![n] = Tail(@)]
  /\ Take(n, left[n] - 1)
  /\ UNCHANGED <<net, stage, made, waiting, history>>

WorkerRound(n) == n \in up /\ (Work(n) \/ Send(n) \/ Consume(n))

-----------------------------------------------------------------------------
(***************************************************************************)
(* The handlers that take job_mutex.                                       *)
(***************************************************************************)
\* A request for jobs_ids, jobs_all, jobs_data, jobs_add, jobs_remove or
\* jobs_visualize that reaches t during a round keeps a thread till its end.
Wait(t) ==
  /\ t \in up \cap Entry
  /\ InRound(t) /\ HasThread(t)
  /\ waiting' = [waiting EXCEPT ![t] = @ + 1]
  /\ UNCHANGED <<net, pc, jobdata, queue, left, history>>

\* A handler of t has the mutex: one that waited, beside the busy ones that
\* wait for something else, or a new one.
Locks(t, busy) ==
  /\ t \in up /\ ~InRound(t)
  /\ IF waiting[t] > busy THEN waiting' = [waiting EXCEPT ![t] = @ - 1]
     ELSE HasThread(t) /\ UNCHANGED waiting
  /\ UNCHANGED <<net, pc, queue, left>>

\* The handlers that only read, and all handlers when they answer "wait".
Read == UNCHANGED <<jobdata, history>>

AddJob(t, j) ==
  /\ t \notin WAIT
  /\ stage[t][j] = "absent"
  /\ stage' = [stage EXCEPT ![t][j] = "known"]
  /\ UNCHANGED <<made, backup, history>>

\* What t has answered about job j.
AboutJob(t, j) == {a \in acked : a[1] = t /\ a[2][2] = j}

\* The points and the backup of the job go with it.
RemoveJob(t, j) ==
  /\ t \notin WAIT
  /\ j \in Killed /\ stage[t][j] = "known"
  /\ stage'  = [stage EXCEPT ![t][j] = "removed"]
  /\ made'   = [made EXCEPT ![t][j] = 0]
  /\ backup' = [backup EXCEPT ![t] = {p \in @ : p[2] # j}]
  /\ acked'  = acked \ AboutJob(t, j)
  /\ raced'  = raced \ AboutJob(t, j)

Serve(t, busy) ==
  /\ Locks(t, busy)
  /\ Read \/ \E j \in Job : AddJob(t, j) \/ RemoveJob(t, j)

-----------------------------------------------------------------------------
BNext == \E n \in Node : WorkerRound(n) \/ Wait(n) \/ Serve(n, 0)

BSpec == BInit /\ [][BNext]_bvars

\* Workers go on.  The server takes requests in the order in which they arrive,
\* so a worker whose callee has a thread again and again gets one.
BFairSpec ==
  /\ BSpec
  /\ \A n \in Node : SF_bvars(WorkerRound(n)) /\ WF_bvars(Serve(n, 0) /\ waiting[n] > 0)

-----------------------------------------------------------------------------
(***************************************************************************)
(* Properties                                                              *)
(***************************************************************************)
\* What has been answered and not lost in the race for a queue.
Safe == acked \ raced

\* A node that has answered a backup of a job it knows has the point in its
\* queue or in the backup of the job, as long as it lives and the job is not
\* removed there, unless the push met another thread in the queue (raced): no
\* other step loses an answered point (node.hpp:378-391 and node.cpp:410).
NoBackupLost ==
  \A a \in Safe : a[1] \in up => a[2] \in Queued(a[1]) \cup backup[a[1]]

\* Every worker of a set sends to another one of the set, whose threads are all
\* held by handlers that wait for the end of its round.
Jammed ==
  \E S \in SUBSET Node \ {{}} : \A n \in S :
    pc[n] \in {"next", "prev"} /\ Target(n) \in S /\ waiting[Target(n)] = Pool


\* All nodes know the same jobs, and j is among the first N of them.
Dealt(j) ==
  /\ \A n \in Node : j \in Known(n) /\ Known(n) = Known(0)
  /\ Cardinality({i \in Known(0) : i < j}) < N

\* The nodes share the jobs out without talking about it (node.hpp:393-394):
\* while all know the same jobs, each of the first N jobs gets a point.  A job
\* behind those is worked on by nobody.
JobsShared ==
  \A j \in Job : Dealt(j) ~> ~Dealt(j) \/ Jammed \/ (\E n \in Node : made[n][j] > 0)

=============================================================================
