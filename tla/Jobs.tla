-------------------------------- MODULE Jobs ---------------------------------
(***************************************************************************)
(* The jobs of the C++ nodes: the broadcasts jobs_new and jobs_kill, which *)
(* search the network breadth first and call jobs_add or jobs_remove at    *)
(* every node (cpp/node.cpp, namespace Handlers::jobs), and the jobs that  *)
(* a joining node fetches from its parent, composed with the join protocol.*)
(*                                                                         *)
(* A handler runs on one of the Pool threads of its node from request to   *)
(* answer: a broadcast occupies a thread of the node it was sent to, and   *)
(* every request, also one of a node to itself, needs a free thread.       *)
(***************************************************************************)
EXTENDS Join

CONSTANTS
  Job,       \* the jobs that are ever created, named by their uuid4
  Pool,      \* the threads of the HTTP server of a node (5 in the code)
  Entry,     \* the nodes that clients talk to
  Settled,   \* broadcasts start when this many nodes are members
  KillEarly  \* clients kill jobs that jobs_new has not yet answered

ASSUME JobsAssumption ==
  /\ Pool \in Nat \ {0}
  /\ Entry \subseteq Node
  /\ Settled \in 1 .. N
  /\ KillEarly \in BOOLEAN

VARIABLES
  jobs,   \* node_jobs, and the keys of p: the jobs a node knows
  cast    \* the broadcasts

jvars == <<vars, jobs, cast>>

Casts == {"new", "kill"} \X Job

CastState == [step    : {"idle", "search", "done"},
              at      : MaybeNode,      \* the node that runs the handler
              queue   : Seq(Node),
              visited : SUBSET Node]

JTypeOK ==
  /\ TypeOK
  /\ jobs \in [Node -> SUBSET Job]
  /\ cast \in [Casts -> CastState]

JInit ==
  /\ Init
  /\ jobs = [n \in Node |-> {}]
  /\ cast = [c \in Casts |->
               [step |-> "idle", at |-> None, queue |-> <<>>, visited |-> {}]]

-----------------------------------------------------------------------------
Searching(c) == cast[c].step = "search"

Busy(t) == Cardinality({c \in Casts : Searching(c) /\ cast[c].at = t})

\* Mutant: the pool of the node has the default size of the server, one.
HasThreadOfOne(t) == Busy(t) < 1

HasThread(t) == Busy(t) < Pool

\* A client sends jobs_new or jobs_kill to node a, which starts the search at
\* itself.  It takes the id of the job from the answer to jobs_new or, early,
\* from jobs_ids.
CastStarts(c, a) ==
  /\ cast[c].step = "idle"
  /\ Answers(a) /\ HasThread(a)
  /\ cast' = [cast EXCEPT ![c] = [step |-> "search", at |-> a,
                                  queue |-> <<a>>, visited |-> {}]]
  /\ UNCHANGED <<vars, jobs>>

NewJob(j, a) ==
  /\ \A n \in 0 .. Settled-1 : ~WAIT[n]
  /\ CastStarts(<<"new", j>>, a)

KillJob(j, a) ==
  /\ IF KillEarly THEN \E n \in Node : j \in jobs[n]
     ELSE cast[<<"new", j>>].step = "done"
  /\ CastStarts(<<"kill", j>>, a)

\* The jobs of t after jobs_add or jobs_remove.
JobsAfter(c, t) == IF c[1] = "new" THEN jobs[t] \cup {c[2]} ELSE jobs[t] \ {c[2]}

\* The search takes t from its queue, calls jobs_add or jobs_remove and goes
\* on with the edges of t that it has not visited.
VisitNode(c) ==
  /\ Searching(c)
  /\ cast[c].queue # <<>>
  /\ LET t    == Head(cast[c].queue)
         seen == cast[c].visited \cup {t}
     IN
     /\ Answers(t) /\ HasThread(t)
     /\ jobs' = [jobs EXCEPT ![t] = JobsAfter(c, t)]
     /\ cast' = [cast EXCEPT
          ![c].visited = seen,
          ![c].queue   = Without(Tail(@) \o AllEdges(t), seen)]
  /\ UNCHANGED vars

CastEnds(c) ==
  /\ Searching(c)
  /\ cast[c].queue = <<>>
  /\ cast' = [cast EXCEPT ![c] = [@ EXCEPT !.step = "done", !.visited = {}]]
  /\ UNCHANGED <<vars, jobs>>

\* Mutant: the answer of the parent is not stored.
FetchedNothing(n) == jobs[n]

\* The jobs of n after worker() has asked its parent for all jobs.
Fetched(n) == jobs[n] \cup (IF e_parent[n] = None THEN {} ELSE jobs[e_parent[n]])

\* The worker thread of n; what it asks of another node needs a thread there.
Worker(n) ==
  /\ JoinStep(n)
  /\ Callee(n) = None \/ HasThread(Callee(n))
  /\ jobs' = IF pc[n] = "fetch" THEN [jobs EXCEPT ![n] = Fetched(n)] ELSE jobs
  /\ UNCHANGED cast

JNext ==
  \/ \E n \in Node : Start(n) /\ UNCHANGED <<jobs, cast>>
  \/ \E n \in Node : Worker(n)
  \/ \E j \in Job, a \in Entry : NewJob(j, a) \/ KillJob(j, a)
  \/ \E c \in Casts : VisitNode(c) \/ CastEnds(c)

JSpec == JInit /\ [][JNext]_jvars

\* Worker threads and handlers that can go on do; nobody has to start a node
\* or a broadcast.
JFairSpec ==
  /\ JSpec
  /\ \A n \in Node : WF_jvars(Worker(n))
  /\ \A c \in Casts : WF_jvars(VisitNode(c) \/ CastEnds(c))

-----------------------------------------------------------------------------
(***************************************************************************)
(* Properties                                                              *)
(***************************************************************************)
\* Once jobs_new has answered, every member works on the job until somebody
\* kills it, the nodes that join meanwhile or later too (node.cpp:340-361 and
\* 739-746).
NewReachesAll ==
  \A j \in Job :
    cast[<<"new", j>>].step = "done" /\ cast[<<"kill", j>>].step = "idle"
      => \A n \in Node : pc[n] = "run" => j \in jobs[n]

\* Once jobs_new and jobs_kill of a job have both answered, no node has it any
\* more and no joining node brings it back (test.cpp:431-436).
KilledIsGone ==
  \A j \in Job :
    cast[<<"new", j>>].step = "done" /\ cast[<<"kill", j>>].step = "done"
      => \A n \in Node : j \notin jobs[n]

\* Every broadcast is answered: no search waits for ever, neither for a joining
\* node nor for a thread of its own node.
BroadcastsEnd == \A c \in Casts : Searching(c) ~> ~Searching(c)

=============================================================================
