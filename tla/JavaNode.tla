------------------------------ MODULE JavaNode -------------------------------
(***************************************************************************)
(* The Java nodes (java/.../kids): the thread NetworkJoiner that links a   *)
(* node and fetches its jobs, and the broadcasts newJob and kill of        *)
(* JobsResource.                                                           *)
(*                                                                         *)
(* Where a C++ node has the flag WAIT, a Java node has two locks that any  *)
(* thread may release: the network lock of Server and the job lock of      *)
(* Node.  A handler that finds its lock taken answers "wait", and HttpHelper*)
(* asks again until it is free; a handler that only reads or writes its    *)
(* own node takes and releases the lock within one step.                   *)
(*                                                                         *)
(* The joiner goes as far as the second circle: a level is split by the    *)
(* twelfth node, createNewLevel() is not modelled.  Nobody crashes.        *)
(***************************************************************************)
EXTENDS Bootstrap, Topology

CONSTANTS
  Job,        \* the jobs that are ever created
  Entry,      \* the nodes that clients talk to
  DataEntry   \* the nodes that clients ask for the data of jobs

ASSUME JavaAssumption ==
  /\ N < 12
  /\ Entry \subseteq Node
  /\ DataEntry \subseteq Node

VARIABLES
  status,           \* Server.status is BLOCKED: the network lock of the node
  jobServerStatus,  \* Node.jobServerStatus is BLOCKED: its job lock
  jobs,             \* Node.jobs: how often each job is in the list of a node
  pc,               \* the step of the NetworkJoiner of the node
  loc,              \* its local variables
  cast,             \* the broadcasts
  early             \* history: the nodes asked for data before they were linked

jnvars == <<links, bootstrap, status, jobServerStatus, jobs, pc, loc, cast, early>>

Joining == {"edges", "info", "adopt", "adopt_redirected", "adopt_below",
            "set_next", "set_prev", "lock_jobs", "fetch", "release"}

LinkSteps == {"info", "adopt", "adopt_redirected", "adopt_below", "set_next", "set_prev"}

\* contact: the node the bootstrap named; how: the step its edges call for;
\* other: the parent to ask, the old next of the contact, or the node to fetch
\* jobs from.
Locals == [contact : MaybeNode, how : {"none"} \cup Joining, other : MaybeNode]

NoLocals == [contact |-> None, how |-> "none", other |-> None]

Casts == {"new", "kill"} \X Job

CastState == [step    : {"idle", "read", "search", "failed", "done"},
              at      : MaybeNode,      \* the node that runs the handler
              view    : SUBSET Node,    \* its neighbours when the handler started
              queue   : Seq(Node),      \* bfsQueue
              seen    : SUBSET Node,    \* bfsMap
              members : SUBSET Node]    \* history: the members it is owed to

JNTypeOK ==
  /\ LinksTypeOK
  /\ BootstrapTypeOK
  /\ status \in [Node -> BOOLEAN]
  /\ jobServerStatus \in [Node -> BOOLEAN]
  /\ jobs \in [Node -> [Job -> 0 .. 2]]
  /\ pc \in [Node -> {"off", "run"} \cup Joining]
  /\ loc \in [Node -> Locals]
  /\ cast \in [Casts -> CastState]
  /\ early \subseteq Node

JNInit ==
  /\ LinksInit
  /\ BootstrapInit
  /\ status          = [n \in Node |-> FALSE]
  /\ jobServerStatus = [n \in Node |-> FALSE]
  /\ jobs = [n \in Node |-> [j \in Job |-> 0]]
  /\ pc   = [n \in Node |-> "off"]
  /\ loc  = [n \in Node |-> NoLocals]
  /\ cast = [c \in Casts |-> [step |-> "idle", at |-> None, view |-> {}, queue |-> <<>>,
                              seen |-> {}, members |-> {}]]
  /\ early = {}

-----------------------------------------------------------------------------
\* Mutants: lock() and jobLock() always succeed.
AlwaysFree(t) == TRUE

NetworkFree(t) == ~status[t]

AlwaysFreeForJobs(t) == TRUE

JobsFree(t) == ~jobServerStatus[t]

locks == <<status, jobServerStatus>>

Goto(n, step) == pc' = [pc EXCEPT ![n] = step]

(***************************************************************************)
(* NetworkJoiner.join(), request by request.  On every error join()        *)
(* returns, and the joiner goes on with fetchJobs().                       *)
(***************************************************************************)
\* AppApplication takes the network lock and starts the joiner, which says
\* hello.  The first node is its own circle.
Start(n) ==
  /\ pc[n] = "off" /\ n = uuid
  /\ Hello(n, TRUE)
  /\ status' = [status EXCEPT ![n] = TRUE]
  /\ IF last = None
     THEN /\ e_prev' = [e_prev EXCEPT ![n] = n]
          /\ e_next' = [e_next EXCEPT ![n] = n]
          /\ UNCHANGED <<e_parent, e_children, loc>>
          /\ Goto(n, "lock_jobs")
     ELSE /\ loc' = [loc EXCEPT ![n].contact = last]
          /\ Goto(n, "edges")
          /\ UNCHANGED links
  /\ UNCHANGED <<jobServerStatus, jobs, cast, early>>

\* What the edges of the contact call for: its parent adopts, or it takes the
\* node into the top circle, or it opens the second circle.  A contact that is
\* not linked is an error.
HowToJoin(x) ==
  IF e_parent[x] # None THEN "adopt"
  ELSE IF e_prev[x] = None \/ e_next[x] = None THEN "lock_jobs"
  ELSE IF e_prev[x] = e_next[x] THEN "set_next" ELSE "adopt_below"

AskEdges(n) ==
  LET x == loc[n].contact IN
  /\ pc[n] = "edges" /\ NetworkFree(x)
  /\ loc' = [loc EXCEPT ![n].how = HowToJoin(x), ![n].other = e_parent[x]]
  /\ Goto(n, "info")
  /\ UNCHANGED <<links, bootstrap, locks, jobs, cast, early>>

AskInfo(n) ==
  /\ pc[n] = "info" /\ NetworkFree(loc[n].contact)
  /\ Goto(n, loc[n].how)
  /\ UNCHANGED <<links, bootstrap, locks, jobs, loc, cast, early>>

\* The contact adopts n, which is alone on the second circle.
AdoptBelow(n) ==
  LET x == loc[n].contact IN
  /\ pc[n] = "adopt_below" /\ NetworkFree(x)
  /\ e_children' = [e_children EXCEPT ![x] = Append(@, n)]
  /\ e_parent' = [e_parent EXCEPT ![n] = x]
  /\ e_prev'   = [e_prev EXCEPT ![n] = n]
  /\ e_next'   = [e_next EXCEPT ![n] = n]
  /\ Goto(n, "lock_jobs")
  /\ UNCHANGED <<bootstrap, locks, jobs, loc, cast, early>>

\* The parent of the contact, when it has two children, names its next node,
\* which is then asked not to redirect.
AskAdopt(n) ==
  LET t == loc[n].other IN
  /\ pc[n] \in {"adopt", "adopt_redirected"} /\ NetworkFree(t)
  /\ IF Redirects(t, pc[n] = "adopt")
     THEN /\ loc' = [loc EXCEPT ![n].other = e_next[t]]
          /\ Goto(n, "adopt_redirected")
          /\ UNCHANGED links
     ELSE /\ e_children' = [e_children EXCEPT ![t] = Append(@, n)]
          /\ e_parent'   = [e_parent EXCEPT ![n] = t]
          /\ Goto(n, "set_next")
          /\ UNCHANGED <<e_prev, e_next, loc>>
  /\ UNCHANGED <<bootstrap, locks, jobs, cast, early>>

\* joinCircle(): n becomes the next of its contact and gets the old one back.
AskSetNext(n) ==
  LET x == loc[n].contact IN
  /\ pc[n] = "set_next" /\ NetworkFree(x)
  /\ SetNext(x, n)
  /\ loc' = [loc EXCEPT ![n].other = e_next[x]]
  /\ Goto(n, IF e_next[x] = None THEN "lock_jobs" ELSE "set_prev")
  /\ UNCHANGED <<bootstrap, locks, jobs, cast, early>>

AskSetPrev(n) ==
  LET y == loc[n].other IN
  /\ pc[n] = "set_prev" /\ NetworkFree(y)
  /\ e_prev' = [e_prev EXCEPT ![y] = n, ![n] = loc[n].contact]
  /\ e_next' = [e_next EXCEPT ![n] = y]
  /\ Goto(n, "lock_jobs")
  /\ UNCHANGED <<e_parent, e_children, bootstrap, locks, jobs, loc, cast, early>>

(***************************************************************************)
(* NetworkJoiner.fetchJobs() keeps the job lock of n while it asks next;   *)
(* without a next edge it returns and does not release it.                 *)
(***************************************************************************)
LockJobs(n) ==
  /\ pc[n] = "lock_jobs" /\ JobsFree(n)
  /\ jobServerStatus' = [jobServerStatus EXCEPT ![n] = e_next[n] # n]
  /\ loc' = [loc EXCEPT ![n] = [NoLocals EXCEPT !.other = e_next[n]]]
  /\ Goto(n, IF e_next[n] \in {None, n} THEN "release" ELSE "fetch")
  /\ UNCHANGED <<links, bootstrap, status, jobs, cast, early>>

FetchJobs(n) ==
  LET t == loc[n].other IN
  /\ pc[n] = "fetch" /\ JobsFree(t)
  /\ jobs' = [jobs EXCEPT ![n] =
       [j \in Job |-> IF @[j] = 0 /\ jobs[t][j] > 0 THEN 1 ELSE @[j]]]
  /\ jobServerStatus' = [jobServerStatus EXCEPT ![n] = FALSE]
  /\ Goto(n, "release")
  /\ UNCHANGED <<links, bootstrap, status, loc, cast, early>>

\* run() of the joiner ends.
Release(n) ==
  /\ pc[n] = "release"
  /\ status' = [status EXCEPT ![n] = FALSE]
  /\ loc' = [loc EXCEPT ![n] = NoLocals]
  /\ Goto(n, "run")
  /\ UNCHANGED <<links, bootstrap, jobServerStatus, jobs, cast, early>>

JoinerStep(n) ==
  \/ AskEdges(n) \/ AskInfo(n) \/ AdoptBelow(n) \/ AskAdopt(n)
  \/ AskSetNext(n) \/ AskSetPrev(n) \/ LockJobs(n) \/ FetchJobs(n) \/ Release(n)

-----------------------------------------------------------------------------
(***************************************************************************)
(* JobsResource.newJob() and kill(): the handler keeps the job lock of its *)
(* node while it calls add or remove at all other nodes.                   *)
(***************************************************************************)
\* The edges that are not seen, each once.  A Java node lists its edges in the
\* order in which it got them; the order here is that of AllEdges.
Enqueue(queue, edges, seen) ==
  LET step[i \in 0 .. Len(edges)] ==
        IF i = 0 THEN [q |-> queue, s |-> seen]
        ELSE LET b == step[i-1] IN
             IF edges[i] \in b.s THEN b
             ELSE [q |-> Append(b.q, edges[i]), s |-> b.s \cup {edges[i]}]
  IN  step[Len(edges)]

\* addJob() does not look for the job; removeJobWithId() removes it once.
ListAfter(c, t) ==
  [jobs EXCEPT ![t][c[2]] = IF c[1] = "new" THEN @ + 1 ELSE @ - 1]

Members == {n \in Node : pc[n] = "run"}

\* A client asks node a, once for each job.  kill of an unknown job is an error.
CastStarts(c, a) ==
  /\ cast[c].step = "idle"
  /\ pc[a] # "off" /\ JobsFree(a)
  /\ c[1] = "kill" => jobs[a][c[2]] > 0
  /\ jobServerStatus' = [jobServerStatus EXCEPT ![a] = TRUE]
  /\ jobs' = ListAfter(c, a)
  /\ cast' = [cast EXCEPT ![c] = [step |-> "read", at |-> a, view |-> Neighbours(a),
                                  queue |-> <<>>, seen |-> {a},
                                  members |-> IF a \in Members THEN Members ELSE {}]]
  /\ UNCHANGED <<links, bootstrap, status, pc, loc, early>>

\* The handler reads the edges of its node, an ArrayList that the network lock
\* would guard and the job lock does not.  While setEdge() replaces an edge, by
\* a remove and an add (Node.java:82-83), neither the old nor the new one is there.
CastReads(c) ==
  LET a == cast[c].at IN
  /\ cast[c].step = "read"
  /\ \E edges \in {AllEdges(a), Without(AllEdges(a), Neighbours(a) \ cast[c].view)} :
       LET b == Enqueue(<<>>, edges, {a}) IN
       cast' = [cast EXCEPT ![c].step = "search", ![c].view = {},
                            ![c].queue = b.q, ![c].seen = b.s]
  /\ UNCHANGED <<links, bootstrap, locks, jobs, pc, loc, early>>

\* A list that is changed while it is read throws.  Nothing catches that, and the
\* job lock is not released.
CastFails(c) ==
  /\ cast[c].step = "read" /\ Neighbours(cast[c].at) # cast[c].view
  /\ cast' = [cast EXCEPT ![c].step = "failed", ![c].view = {}]
  /\ UNCHANGED <<links, bootstrap, locks, jobs, pc, loc, early>>

\* add, or remove, at the next node of the queue.  remove of an unknown job is
\* an error, after which the search does not go on to the edges of the node.
CastVisits(c) ==
  /\ cast[c].step = "search" /\ cast[c].queue # <<>>
  /\ LET t       == Head(cast[c].queue)
         unknown == c[1] = "kill" /\ jobs[t][c[2]] = 0
         b       == Enqueue(Tail(cast[c].queue), IF unknown THEN <<>> ELSE AllEdges(t),
                            cast[c].seen)
     IN
     /\ JobsFree(t)
     /\ jobs' = IF unknown THEN jobs ELSE ListAfter(c, t)
     /\ cast' = [cast EXCEPT ![c].queue = b.q, ![c].seen = b.s]
  /\ UNCHANGED <<links, bootstrap, locks, pc, loc, early>>

CastEnds(c) ==
  /\ cast[c].step = "search" /\ cast[c].queue = <<>>
  /\ jobServerStatus' = [jobServerStatus EXCEPT ![cast[c].at] = FALSE]
  /\ cast' = [cast EXCEPT ![c].step = "done", ![c].at = None, ![c].seen = {}]
  /\ UNCHANGED <<links, bootstrap, status, jobs, pc, loc, early>>

CastStep(c) == CastReads(c) \/ CastFails(c) \/ CastVisits(c) \/ CastEnds(c)

\* data() releases the job lock it has taken and the network lock it has not.
\* visualize() asks every node it reaches (JobsResource.java:288), also one that
\* is only linking itself.
Data(n) ==
  /\ n \in DataEntry /\ pc[n] # "off" /\ JobsFree(n)
  /\ status' = [status EXCEPT ![n] = FALSE]
  /\ early' = IF pc[n] \in {"edges"} \cup LinkSteps THEN early \cup {n} ELSE early
  /\ UNCHANGED <<links, bootstrap, jobServerStatus, jobs, pc, loc, cast>>

JNNext ==
  \/ \E n \in Node : Start(n) \/ JoinerStep(n) \/ Data(n)
  \/ \E c \in Casts : CastStep(c) \/ \E a \in Entry : CastStarts(c, a)

JNSpec == JNInit /\ [][JNNext]_jnvars

\* Threads go on; nobody has to start a node or to ask for anything.
JNFairSpec ==
  /\ JNSpec
  /\ \A n \in Node : WF_jnvars(JoinerStep(n))
  /\ \A c \in Casts : WF_jnvars(CastStep(c))

-----------------------------------------------------------------------------
(***************************************************************************)
(* Properties                                                              *)
(***************************************************************************)
\* Most properties hold as long as no data request has reached a node that was
\* not linked yet: data() then opens the lock of the joiner (JobsResource.java:237,
\* 254), the next joiner may find its contact without edges and end unlinked, and
\* it keeps its own job lock for ever (NetworkJoiner.java:447).
Undisturbed == early = {}

\* The job lock, which any thread could release, is taken exactly while one
\* broadcast of the node, or its joiner, works under it; and for ever, once a
\* broadcast has failed to read the edges (JobsResource.java:43-53).
JobLockOwners(n) ==
  {c \in Casts : cast[c].step \in {"read", "search", "failed"} /\ cast[c].at = n}
    \cup (IF pc[n] = "fetch" THEN {<<"fetch", n>>} ELSE {})

JobLockOwned ==
  Undisturbed =>
    \A n \in Node :
      Cardinality(JobLockOwners(n)) = IF jobServerStatus[n] THEN 1 ELSE 0

\* As long as no unlinked node is asked for data, two joiners never link
\* themselves at the same time: the network lock of the contact keeps the second
\* out (NetworkJoiner.java:61).
OneLinks ==
  Undisturbed =>
    \A m, n \in Node : pc[m] \in LinkSteps /\ pc[n] \in LinkSteps => m = n

\* As long as no unlinked node is asked for data, the circles are closed and the
\* tree is whole whenever no joiner is linking (NetworkJoiner.java:106-176).
Linked == {n \in Node : pc[n] \in {"lock_jobs", "fetch", "release", "run"}}

CirclesWhole ==
  Undisturbed /\ (\A n \in Node : pc[n] \notin LinkSteps)
    => RingsOf(Linked) /\ TreeOf(Linked)

\* As long as no unlinked node is asked for data: a job that newJob of a member
\* has answered is at every node that was a member when it was asked, whatever
\* joined meanwhile, until somebody kills it (JobsResource.java:60-103).  A node
\* that is not yet linked accepts the job too, but then no other node hears of it.
MembersGetJob ==
  Undisturbed =>
    \A j \in Job :
      LET c == cast[<<"new", j>>] IN
      c.step = "done" /\ cast[<<"kill", j>>].step = "idle"
        => \A n \in c.members : jobs[n][j] > 0

\* Every started joiner ends, "This must finish and lockRelease Node lock"
\* (NetworkJoiner.java:19).
JoinersFinish == \A n \in Node : pc[n] \in Joining ~> pc[n] = "run"

=============================================================================
