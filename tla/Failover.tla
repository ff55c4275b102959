------------------------------ MODULE Failover -------------------------------
(***************************************************************************)
(* Failure detection and reconfiguration of the C++ nodes: the loop of     *)
(* worker() and network::failover() of cpp/node.cpp, composed with the     *)
(* join protocol, the handlers and the bootstrap.                          *)
(*                                                                         *)
(* A crash stops a process: requests to it throw in the caller, and what   *)
(* it knew is lost.  The bootstrap does not crash.                         *)
(***************************************************************************)
EXTENDS Join

CONSTANTS
  FailLimit,    \* failed pings in a row before a reset (5 in the code)
  MaxCrashes,   \* how many processes may crash
  MaxLost,      \* how many pings of a live node may fail
  Crashable,    \* the nodes whose process may crash
  Calm,         \* crashes and lost pings find no join and no reset going on
  Overtaken     \* the nodes whose worker may overtake the reset handler

ASSUME FailoverAssumption ==
  /\ FailLimit \in Nat \ {0}
  /\ MaxCrashes \in Nat
  /\ MaxLost \in Nat
  /\ Crashable \subseteq Node
  /\ Calm \in BOOLEAN
  /\ Overtaken \subseteq Node

VARIABLES
  admitted,    \* the nodes whose pending request has found WAIT down at its callee
  fail_cnt,    \* failed pings of the next node in a row
  lost,        \* how many pings of a live node have failed
  queue,       \* the nodes the search of a reset has still to visit
  visited      \* the nodes it has visited

search == <<queue, visited>>

detection == <<fail_cnt, lost>>

fvars == <<vars, admitted, detection, search>>

DetectionTypeOK ==
  /\ fail_cnt \in [Node -> 0 .. FailLimit + 1]
  /\ lost \in 0 .. MaxLost

SearchTypeOK ==
  /\ queue \in [Node -> Seq(Node)]
  /\ visited \in [Node -> SUBSET Node]

AdmittedTypeOK == admitted \subseteq {n \in up : pc[n] \in JoinSteps}

FTypeOK == TypeOK /\ AdmittedTypeOK /\ DetectionTypeOK /\ SearchTypeOK

FInit ==
  /\ Init
  /\ admitted = {}
  /\ fail_cnt = [n \in Node |-> 0]
  /\ lost     = 0
  /\ queue    = [n \in Node |-> <<>>]
  /\ visited  = [n \in Node |-> {}]

-----------------------------------------------------------------------------
\* All nodes are started, have joined and none is being reset.
AllRunning == \A m \in up : pc[m] \in {"run", "loop"} /\ ~WAIT[m]

FailureAllowed == Calm => AllRunning

\* The handler of the callee finds WAIT down.  It serves the request later:
\* nothing keeps WAIT down until then.
Admit(n) ==
  /\ n \in up \ admitted
  /\ pc[n] \in JoinSteps
  /\ Answers(Callee(n))
  /\ admitted' = admitted \cup {n}
  /\ UNCHANGED <<vars, detection, search>>

\* An admitted request is served, whatever WAIT is by now.
Serve(n) ==
  /\ n \in admitted
  /\ Request(n)
  /\ admitted' = admitted \ {n}
  /\ UNCHANGED <<detection, search>>

\* A request of join() to a crashed node throws: join() is left as it is.
RequestFails(n) ==
  /\ n \in up
  /\ pc[n] \in JoinSteps
  /\ Callee(n) \notin up
  /\ JoinReturns(n)
  /\ admitted' = admitted \ {n}
  /\ UNCHANGED <<links, bootstrap, WAIT, up, detection, search>>

\* What follows join(): the fetch of the jobs changes nothing at the parent.
AfterJoin(n) ==
  /\ FetchJobs(n) \/ Activate(n)
  /\ UNCHANGED <<detection, search>>

\* failover() pings the next node.  Only the count FailLimit itself starts a
\* reset; the counter is not read beyond it.  The check request to the previous
\* node that precedes the reset throws whatever happens: it is sent to the port
\* e_prev.ip (node.cpp:699).
PingOk(n) ==
  /\ n \in up
  /\ pc[n] = "run"
  /\ e_next[n] \in up
  /\ fail_cnt' = [fail_cnt EXCEPT ![n] = 0]
  /\ Goto(n, "loop")
  /\ UNCHANGED <<links, bootstrap, WAIT, up, loc, lost, search>>

\* Mutant: the count that starts a reset is one too low.
PingFailsEarly(n) ==
  /\ n \in up
  /\ pc[n] = "run"
  /\ IF e_next[n] \in up
     THEN FailureAllowed /\ lost < MaxLost /\ lost' = lost + 1
     ELSE UNCHANGED lost
  /\ fail_cnt' = [fail_cnt EXCEPT ![n] = IF @ > FailLimit THEN @ ELSE @ + 1]
  /\ Goto(n, IF fail_cnt[n] + 2 = FailLimit THEN "reset" ELSE "loop")
  /\ UNCHANGED <<links, bootstrap, WAIT, up, loc, search>>

PingFails(n) ==
  /\ n \in up
  /\ pc[n] = "run"
  /\ IF e_next[n] \in up
     THEN FailureAllowed /\ lost < MaxLost /\ lost' = lost + 1
     ELSE UNCHANGED lost
  /\ fail_cnt' = [fail_cnt EXCEPT ![n] = IF @ > FailLimit THEN @ ELSE @ + 1]
  /\ Goto(n, IF fail_cnt[n] + 1 = FailLimit THEN "reset" ELSE "loop")
  /\ UNCHANGED <<links, bootstrap, WAIT, up, loc, search>>

\* The bootstrap lets one node reset the network; the others return, with
\* fail_cnt as it is.
AskReset(n) ==
  /\ n \in up
  /\ pc[n] = "reset"
  /\ Reset
  /\ IF can_reset
     THEN /\ Goto(n, "search")
          /\ queue'   = [queue EXCEPT ![n] = <<n>>]
          /\ visited' = [visited EXCEPT ![n] = {}]
     ELSE /\ Goto(n, "loop")
          /\ UNCHANGED search
  /\ UNCHANGED <<links, WAIT, up, loc, detection>>

\* What the reset handler of t returns to n: it raises WAIT, then reads the edges
\* (node.cpp:248, 251).  In between the worker of t may see WAIT and enter join(),
\* which clears the edges first of all (node.cpp:600-603, 754), so that any of them
\* may be missing; the worker of n itself is in the search.  The edges of t in the
\* new network, should it have them by then, lead to nodes already visited.
ReadEdges(n, t) ==
  {AllEdges(t)} \cup
    IF t \in Overtaken \ {n} THEN {Without(AllEdges(t), gone) : gone \in SUBSET Neighbours(t)}
    ELSE {}

\* The search takes t from its queue and resets it: t, when it is not waiting
\* itself, raises WAIT and returns its edges; a crashed t throws and is skipped.
ResetNode(n) ==
  /\ n \in up
  /\ pc[n] = "search"
  /\ queue[n] # <<>>
  /\ LET t    == Head(queue[n])
         seen == visited[n] \cup {t}
     IN
     \E more \in IF t \in up THEN ReadEdges(n, t) ELSE {<<>>} :
       /\ t \in up => ~WAIT[t]
       /\ WAIT'    = [WAIT EXCEPT ![t] = TRUE]
       /\ visited' = [visited EXCEPT ![n] = seen]
       /\ queue'   = [queue EXCEPT ![n] = Without(Tail(@) \o more, seen)]
  /\ UNCHANGED <<links, bootstrap, up, pc, loc, detection>>

\* Mutant: the bootstrap is not told.
FinishResetSilently(n) ==
  /\ n \in up
  /\ pc[n] = "search"
  /\ queue[n] = <<>>
  /\ fail_cnt' = [fail_cnt EXCEPT ![n] = 0]
  /\ visited'  = [visited EXCEPT ![n] = {}]
  /\ Goto(n, "loop")
  /\ UNCHANGED <<links, bootstrap, WAIT, up, loc, lost, queue>>

\* The search is over; after a pause the bootstrap is told so.
FinishReset(n) ==
  /\ n \in up
  /\ pc[n] = "search"
  /\ queue[n] = <<>>
  /\ ResetDone
  /\ fail_cnt' = [fail_cnt EXCEPT ![n] = 0]
  /\ visited'  = [visited EXCEPT ![n] = {}]
  /\ Goto(n, "loop")
  /\ UNCHANGED <<links, WAIT, up, loc, lost, queue>>

\* After failover() the worker joins again when it has been reset.
Rejoin(n) ==
  /\ n \in up
  /\ pc[n] = "loop"
  /\ WAIT[n]
  /\ SayHello(n, FALSE)
  /\ UNCHANGED <<detection, search>>

Work(n) ==
  /\ n \in up
  /\ pc[n] = "loop"
  /\ ~WAIT[n]
  /\ Goto(n, "run")
  /\ UNCHANGED <<links, bootstrap, WAIT, up, loc, detection, search>>

-----------------------------------------------------------------------------
\* A process dies.  Its memory is gone; the links others have to it remain.
\* A request it has made is served before it dies or not at all.
Crash(n) ==
  /\ n \in Crashable \cap up
  /\ pc[n] # "off"
  /\ Cardinality(Node \ up) < MaxCrashes
  /\ FailureAllowed
  /\ up' = up \ {n}
  /\ pc' = [pc EXCEPT ![n] = "dead"]
  /\ WAIT' = [WAIT EXCEPT ![n] = TRUE]
  /\ loc' = [loc EXCEPT ![n] = NoLocals]
  /\ e_parent'   = [e_parent   EXCEPT ![n] = None]
  /\ e_prev'     = [e_prev     EXCEPT ![n] = None]
  /\ e_next'     = [e_next     EXCEPT ![n] = None]
  /\ e_children' = [e_children EXCEPT ![n] = <<>>]
  /\ fail_cnt' = [fail_cnt EXCEPT ![n] = 0]
  /\ queue'    = [queue EXCEPT ![n] = <<>>]
  /\ visited'  = [visited EXCEPT ![n] = {}]
  /\ admitted' = admitted \ {n}
  /\ UNCHANGED <<bootstrap, lost>>

\* The loop of worker().
LoopStep(n) ==
  \/ AfterJoin(n) \/ PingOk(n) \/ PingFails(n) \/ AskReset(n) \/ ResetNode(n)
  \/ FinishReset(n) \/ Rejoin(n) \/ Work(n)

WorkerStep(n) ==
  \/ Admit(n) \/ Serve(n) \/ RequestFails(n)
  \/ LoopStep(n) /\ UNCHANGED admitted

FNext ==
  \E n \in Node :
    \/ Start(n) /\ UNCHANGED <<admitted, detection, search>>
    \/ WorkerStep(n)
    \/ Crash(n)

FSpec == FInit /\ [][FNext]_fvars

FFairSpec == FSpec /\ \A n \in Node : WF_fvars(WorkerStep(n))

-----------------------------------------------------------------------------
(***************************************************************************)
(* Properties                                                              *)
(***************************************************************************)
\* Two nodes never search the network to reset it at the same time: can_reset
\* of the bootstrap is a lock (bs.cpp:34-38).
OneReset == \A m, n \in Node : pc[m] = "search" /\ pc[n] = "search" => m = n

\* While join() of a node runs, no handler touches the links of that node,
\* which the worker thread writes without a lock: although a handler looks at
\* WAIT once, at its start (node.cpp:176, 199), none is still at work on a node
\* when a reset raises WAIT there and the worker joins again.  (With crashes in
\* the middle of joins one may be.)
LinksOfJoiner(n) == <<e_parent[n], e_prev[n], e_next[n], e_children[n]>>

LinksOwnedWhileJoining ==
  [][\A n \in Node : pc[n] \in JoinSteps /\ pc'[n] = pc[n] =>
       LinksOfJoiner(n)' = LinksOfJoiner(n)]_fvars

\* However the nodes join again after a crash in a network at rest, no node has
\* more than four children or one child twice, although adopt appends without
\* looking for the child and without a lock (node.cpp:199-232): two adopts never
\* meet, because joiners link themselves one at a time.  (With crashes in the
\* middle of joins a late adopt can reach the next network.)
ChildrenBounded ==
  \A n \in Node : Len(e_children[n]) <= 4
                  /\ Len(e_children[n]) = Cardinality(Children(n))

\* When a search ends it has reset every node that is still alive
\* (node.cpp:704-722): no node stays behind in the old network.  It holds while no
\* worker overtakes a reset handler (Overtaken) and the nodes below node 2 are not
\* cut off by its crash.
SearchFindsAll ==
  [][\A n \in Node : pc[n] = "search" /\ pc'[n] = "loop" => up \subseteq visited[n]]_fvars

\* Rejoining nodes link themselves one at a time, like joining ones.
RejoinMutex ==
  \A m, n \in Node : pc[m] \in LinkSteps /\ pc[n] \in LinkSteps => m = n

\* The survivors answer and form one consistent network.
Started == {n \in up : pc[n] # "off"}

Repaired ==
  /\ \A n \in Started : ~WAIT[n]
  /\ RingsOf(Started) /\ TreeOf(Started) /\ ConnectedOf(Started)

\* After the crashes the survivors find together again and stay together
\* (README.md:2), as long as no worker overtakes a reset handler and the nodes
\* below node 2 are not cut off by its crash.
Recovers == <>[]Repaired

\* A node that is resetting the network comes to an end.
SearchEnds == \A n \in Node : pc[n] = "search" ~> pc[n] # "search"

\* Unless the resetting node itself crashes, a reset is refused only while another
\* node is resetting, "reset je u toku" (node.cpp:702): the right to reset comes
\* back to the bootstrap.
RefusedOnlyDuringReset ==
  [][\A n \in Node : pc[n] = "reset" /\ pc'[n] = "loop" =>
       \E m \in Node : pc[m] = "search"]_fvars

\* As long as fewer pings than the limit are lost, the network is reset only
\* because a node has crashed, "cvor pao rekonfiguracija mreze" (node.cpp:700).
ResetOnlyAfterCrash == \A n \in Node : pc[n] = "search" => up # Node

=============================================================================
