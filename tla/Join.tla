-------------------------------- MODULE Join ---------------------------------
(***************************************************************************)
(* The join protocol of the C++ node: network::join() of cpp/node.cpp and  *)
(* the start of worker() that runs it, against the bootstrap and the       *)
(* handlers of the other nodes.                                            *)
(*                                                                         *)
(* Every HTTP request is one step: it is answered when the callee is not   *)
(* in WAIT mode (the wrappers of namespace requests repeat it as long as   *)
(* the answer is "wait"), and what join() computes up to its next request  *)
(* belongs to the step.  pc[n] names the request node n is about to make.  *)
(*                                                                         *)
(* A handler looks at WAIT first and does its work later, and no lock ties *)
(* the two together.  Here WAIT never rises, so that they may be one step; *)
(* module Failover, where resets raise it, takes them apart.               *)
(***************************************************************************)
EXTENDS Bootstrap, Topology

VARIABLES
  WAIT,   \* the node answers "wait" to every gated request
  up,     \* the nodes whose process has not crashed
  pc,     \* the request the worker thread of the node makes next
  loc     \* the local variables of join()

vars == <<links, bootstrap, WAIT, up, pc, loc>>

RingSteps  == {"ring_next", "ring_prev"}
AdoptSteps == {"adopt", "adopt_redirected"}
LevelSteps == {"get_next", "get_prev", "close_prev", "close_next", "adopt_2",
               "parent_2", "adopt_3", "parent_3", "adopt_me", "next_3", "prev_2"}
LinkSteps  == {"edges", "adopt_below"} \cup RingSteps \cup AdoptSteps \cup LevelSteps
JoinSteps  == {"info"} \cup LinkSteps
LoopSteps  == {"run", "loop", "reset", "search", "dead"}   \* of module Failover, but for run
Steps      == {"off", "fetch", "activate"} \cup JoinSteps \cup LoopSteps

\* again: this is a re-join after a reset; x: the node the bootstrap named;
\* parent: the node asked to adopt; x_next: what set_edge on x returned;
\* kids: this_prev_0..3; new_next, new_prev: as in the code.
Locals == [again    : BOOLEAN,   x        : MaybeNode, parent   : MaybeNode,
           x_next   : MaybeNode, new_next : MaybeNode, new_prev : MaybeNode,
           kids     : Seq(Node)]

NoLocals == [again |-> FALSE, x |-> None, parent |-> None, x_next |-> None,
             new_next |-> None, new_prev |-> None, kids |-> <<>>]

ControlTypeOK ==
  /\ pc \in [Node -> Steps]
  /\ loc \in [Node -> Locals]
  /\ \A n \in Node : pc[n] \in LevelSteps => Len(loc[n].kids) = 4

TypeOK ==
  /\ LinksTypeOK
  /\ BootstrapTypeOK
  /\ WAIT \in [Node -> BOOLEAN]
  /\ up \subseteq Node
  /\ ControlTypeOK

Init ==
  /\ LinksInit
  /\ BootstrapInit
  /\ WAIT = [n \in Node |-> TRUE]
  /\ up   = Node
  /\ pc   = [n \in Node |-> "off"]
  /\ loc  = [n \in Node |-> NoLocals]

-----------------------------------------------------------------------------
Goto(n, step) == pc' = [pc EXCEPT ![n] = step]

\* The node that the pending request of n goes to.
Callee(n) ==
  LET l == loc[n] IN
  CASE pc[n] \in {"info", "edges", "ring_next", "adopt_below", "get_next"} -> l.x
    [] pc[n] = "ring_prev"                         -> l.x_next
    [] pc[n] \in AdoptSteps                        -> l.parent
    [] pc[n] = "close_prev"                        -> l.new_next
    [] pc[n] = "close_next"                        -> l.new_prev
    [] pc[n] \in {"adopt_2", "adopt_3"}            -> l.kids[1]
    [] pc[n] = "adopt_me"                          -> l.kids[2]
    [] pc[n] \in {"get_prev", "parent_2", "prev_2"} -> l.kids[3]
    [] pc[n] \in {"parent_3", "next_3"}            -> l.kids[4]
    [] pc[n] = "fetch"                             -> e_parent[n]
    [] OTHER                                       -> None

\* Mutant: handlers do not look at WAIT.
AnswersAlways(t) == t \in up

Answers(t) == t \in up /\ ~WAIT[t]

\* The handler of the callee, past its look at WAIT, serves the request that
\* n, alive, makes at this step.
Calls(n, step) == n \in up /\ pc[n] = step /\ Callee(n) \in up

\* join() returns; worker() goes on with the jobs of the parent only when it
\* runs join() for the first time.
JoinReturns(n) ==
  /\ Goto(n, IF loc[n].again THEN "activate" ELSE "fetch")
  /\ loc' = [loc EXCEPT ![n] = NoLocals]

-----------------------------------------------------------------------------
\* Mutant: a node that joins again keeps its children.
SayHelloKeepsChildren(n, isNew) ==
  /\ Hello(n, isNew)
  /\ e_parent'   = [e_parent   EXCEPT ![n] = None]
  /\ e_prev'     = [e_prev     EXCEPT ![n] = n]
  /\ e_next'     = [e_next     EXCEPT ![n] = n]
  /\ IF last = None
     THEN /\ Goto(n, IF isNew THEN "fetch" ELSE "activate")
          /\ UNCHANGED loc
     ELSE /\ Goto(n, "info")
          /\ loc' = [loc EXCEPT ![n].x = last, ![n].again = ~isNew]
  /\ UNCHANGED <<WAIT, up, e_children>>

\* join() clears the edges and says hello.  A node alone is its own ring.
SayHello(n, isNew) ==
  /\ Hello(n, isNew)
  /\ e_parent'   = [e_parent   EXCEPT ![n] = None]
  /\ e_prev'     = [e_prev     EXCEPT ![n] = n]
  /\ e_next'     = [e_next     EXCEPT ![n] = n]
  /\ e_children' = [e_children EXCEPT ![n] = <<>>]
  /\ IF last = None
     THEN /\ Goto(n, IF isNew THEN "fetch" ELSE "activate")
          /\ UNCHANGED loc
     ELSE /\ Goto(n, "info")
          /\ loc' = [loc EXCEPT ![n].x = last, ![n].again = ~isNew]
  /\ UNCHANGED <<WAIT, up>>

\* A process is started.  Nodes are named by the order of their first hello.
Start(n) == n \in up /\ pc[n] = "off" /\ n = uuid /\ SayHello(n, TRUE)

AskInfo(n) ==
  /\ Calls(n, "info")
  /\ Goto(n, "edges")
  /\ UNCHANGED <<links, bootstrap, WAIT, up, loc>>

\* The edges of x decide how to join: into the top ring while it has one or
\* two nodes, below x when x is the last of a full top ring, or through the
\* parent of x.
AskEdges(n) ==
  /\ Calls(n, "edges")
  /\ LET x == loc[n].x IN
     IF e_parent[x] # None
     THEN /\ Goto(n, "adopt")
          /\ loc' = [loc EXCEPT ![n].parent = e_parent[x]]
     ELSE /\ Goto(n, IF e_prev[x] = e_next[x] THEN "ring_next" ELSE "adopt_below")
          /\ UNCHANGED loc
  /\ UNCHANGED <<links, bootstrap, WAIT, up>>

\* set_edge(x, next := n) returns the old next of x.
RingNext(n) ==
  /\ Calls(n, "ring_next")
  /\ SetNext(loc[n].x, n)
  /\ Goto(n, "ring_prev")
  /\ loc' = [loc EXCEPT ![n].x_next = e_next[loc[n].x]]
  /\ UNCHANGED <<bootstrap, WAIT, up>>

\* set_edge(x_next, prev := n); then n sets its own ring edges.
RingPrev(n) ==
  /\ Calls(n, "ring_prev")
  /\ e_prev' = [e_prev EXCEPT ![loc[n].x_next] = n, ![n] = loc[n].x]
  /\ e_next' = [e_next EXCEPT ![n] = loc[n].x_next]
  /\ JoinReturns(n)
  /\ UNCHANGED <<e_parent, e_children, bootstrap, WAIT, up>>

\* n is the first node of the second level.
AdoptBelow(n) ==
  /\ Calls(n, "adopt_below")
  /\ Adopt(loc[n].x, n, FALSE)
  /\ e_parent' = [e_parent EXCEPT ![n] = loc[n].x]
  /\ JoinReturns(n)
  /\ UNCHANGED <<e_prev, e_next, bootstrap, WAIT, up>>

\* requests::adopt(parent, n, can_redirect) and its three answers: the second
\* request is made without leave to redirect.  A full parent opens a new level,
\* else n enters the ring after x.
AskAdopt(n, step, canRedirect) ==
  LET p == loc[n].parent IN
  /\ Calls(n, step)
  /\ Adopt(p, n, canRedirect)
  /\ \/ /\ Redirects(p, canRedirect)
        /\ Goto(n, "adopt_redirected")
        /\ loc' = [loc EXCEPT ![n].parent = e_next[p]]
        /\ UNCHANGED e_parent
     \/ /\ CreatesLevel(p)
        /\ Goto(n, "get_next")
        /\ loc' = [loc EXCEPT ![n].kids = e_children[p]]
        /\ UNCHANGED e_parent
     \/ /\ ~Redirects(p, canRedirect) /\ ~CreatesLevel(p)
        /\ Goto(n, "ring_next")
        /\ e_parent' = [e_parent EXCEPT ![n] = p]
        /\ UNCHANGED loc
  /\ UNCHANGED <<e_prev, e_next, bootstrap, WAIT, up>>

AskParent(n)     == AskAdopt(n, "adopt", TRUE)
AskParentNext(n) == AskAdopt(n, "adopt_redirected", FALSE)

-----------------------------------------------------------------------------
(***************************************************************************)
(* A new level.  The parent's four old children are kids[1] .. kids[4]; it *)
(* has cut off kids[3] and kids[4], which become children of kids[1] and   *)
(* form with n, child of kids[2], the ring of the new level.               *)
(***************************************************************************)
\* One request of the new level, a set_edge but where the action says otherwise:
\* it is repeated while the answer is "wait", and then join() goes on.
LevelStep(n, step, next) ==
  /\ Calls(n, step)
  /\ Goto(n, next)
  /\ UNCHANGED <<bootstrap, WAIT, up>>

\* requests::get_edge(x, "next").
GetNext(n) ==
  /\ LevelStep(n, "get_next", "get_prev")
  /\ loc' = [loc EXCEPT ![n].new_next = e_next[loc[n].x]]
  /\ UNCHANGED links

\* The handler get_edge of kids[3] returns its previous edge.
GetPrev(n) ==
  /\ LevelStep(n, "get_prev", "close_prev")
  /\ loc' = [loc EXCEPT ![n].new_prev = e_prev[loc[n].kids[3]]]
  /\ UNCHANGED links

\* The old ring closes without kids[3] and kids[4].
ClosePrev(n) ==
  /\ LevelStep(n, "close_prev", "close_next")
  /\ SetPrev(loc[n].new_next, loc[n].new_prev)
  /\ UNCHANGED loc

CloseNext(n) ==
  /\ LevelStep(n, "close_next", "adopt_2")
  /\ SetNext(loc[n].new_prev, loc[n].new_next)
  /\ UNCHANGED loc

\* kids[1] adopts kids[3] and then kids[4], each of which is told so.
AdoptKid(n, step, next, kid) ==
  /\ LevelStep(n, step, next)
  /\ Adopt(loc[n].kids[1], kid, FALSE)
  /\ UNCHANGED <<e_parent, e_prev, e_next, loc>>

\* Mutants: the child is told the wrong new parent.
TellKidJoiner(n, step, next, kid) ==
  /\ LevelStep(n, step, next)
  /\ SetParent(kid, n)
  /\ UNCHANGED loc

TellKidSecond(n, step, next, kid) ==
  /\ LevelStep(n, step, next)
  /\ SetParent(kid, loc[n].kids[2])
  /\ UNCHANGED loc

TellKid(n, step, next, kid) ==
  /\ LevelStep(n, step, next)
  /\ SetParent(kid, loc[n].kids[1])
  /\ UNCHANGED loc

Adopt2(n)  == AdoptKid(n, "adopt_2", "parent_2", loc[n].kids[3])
Parent2(n) == TellKid(n, "parent_2", "adopt_3", loc[n].kids[3])
Adopt3(n)  == AdoptKid(n, "adopt_3", "parent_3", loc[n].kids[4])
Parent3(n) == TellKid(n, "parent_3", "adopt_me", loc[n].kids[4])

AdoptMe(n) ==
  /\ LevelStep(n, "adopt_me", "next_3")
  /\ Adopt(loc[n].kids[2], n, FALSE)
  /\ e_parent' = [e_parent EXCEPT ![n] = loc[n].kids[2]]
  /\ UNCHANGED <<e_prev, e_next, loc>>

Next3(n) ==
  /\ LevelStep(n, "next_3", "prev_2")
  /\ SetNext(loc[n].kids[4], n)
  /\ UNCHANGED loc

\* Mutant: the ends of the new ring are swapped.
Prev2Swapped(n) ==
  /\ Calls(n, "prev_2")
  /\ e_prev' = [e_prev EXCEPT ![loc[n].kids[3]] = n, ![n] = loc[n].kids[3]]
  /\ e_next' = [e_next EXCEPT ![n] = loc[n].kids[4]]
  /\ JoinReturns(n)
  /\ UNCHANGED <<e_parent, e_children, bootstrap, WAIT, up>>

Prev2(n) ==
  /\ Calls(n, "prev_2")
  /\ e_prev' = [e_prev EXCEPT ![loc[n].kids[3]] = n, ![n] = loc[n].kids[4]]
  /\ e_next' = [e_next EXCEPT ![n] = loc[n].kids[3]]
  /\ JoinReturns(n)
  /\ UNCHANGED <<e_parent, e_children, bootstrap, WAIT, up>>

CreateLevel(n) ==
  \/ GetNext(n) \/ GetPrev(n) \/ ClosePrev(n) \/ CloseNext(n)
  \/ Adopt2(n) \/ Parent2(n) \/ Adopt3(n) \/ Parent3(n)
  \/ AdoptMe(n) \/ Next3(n) \/ Prev2(n)

-----------------------------------------------------------------------------
\* worker() asks the parent for all jobs, if there is a parent; an exception
\* is caught and the node goes on.  Without a parent there is no request.
FetchJobs(n) ==
  /\ n \in up
  /\ pc[n] = "fetch"
  /\ Callee(n) \in up => ~WAIT[Callee(n)]
  /\ Goto(n, "activate")
  /\ UNCHANGED <<links, bootstrap, WAIT, up, loc>>

\* Mutant: the node forgets to answer.
ActivateSilently(n) ==
  /\ n \in up
  /\ pc[n] = "activate"
  /\ Goto(n, "run")
  /\ UNCHANGED <<links, bootstrap, WAIT, up, loc>>

\* WAIT = 0: from now on the node answers.
Activate(n) ==
  /\ n \in up
  /\ pc[n] = "activate"
  /\ WAIT' = [WAIT EXCEPT ![n] = FALSE]
  /\ Goto(n, "run")
  /\ UNCHANGED <<links, bootstrap, up, loc>>

\* The requests of join(), each as its handler serves it.
Request(n) ==
  \/ AskInfo(n) \/ AskEdges(n) \/ RingNext(n) \/ RingPrev(n) \/ AdoptBelow(n)
  \/ AskParent(n) \/ AskParentNext(n) \/ CreateLevel(n)

\* What the worker thread of a started node does on its own.
JoinStep(n) ==
  \/ Request(n) /\ Answers(Callee(n))
  \/ FetchJobs(n)
  \/ Activate(n)

Next == \E n \in Node : Start(n) \/ JoinStep(n)

Spec == Init /\ [][Next]_vars

\* A worker thread that can take a step does; nobody has to start a node.
FairSpec == Spec /\ \A n \in Node : WF_vars(JoinStep(n))

-----------------------------------------------------------------------------
(***************************************************************************)
(* Properties                                                              *)
(***************************************************************************)
\* n has been let in by the node it waited for and is not yet a member.
JoiningSteps == LinkSteps \cup {"fetch", "activate"}

Joining(n) == pc[n] \in JoiningSteps

\* Between two joins the network is at rest.
Linked == {n \in Node : pc[n] \in {"fetch", "activate", "run"}}
AtRest == \A n \in Node : pc[n] \notin LinkSteps

\* Two nodes never run the linking part of join() at the same time: the WAIT
\* flag of the node named by the bootstrap is the only lock there is.
JoinMutex == \A m, n \in Node : Joining(m) /\ Joining(n) => m = n

\* Why that is so: each node waits for the one that said hello before it, and
\* whoever has been let in finds all earlier nodes in the network.
HelloOrder ==
  /\ last = uuid - 1
  /\ \A n \in Node :
       /\ pc[n] = "off" <=> n >= uuid
       /\ ~WAIT[n] <=> pc[n] = "run"
       /\ pc[n] = "info" => loc[n].x = n - 1 /\ n > 0
       /\ Joining(n) \/ pc[n] = "run" => \A m \in 0 .. n-1 : pc[m] = "run"

\* Whenever no node is linking itself, every level is one ring: set_edge calls
\* of node.cpp:624-626, 649-651, 670-681 leave no next without its prev.
RingsConsistent == AtRest => RingsOf(Linked)

\* Whenever no node is linking itself, e_parent and e_children agree and no
\* node keeps more than four children (adopt handler, node.cpp:196-240).
TreeConsistent == AtRest => TreeOf(Linked)

\* Nodes are spread over the tree: redirect and create_level fill a level
\* before they open the next but one.
TreeBalanced == AtRest => BalancedOf(Linked)

\* A breadth first search along the edges, as the reset and the job broadcasts
\* make it, starts anywhere and finds every node.
SearchComplete == AtRest => ConnectedOf(Linked)

\* In every state, while a level is being created too, the parents of a member
\* are members and lead to the top ring.
MembersRooted ==
  \A n \in Node : pc[n] = "run" =>
    Rooted(n) /\ \A m \in Ancestors(n) : pc[m] = "run"

\* A member gets a new parent only when its parent hands it to its first child.
ParentChangesToSibling ==
  [][\A n \in Node : WAIT[n] \/ e_parent'[n] = e_parent[n] \/
       (e_parent[n] # None /\ e_parent'[n] = e_children[e_parent[n]][1])]_vars

\* Nodes are let in one at a time in the order of their hellos
\* (node.cpp:604-614, WAIT = 0 in worker()) ...
Queue == INSTANCE JoinQueue WITH arrived <- uuid,
                                 members <- {n \in Node : ~WAIT[n]}
EntersInOrder == Queue!Spec

\* ... and every node that said hello becomes a member: nobody waits for ever.
ImplementsQueue == Queue!FairSpec

=============================================================================
