----------------------------- MODULE JoinProofs ------------------------------
(***************************************************************************)
(* Proofs about the join protocol of module Join, for every number of      *)
(* nodes.                                                                  *)
(***************************************************************************)
EXTENDS Join, TLAPS

-----------------------------------------------------------------------------
(***************************************************************************)
(* Type correctness                                                        *)
(***************************************************************************)
\* The adopt handler leaves a sequence of nodes.
LEMMA AdoptedByType ==
  ASSUME LinksTypeOK, NEW t \in Node, NEW child \in Node, NEW canRedirect \in BOOLEAN
  PROVE  AdoptedBy(t, child, canRedirect) \in Seq(Node)
<1>1. e_children[t] \in Seq(Node)
  BY DEF LinksTypeOK
<1>2. CASE Redirects(t, canRedirect)
  BY <1>1, <1>2 DEF AdoptedBy
<1>3. CASE ~Redirects(t, canRedirect) /\ CreatesLevel(t)
  BY <1>1, <1>3 DEF AdoptedBy, CreatesLevel
<1>4. CASE ~Redirects(t, canRedirect) /\ ~CreatesLevel(t)
  BY <1>1, <1>4 DEF AdoptedBy
<1>5. QED
  BY <1>2, <1>3, <1>4

\* An answered request went to a node, which is the one the step names.
LEMMA CalleeIsNode ==
  ASSUME TypeOK, NEW n \in Node, NEW step, Calls(n, step)
  PROVE  /\ Callee(n) \in Node /\ pc[n] = step
         /\ step \in {"info", "edges", "ring_next", "adopt_below", "get_next"}
              => Callee(n) = loc[n].x
         /\ step \in AdoptSteps => Callee(n) = loc[n].parent
<1>1. Callee(n) \in Node /\ pc[n] = step
  BY DEF TypeOK, Calls
<1>2. CASE step \in {"info", "edges", "ring_next", "adopt_below", "get_next"}
  BY <1>1, <1>2 DEF Callee, AdoptSteps
<1>3. CASE step \in AdoptSteps
  BY <1>1, <1>3 DEF Callee, AdoptSteps
<1>4. QED
  BY <1>1, <1>2, <1>3 DEF AdoptSteps

\* The local variables of join() have their types.
LEMMA LocalsType ==
  ASSUME TypeOK, NEW n \in Node
  PROVE  /\ loc[n] \in Locals
         /\ loc[n].x \in MaybeNode /\ loc[n].parent \in MaybeNode
         /\ loc[n].x_next \in MaybeNode /\ loc[n].new_next \in MaybeNode
         /\ loc[n].new_prev \in MaybeNode /\ loc[n].kids \in Seq(Node)
         /\ pc[n] \in LevelSteps => \A i \in 1 .. 4 : loc[n].kids[i] \in Node
<1>1. loc[n] \in Locals
  BY DEF TypeOK, ControlTypeOK
<1>2. loc[n].kids \in Seq(Node)
  BY <1>1 DEF Locals
<1>3. ASSUME pc[n] \in LevelSteps  PROVE \A i \in 1 .. 4 : loc[n].kids[i] \in Node
  BY <1>2, <1>3 DEF TypeOK, ControlTypeOK
<1>4. QED
  BY <1>1, <1>2, <1>3 DEF Locals

LEMMA InitTypeOK == Init => TypeOK
BY NAssumption DEF Init, TypeOK, ControlTypeOK, LinksInit, LinksTypeOK, BootstrapInit,
   BootstrapTypeOK, Node, MaybeNode, None, Locals, NoLocals, Steps, JoinSteps, LoopSteps,
   LinkSteps, RingSteps, AdoptSteps, LevelSteps

\* A local variable of join() gets a new value.
LEMMA LocalsUpdate ==
  ASSUME NEW l \in Locals, NEW m \in MaybeNode, NEW b \in BOOLEAN
  PROVE  /\ [l EXCEPT !.x = m, !.again = b] \in Locals
         /\ [l EXCEPT !.x = m, !.again = b].kids = l.kids
         /\ [l EXCEPT !.parent = m] \in Locals   /\ [l EXCEPT !.parent = m].kids = l.kids
         /\ [l EXCEPT !.x_next = m] \in Locals   /\ [l EXCEPT !.x_next = m].kids = l.kids
         /\ [l EXCEPT !.new_next = m] \in Locals /\ [l EXCEPT !.new_next = m].kids = l.kids
         /\ [l EXCEPT !.new_prev = m] \in Locals /\ [l EXCEPT !.new_prev = m].kids = l.kids
BY DEF Locals

LEMMA KidsUpdate ==
  ASSUME NEW l \in Locals, NEW k \in Seq(Node)
  PROVE  [l EXCEPT !.kids = k] \in Locals /\ [l EXCEPT !.kids = k].kids = k
BY DEF Locals

\* A step of n that goes on to step s with local variables l.
LEMMA ControlStep ==
  ASSUME ControlTypeOK, NEW n \in Node, NEW s \in Steps, NEW l \in Locals,
         Goto(n, s), loc' = [loc EXCEPT ![n] = l],
         s \in LevelSteps => Len(l.kids) = 4
  PROVE  ControlTypeOK'
BY DEF ControlTypeOK, Goto

\* A step of n that goes on to step s and leaves its local variables.
LEMMA ControlStepOnly ==
  ASSUME ControlTypeOK, NEW n \in Node, NEW s \in Steps, Goto(n, s), UNCHANGED loc,
         s \in LevelSteps => pc[n] \in LevelSteps
  PROVE  ControlTypeOK'
BY DEF ControlTypeOK, Goto

\* join() returns.
LEMMA ControlReturns ==
  ASSUME ControlTypeOK, NEW n \in Node, JoinReturns(n)
  PROVE  ControlTypeOK'
<1>1. NoLocals \in Locals
  BY DEF Locals, NoLocals, MaybeNode, None
<1>2. PICK s \in {"fetch", "activate"} : Goto(n, s)
  BY DEF JoinReturns
<1>3. s \in Steps /\ s \notin LevelSteps
  BY DEF Steps, LevelSteps
<1>4. QED
  BY <1>1, <1>2, <1>3, ControlStep DEF JoinReturns

\* Answered requests read and write links of nodes.
LEMMA LinksType ==
  ASSUME LinksTypeOK, NEW n \in Node, NEW m \in MaybeNode, NEW s \in Seq(Node)
  PROVE  /\ e_parent[n] \in MaybeNode /\ e_prev[n] \in MaybeNode
         /\ e_next[n] \in MaybeNode   /\ e_children[n] \in Seq(Node)
         /\ [e_parent EXCEPT ![n] = m] \in [Node -> MaybeNode]
         /\ [e_prev EXCEPT ![n] = m] \in [Node -> MaybeNode]
         /\ [e_next EXCEPT ![n] = m] \in [Node -> MaybeNode]
         /\ [e_children EXCEPT ![n] = s] \in [Node -> Seq(Node)]
BY DEF LinksTypeOK

\* The steps of a node keep the types.
LEMMA StartType ==
  ASSUME TypeOK, NEW n \in Node, NEW isNew \in BOOLEAN,
         SayHello(n, isNew), isNew => n = uuid
  PROVE  TypeOK'
<1>1. n \in MaybeNode /\ None \in MaybeNode /\ <<>> \in Seq(Node)
  BY DEF MaybeNode
<1>2. LinksTypeOK'
  BY <1>1, LinksType DEF TypeOK, LinksTypeOK, SayHello
<1>3. BootstrapTypeOK'
  BY <1>1, NAssumption DEF TypeOK, BootstrapTypeOK, SayHello, Hello, Node
<1>4. ControlTypeOK'
  <2>1. CASE last = None
    <3>1. PICK s \in {"fetch", "activate"} : Goto(n, s)
      BY <2>1 DEF SayHello
    <3>2. QED
      BY <2>1, <3>1, ControlStepOnly DEF SayHello, TypeOK, Steps, LevelSteps
  <2>2. CASE last # None
    <3>1. PICK l : l = [loc[n] EXCEPT !.x = last, !.again = ~isNew]
      OBVIOUS
    <3>2. l \in Locals
      BY <3>1, LocalsUpdate, LocalsType DEF TypeOK, BootstrapTypeOK
    <3>3. Goto(n, "info") /\ loc' = [loc EXCEPT ![n] = l]
      BY <2>2, <3>1 DEF SayHello, TypeOK, ControlTypeOK
    <3>4. QED
      BY <3>2, <3>3, ControlStep DEF TypeOK, Steps, JoinSteps, LevelSteps
  <2>3. QED
    BY <2>1, <2>2
<1>5. QED
  BY <1>2, <1>3, <1>4 DEF TypeOK, SayHello

LEMMA AskTypes ==
  ASSUME TypeOK, NEW n \in Node, AskInfo(n) \/ AskEdges(n)
  PROVE  TypeOK'
<1>1. CASE AskInfo(n)
  BY <1>1, ControlStepOnly DEF AskInfo, TypeOK, LinksTypeOK, BootstrapTypeOK, links,
     bootstrap, Steps, JoinSteps, LinkSteps, LevelSteps
<1>2. CASE AskEdges(n)
  <2>1. Callee(n) = loc[n].x /\ loc[n].x \in Node
    BY <1>2, CalleeIsNode DEF AskEdges
  <2>2. ControlTypeOK'
    <3>1. CASE e_parent[loc[n].x] # None
      <4>1. [loc[n] EXCEPT !.parent = e_parent[loc[n].x]] \in Locals
        BY <2>1, LocalsUpdate, LocalsType DEF TypeOK, LinksTypeOK
      <4>2. loc' = [loc EXCEPT ![n] = [loc[n] EXCEPT !.parent = e_parent[loc[n].x]]]
        BY <1>2, <3>1 DEF AskEdges
      <4>3. Goto(n, "adopt")
        BY <1>2, <3>1 DEF AskEdges
      <4>4. QED
        BY <4>1, <4>2, <4>3, ControlStep
           DEF TypeOK, Steps, JoinSteps, LinkSteps, AdoptSteps, LevelSteps
    <3>2. CASE e_parent[loc[n].x] = None
      <4>1. PICK s \in {"ring_next", "adopt_below"} : Goto(n, s)
        BY <1>2, <3>2 DEF AskEdges
      <4>2. UNCHANGED loc
        BY <1>2, <3>2 DEF AskEdges
      <4>3. QED
        BY <4>1, <4>2, ControlStepOnly
           DEF TypeOK, Steps, JoinSteps, LinkSteps, RingSteps, LevelSteps
    <3>3. QED
      BY <3>1, <3>2
  <2>3. QED
    BY <1>2, <2>2 DEF AskEdges, TypeOK, LinksTypeOK, BootstrapTypeOK, links, bootstrap
<1>3. QED
  BY <1>1, <1>2

LEMMA RingTypes ==
  ASSUME TypeOK, NEW n \in Node, RingNext(n) \/ RingPrev(n) \/ AdoptBelow(n)
  PROVE  TypeOK'
<1>n. n \in MaybeNode
  BY DEF MaybeNode
<1>1. CASE RingNext(n)
  <2>1. loc[n].x \in Node
    BY <1>1, CalleeIsNode DEF RingNext
  <2>2. LinksTypeOK'
    BY <1>1, <1>n, <2>1, LinksType DEF RingNext, SetNext, TypeOK, LinksTypeOK
  <2>3. [loc[n] EXCEPT !.x_next = e_next[loc[n].x]] \in Locals
    BY <2>1, LocalsUpdate, LocalsType DEF TypeOK, LinksTypeOK
  <2>4. ControlTypeOK'
    BY <1>1, <2>3, ControlStep
       DEF RingNext, TypeOK, Steps, JoinSteps, LinkSteps, RingSteps, LevelSteps
  <2>5. QED
    BY <1>1, <2>2, <2>4 DEF RingNext, TypeOK, BootstrapTypeOK, bootstrap
<1>2. CASE RingPrev(n)
  <2>1. LinksTypeOK'
    BY <1>2, <1>n, LocalsType DEF RingPrev, TypeOK, LinksTypeOK
  <2>2. QED
    BY <1>2, <2>1, ControlReturns DEF RingPrev, TypeOK, BootstrapTypeOK, bootstrap
<1>3. CASE AdoptBelow(n)
  <2>1. loc[n].x \in Node
    BY <1>3, CalleeIsNode DEF AdoptBelow
  <2>2. LinksTypeOK'
    BY <1>3, <2>1, LocalsType, AdoptedByType DEF AdoptBelow, Adopt, TypeOK, LinksTypeOK
  <2>3. QED
    BY <1>3, <2>2, ControlReturns DEF AdoptBelow, TypeOK, BootstrapTypeOK, bootstrap
<1>4. QED
  BY <1>1, <1>2, <1>3

LEMMA AdoptTypes ==
  ASSUME TypeOK, NEW n \in Node, AskParent(n) \/ AskParentNext(n)
  PROVE  TypeOK'
<1> DEFINE p == loc[n].parent
<1>1. PICK step \in AdoptSteps, c \in BOOLEAN : AskAdopt(n, step, c)
  BY DEF AskParent, AskParentNext, AdoptSteps
<1>2. p \in Node /\ p \in MaybeNode
  BY <1>1, CalleeIsNode DEF AskAdopt, MaybeNode
<1>3. e_children' \in [Node -> Seq(Node)]
  BY <1>1, <1>2, AdoptedByType DEF AskAdopt, Adopt, TypeOK, LinksTypeOK
<1>4. CASE /\ Goto(n, "adopt_redirected") /\ UNCHANGED e_parent
           /\ loc' = [loc EXCEPT ![n].parent = e_next[p]]
  <2>1. [loc[n] EXCEPT !.parent = e_next[p]] \in Locals
    BY <1>2, LocalsUpdate, LocalsType DEF TypeOK, LinksTypeOK
  <2>2. ControlTypeOK'
    BY <1>4, <2>1, ControlStep
       DEF TypeOK, Steps, JoinSteps, LinkSteps, AdoptSteps, LevelSteps
  <2>3. QED
    BY <1>1, <1>3, <1>4, <2>2 DEF AskAdopt, TypeOK, LinksTypeOK, BootstrapTypeOK, bootstrap
<1>5. CASE /\ Goto(n, "get_next") /\ UNCHANGED e_parent /\ CreatesLevel(p)
           /\ loc' = [loc EXCEPT ![n].kids = e_children[p]]
  <2>1. /\ [loc[n] EXCEPT !.kids = e_children[p]] \in Locals
        /\ [loc[n] EXCEPT !.kids = e_children[p]].kids = e_children[p]
    <3>1. e_children[p] \in Seq(Node)
      BY <1>2 DEF TypeOK, LinksTypeOK
    <3>2. loc[n] \in Locals
      BY LocalsType
    <3>3. QED
      BY <3>1, <3>2, KidsUpdate
  <2>2. ControlTypeOK'
    BY <1>5, <2>1, ControlStep
       DEF TypeOK, Steps, JoinSteps, LinkSteps, LevelSteps, CreatesLevel
  <2>3. QED
    BY <1>1, <1>3, <1>5, <2>2 DEF AskAdopt, TypeOK, LinksTypeOK, BootstrapTypeOK, bootstrap
<1>6. CASE /\ Goto(n, "ring_next") /\ UNCHANGED loc
           /\ e_parent' = [e_parent EXCEPT ![n] = p]
  <2>1. ControlTypeOK'
    BY <1>6, ControlStepOnly
       DEF TypeOK, Steps, JoinSteps, LinkSteps, RingSteps, LevelSteps
  <2>2. LinksTypeOK'
    BY <1>1, <1>2, <1>3, <1>6 DEF AskAdopt, TypeOK, LinksTypeOK
  <2>3. QED
    BY <1>1, <2>1, <2>2 DEF AskAdopt, TypeOK, BootstrapTypeOK, bootstrap
<1>7. QED
  BY <1>1, <1>4, <1>5, <1>6 DEF AskAdopt

\* Every step of the creation of a level.
LEMMA LevelTypes ==
  ASSUME TypeOK, NEW n \in Node, CreateLevel(n)
  PROVE  TypeOK'
<1> USE DEF LevelSteps
<1> DEFINE kids == loc[n].kids
<1>a. pc[n] \in LevelSteps
  BY DEF CreateLevel, GetNext, GetPrev, ClosePrev, CloseNext, Adopt2, Parent2, Adopt3,
     Parent3, AdoptMe, Next3, Prev2, AdoptKid, TellKid, LevelStep, Calls
<1>b. /\ kids[1] \in Node /\ kids[2] \in Node /\ kids[3] \in Node /\ kids[4] \in Node
      /\ n \in MaybeNode /\ kids[1] \in MaybeNode /\ kids[2] \in MaybeNode
      /\ kids[3] \in MaybeNode /\ kids[4] \in MaybeNode
  BY <1>a, LocalsType DEF MaybeNode
<1>1. CASE GetNext(n)
  <2>1. loc[n].x \in Node
    BY <1>1, CalleeIsNode DEF GetNext, LevelStep
  <2>2. /\ [loc[n] EXCEPT !.new_next = e_next[loc[n].x]] \in Locals
        /\ [loc[n] EXCEPT !.new_next = e_next[loc[n].x]].kids = kids
    BY <2>1, LocalsUpdate, LocalsType DEF TypeOK, LinksTypeOK
  <2>3. ControlTypeOK'
    BY <1>1, <1>a, <2>2, ControlStep DEF GetNext, LevelStep, TypeOK, ControlTypeOK,
       Steps, JoinSteps, LinkSteps
  <2>4. QED
    BY <1>1, <2>3 DEF GetNext, LevelStep, TypeOK, LinksTypeOK, BootstrapTypeOK, links, bootstrap
<1>2. CASE GetPrev(n)
  <2>1. /\ [loc[n] EXCEPT !.new_prev = e_prev[kids[3]]] \in Locals
        /\ [loc[n] EXCEPT !.new_prev = e_prev[kids[3]]].kids = kids
    BY <1>b, LocalsUpdate, LocalsType DEF TypeOK, LinksTypeOK
  <2>2. ControlTypeOK'
    BY <1>2, <1>a, <2>1, ControlStep DEF GetPrev, LevelStep, TypeOK, ControlTypeOK,
       Steps, JoinSteps, LinkSteps
  <2>3. QED
    BY <1>2, <2>2 DEF GetPrev, LevelStep, TypeOK, LinksTypeOK, BootstrapTypeOK, links, bootstrap
\* The steps that change links only.
<1>3. ASSUME NEW step, NEW s \in LevelSteps, LevelStep(n, step, s), UNCHANGED loc, LinksTypeOK'
      PROVE  TypeOK'
  <2>1. ControlTypeOK'
    BY <1>3, <1>a, ControlStepOnly DEF LevelStep, TypeOK, Steps, JoinSteps, LinkSteps
  <2>2. QED
    BY <1>3, <2>1 DEF LevelStep, TypeOK, BootstrapTypeOK, bootstrap
<1>4. CASE ClosePrev(n)
  <2>1. LinksTypeOK'
    BY <1>4, LocalsType DEF ClosePrev, SetPrev, TypeOK, LinksTypeOK
  <2>2. QED
    BY <1>4, <2>1, <1>3 DEF ClosePrev
<1>5. CASE CloseNext(n)
  <2>1. LinksTypeOK'
    BY <1>5, LocalsType DEF CloseNext, SetNext, TypeOK, LinksTypeOK
  <2>2. QED
    BY <1>5, <2>1, <1>3 DEF CloseNext
<1>6. ASSUME NEW step, NEW s \in LevelSteps, NEW kid \in Node, AdoptKid(n, step, s, kid)
      PROVE  TypeOK'
  <2>1. LinksTypeOK'
    BY <1>6, <1>b, AdoptedByType DEF AdoptKid, Adopt, TypeOK, LinksTypeOK
  <2>2. QED
    BY <1>6, <2>1, <1>3 DEF AdoptKid
<1>7. ASSUME NEW step, NEW s \in LevelSteps, NEW kid \in Node, TellKid(n, step, s, kid)
      PROVE  TypeOK'
  <2>1. LinksTypeOK'
    BY <1>7, <1>b DEF TellKid, SetParent, TypeOK, LinksTypeOK
  <2>2. QED
    BY <1>7, <2>1, <1>3 DEF TellKid
<1>8. CASE Adopt2(n) \/ Adopt3(n)
  BY <1>8, <1>6, <1>b DEF Adopt2, Adopt3
<1>9. CASE Parent2(n) \/ Parent3(n)
  BY <1>9, <1>7, <1>b DEF Parent2, Parent3
<1>10. CASE AdoptMe(n)
  <2>1. LinksTypeOK'
    BY <1>10, <1>b, AdoptedByType DEF AdoptMe, Adopt, TypeOK, LinksTypeOK
  <2>2. QED
    BY <1>10, <2>1, <1>3 DEF AdoptMe
<1>11. CASE Next3(n)
  <2>1. LinksTypeOK'
    BY <1>11, <1>b DEF Next3, SetNext, TypeOK, LinksTypeOK
  <2>2. QED
    BY <1>11, <2>1, <1>3 DEF Next3
<1>12. CASE Prev2(n)
  <2>1. LinksTypeOK'
    BY <1>12, <1>b DEF Prev2, TypeOK, LinksTypeOK
  <2>2. QED
    BY <1>12, <2>1, ControlReturns DEF Prev2, TypeOK, BootstrapTypeOK, bootstrap
<1>13. QED
  BY <1>1, <1>2, <1>4, <1>5, <1>8, <1>9, <1>10, <1>11, <1>12 DEF CreateLevel

LEMMA EnterTypes ==
  ASSUME TypeOK, NEW n \in Node, FetchJobs(n) \/ Activate(n)
  PROVE  TypeOK'
<1>1. CASE FetchJobs(n)
  BY <1>1, ControlStepOnly DEF FetchJobs, TypeOK, LinksTypeOK, BootstrapTypeOK, links,
     bootstrap, Steps, LevelSteps
<1>2. CASE Activate(n)
  <2>1. "run" \in Steps /\ "run" \notin LevelSteps
    BY DEF Steps, LoopSteps, LevelSteps
  <2>2. QED
    BY <1>2, <2>1, ControlStepOnly DEF Activate, TypeOK, LinksTypeOK, BootstrapTypeOK,
       links, bootstrap
<1>3. QED
  BY <1>1, <1>2

\* What a started node does on its way into the network, whether or not its
\* callee still answers.
Moves(n) == Request(n) \/ FetchJobs(n) \/ Activate(n)

LEMMA JoinStepMoves == ASSUME NEW n \in Node, JoinStep(n)  PROVE Moves(n)
BY DEF JoinStep, Moves

LEMMA MoveTypes ==
  ASSUME TypeOK, NEW n \in Node, Moves(n)
  PROVE  TypeOK'
BY AskTypes, RingTypes, AdoptTypes, LevelTypes, EnterTypes DEF Moves, Request

LEMMA NextTypeOK == TypeOK /\ [Next]_vars => TypeOK'
<1> SUFFICES ASSUME TypeOK, [Next]_vars PROVE TypeOK'
  OBVIOUS
<1>1. ASSUME NEW n \in Node, Start(n) PROVE TypeOK'
  BY <1>1, StartType DEF Start
<1>2. ASSUME NEW n \in Node, JoinStep(n) PROVE TypeOK'
  BY <1>2, JoinStepMoves, MoveTypes
<1>3. CASE UNCHANGED vars
  BY <1>3 DEF vars, links, bootstrap, TypeOK, LinksTypeOK, BootstrapTypeOK, ControlTypeOK
<1>4. QED
  BY <1>1, <1>2, <1>3 DEF Next

\* Type correctness: every link is a node or none, and while a level is being
\* created the four nodes it moves are known (node.cpp:658-661).
THEOREM TypeCorrect == Spec => []TypeOK
<1>1. QED
  BY InitTypeOK, NextTypeOK, PTL DEF Spec

-----------------------------------------------------------------------------
(***************************************************************************)
(* Nodes enter one at a time, in the order of their hellos                 *)
(***************************************************************************)
\* The steps of a node that has been let in and does not yet become a member.
InnerStep(n) ==
  \/ AskEdges(n) \/ RingNext(n) \/ RingPrev(n) \/ AdoptBelow(n)
  \/ AskParent(n) \/ AskParentNext(n) \/ CreateLevel(n) \/ FetchJobs(n)

\* They keep the node between info and run, and touch neither WAIT, nor the
\* bootstrap, nor the local variables of others.
LEMMA InnerStepFrame ==
  ASSUME TypeOK, NEW n \in Node, InnerStep(n)
  PROVE  /\ Joining(n)
         /\ \E s \in JoiningSteps : Goto(n, s)
         /\ \A m \in Node : m # n => loc'[m] = loc[m]
         /\ UNCHANGED <<WAIT, last, uuid, can_reset>>
<1> USE DEF JoiningSteps, Joining, LinkSteps, RingSteps, AdoptSteps, LevelSteps, bootstrap, Calls
<1>0. loc \in [Node -> Locals]
  BY DEF TypeOK, ControlTypeOK
<1>1. CASE AskEdges(n) \/ FetchJobs(n)
  BY <1>0, <1>1 DEF AskEdges, FetchJobs, Goto
<1>2. CASE RingNext(n) \/ RingPrev(n) \/ AdoptBelow(n)
  BY <1>0, <1>2 DEF RingNext, RingPrev, AdoptBelow, JoinReturns, Goto
<1>3. CASE AskParent(n) \/ AskParentNext(n)
  BY <1>0, <1>3 DEF AskParent, AskParentNext, AskAdopt, Goto
<1>4. CASE CreateLevel(n)
  BY <1>0, <1>4 DEF CreateLevel, GetNext, GetPrev, ClosePrev, CloseNext, Adopt2, Parent2,
     Adopt3, Parent3, AdoptMe, Next3, Prev2, AdoptKid, TellKid, LevelStep, JoinReturns, Goto
<1>5. QED
  BY <1>1, <1>2, <1>3, <1>4 DEF InnerStep

LEMMA InitHelloOrder == Init => HelloOrder
BY NAssumption DEF Init, HelloOrder, LinksInit, BootstrapInit, Node, None, Joining,
   JoiningSteps, LinkSteps, RingSteps, AdoptSteps, LevelSteps

LEMMA NextHelloOrder == TypeOK /\ HelloOrder /\ [Next]_vars => HelloOrder'
<1> SUFFICES ASSUME TypeOK, HelloOrder, [Next]_vars PROVE HelloOrder'
  OBVIOUS
<1> USE DEF Node
<1>0. /\ pc \in [Node -> Steps] /\ WAIT \in [Node -> BOOLEAN] /\ uuid \in 0 .. N
      /\ loc \in [Node -> Locals]
  BY DEF TypeOK, ControlTypeOK, BootstrapTypeOK
<1>1. JoiningSteps \cap {"off", "run", "info"} = {}
  BY DEF JoiningSteps, LinkSteps, RingSteps, AdoptSteps, LevelSteps
<1>2. ASSUME NEW n \in Node, Start(n) PROVE HelloOrder'
  <2>1. /\ n = uuid /\ uuid' = uuid + 1 /\ last' = n /\ UNCHANGED WAIT
        /\ pc[n] = "off"
    BY <1>2 DEF Start, SayHello, Hello
  <2>2. CASE last = None
    <3>1. n = 0 /\ pc' = [pc EXCEPT ![n] = "fetch"] /\ UNCHANGED loc
      BY <1>2, <2>1, <2>2 DEF Start, SayHello, Goto, HelloOrder, None
    <3>2. QED
      BY <1>0, <1>1, <2>1, <3>1 DEF HelloOrder, Joining, JoiningSteps
  <2>3. CASE last # None
    <3>1. /\ n > 0 /\ pc' = [pc EXCEPT ![n] = "info"]
          /\ loc'[n].x = n - 1
          /\ \A m \in Node : m # n => loc'[m] = loc[m]
      <4>1. n > 0 /\ last = n - 1
        BY <1>0, <2>1, <2>3 DEF HelloOrder, None
      <4>2. /\ pc' = [pc EXCEPT ![n] = "info"]
            /\ loc' = [loc EXCEPT ![n].x = last, ![n].again = FALSE]
        BY <1>2, <2>3 DEF Start, SayHello, Goto
      <4>3. loc'[n] = [loc[n] EXCEPT !.x = last, !.again = FALSE]
        BY <1>0, <4>2
      <4>4. loc'[n].x = last
        BY <1>0, <4>3 DEF Locals
      <4>5. QED
        BY <1>0, <4>1, <4>2, <4>4
    <3>2. QED
      BY <1>0, <1>1, <2>1, <3>1 DEF HelloOrder, Joining
  <2>4. QED
    BY <2>2, <2>3
<1>3. ASSUME NEW n \in Node, AskInfo(n), Answers(Callee(n)) PROVE HelloOrder'
  <2>1. /\ pc[n] = "info" /\ ~WAIT[loc[n].x]
        /\ pc' = [pc EXCEPT ![n] = "edges"] /\ UNCHANGED <<WAIT, last, uuid, loc>>
    <3>1. pc[n] = "info"
      BY <1>3 DEF AskInfo, Calls
    <3>2. Callee(n) = loc[n].x
      BY <3>1 DEF Callee, AdoptSteps
    <3>3. QED
      BY <1>3, <3>1, <3>2 DEF AskInfo, Calls, Answers, Goto, bootstrap
  <2>2. n - 1 \in Node /\ pc[n-1] = "run"
    <3>1. loc[n].x = n - 1 /\ n > 0
      BY <2>1 DEF HelloOrder
    <3>2. n - 1 \in Node
      BY <3>1, NAssumption
    <3>3. QED
      BY <2>1, <3>1, <3>2 DEF HelloOrder
  <2>3. \A m \in 0 .. n-1 : pc[m] = "run"
    BY <2>2 DEF HelloOrder
  <2>4. QED
    BY <1>0, <1>1, <2>1, <2>3 DEF HelloOrder, Joining
<1>4. ASSUME NEW n \in Node, InnerStep(n) PROVE HelloOrder'
  <2>1. PICK s \in JoiningSteps : pc' = [pc EXCEPT ![n] = s]
    BY <1>4, InnerStepFrame DEF Goto
  <2>2. Joining(n) /\ UNCHANGED <<WAIT, last, uuid>>
    BY <1>4, InnerStepFrame
  <2>3. \A m \in Node : m # n => loc'[m] = loc[m]
    BY <1>4, InnerStepFrame
  <2>4. QED
    BY <1>0, <1>1, <2>1, <2>2, <2>3 DEF HelloOrder, Joining
<1>5. ASSUME NEW n \in Node, Activate(n) PROVE HelloOrder'
  <2>1. /\ pc[n] = "activate" /\ pc' = [pc EXCEPT ![n] = "run"]
        /\ WAIT' = [WAIT EXCEPT ![n] = FALSE] /\ UNCHANGED <<last, uuid, loc>>
    BY <1>5 DEF Activate, Goto, bootstrap
  <2>2. Joining(n)
    BY <2>1 DEF Joining, JoiningSteps
  <2>3. QED
    BY <1>0, <1>1, <2>1, <2>2 DEF HelloOrder, Joining
<1>6. CASE UNCHANGED vars
  BY <1>6 DEF vars, bootstrap, HelloOrder, Joining
<1>7. QED
  BY <1>2, <1>3, <1>4, <1>5, <1>6 DEF Next, JoinStep, Request, InnerStep

\* Each node waits for the one before it and enters a network in which all
\* earlier nodes answer.
THEOREM HelloOrderHolds == Spec => []HelloOrder
<1>1. QED
  BY InitHelloOrder, NextHelloOrder, TypeCorrect, PTL DEF Spec

\* The linking parts of two joins never overlap: WAIT serialises them although
\* no lock is taken across nodes.
THEOREM JoinsExclude == Spec => []JoinMutex
<1>1. HelloOrder => JoinMutex
  <2> SUFFICES ASSUME HelloOrder, NEW m \in Node, NEW n \in Node,
                      Joining(m), Joining(n), m # n
               PROVE  FALSE
    BY DEF JoinMutex
  <2>1. m < n \/ n < m
    BY DEF Node
  <2>2. pc[m] = "run" \/ pc[n] = "run"
    BY <2>1 DEF HelloOrder, Node
  <2>3. QED
    BY <2>2 DEF Joining, JoiningSteps, LinkSteps, RingSteps, AdoptSteps, LevelSteps
<1>2. QED
  BY <1>1, HelloOrderHolds, PTL

\* The join protocol implements the queue: whoever stops waiting is the first
\* of those that said hello and have not entered.
THEOREM JoinIsQueue == Spec => EntersInOrder
<1>1. Init => Queue!Init
  BY DEF Init, BootstrapInit, Queue!Init
<1>2. ASSUME TypeOK, HelloOrder, [Next]_vars PROVE [Queue!Next]_Queue!queue
  <2> USE DEF Node
  <2>0. pc \in [Node -> Steps] /\ WAIT \in [Node -> BOOLEAN] /\ uuid \in 0 .. N
    BY <1>2 DEF TypeOK, ControlTypeOK, BootstrapTypeOK
  <2>1. ASSUME NEW n \in Node, Start(n) PROVE Queue!Arrive
    BY <2>1, NAssumption DEF Start, SayHello, Hello, Queue!Arrive
  <2>2. ASSUME NEW n \in Node, AskInfo(n) \/ InnerStep(n) PROVE UNCHANGED <<WAIT, uuid>>
    BY <1>2, <2>2, InnerStepFrame DEF AskInfo, bootstrap
  <2>3. ASSUME NEW n \in Node, Activate(n) PROVE Queue!Enter
    <3>1. pc[n] = "activate" /\ WAIT' = [WAIT EXCEPT ![n] = FALSE] /\ uuid' = uuid
      BY <2>3 DEF Activate, bootstrap
    <3>2. Joining(n) /\ pc[n] # "run" /\ pc[n] # "off"
      BY <3>1 DEF Joining, JoiningSteps
    <3>3. n \in 0 .. uuid-1
      BY <1>2, <2>0, <3>2 DEF HelloOrder
    <3>4. \A m \in Node : ~WAIT[m] <=> m < n
      <4> TAKE m \in Node
      <4>1. m < n => pc[m] = "run"
        BY <1>2, <3>2 DEF HelloOrder
      <4>2. n < m => pc[m] # "run"
        BY <1>2, <3>2 DEF HelloOrder
      <4>3. QED
        BY <1>2, <3>2, <4>1, <4>2 DEF HelloOrder
    <3>5. {m \in Node : ~WAIT[m]} = 0 .. n-1
      BY <3>4, NAssumption
    <3>6. {m \in Node : ~WAIT'[m]} = 0 .. n
      BY <2>0, <3>1, <3>4, NAssumption
    <3>7. QED
      BY <3>1, <3>3, <3>5, <3>6 DEF Queue!Enter
  <2>4. CASE UNCHANGED vars
    BY <2>4 DEF vars, bootstrap, Queue!queue
  <2>5. QED
    BY <1>2, <2>1, <2>2, <2>3, <2>4 DEF Next, JoinStep, Request, InnerStep, Queue!Next, Queue!queue
<1>3. QED
  BY <1>1, <1>2, TypeCorrect, HelloOrderHolds, PTL DEF Spec, EntersInOrder, Queue!Spec

==============================================================================
