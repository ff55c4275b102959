--------------------------- MODULE FailoverProofs ----------------------------
(***************************************************************************)
(* Proofs about failure detection and reset of module Failover, for every  *)
(* number of nodes and of lost pings; what a network becomes after a crash *)
(* for one crash, the rest for every number of crashes.                    *)
(***************************************************************************)
EXTENDS Failover, JoinProofs, DataLemmas

-----------------------------------------------------------------------------
(***************************************************************************)
(* The steps                                                               *)
(***************************************************************************)
\* Nothing happens but that a handler looks at WAIT.
Quiet == UNCHANGED <<vars, detection, search>>

LEMMA StepKinds ==
  ASSUME [FNext]_fvars
  PROVE  \/ \E n \in Node :
              \/ /\ \/ Start(n) \/ FetchJobs(n) \/ Activate(n) \/ RequestFails(n)
                    \/ n \in admitted /\ Request(n)
                 /\ UNCHANGED <<detection, search>>
              \/ PingOk(n) \/ PingFails(n) \/ AskReset(n) \/ ResetNode(n) \/ FinishReset(n)
              \/ Rejoin(n) \/ Work(n) \/ Crash(n)
         \/ Quiet
BY DEF FNext, WorkerStep, Admit, Serve, LoopStep, AfterJoin, RequestFails, Quiet, fvars

-----------------------------------------------------------------------------
(***************************************************************************)
(* Type correctness                                                        *)
(***************************************************************************)
LEMMA FInitTypeOK == FInit => TypeOK /\ DetectionTypeOK
BY InitTypeOK, FailoverAssumption DEF FInit, DetectionTypeOK

\* A step that goes on to a step of the worker's loop and touches neither
\* links nor local variables keeps the types of module Join.
LEMMA LoopStepTypes ==
  ASSUME TypeOK, NEW n \in Node, NEW s \in Steps \ LevelSteps, Goto(n, s),
         WAIT' \in [Node -> BOOLEAN],
         UNCHANGED <<links, up, loc>>, BootstrapTypeOK'
  PROVE  TypeOK'
<1>1. ControlTypeOK'
  BY ControlStepOnly DEF TypeOK
<1>2. QED
  BY <1>1 DEF TypeOK, LinksTypeOK, links

LEMMA LoopStepNames == LoopSteps \subseteq Steps \ LevelSteps
BY DEF LoopSteps, Steps, LevelSteps

\* The steps of the worker's loop, of failover() and of a crash.
LEMMA PingTypes ==
  ASSUME TypeOK, DetectionTypeOK, NEW n \in Node, PingOk(n) \/ PingFails(n)
  PROVE  TypeOK' /\ DetectionTypeOK'
<1> USE LoopStepNames DEF LoopSteps
<1>1. BootstrapTypeOK' /\ WAIT' \in [Node -> BOOLEAN]
  BY DEF PingOk, PingFails, TypeOK, BootstrapTypeOK, bootstrap
<1>2. CASE PingOk(n)
  <2>1. TypeOK'
    BY <1>1, <1>2, LoopStepTypes DEF PingOk
  <2>2. DetectionTypeOK'
    BY <1>2, FailoverAssumption DEF PingOk, DetectionTypeOK
  <2>3. QED
    BY <2>1, <2>2
<1>3. CASE PingFails(n)
  <2>1. PICK s \in {"reset", "loop"} : Goto(n, s)
    BY <1>3 DEF PingFails
  <2>2. TypeOK'
    BY <1>1, <1>3, <2>1, LoopStepTypes DEF PingFails
  <2>3. fail_cnt' \in [Node -> 0 .. FailLimit + 1]
    BY <1>3, FailoverAssumption DEF PingFails, DetectionTypeOK
  <2>4. lost' \in 0 .. MaxLost
    BY <1>3, FailoverAssumption DEF PingFails, DetectionTypeOK
  <2>5. QED
    BY <2>2, <2>3, <2>4 DEF DetectionTypeOK
<1>4. QED
  BY <1>2, <1>3

LEMMA ResetTypes ==
  ASSUME TypeOK, DetectionTypeOK, NEW n \in Node,
         AskReset(n) \/ ResetNode(n) \/ FinishReset(n) \/ Work(n)
  PROVE  TypeOK' /\ DetectionTypeOK'
<1> USE LoopStepNames DEF LoopSteps
<1>1. CASE AskReset(n)
  <2>1. PICK s \in {"search", "loop"} : Goto(n, s)
    BY <1>1 DEF AskReset
  <2>2. BootstrapTypeOK'
    BY <1>1 DEF AskReset, Reset, TypeOK, BootstrapTypeOK, MaybeNode
  <2>3. WAIT' \in [Node -> BOOLEAN]
    BY <1>1 DEF AskReset, TypeOK
  <2>4. QED
    BY <1>1, <2>1, <2>2, <2>3, LoopStepTypes DEF AskReset, DetectionTypeOK, detection
<1>2. CASE ResetNode(n)
  <2>1. WAIT' \in [Node -> BOOLEAN]
    BY <1>2 DEF ResetNode, TypeOK
  <2>2. QED
    BY <1>2, <2>1 DEF ResetNode, TypeOK, LinksTypeOK, links, BootstrapTypeOK, bootstrap,
       ControlTypeOK, DetectionTypeOK, detection
<1>3. CASE FinishReset(n)
  <2>1. BootstrapTypeOK' /\ WAIT' \in [Node -> BOOLEAN]
    BY <1>3 DEF FinishReset, ResetDone, TypeOK, BootstrapTypeOK
  <2>2. DetectionTypeOK'
    BY <1>3, FailoverAssumption DEF FinishReset, DetectionTypeOK
  <2>3. QED
    BY <1>3, <2>1, <2>2, LoopStepTypes DEF FinishReset
<1>4. CASE Work(n)
  <2>1. BootstrapTypeOK' /\ WAIT' \in [Node -> BOOLEAN]
    BY <1>4 DEF Work, TypeOK, BootstrapTypeOK, bootstrap
  <2>2. QED
    BY <1>4, <2>1, LoopStepTypes DEF Work, DetectionTypeOK, detection
<1>5. QED
  BY <1>1, <1>2, <1>3, <1>4

LEMMA CrashTypes ==
  ASSUME TypeOK, DetectionTypeOK, NEW n \in Node, Crash(n)
  PROVE  TypeOK' /\ DetectionTypeOK'
<1>1. NoLocals \in Locals /\ "dead" \in Steps /\ "dead" \notin LevelSteps
  BY DEF Locals, NoLocals, MaybeNode, None, Steps, LoopSteps, LevelSteps
<1>2. ControlTypeOK'
  BY <1>1, ControlStep DEF Crash, TypeOK, Goto
<1>3. LinksTypeOK'
  BY DEF Crash, TypeOK, LinksTypeOK, MaybeNode
<1>4. DetectionTypeOK'
  BY FailoverAssumption DEF Crash, DetectionTypeOK
<1>5. QED
  BY <1>2, <1>3, <1>4 DEF Crash, TypeOK, BootstrapTypeOK, bootstrap

LEMMA RejoinTypes ==
  ASSUME TypeOK, DetectionTypeOK, NEW n \in Node,
         Rejoin(n) \/ RequestFails(n)
  PROVE  TypeOK' /\ DetectionTypeOK'
<1>1. CASE Rejoin(n)
  BY <1>1, StartType DEF Rejoin, DetectionTypeOK, detection
<1>2. CASE RequestFails(n)
  <2>1. ControlTypeOK'
    BY <1>2, ControlReturns DEF RequestFails, TypeOK
  <2>2. QED
    BY <1>2, <2>1 DEF RequestFails, TypeOK, LinksTypeOK, links, BootstrapTypeOK, bootstrap,
       DetectionTypeOK, detection
<1>3. QED
  BY <1>1, <1>2

LEMMA FNextTypeOK ==
  ASSUME TypeOK, DetectionTypeOK, [FNext]_fvars
  PROVE  TypeOK' /\ DetectionTypeOK'
<1>1. ASSUME NEW n \in Node, Start(n) \/ Moves(n), UNCHANGED <<detection, search>>
      PROVE  TypeOK' /\ DetectionTypeOK'
  BY <1>1, StartType, MoveTypes DEF Start, DetectionTypeOK, detection
<1>2. ASSUME NEW n \in Node,
             \/ PingOk(n) \/ PingFails(n) \/ AskReset(n) \/ ResetNode(n) \/ FinishReset(n)
             \/ Work(n) \/ Rejoin(n) \/ RequestFails(n) \/ Crash(n)
      PROVE  TypeOK' /\ DetectionTypeOK'
  BY <1>2, PingTypes, ResetTypes, RejoinTypes, CrashTypes
<1>3. CASE Quiet
  BY <1>3, NextTypeOK DEF Quiet, DetectionTypeOK, detection
<1>4. QED
  BY <1>1, <1>2, <1>3, StepKinds DEF Moves

\* Through crashes, lost pings and resets links, bootstrap and local variables
\* keep their types, and the failure counter stays within its bound.
THEOREM FailoverTypeCorrect == FSpec => [](TypeOK /\ DetectionTypeOK)
<1>1. QED
  BY FInitTypeOK, FNextTypeOK, PTL DEF FSpec

\* What a reset handler returns is a list of nodes, whatever is missing from it.
LEMMA ReadEdgesType ==
  ASSUME LinksTypeOK, NEW n \in Node, NEW t \in Node  PROVE ReadEdges(n, t) \subseteq Seq(Node)
<1>1. AllEdges(t) \in Seq(Node)
  BY EdgesOf
<1>2. ASSUME NEW gone  PROVE Without(AllEdges(t), gone) \in Seq(Node)
  <2> DEFINE rest == Without(AllEdges(t), gone)
  <2>1. rest \in Seq(Node \ gone)
    BY <1>1, WithoutElems
  <2> HIDE DEF rest
  <2>2. rest \in Seq(Node)
    <3>1. Len(rest) \in Nat /\ rest = [i \in 1 .. Len(rest) |-> rest[i]]
      BY <2>1, LenProperties
    <3>2. \A i \in 1 .. Len(rest) : rest[i] \in Node
      BY <2>1, ElementOfSeq
    <3>3. QED
      BY <3>1, <3>2
  <2>3. QED
    BY <2>2 DEF rest
<1>3. QED
  BY <1>1, <1>2 DEF ReadEdges

LEMMA SearchTypes ==
  ASSUME TypeOK, SearchTypeOK, [FNext]_fvars
  PROVE  SearchTypeOK'
<1> USE DEF SearchTypeOK
<1>0. <<>> \in Seq(Node)
  OBVIOUS
<1>1. ASSUME NEW n \in Node, ResetNode(n)  PROVE SearchTypeOK'
  <2> DEFINE t == Head(queue[n])
             seen == visited[n] \cup {t}
  <2>1. PICK more \in (IF t \in up THEN ReadEdges(n, t) ELSE {<<>>}) :
          /\ queue[n] \in Seq(Node) /\ queue[n] # <<>>
          /\ queue' = [queue EXCEPT ![n] = Without(Tail(queue[n]) \o more, seen)]
          /\ visited' = [visited EXCEPT ![n] = seen]
    BY <1>1 DEF ResetNode
  <2> DEFINE rest == Without(Tail(queue[n]) \o more, seen)
  <2>2. t \in Node
    BY <2>1, HeadTailProperties
  <2> HIDE DEF t
  <2>3. more \in Seq(Node)
    BY <1>0, <2>1, <2>2, ReadEdgesType DEF TypeOK
  <2>4. rest \in Seq(Node)
    <3> HIDE DEF seen
    <3>1. QED
      BY <2>1, <2>3, SearchGoesOn
  <2>5. queue' = [queue EXCEPT ![n] = rest] /\ visited' = [visited EXCEPT ![n] = seen]
    BY <2>1
  <2> HIDE DEF rest
  <2>6. QED
    BY <2>2, <2>4, <2>5
<1>2. ASSUME NEW n \in Node, AskReset(n)  PROVE SearchTypeOK'
  <2>1. <<n>> \in Seq(Node)
    OBVIOUS
  <2>2. QED
    BY <1>2, <2>1 DEF AskReset, search
<1>3. ASSUME NEW n \in Node, FinishReset(n)  PROVE SearchTypeOK'
  BY <1>3 DEF FinishReset
<1>4. ASSUME NEW n \in Node, Crash(n)  PROVE SearchTypeOK'
  BY <1>0, <1>4 DEF Crash
<1>5. ASSUME UNCHANGED search  PROVE SearchTypeOK'
  BY <1>5 DEF search
<1>6. QED
  BY <1>1, <1>2, <1>3, <1>4, <1>5, StepKinds DEF PingOk, PingFails, Rejoin, Work, Quiet, search

\* A request crashes nobody.
LEMMA InnerStepUp ==
  ASSUME NEW n \in Node, InnerStep(n)  PROVE up' = up
<1>1. CreateLevel(n) => up' = up
  BY DEF CreateLevel, GetNext, GetPrev, ClosePrev, CloseNext, Adopt2, Parent2, Adopt3,
     Parent3, AdoptMe, Next3, Prev2, AdoptKid, TellKid, LevelStep
<1>2. QED
  BY <1>1 DEF InnerStep, AskEdges, RingNext, RingPrev, AdoptBelow, AskParent, AskParentNext,
     AskAdopt, FetchJobs

\* Whoever waits for a handler that has let it in is alive and at a request.
LEMMA NextAdmittedType ==
  ASSUME TypeOK, AdmittedTypeOK, [FNext]_fvars
  PROVE  AdmittedTypeOK'
<1>0. pc \in [Node -> Steps] /\ up \subseteq Node /\ admitted \subseteq Node
  BY DEF TypeOK, ControlTypeOK, AdmittedTypeOK
<1>1. ASSUME NEW n \in Node, NEW s, pc' = [pc EXCEPT ![n] = s], up \ {n} \subseteq up',
             admitted' \subseteq admitted \ {n}
      PROVE  AdmittedTypeOK'
  BY <1>0, <1>1 DEF AdmittedTypeOK
<1>2. ASSUME NEW n \in Node, Admit(n)  PROVE AdmittedTypeOK'
  BY <1>2 DEF Admit, AdmittedTypeOK, vars
<1>3. ASSUME NEW n \in Node, Serve(n) \/ RequestFails(n)  PROVE AdmittedTypeOK'
  <2>1. admitted' = admitted \ {n}
    BY <1>3 DEF Serve, RequestFails
  <2>2. UNCHANGED up /\ \E s : pc' = [pc EXCEPT ![n] = s]
    <3>1. CASE AskInfo(n) \/ RequestFails(n)
      BY <3>1 DEF AskInfo, RequestFails, JoinReturns, Goto
    <3>2. CASE InnerStep(n)
      BY <3>2, InnerStepFrame, InnerStepUp DEF Goto
    <3>3. QED
      BY <1>3, <3>1, <3>2 DEF Serve, Request, InnerStep
  <2>3. QED
    BY <1>1, <2>1, <2>2
<1>4. ASSUME NEW n \in Node, Start(n) \/ LoopStep(n), UNCHANGED admitted
      PROVE  AdmittedTypeOK'
  <2>1. pc[n] \in {"off", "fetch", "activate", "run", "reset", "search", "loop"}
    BY <1>4 DEF Start, LoopStep, AfterJoin, FetchJobs, Activate, PingOk, PingFails, AskReset,
       ResetNode, FinishReset, Rejoin, Work
  <2>2. n \notin admitted
    BY <2>1 DEF AdmittedTypeOK, JoinSteps, LinkSteps, RingSteps, AdoptSteps, LevelSteps
  <2>3. UNCHANGED up /\ (UNCHANGED pc \/ \E s : pc' = [pc EXCEPT ![n] = s])
    BY <1>4 DEF Start, SayHello, LoopStep, AfterJoin, FetchJobs, Activate, PingOk, PingFails,
       AskReset, ResetNode, FinishReset, Rejoin, Work, Goto
  <2>4. QED
    BY <1>1, <1>4, <2>2, <2>3 DEF AdmittedTypeOK
<1>5. ASSUME NEW n \in Node, Crash(n)  PROVE AdmittedTypeOK'
  BY <1>1, <1>5 DEF Crash
<1>6. CASE UNCHANGED fvars
  BY <1>6 DEF fvars, vars, AdmittedTypeOK
<1>7. QED
  BY <1>2, <1>3, <1>4, <1>5, <1>6 DEF FNext, WorkerStep

\* All variables keep their types, the queue of a search among them: what a
\* crashed node or an edge that does not exist leaves in it is filtered out.
THEOREM FailoverAllTypes == FSpec => []FTypeOK
<1>1. FInit => SearchTypeOK /\ AdmittedTypeOK
  BY DEF FInit, SearchTypeOK, AdmittedTypeOK
<1>2. QED
  BY <1>1, SearchTypes, NextAdmittedType, FailoverTypeCorrect, PTL DEF FSpec, FTypeOK

-----------------------------------------------------------------------------
(***************************************************************************)
(* can_reset of the bootstrap is a lock                                    *)
(***************************************************************************)
\* Whoever searches has taken the lock, and nobody else does.  The converse is
\* not true: the lock stays taken when its holder crashes.
ResetLock ==
  /\ OneReset
  /\ \A n \in Node : pc[n] = "search" => ~can_reset

\* A step of the join protocol starts and ends no search.
LEMMA JoinStepFrame ==
  ASSUME TypeOK, NEW n \in Node, Start(n) \/ Moves(n) \/ RequestFails(n) \/ Rejoin(n)
  PROVE  /\ pc[n] # "search" /\ UNCHANGED can_reset
         /\ \E s \in Steps \ {"search"} : Goto(n, s)
<1> USE DEF Steps, JoinSteps, LinkSteps, RingSteps, AdoptSteps, LevelSteps, LoopSteps
<1>1. CASE Start(n) \/ Rejoin(n)
  BY <1>1 DEF Start, Rejoin, SayHello, Hello, Goto
<1>2. CASE RequestFails(n)
  BY <1>2 DEF RequestFails, JoinReturns, bootstrap, Goto
<1>3. CASE AskInfo(n) \/ Activate(n)
  BY <1>3 DEF AskInfo, Activate, Calls, bootstrap, Goto
<1>4. CASE InnerStep(n)
  BY <1>4, InnerStepFrame DEF Joining, JoiningSteps, Goto
<1>5. QED
  BY <1>1, <1>2, <1>3, <1>4 DEF Moves, Request, InnerStep

LEMMA NextResetLock ==
  ASSUME TypeOK, ResetLock, [FNext]_fvars
  PROVE  ResetLock'
<1>0. pc \in [Node -> Steps]
  BY DEF TypeOK, ControlTypeOK
<1>1. ASSUME NEW n \in Node,
             Start(n) \/ Moves(n) \/ RequestFails(n) \/ Rejoin(n)
      PROVE  ResetLock'
  <2>1. PICK s \in Steps \ {"search"} : pc' = [pc EXCEPT ![n] = s]
    BY <1>1, JoinStepFrame DEF Goto
  <2>2. UNCHANGED can_reset
    BY <1>1, JoinStepFrame
  <2>3. \A m \in Node : pc'[m] = "search" => pc[m] = "search"
    BY <1>0, <2>1
  <2>4. QED
    BY <2>2, <2>3 DEF ResetLock, OneReset
<1>2. ASSUME NEW n \in Node, PingOk(n) \/ PingFails(n) \/ Work(n) \/ Crash(n)
      PROVE  ResetLock'
  <2>1. UNCHANGED can_reset
    BY <1>2 DEF PingOk, PingFails, Work, Crash, bootstrap
  <2>2. \A m \in Node : pc'[m] = "search" => pc[m] = "search"
    BY <1>0, <1>2 DEF PingOk, PingFails, Work, Crash, Goto
  <2>3. QED
    BY <2>1, <2>2 DEF ResetLock, OneReset
<1>3. ASSUME NEW n \in Node, AskReset(n) PROVE ResetLock'
  <2>1. CASE can_reset
    <3>1. pc' = [pc EXCEPT ![n] = "search"] /\ ~can_reset'
      BY <1>3, <2>1 DEF AskReset, Reset, Goto
    <3>2. \A m \in Node : pc[m] # "search"
      BY <2>1 DEF ResetLock
    <3>3. \A m \in Node : pc'[m] = "search" => m = n
      BY <1>0, <3>1, <3>2
    <3>4. QED
      BY <3>1, <3>3 DEF ResetLock, OneReset
  <2>2. CASE ~can_reset
    <3>1. pc' = [pc EXCEPT ![n] = "loop"] /\ ~can_reset'
      BY <1>3, <2>2 DEF AskReset, Reset, Goto
    <3>2. \A m \in Node : pc'[m] = "search" => pc[m] = "search"
      BY <1>0, <3>1
    <3>3. QED
      BY <3>1, <3>2 DEF ResetLock, OneReset
  <2>3. QED
    BY <2>1, <2>2
<1>4. ASSUME NEW n \in Node, FinishReset(n) PROVE ResetLock'
  <2>1. pc[n] = "search" /\ pc' = [pc EXCEPT ![n] = "loop"]
    BY <1>4 DEF FinishReset, Goto
  <2>2. \A m \in Node : pc'[m] # "search"
    BY <1>0, <2>1 DEF ResetLock, OneReset
  <2>3. QED
    BY <2>2 DEF ResetLock, OneReset
<1>5. ASSUME NEW n \in Node, ResetNode(n) PROVE ResetLock'
  BY <1>5 DEF ResetNode, ResetLock, OneReset, bootstrap
<1>6. CASE Quiet
  BY <1>6 DEF Quiet, vars, bootstrap, ResetLock, OneReset
<1>7. QED
  BY <1>1, <1>2, <1>3, <1>4, <1>5, <1>6, StepKinds DEF Moves

\* Whatever crashes and whichever pings are lost, two nodes never reset the
\* network at the same time.
THEOREM ResetsExclude == FSpec => []OneReset
<1>1. FInit => ResetLock
  BY DEF FInit, Init, ResetLock, OneReset
<1>2. ResetLock => OneReset
  BY DEF ResetLock
<1>3. QED
  BY <1>1, <1>2, NextResetLock, FailoverTypeCorrect, PTL DEF FSpec

-----------------------------------------------------------------------------
(***************************************************************************)
(* A joining node owns its links                                           *)
(***************************************************************************)
\* A node that has not started or runs join() answers nobody.
JoiningWaits == \A n \in Node : pc[n] \in JoinSteps \cup {"off"} => WAIT[n]

\* A request changes links only of the node that makes it and of the node that
\* answers.
LEMMA RequestWrites ==
  ASSUME TypeOK, NEW n \in Node, InnerStep(n) \/ AskInfo(n),
         NEW m \in Node, m # n, m # Callee(n)
  PROVE  LinksOfJoiner(m)' = LinksOfJoiner(m)
<1>0. LinksTypeOK
  BY DEF TypeOK
<1>1. CASE AskInfo(n) \/ AskEdges(n) \/ FetchJobs(n) \/ GetNext(n) \/ GetPrev(n)
  BY <1>1 DEF AskInfo, AskEdges, FetchJobs, GetNext, GetPrev, links, LinksOfJoiner
<1>2. CASE RingNext(n)
  <2>1. loc[n].x # m
    BY <1>2, CalleeIsNode DEF RingNext, Calls, AdoptSteps
  <2>2. QED
    BY <1>0, <1>2, <2>1 DEF RingNext, SetNext, LinksOfJoiner, LinksTypeOK
<1>3. CASE RingPrev(n)
  <2>1. loc[n].x_next # m
    BY <1>3 DEF RingPrev, Calls, Callee, AdoptSteps
  <2>2. QED
    BY <1>0, <1>3, <2>1 DEF RingPrev, LinksOfJoiner, LinksTypeOK
<1>4. CASE AdoptBelow(n)
  <2>1. loc[n].x # m
    BY <1>4, CalleeIsNode DEF AdoptBelow, Calls, AdoptSteps
  <2>2. QED
    BY <1>0, <1>4, <2>1 DEF AdoptBelow, Adopt, LinksOfJoiner, LinksTypeOK
<1>5. CASE AskParent(n) \/ AskParentNext(n)
  <2>1. PICK s \in AdoptSteps, r \in BOOLEAN : AskAdopt(n, s, r)
    BY <1>5 DEF AskParent, AskParentNext, AdoptSteps
  <2>2. loc[n].parent # m
    BY <2>1, CalleeIsNode DEF AskAdopt, Calls
  <2>3. e_parent'[m] = e_parent[m] /\ UNCHANGED <<e_prev, e_next>>
    BY <1>0, <2>1 DEF AskAdopt, LinksTypeOK
  <2>4. e_children'[m] = e_children[m]
    BY <1>0, <2>1, <2>2 DEF AskAdopt, Adopt, LinksTypeOK
  <2>5. QED
    BY <2>3, <2>4 DEF LinksOfJoiner
<1>6. CASE CreateLevel(n)
  <2>2. CASE ClosePrev(n)
    <3>1. loc[n].new_next # m
      BY <2>2 DEF ClosePrev, LevelStep, Calls, Callee, AdoptSteps
    <3>2. QED
      BY <1>0, <2>2, <3>1 DEF ClosePrev, SetPrev, LinksOfJoiner, LinksTypeOK
  <2>3. CASE CloseNext(n)
    <3>1. loc[n].new_prev # m
      BY <2>3 DEF CloseNext, LevelStep, Calls, Callee, AdoptSteps
    <3>2. QED
      BY <1>0, <2>3, <3>1 DEF CloseNext, SetNext, LinksOfJoiner, LinksTypeOK
  <2>4. CASE Adopt2(n) \/ Adopt3(n)
    <3>1. loc[n].kids[1] # m
      BY <2>4 DEF Adopt2, Adopt3, AdoptKid, LevelStep, Calls, Callee, AdoptSteps
    <3>2. QED
      BY <1>0, <2>4, <3>1 DEF Adopt2, Adopt3, AdoptKid, Adopt, LinksOfJoiner, LinksTypeOK
  <2>5. CASE Parent2(n)
    <3>1. loc[n].kids[3] # m
      BY <2>5 DEF Parent2, TellKid, LevelStep, Calls, Callee, AdoptSteps
    <3>2. QED
      BY <1>0, <2>5, <3>1 DEF Parent2, TellKid, SetParent, LinksOfJoiner, LinksTypeOK
  <2>6. CASE Parent3(n)
    <3>1. loc[n].kids[4] # m
      BY <2>6 DEF Parent3, TellKid, LevelStep, Calls, Callee, AdoptSteps
    <3>2. QED
      BY <1>0, <2>6, <3>1 DEF Parent3, TellKid, SetParent, LinksOfJoiner, LinksTypeOK
  <2>7. CASE AdoptMe(n)
    <3>1. loc[n].kids[2] # m
      BY <2>7 DEF AdoptMe, LevelStep, Calls, Callee, AdoptSteps
    <3>2. QED
      BY <1>0, <2>7, <3>1 DEF AdoptMe, Adopt, LinksOfJoiner, LinksTypeOK
  <2>8. CASE Next3(n)
    <3>1. loc[n].kids[4] # m
      BY <2>8 DEF Next3, LevelStep, Calls, Callee, AdoptSteps
    <3>2. QED
      BY <1>0, <2>8, <3>1 DEF Next3, SetNext, LinksOfJoiner, LinksTypeOK
  <2>9. CASE Prev2(n)
    <3>1. loc[n].kids[3] # m
      BY <2>9 DEF Prev2, Calls, Callee, AdoptSteps
    <3>2. QED
      BY <1>0, <2>9, <3>1 DEF Prev2, LinksOfJoiner, LinksTypeOK
  <2>10. QED
    BY <1>1, <1>6, <2>2, <2>3, <2>4, <2>5, <2>6, <2>7, <2>8, <2>9 DEF CreateLevel
<1>7. QED
  BY <1>1, <1>2, <1>3, <1>4, <1>5, <1>6 DEF InnerStep

\* No callee has raised WAIT since its handler looked at it.
AdmittedAnswer == \A n \in admitted : Callee(n) \in Node /\ ~WAIT[Callee(n)]

LEMMA ServedAnswers ==
  ASSUME NEW n \in Node, AdmittedAnswer, n \in admitted, Request(n)
  PROVE  Answers(Callee(n))
<1>1. Callee(n) \in up
  <2>1. CreateLevel(n) => Callee(n) \in up
    BY DEF CreateLevel, GetNext, GetPrev, ClosePrev, CloseNext, Adopt2, Parent2, Adopt3,
       Parent3, AdoptMe, Next3, Prev2, AdoptKid, TellKid, LevelStep, Calls
  <2>2. QED
    BY <2>1 DEF Request, AskInfo, AskEdges, RingNext, RingPrev, AdoptBelow, AskParent,
       AskParentNext, AskAdopt, Calls
<1>2. QED
  BY <1>1 DEF AdmittedAnswer, Answers

\* Only a node that becomes a member stops waiting.
LEMMA NextJoiningWaits ==
  ASSUME TypeOK, JoiningWaits, [FNext]_fvars
  PROVE  JoiningWaits'
<1>0. pc \in [Node -> Steps] /\ WAIT \in [Node -> BOOLEAN]
  BY DEF TypeOK, ControlTypeOK
<1> USE DEF JoinSteps, LinkSteps, RingSteps, AdoptSteps, LevelSteps
<1>1. ASSUME NEW n \in Node, InnerStep(n) PROVE JoiningWaits'
  <2>1. PICK s \in JoiningSteps : pc' = [pc EXCEPT ![n] = s]
    BY <1>1, InnerStepFrame DEF Goto
  <2>2. Joining(n) /\ UNCHANGED WAIT
    BY <1>1, InnerStepFrame
  <2>3. CASE FetchJobs(n)
    BY <1>0, <2>2, <2>3 DEF FetchJobs, Goto, JoiningWaits
  <2>4. CASE ~FetchJobs(n)
    <3>1. pc[n] \in LinkSteps
      BY <1>1, <2>4 DEF InnerStep, AskEdges, RingNext, RingPrev, AdoptBelow, AskParent,
         AskParentNext, AskAdopt, CreateLevel, GetNext, GetPrev, ClosePrev, CloseNext,
         Adopt2, Parent2, Adopt3, Parent3, AdoptMe, Next3, Prev2, AdoptKid, TellKid,
         LevelStep, Calls
    <3>2. QED
      BY <1>0, <2>1, <2>2, <3>1 DEF JoiningWaits
  <2>5. QED
    BY <2>3, <2>4
<1>2. ASSUME NEW n \in Node, AskInfo(n) \/ RequestFails(n) PROVE JoiningWaits'
  <2>1. pc[n] \in JoinSteps /\ UNCHANGED WAIT
    BY <1>2 DEF AskInfo, RequestFails, Calls
  <2>2. PICK s \in Steps : pc' = [pc EXCEPT ![n] = s]
    BY <1>2 DEF AskInfo, RequestFails, JoinReturns, Goto, Steps
  <2>3. QED
    BY <1>0, <2>1, <2>2 DEF JoiningWaits
<1>3. ASSUME NEW n \in Node, Start(n) \/ Rejoin(n) PROVE JoiningWaits'
  <2>1. WAIT[n] /\ UNCHANGED WAIT
    BY <1>3 DEF Start, Rejoin, SayHello, JoiningWaits
  <2>2. PICK s \in Steps : pc' = [pc EXCEPT ![n] = s]
    BY <1>3 DEF Start, Rejoin, SayHello, Goto, Steps
  <2>3. QED
    BY <1>0, <2>1, <2>2 DEF JoiningWaits
<1>4. ASSUME NEW n \in Node, Activate(n) PROVE JoiningWaits'
  BY <1>0, <1>4 DEF Activate, Goto, JoiningWaits
<1>5. ASSUME NEW n \in Node, PingOk(n) \/ PingFails(n) \/ AskReset(n) \/ FinishReset(n) \/ Work(n)
      PROVE  JoiningWaits'
  <2>1. UNCHANGED WAIT
    BY <1>5 DEF PingOk, PingFails, AskReset, FinishReset, Work
  <2>2. PICK s \in {"loop", "reset", "search", "run"} : pc' = [pc EXCEPT ![n] = s]
    BY <1>5 DEF PingOk, PingFails, AskReset, FinishReset, Work, Goto
  <2>3. QED
    BY <1>0, <2>1, <2>2 DEF JoiningWaits
<1>6. ASSUME NEW n \in Node, ResetNode(n) PROVE JoiningWaits'
  <2>1. UNCHANGED pc /\ WAIT' = [WAIT EXCEPT ![Head(queue[n])] = TRUE]
    BY <1>6 DEF ResetNode
  <2>2. QED
    BY <1>0, <2>1 DEF JoiningWaits
<1>7. ASSUME NEW n \in Node, Crash(n) PROVE JoiningWaits'
  BY <1>0, <1>7 DEF Crash, JoiningWaits
<1>8. CASE Quiet
  BY <1>8 DEF Quiet, vars, JoiningWaits
<1>9. QED
  BY <1>1, <1>2, <1>3, <1>4, <1>5, <1>6, <1>7, <1>8, StepKinds
     DEF Moves, Request, InnerStep

\* Every step that leaves a joining node where it is leaves its links.
LEMMA StepOwned ==
  ASSUME TypeOK, JoiningWaits, AdmittedAnswer, [FNext]_fvars,
         NEW m \in Node, pc[m] \in JoinSteps, pc'[m] = pc[m]
  PROVE  LinksOfJoiner(m)' = LinksOfJoiner(m)
<1>0. pc \in [Node -> Steps] /\ LinksTypeOK /\ WAIT[m]
  BY DEF TypeOK, ControlTypeOK, JoiningWaits
<1>1. ASSUME NEW n \in Node, n # m, Request(n), n \in admitted
      PROVE  LinksOfJoiner(m)' = LinksOfJoiner(m)
  <2>1. m # Callee(n)
    BY <1>0, <1>1, ServedAnswers DEF Answers
  <2>2. InnerStep(n) \/ AskInfo(n)
    BY <1>1 DEF Request, InnerStep
  <2>3. QED
    BY <1>1, <2>1, <2>2, RequestWrites
<1>2. ASSUME NEW n \in Node, n # m, Start(n) \/ Rejoin(n) \/ Crash(n)
      PROVE  LinksOfJoiner(m)' = LinksOfJoiner(m)
  BY <1>0, <1>2 DEF Start, Rejoin, SayHello, Crash, LinksOfJoiner, LinksTypeOK
<1>3. ASSUME NEW n \in Node,
             RequestFails(n) \/ FetchJobs(n) \/ Activate(n) \/ PingOk(n) \/ PingFails(n)
               \/ AskReset(n) \/ ResetNode(n) \/ FinishReset(n) \/ Work(n)
      PROVE  LinksOfJoiner(m)' = LinksOfJoiner(m)
  BY <1>3 DEF RequestFails, FetchJobs, Activate, PingOk, PingFails, AskReset, ResetNode,
     FinishReset, Work, links, LinksOfJoiner
<1>4. ASSUME InnerStep(m) \/ AskInfo(m) \/ Start(m) \/ Rejoin(m) \/ Crash(m) PROVE FALSE
  <2> USE DEF JoinSteps, LinkSteps, RingSteps, AdoptSteps, LevelSteps
  <2>1. CASE AskInfo(m) \/ Start(m) \/ Rejoin(m) \/ Crash(m)
    BY <1>0, <2>1 DEF AskInfo, Start, Rejoin, Crash, Calls, Goto
  <2>2. CASE AskEdges(m) \/ RingNext(m) \/ FetchJobs(m)
    BY <1>0, <2>2 DEF AskEdges, RingNext, FetchJobs, Calls, Goto
  <2>3. CASE RingPrev(m) \/ AdoptBelow(m) \/ Prev2(m)
    BY <1>0, <2>3 DEF RingPrev, AdoptBelow, Prev2, JoinReturns, Calls, Goto
  <2>4. CASE AskParent(m)
    BY <1>0, <2>4 DEF AskParent, AskAdopt, Calls, Goto
  <2>5. CASE AskParentNext(m)
    BY <1>0, <2>5 DEF AskParentNext, AskAdopt, Redirects, Calls, Goto
  <2>6. CASE CreateLevel(m) /\ ~Prev2(m)
    BY <1>0, <2>6 DEF CreateLevel, GetNext, GetPrev, ClosePrev, CloseNext, Adopt2, Parent2,
       Adopt3, Parent3, AdoptMe, Next3, AdoptKid, TellKid, LevelStep, Calls, Goto
  <2>7. QED
    BY <1>4, <2>1, <2>2, <2>3, <2>4, <2>5, <2>6 DEF InnerStep
<1>5. CASE Quiet
  BY <1>5 DEF Quiet, vars, links, LinksOfJoiner
<1>6. QED
  BY <1>1, <1>2, <1>3, <1>4, <1>5, StepKinds
     DEF Moves, Request, InnerStep

\* What a handler has let in it still answers.
LEMMA AdmittedStay ==
  ASSUME TypeOK, AdmittedTypeOK, AdmittedAnswer, [FNext]_fvars,
         \A d \in Node : ResetNode(d) => \A n \in admitted : Callee(n) # Head(queue[d]),
         \A d \in Node : Crash(d) => admitted = {}
  PROVE  AdmittedAnswer'
<1>0. /\ pc \in [Node -> Steps] /\ loc \in [Node -> Locals] /\ WAIT \in [Node -> BOOLEAN]
      /\ up \subseteq Node
      /\ \A n \in admitted : n \in Node /\ pc[n] \in JoinSteps
      /\ \A s \in JoinSteps :
           s \notin {"off", "fetch", "activate", "run", "reset", "search", "loop"}
  BY DEF TypeOK, ControlTypeOK, AdmittedTypeOK, JoinSteps, LinkSteps, RingSteps, AdoptSteps,
     LevelSteps
<1>1. ASSUME NEW n \in Node, pc'[n] = pc[n], loc'[n] = loc[n], pc[n] # "fetch"
      PROVE  Callee(n)' = Callee(n)
  BY <1>1 DEF Callee
<1>2. ASSUME NEW n, admitted' \subseteq admitted \ {n},
             \A m \in Node : m # n => pc'[m] = pc[m] /\ loc'[m] = loc[m],
             \A m \in Node : ~WAIT[m] => ~WAIT'[m]
      PROVE  AdmittedAnswer'
  BY <1>0, <1>1, <1>2 DEF AdmittedAnswer
<1>3. ASSUME NEW n \in Node, Admit(n)  PROVE AdmittedAnswer'
  <2>1. UNCHANGED <<pc, loc, WAIT>> /\ pc[n] \in JoinSteps
        /\ Callee(n) \in up /\ ~WAIT[Callee(n)] /\ admitted' = admitted \cup {n}
    BY <1>3 DEF Admit, Answers, vars
  <2>2. QED
    BY <1>0, <1>1, <2>1 DEF AdmittedAnswer
<1>4. ASSUME NEW n \in Node, Serve(n) \/ RequestFails(n)  PROVE AdmittedAnswer'
  <2>1. admitted' = admitted \ {n}
    BY <1>4 DEF Serve, RequestFails
  <2>2. UNCHANGED WAIT /\ (\E s : pc' = [pc EXCEPT ![n] = s])
        /\ \A m \in Node : m # n => loc'[m] = loc[m]
    <3>1. CASE AskInfo(n) \/ RequestFails(n)
      BY <1>0, <3>1 DEF AskInfo, RequestFails, JoinReturns, Goto
    <3>2. CASE InnerStep(n)
      BY <3>2, InnerStepFrame DEF Goto
    <3>3. QED
      BY <1>4, <3>1, <3>2 DEF Serve, Request, InnerStep
  <2>3. QED
    BY <1>0, <1>2, <2>1, <2>2
<1>5. ASSUME NEW n \in Node, UNCHANGED admitted,
             Start(n) \/ Rejoin(n) \/ AfterJoin(n) \/ PingOk(n) \/ PingFails(n) \/ AskReset(n)
               \/ FinishReset(n) \/ Work(n)
      PROVE  AdmittedAnswer'
  <2>1. n \notin admitted
    <3>1. pc[n] \in {"off", "fetch", "activate", "run", "reset", "search", "loop"}
      <4>1. CASE Start(n) \/ Rejoin(n) \/ Work(n)
        BY <4>1 DEF Start, Rejoin, Work
      <4>2. CASE AfterJoin(n)
        BY <4>2 DEF AfterJoin, FetchJobs, Activate
      <4>3. CASE PingOk(n) \/ PingFails(n)
        BY <4>3 DEF PingOk, PingFails
      <4>4. CASE AskReset(n) \/ FinishReset(n)
        BY <4>4 DEF AskReset, FinishReset
      <4>5. QED
        BY <1>5, <4>1, <4>2, <4>3, <4>4
    <3>2. QED
      BY <1>0, <3>1
  <2>2. \A m \in Node : ~WAIT[m] => ~WAIT'[m]
    BY <1>0, <1>5 DEF Start, Rejoin, SayHello, AfterJoin, FetchJobs, Activate, PingOk, PingFails,
       AskReset, FinishReset, Work
  <2>3. \A m \in Node : m # n => pc'[m] = pc[m] /\ loc'[m] = loc[m]
    BY <1>0, <1>5 DEF Start, Rejoin, SayHello, AfterJoin, FetchJobs, Activate, PingOk, PingFails,
       AskReset, FinishReset, Work, Goto
  <2>4. QED
    BY <1>2, <1>5, <2>1, <2>2, <2>3
<1>6. ASSUME NEW d \in Node, ResetNode(d), UNCHANGED admitted  PROVE AdmittedAnswer'
  <2>1. UNCHANGED <<pc, loc>> /\ WAIT' = [WAIT EXCEPT ![Head(queue[d])] = TRUE]
    BY <1>6 DEF ResetNode
  <2>2. \A n \in admitted : Callee(n) # Head(queue[d])
    BY <1>6
  <2>3. QED
    BY <1>0, <1>1, <1>6, <2>1, <2>2 DEF AdmittedAnswer
<1>7. ASSUME NEW d \in Node, Crash(d)  PROVE AdmittedAnswer'
  BY <1>7 DEF Crash, AdmittedAnswer
<1>8. CASE UNCHANGED fvars
  BY <1>0, <1>1, <1>8 DEF fvars, vars, AdmittedAnswer
<1>9. QED
  BY <1>3, <1>4, <1>5, <1>6, <1>7, <1>8 DEF FNext, WorkerStep, LoopStep

-----------------------------------------------------------------------------
(***************************************************************************)
(* A reset is refused only during a reset                                  *)
(***************************************************************************)
\* As long as nobody crashes in a reset, the bootstrap has given its lock to a
\* node that searches.
LockHeld ==
  /\ ~can_reset => \E m \in Node : pc[m] = "search"
  /\ \A m \in Node : pc[m] = "search" => m \in up

LEMMA NextLockHeld ==
  ASSUME TypeOK, LockHeld, ResetLock, Calm, [FNext]_fvars
  PROVE  LockHeld'
<1>0. pc \in [Node -> Steps]
  BY DEF TypeOK, ControlTypeOK
<1>1. ASSUME NEW n \in Node,
             Start(n) \/ Moves(n) \/ RequestFails(n) \/ Rejoin(n)
      PROVE  LockHeld'
  <2>1. PICK s \in Steps \ {"search"} : pc' = [pc EXCEPT ![n] = s]
    BY <1>1, JoinStepFrame DEF Goto
  <2>2. pc[n] # "search" /\ UNCHANGED can_reset
    BY <1>1, JoinStepFrame
  <2>3. \A m \in Node : pc'[m] = "search" <=> pc[m] = "search"
    BY <1>0, <2>1, <2>2
  <2>4. UNCHANGED up
    BY <1>1, InnerStepUp DEF Start, SayHello, Moves, Request, InnerStep, AskInfo, Activate,
       RequestFails, Rejoin
  <2>5. QED
    BY <2>2, <2>3, <2>4 DEF LockHeld
<1>2. ASSUME NEW n \in Node, PingOk(n) \/ PingFails(n) \/ Work(n)
      PROVE  LockHeld'
  <2>1. UNCHANGED <<can_reset, up>>
    BY <1>2 DEF PingOk, PingFails, Work, bootstrap
  <2>2. \A m \in Node : pc'[m] = "search" <=> pc[m] = "search"
    BY <1>0, <1>2 DEF PingOk, PingFails, Work, Goto
  <2>3. QED
    BY <2>1, <2>2 DEF LockHeld
<1>3. ASSUME NEW n \in Node, AskReset(n) PROVE LockHeld'
  <2>1. /\ n \in up /\ UNCHANGED up
        /\ pc' = [pc EXCEPT ![n] = IF can_reset THEN "search" ELSE "loop"]
        /\ pc[n] = "reset"
    BY <1>3 DEF AskReset, Goto
  <2>2. CASE can_reset
    BY <1>0, <2>1, <2>2 DEF LockHeld
  <2>3. CASE ~can_reset
    <3>1. \A m \in Node : pc'[m] = "search" <=> pc[m] = "search"
      BY <1>0, <2>1, <2>3
    <3>2. QED
      BY <2>1, <2>3, <3>1 DEF LockHeld
  <2>4. QED
    BY <2>2, <2>3
<1>4. ASSUME NEW n \in Node, FinishReset(n) PROVE LockHeld'
  <2>1. can_reset' /\ UNCHANGED up /\ pc' = [pc EXCEPT ![n] = "loop"]
    BY <1>4 DEF FinishReset, ResetDone, Goto
  <2>2. QED
    BY <1>0, <2>1 DEF LockHeld
<1>5. ASSUME NEW n \in Node, ResetNode(n) PROVE LockHeld'
  BY <1>5 DEF ResetNode, LockHeld, bootstrap
<1>6. ASSUME NEW n \in Node, Crash(n) PROVE LockHeld'
  <2>1. /\ AllRunning /\ UNCHANGED can_reset
        /\ pc' = [pc EXCEPT ![n] = "dead"] /\ up' = up \ {n}
    BY <1>6 DEF Crash, FailureAllowed, bootstrap
  <2>2. \A m \in Node : pc[m] # "search"
    BY <2>1 DEF AllRunning, LockHeld
  <2>3. QED
    BY <1>0, <2>1, <2>2 DEF LockHeld
<1>7. CASE Quiet
  BY <1>7 DEF Quiet, vars, bootstrap, LockHeld
<1>8. QED
  BY <1>1, <1>2, <1>3, <1>4, <1>5, <1>6, <1>7, StepKinds DEF Moves

\* When no node crashes during a reset, the bootstrap refuses a reset only while
\* another one is going on, "reset je u toku" (node.cpp:702).
THEOREM RefusalMeansReset ==
  ASSUME Calm  PROVE FSpec => RefusedOnlyDuringReset
<1>1. FInit => LockHeld /\ ResetLock
  BY DEF FInit, Init, BootstrapInit, LockHeld, ResetLock, OneReset
<1>2. ASSUME TypeOK, LockHeld, [FNext]_fvars
      PROVE  [\A n \in Node : pc[n] = "reset" /\ pc'[n] = "loop" =>
                \E m \in Node : pc[m] = "search"]_fvars
  <2>1. SUFFICES ASSUME NEW n \in Node, pc[n] = "reset", pc'[n] = "loop",
                        \A m \in Node : pc[m] # "search"
                 PROVE  FALSE
    OBVIOUS
  <2>2. can_reset
    BY <1>2, <2>1 DEF LockHeld
  <2>3. pc \in [Node -> Steps]
    BY <1>2 DEF TypeOK, ControlTypeOK
  <2> USE DEF JoiningSteps, JoinSteps, LinkSteps, RingSteps, AdoptSteps, LevelSteps
  <2>4. ASSUME NEW k \in Node, k # n, FNext, \E s : Goto(k, s)  PROVE FALSE
    BY <2>1, <2>3, <2>4 DEF Goto
  <2>5. ~\E k \in Node : InnerStep(k)
    <3>1. SUFFICES ASSUME NEW k \in Node, InnerStep(k)  PROVE FALSE
      OBVIOUS
    <3>2. Joining(k) /\ \E s : Goto(k, s)
      BY <1>2, <3>1, InnerStepFrame
    <3>3. QED
      BY <2>1, <2>3, <3>2 DEF Joining, Goto
  <2>6. ~\E k \in Node : AskInfo(k) \/ Activate(k) \/ RequestFails(k)
    BY <2>1, <2>3 DEF AskInfo, Activate, RequestFails, JoinReturns, Calls, Goto
  <2>7. ~\E k \in Node : Start(k) \/ Rejoin(k)
    BY <2>1, <2>3 DEF Start, Rejoin, SayHello, Goto
  <2>8. ~\E k \in Node : PingOk(k) \/ PingFails(k) \/ FinishReset(k) \/ Work(k) \/ ResetNode(k)
    BY <2>1, <2>3 DEF PingOk, PingFails, FinishReset, Work, ResetNode, Goto
  <2>9. ~\E k \in Node : AskReset(k) \/ Crash(k)
    BY <2>1, <2>2, <2>3 DEF AskReset, Crash, Goto
  <2>10. ~Quiet
    BY <2>1 DEF Quiet, vars
  <2>11. QED
    BY <1>2, <2>5, <2>6, <2>7, <2>8, <2>9, <2>10, StepKinds
     DEF Moves, Request, InnerStep
<1>3. QED
  BY <1>1, <1>2, NextLockHeld, NextResetLock, FailoverTypeCorrect, PTL
     DEF FSpec, RefusedOnlyDuringReset

-----------------------------------------------------------------------------
(***************************************************************************)
(* A reset is started only after a crash                                   *)
(***************************************************************************)
\* A started node has a next node, for close_next too passes on a node.
NextExists ==
  \A n \in Node : /\ pc[n] \notin {"off", "dead"} => e_next[n] # None
                  /\ pc[n] = "close_next" => loc[n].new_next \in Node

\* A request of a joining node sets next edges to nodes only.
LEMMA RequestNext ==
  ASSUME TypeOK, NEW n \in Node, NextExists, InnerStep(n) \/ AskInfo(n), NEW m \in Node
  PROVE  /\ e_next'[m] = e_next[m] \/ e_next'[m] \in Node
         /\ pc'[n] = "close_next" => loc'[n].new_next \in Node
<1>0. LinksTypeOK /\ pc \in [Node -> Steps] /\ loc \in [Node -> Locals]
  BY DEF TypeOK, ControlTypeOK
<1>1. CASE AskInfo(n) \/ AskEdges(n) \/ FetchJobs(n) \/ GetNext(n) \/ GetPrev(n)
  BY <1>0, <1>1 DEF AskInfo, AskEdges, FetchJobs, GetNext, GetPrev, LevelStep, links, Goto
<1>2. CASE RingNext(n)
  BY <1>0, <1>2 DEF RingNext, SetNext, LinksTypeOK, Goto
<1>3. CASE RingPrev(n)
  <2>1. loc[n].x_next \in Node
    BY <1>3, CalleeIsNode DEF RingPrev, Calls, Callee, AdoptSteps
  <2>2. pc'[n] # "close_next"
    BY <1>0, <1>3 DEF RingPrev, JoinReturns, Goto
  <2>3. QED
    BY <1>0, <1>3, <2>1, <2>2 DEF RingPrev, LinksTypeOK
<1>4. CASE AdoptBelow(n)
  BY <1>0, <1>4 DEF AdoptBelow, JoinReturns, Goto
<1>5. CASE AskParent(n) \/ AskParentNext(n)
  BY <1>0, <1>5 DEF AskParent, AskParentNext, AskAdopt, Goto
<1>6. CASE ClosePrev(n)
  <2>1. loc[n].new_next \in Node
    BY <1>6, CalleeIsNode DEF ClosePrev, LevelStep, Calls, Callee, AdoptSteps
  <2>2. QED
    BY <1>6, <2>1 DEF ClosePrev, SetPrev
<1>7. CASE CloseNext(n)
  <2>1. loc[n].new_next \in Node
    BY <1>7 DEF CloseNext, LevelStep, Calls, NextExists
  <2>2. QED
    BY <1>0, <1>7, <2>1 DEF CloseNext, SetNext, LevelStep, Goto, LinksTypeOK
<1>8. CASE Adopt2(n) \/ Parent2(n) \/ Adopt3(n) \/ Parent3(n) \/ AdoptMe(n)
  BY <1>0, <1>8 DEF Adopt2, Parent2, Adopt3, Parent3, AdoptMe, AdoptKid, TellKid, SetParent,
     LevelStep, Goto
<1>9. CASE Next3(n)
  BY <1>0, <1>9 DEF Next3, SetNext, LevelStep, Goto, LinksTypeOK
<1>10. CASE Prev2(n)
  <2>1. loc[n].kids[3] \in Node
    BY <1>10, LocalsType DEF Prev2, Calls, LevelSteps
  <2>2. pc'[n] # "close_next"
    BY <1>0, <1>10 DEF Prev2, JoinReturns, Goto
  <2>3. QED
    BY <1>0, <1>10, <2>1, <2>2 DEF Prev2, LinksTypeOK
<1>11. QED
  BY <1>1, <1>2, <1>3, <1>4, <1>5, <1>6, <1>7, <1>8, <1>9, <1>10 DEF InnerStep, CreateLevel

LEMMA NextNextExists ==
  ASSUME TypeOK, NextExists, [FNext]_fvars
  PROVE  NextExists'
<1>0. /\ pc \in [Node -> Steps] /\ loc \in [Node -> Locals] /\ LinksTypeOK
      /\ None \notin Node
  BY DEF TypeOK, ControlTypeOK, None, Node
<1> USE DEF JoiningSteps, JoinSteps, LinkSteps, RingSteps, AdoptSteps, LevelSteps
<1>1. ASSUME NEW n \in Node, InnerStep(n) \/ AskInfo(n)  PROVE NextExists'
  <2>1. PICK s : pc' = [pc EXCEPT ![n] = s]
    BY <1>1, InnerStepFrame DEF AskInfo, Goto
  <2>2. /\ pc[n] \notin {"off", "dead"}
        /\ \A m \in Node : m # n => loc'[m] = loc[m]
    BY <1>1, InnerStepFrame DEF AskInfo, Calls, Joining
  <2>3. \A m \in Node : e_next'[m] = e_next[m] \/ e_next'[m] \in Node
    BY <1>1, RequestNext
  <2>4. pc'[n] = "close_next" => loc'[n].new_next \in Node
    BY <1>1, RequestNext
  <2>5. QED
    BY <1>0, <2>1, <2>2, <2>3, <2>4 DEF NextExists
<1>2. ASSUME NEW n \in Node, Start(n) \/ Rejoin(n)  PROVE NextExists'
  <2>1. /\ e_next' = [e_next EXCEPT ![n] = n]
        /\ \E s \in {"fetch", "activate", "info"} : pc' = [pc EXCEPT ![n] = s]
        /\ \A m \in Node : m # n => loc'[m] = loc[m]
    BY <1>0, <1>2 DEF Start, Rejoin, SayHello, Goto
  <2>2. QED
    BY <1>0, <2>1 DEF NextExists, LinksTypeOK
<1>3. ASSUME NEW n \in Node, RequestFails(n)  PROVE NextExists'
  <2>1. /\ UNCHANGED e_next /\ pc[n] \in JoinSteps
        /\ \E s \in {"fetch", "activate"} : pc' = [pc EXCEPT ![n] = s]
        /\ \A m \in Node : m # n => loc'[m] = loc[m]
    BY <1>0, <1>3 DEF RequestFails, JoinReturns, Goto, links
  <2>2. QED
    BY <1>0, <2>1 DEF NextExists
<1>4. ASSUME NEW n \in Node,
             Activate(n) \/ PingOk(n) \/ PingFails(n) \/ AskReset(n) \/ FinishReset(n) \/ Work(n)
      PROVE  NextExists'
  <2>1. /\ UNCHANGED <<e_next, loc>> /\ pc[n] \notin {"off", "dead"}
        /\ \E s \in {"run", "loop", "reset", "search"} : pc' = [pc EXCEPT ![n] = s]
    BY <1>4 DEF Activate, PingOk, PingFails, AskReset, FinishReset, Work, Goto, links
  <2>2. QED
    BY <1>0, <2>1 DEF NextExists
<1>5. ASSUME NEW n \in Node, Crash(n)  PROVE NextExists'
  <2>1. /\ e_next' = [e_next EXCEPT ![n] = None] /\ pc' = [pc EXCEPT ![n] = "dead"]
        /\ loc' = [loc EXCEPT ![n] = NoLocals]
    BY <1>5 DEF Crash
  <2>2. QED
    BY <1>0, <2>1 DEF NextExists, LinksTypeOK
<1>6. CASE Quiet \/ \E n \in Node : ResetNode(n)
  BY <1>6 DEF Quiet, vars, ResetNode, links, NextExists
<1>7. QED
  BY <1>1, <1>2, <1>3, <1>4, <1>5, <1>6, StepKinds
     DEF Moves, Request, InnerStep

\* Nobody comes back from a crash.
LEMMA UpSame ==
  ASSUME [FNext]_fvars, \A n \in Node : ~Crash(n)  PROVE up' = up
<1>1. ASSUME NEW n \in Node, Moves(n)  PROVE up' = up
  BY <1>1, InnerStepUp DEF Moves, Request, InnerStep, AskInfo, Activate
<1>2. ASSUME NEW n \in Node, Start(n) \/ RequestFails(n) \/ Rejoin(n) \/ PingOk(n)
                             \/ PingFails(n) \/ AskReset(n) \/ ResetNode(n) \/ FinishReset(n)
                             \/ Work(n)
      PROVE  up' = up
  BY <1>2 DEF Start, SayHello, RequestFails, Rejoin, PingOk, PingFails, AskReset, ResetNode,
     FinishReset, Work
<1>3. Quiet => up' = up
  BY DEF Quiet, vars
<1>4. QED
  BY <1>1, <1>2, <1>3, StepKinds DEF Moves

LEMMA UpShrinks == [FNext]_fvars => up' \subseteq up
BY UpSame DEF Crash

\* While everybody is alive, a node has missed no more pings than were lost.
MissedAreLost ==
  up = Node => \A n \in Node : fail_cnt[n] <= lost /\ pc[n] \notin {"reset", "search"}

LEMMA NextMissedAreLost ==
  ASSUME TypeOK, DetectionTypeOK, NextExists, MissedAreLost, MaxLost < FailLimit,
         [FNext]_fvars
  PROVE  MissedAreLost'
<1>0. /\ pc \in [Node -> Steps] /\ fail_cnt \in [Node -> 0 .. FailLimit + 1]
      /\ lost \in 0 .. MaxLost /\ up \subseteq Node /\ LinksTypeOK
      /\ FailLimit \in Nat /\ MaxLost \in Nat
  BY FailoverAssumption DEF TypeOK, ControlTypeOK, DetectionTypeOK
<1>1. up' \subseteq up
  BY UpShrinks
<1>2. SUFFICES ASSUME up' = Node
               PROVE  \A n \in Node : fail_cnt'[n] <= lost' /\ pc'[n] \notin {"reset", "search"}
  BY DEF MissedAreLost
<1>3. /\ up = Node
      /\ \A n \in Node : fail_cnt[n] <= lost /\ pc[n] \notin {"reset", "search"}
  BY <1>0, <1>1, <1>2 DEF MissedAreLost
<1>4. ASSUME NEW n \in Node, Start(n) \/ Moves(n) \/ RequestFails(n) \/ Rejoin(n),
             UNCHANGED detection
      PROVE  \A m \in Node : fail_cnt'[m] <= lost' /\ pc'[m] \notin {"reset", "search"}
  <2> USE DEF JoiningSteps, JoinSteps, LinkSteps, RingSteps, AdoptSteps, LevelSteps
  <2>1. CASE InnerStep(n)
    <3>1. PICK s \in JoiningSteps : pc' = [pc EXCEPT ![n] = s]
      BY <2>1, InnerStepFrame DEF Goto
    <3>2. QED
      BY <1>0, <1>3, <1>4, <3>1 DEF detection
  <2>2. CASE AskInfo(n) \/ Activate(n) \/ RequestFails(n) \/ Start(n) \/ Rejoin(n)
    <3>1. PICK s \in {"edges", "run", "fetch", "activate", "info"} : pc' = [pc EXCEPT ![n] = s]
      BY <2>2 DEF AskInfo, Activate, RequestFails, JoinReturns, Start, Rejoin, SayHello, Goto
    <3>2. QED
      BY <1>0, <1>3, <1>4, <3>1 DEF detection
  <2>3. QED
    BY <1>4, <2>1, <2>2 DEF Moves, Request, InnerStep
<1>5. ASSUME NEW n \in Node, PingOk(n) \/ Work(n)
      PROVE  \A m \in Node : fail_cnt'[m] <= lost' /\ pc'[m] \notin {"reset", "search"}
  BY <1>0, <1>3, <1>5 DEF PingOk, Work, Goto, detection
<1>6. ASSUME NEW n \in Node, PingFails(n)
      PROVE  \A m \in Node : fail_cnt'[m] <= lost' /\ pc'[m] \notin {"reset", "search"}
  <2>1. e_next[n] \in Node
    BY <1>0, <1>6 DEF PingFails, NextExists, LinksTypeOK, MaybeNode
  <2>2. lost < MaxLost /\ lost' = lost + 1
    BY <1>3, <1>6, <2>1 DEF PingFails
  <2>3. fail_cnt[n] + 1 # FailLimit
    BY <1>0, <1>3, <2>2
  <2>4. pc' = [pc EXCEPT ![n] = "loop"]
    BY <1>6, <2>3 DEF PingFails, Goto
  <2>5. /\ \A m \in Node \ {n} : fail_cnt'[m] = fail_cnt[m]
        /\ fail_cnt'[n] = fail_cnt[n] \/ fail_cnt'[n] = fail_cnt[n] + 1
    BY <1>0, <1>6 DEF PingFails
  <2>6. QED
    BY <1>0, <1>3, <2>2, <2>4, <2>5
<1>7. ASSUME NEW n \in Node, AskReset(n) \/ ResetNode(n) \/ FinishReset(n) \/ Crash(n)
      PROVE  FALSE
  BY <1>2, <1>3, <1>7 DEF AskReset, ResetNode, FinishReset, Crash
<1>8. CASE Quiet
  BY <1>3, <1>8 DEF Quiet, vars, detection
<1>9. \A n \in Node : Rejoin(n) => UNCHANGED detection
  BY DEF Rejoin
<1>10. QED
  BY <1>4, <1>5, <1>6, <1>7, <1>8, <1>9, StepKinds DEF Moves

\* As long as fewer pings than the limit are lost, a node resets the network only
\* when one has crashed, "cvor pao rekonfiguracija mreze" (node.cpp:700).
THEOREM ResetMeansCrash ==
  ASSUME MaxLost < FailLimit  PROVE FSpec => []ResetOnlyAfterCrash
<1>1. FInit => NextExists /\ MissedAreLost
  BY FailoverAssumption DEF FInit, Init, NextExists, MissedAreLost
<1>2. MissedAreLost => ResetOnlyAfterCrash
  BY DEF MissedAreLost, ResetOnlyAfterCrash
<1>3. QED
  BY <1>1, <1>2, NextNextExists, NextMissedAreLost, FailoverTypeCorrect, PTL DEF FSpec

-----------------------------------------------------------------------------
(***************************************************************************)
(* What joins do to the links among the nodes that have said hello         *)
(***************************************************************************)
RunSteps == {"run", "loop"}

\* The local variables of join() that its next requests read.
LocalsWithin(n, R) ==
  LET l == loc[n] IN
  /\ l.x \in R
  /\ pc[n] \in AdoptSteps => l.parent \in R
  /\ pc[n] = "ring_prev" => l.x_next \in R
  /\ pc[n] \in {"get_prev", "close_prev", "close_next"} => l.new_next \in R
  /\ pc[n] \in {"close_prev", "close_next"} => l.new_prev \in R
  /\ pc[n] \in LevelSteps => Elems(l.kids) \subseteq R

\* The nodes of R, those of the network that is being built, know only each other.
LinksWithin(R) ==
  \A n \in R :
    /\ e_next[n] \in R /\ e_prev[n] \in R
    /\ e_parent[n] \in R \cup {None}
    /\ Elems(e_children[n]) \subseteq R

Within(R) ==
  /\ LinksWithin(R)
  /\ \A n \in R : pc[n] \in JoinSteps => LocalsWithin(n, R)

\* So there always is somebody to ask.
LEMMA CalleeWithin ==
  ASSUME TypeOK, NEW R \in SUBSET Node, Within(R), NEW n \in R, pc[n] \in JoinSteps
  PROVE  Callee(n) \in R
<1>1. LocalsWithin(n, R)
  BY DEF Within
<1> USE DEF Callee, LocalsWithin, AdoptSteps
<1>2. CASE pc[n] \in LevelSteps
  <2>1. loc[n].kids \in Seq(Node) /\ Len(loc[n].kids) = 4
    BY <1>2 DEF TypeOK, ControlTypeOK, Locals
  <2>2. DOMAIN loc[n].kids = 1 .. 4
    BY <2>1
  <2>3. \A i \in 1 .. 4 : loc[n].kids[i] \in R
    BY <1>1, <1>2, <2>2 DEF Elems
  <2>4. QED
    BY <1>1, <1>2, <2>3 DEF LevelSteps
<1>3. CASE pc[n] \notin LevelSteps
  BY <1>1, <1>3 DEF JoinSteps, LinkSteps, RingSteps
<1>4. QED
  BY <1>2, <1>3

LEMMA FirstTwo ==
  ASSUME NEW S, NEW s \in Seq(S), Len(s) = 4
  PROVE  /\ SubSeq(s, 1, 2) \in Seq(S) /\ Len(SubSeq(s, 1, 2)) = 2
         /\ \A i \in 1 .. 2 : SubSeq(s, 1, 2)[i] = s[i]
<1>1. \A i \in 1 .. 2 : s[i] \in S
  OBVIOUS
<1>2. /\ SubSeq(s, 1, 2) \in Seq(S)
      /\ Len(SubSeq(s, 1, 2)) = IF 1 <= 2 THEN 2 - 1 + 1 ELSE 0
      /\ \A i \in 1 .. 2 - 1 + 1 : SubSeq(s, 1, 2)[i] = s[1 + i - 1]
  BY <1>1, SubSeqProperties, SMT
<1>3. QED
  BY <1>2

\* The adopt handler.
LEMMA AdoptedElems ==
  ASSUME LinksTypeOK, NEW t \in Node, NEW m \in Node, NEW r \in BOOLEAN
  PROVE  /\ AdoptedBy(t, m, r) \in Seq(Node)
         /\ Elems(AdoptedBy(t, m, r)) \subseteq Elems(e_children[t]) \cup {m}
         /\ Len(e_children[t]) <= 4 => Len(AdoptedBy(t, m, r)) <= 4
         /\ Redirects(t, r) => AdoptedBy(t, m, r) = e_children[t]
         /\ ~Redirects(t, r) /\ ~CreatesLevel(t) =>
              AdoptedBy(t, m, r) = Append(e_children[t], m)
         /\ ~Redirects(t, r) /\ CreatesLevel(t) =>
              /\ Len(AdoptedBy(t, m, r)) = 2
              /\ \A i \in 1 .. 2 : AdoptedBy(t, m, r)[i] = e_children[t][i]
<1>a. PICK ch : ch = e_children[t]
  OBVIOUS
<1>b. PICK a : a = AdoptedBy(t, m, r)
  OBVIOUS
<1>c. SUFFICES /\ a \in Seq(Node)
               /\ Elems(a) \subseteq Elems(ch) \cup {m}
               /\ Len(ch) <= 4 => Len(a) <= 4
               /\ Redirects(t, r) => a = ch
               /\ ~Redirects(t, r) /\ ~CreatesLevel(t) => a = Append(ch, m)
               /\ ~Redirects(t, r) /\ CreatesLevel(t) =>
                    Len(a) = 2 /\ \A i \in 1 .. 2 : a[i] = ch[i]
  BY <1>a, <1>b, Zenon
<1>1. ch \in Seq(Node) /\ Len(ch) \in Nat /\ DOMAIN ch = 1 .. Len(ch)
  BY <1>a DEF LinksTypeOK
<1>2. CASE Redirects(t, r)
  BY <1>1, <1>a, <1>b, <1>2 DEF AdoptedBy
<1>3. CASE ~Redirects(t, r) /\ ~CreatesLevel(t)
  <2>1. a = Append(ch, m) /\ Len(ch) # 4
    BY <1>a, <1>b, <1>3 DEF AdoptedBy, CreatesLevel
  <2>2. Append(ch, m) \in Seq(Node) /\ Len(Append(ch, m)) = Len(ch) + 1
    BY <1>1, AppendProperties, Zenon
  <2>3. Elems(Append(ch, m)) = Elems(ch) \cup {m}
    BY <1>1, AppendElems
  <2>4. Len(ch) <= 4 => Len(ch) + 1 <= 4
    <3>1. \A h \in Nat : h # 4 /\ h <= 4 => h + 1 <= 4
      OBVIOUS
    <3>2. QED
      BY <1>1, <2>1, <3>1, Zenon
  <2>5. /\ a \in Seq(Node) /\ Elems(a) \subseteq Elems(ch) \cup {m}
        /\ Len(ch) <= 4 => Len(a) <= 4
    BY <2>1, <2>2, <2>3, <2>4
  <2>6. QED
    BY <1>3, <2>1, <2>5, Zenon
<1>4. CASE ~Redirects(t, r) /\ CreatesLevel(t)
  <2>1. a = SubSeq(ch, 1, 2) /\ Len(ch) = 4
    BY <1>a, <1>b, <1>4 DEF AdoptedBy, CreatesLevel
  <2>2. /\ SubSeq(ch, 1, 2) \in Seq(Node) /\ Len(SubSeq(ch, 1, 2)) = 2
        /\ \A i \in 1 .. 2 : SubSeq(ch, 1, 2)[i] = ch[i]
    BY <1>1, <2>1, FirstTwo
  <2>4. \A i \in 1 .. 2 : ch[i] \in Elems(ch)
    BY <1>1, <2>1 DEF Elems
  <2>5. DOMAIN SubSeq(ch, 1, 2) = 1 .. 2
    BY <2>2
  <2>6. Elems(SubSeq(ch, 1, 2)) \subseteq Elems(ch)
    BY <2>2, <2>4, <2>5 DEF Elems
  <2>7. QED
    BY <1>4, <2>1, <2>2, <2>6
<1>5. QED
  BY <1>2, <1>3, <1>4

LEMMA AdoptedWithin ==
  ASSUME LinksTypeOK, NEW t \in Node, NEW m \in Node, NEW r \in BOOLEAN
  PROVE  Elems(AdoptedBy(t, m, r)) \subseteq Elems(e_children[t]) \cup {m}
BY AdoptedElems, Zenon

\* A request of one of them leaves it so.
LEMMA LinkWithin ==
  ASSUME TypeOK, NEW R \in SUBSET Node, Within(R), NEW n \in R, InnerStep(n) \/ AskInfo(n)
  PROVE  Within(R)'
<1>0. LinksTypeOK /\ pc \in [Node -> Steps] /\ loc \in [Node -> Locals] /\ n \in Node
  BY DEF TypeOK, ControlTypeOK
<1>1. Joining(n) \/ pc[n] = "info"
  BY InnerStepFrame DEF AskInfo, Calls
<1>2. /\ \A m \in Node : m # n => loc'[m] = loc[m]
      /\ \E s : Goto(n, s)
  BY InnerStepFrame DEF AskInfo
<1>3. \A m \in Node : m # n => pc'[m] = pc[m]
  BY <1>0, <1>2 DEF Goto
<1>4. pc[n] \in JoinSteps => LocalsWithin(n, R) /\ Callee(n) \in R
  BY CalleeWithin DEF Within
<1>5. SUFFICES /\ LinksWithin(R)'
               /\ pc'[n] \in JoinSteps => LocalsWithin(n, R)'
  <2>1. ASSUME NEW m \in R, m # n, pc'[m] \in JoinSteps  PROVE LocalsWithin(m, R)'
    BY <1>2, <1>3, <2>1 DEF Within, LocalsWithin
  <2>2. QED
    BY <2>1 DEF Within
<1>6. LinksWithin(R)
  BY DEF Within
<1>7. pc[n] \in LevelSteps => \A i \in 1 .. 4 : loc[n].kids[i] \in R
  <2>1. SUFFICES ASSUME pc[n] \in LevelSteps  PROVE \A i \in 1 .. 4 : loc[n].kids[i] \in R
    OBVIOUS
  <2>2. loc[n].kids \in Seq(Node) /\ Len(loc[n].kids) = 4
    BY <2>1 DEF TypeOK, ControlTypeOK, Locals
  <2>3. DOMAIN loc[n].kids = 1 .. 4
    BY <2>2
  <2>4. QED
    BY <1>4, <2>1, <2>3 DEF LocalsWithin, Elems, JoinSteps, LinkSteps
<1> USE DEF JoinSteps, LinkSteps, RingSteps, AdoptSteps, LevelSteps
<1>8. CASE AskInfo(n) \/ FetchJobs(n)
  <2>1. UNCHANGED <<links, loc>>
    BY <1>8 DEF AskInfo, FetchJobs
  <2>2. (pc[n] = "info" /\ pc'[n] = "edges") \/ pc'[n] = "activate"
    BY <1>0, <1>8 DEF AskInfo, FetchJobs, Calls, Goto
  <2>3. LinksWithin(R)'
    BY <1>6, <2>1 DEF links, LinksWithin
  <2>4. QED
    BY <1>4, <2>1, <2>2, <2>3 DEF LocalsWithin
<1>9. CASE AskEdges(n)
  <2>1. UNCHANGED links /\ loc[n].x \in R
    BY <1>4, <1>9 DEF AskEdges, Calls, LocalsWithin
  <2>2. LinksWithin(R)'
    BY <1>6, <2>1 DEF links, LinksWithin
  <2>3. CASE e_parent[loc[n].x] # None
    <3>1. loc' = [loc EXCEPT ![n].parent = e_parent[loc[n].x]] /\ pc'[n] = "adopt"
      BY <1>0, <1>9, <2>3 DEF AskEdges, Goto
    <3>2. e_parent[loc[n].x] \in R
      BY <1>6, <2>1, <2>3 DEF LinksWithin
    <3>3. loc'[n].parent \in R /\ loc'[n].x \in R
      BY <1>0, <2>1, <3>1, <3>2 DEF Locals
    <3>4. QED
      BY <2>2, <3>1, <3>3 DEF LocalsWithin
  <2>4. CASE e_parent[loc[n].x] = None
    <3>1. loc' = loc /\ pc'[n] \in {"ring_next", "adopt_below"}
      BY <1>0, <1>9, <2>4 DEF AskEdges, Goto
    <3>2. QED
      BY <2>1, <2>2, <3>1 DEF LocalsWithin
  <2>5. QED
    BY <2>3, <2>4
<1>10. CASE RingNext(n)
  <2>1. /\ loc[n].x \in R /\ pc'[n] = "ring_prev"
        /\ loc' = [loc EXCEPT ![n].x_next = e_next[loc[n].x]]
        /\ e_next' = [e_next EXCEPT ![loc[n].x] = n] /\ UNCHANGED <<e_parent, e_prev, e_children>>
    BY <1>0, <1>4, <1>10 DEF RingNext, SetNext, Calls, LocalsWithin, Goto
  <2>2. e_next[loc[n].x] \in R
    BY <1>6, <2>1 DEF LinksWithin
  <2>3. loc'[n].x_next \in R /\ loc'[n].x \in R
    BY <1>0, <2>1, <2>2 DEF Locals
  <2>4. LinksWithin(R)'
    BY <1>0, <1>6, <2>1 DEF LinksWithin, LinksTypeOK
  <2>5. QED
    BY <2>1, <2>3, <2>4 DEF LocalsWithin
<1>11. CASE RingPrev(n)
  <2>1. /\ loc[n].x \in R /\ loc[n].x_next \in R /\ pc'[n] \in {"fetch", "activate"}
        /\ e_prev' = [e_prev EXCEPT ![loc[n].x_next] = n, ![n] = loc[n].x]
        /\ e_next' = [e_next EXCEPT ![n] = loc[n].x_next]
        /\ UNCHANGED <<e_parent, e_children>>
    BY <1>0, <1>4, <1>11 DEF RingPrev, Calls, LocalsWithin, JoinReturns, Goto
  <2>2. LinksWithin(R)'
    BY <1>0, <1>6, <2>1 DEF LinksWithin, LinksTypeOK
  <2>3. QED
    BY <2>1, <2>2
<1>12. CASE AdoptBelow(n)
  <2>1. /\ loc[n].x \in R /\ pc'[n] \in {"fetch", "activate"}
        /\ e_children' = [e_children EXCEPT ![loc[n].x] = AdoptedBy(loc[n].x, n, FALSE)]
        /\ e_parent' = [e_parent EXCEPT ![n] = loc[n].x]
        /\ UNCHANGED <<e_prev, e_next>>
    BY <1>0, <1>4, <1>12 DEF AdoptBelow, Adopt, Calls, LocalsWithin, JoinReturns, Goto
  <2>2. Elems(AdoptedBy(loc[n].x, n, FALSE)) \subseteq R
    <3>1. Elems(AdoptedBy(loc[n].x, n, FALSE)) \subseteq Elems(e_children[loc[n].x]) \cup {n}
      BY <1>0, <2>1, AdoptedWithin
    <3>2. QED
      BY <1>6, <2>1, <3>1 DEF LinksWithin
  <2>3. LinksWithin(R)'
    BY <1>0, <1>6, <2>1, <2>2 DEF LinksWithin, LinksTypeOK
  <2>4. QED
    BY <2>1, <2>3
<1>13. CASE AskParent(n) \/ AskParentNext(n)
  <2>1. PICK s \in AdoptSteps, r \in BOOLEAN : AskAdopt(n, s, r)
    BY <1>13 DEF AskParent, AskParentNext
  <2> DEFINE p == loc[n].parent
  <2>2. p \in R /\ loc[n].x \in R /\ UNCHANGED <<e_prev, e_next>>
    BY <1>4, <2>1 DEF AskAdopt, Calls, LocalsWithin
  <2>3. Elems(AdoptedBy(p, n, r)) \subseteq R
    <3>1. Elems(AdoptedBy(p, n, r)) \subseteq Elems(e_children[p]) \cup {n}
      BY <1>0, <2>2, AdoptedWithin
    <3>2. QED
      BY <1>6, <2>2, <3>1 DEF LinksWithin
  <2>4. e_children' = [e_children EXCEPT ![p] = AdoptedBy(p, n, r)]
    BY <2>1 DEF AskAdopt, Adopt
  <2>5. e_parent' = e_parent \/ e_parent' = [e_parent EXCEPT ![n] = p]
    BY <2>1 DEF AskAdopt
  <2>6. LinksWithin(R)'
    <3> HIDE DEF p
    <3>1. QED
      BY <1>0, <1>6, <2>2, <2>3, <2>4, <2>5 DEF LinksWithin, LinksTypeOK
  <2>7. \/ pc'[n] = "adopt_redirected" /\ loc' = [loc EXCEPT ![n].parent = e_next[p]]
        \/ pc'[n] = "get_next" /\ loc' = [loc EXCEPT ![n].kids = e_children[p]]
        \/ pc'[n] = "ring_next" /\ loc' = loc
    BY <1>0, <2>1 DEF AskAdopt, Goto
  <2>8. e_next[p] \in R /\ Elems(e_children[p]) \subseteq R
    BY <1>6, <2>2 DEF LinksWithin
  <2>9. LocalsWithin(n, R)'
    <3> HIDE DEF p
    <3>1. CASE pc'[n] = "adopt_redirected" /\ loc' = [loc EXCEPT ![n].parent = e_next[p]]
      BY <1>0, <2>2, <2>8, <3>1 DEF LocalsWithin, Locals
    <3>2. CASE pc'[n] = "get_next" /\ loc' = [loc EXCEPT ![n].kids = e_children[p]]
      <4>1. loc'[n].kids = e_children[p] /\ loc'[n].x = loc[n].x
        BY <1>0, <3>2 DEF Locals
      <4>2. QED
        BY <2>2, <2>8, <3>2, <4>1 DEF LocalsWithin
    <3>3. CASE pc'[n] = "ring_next" /\ loc' = loc
      BY <2>2, <3>3 DEF LocalsWithin
    <3>4. QED
      BY <2>7, <3>1, <3>2, <3>3
  <2>10. QED
    BY <2>6, <2>9
<1>14. CASE GetNext(n) \/ GetPrev(n)
  <2>1. /\ UNCHANGED links /\ loc[n].x \in R /\ loc[n].kids[3] \in R
        /\ pc[n] \in {"get_next", "get_prev"} /\ Elems(loc[n].kids) \subseteq R
    BY <1>4, <1>7, <1>14 DEF GetNext, GetPrev, LevelStep, Calls, LocalsWithin
  <2>2. LinksWithin(R)'
    BY <1>6, <2>1 DEF links, LinksWithin
  <2>3. CASE GetNext(n)
    <3>1. pc'[n] = "get_prev" /\ loc' = [loc EXCEPT ![n].new_next = e_next[loc[n].x]]
      BY <1>0, <2>3 DEF GetNext, LevelStep, Goto
    <3>2. e_next[loc[n].x] \in R
      BY <1>6, <2>1 DEF LinksWithin
    <3>3. loc'[n].new_next \in R /\ loc'[n].x = loc[n].x /\ loc'[n].kids = loc[n].kids
      BY <1>0, <3>1, <3>2 DEF Locals
    <3>4. QED
      BY <2>1, <2>2, <3>1, <3>3 DEF LocalsWithin
  <2>4. CASE GetPrev(n)
    <3>1. /\ pc[n] = "get_prev" /\ pc'[n] = "close_prev"
          /\ loc' = [loc EXCEPT ![n].new_prev = e_prev[loc[n].kids[3]]]
      BY <1>0, <2>4 DEF GetPrev, LevelStep, Calls, Goto
    <3>2. e_prev[loc[n].kids[3]] \in R /\ loc[n].new_next \in R
      BY <1>4, <1>6, <2>1, <3>1 DEF LinksWithin, LocalsWithin
    <3>3. /\ loc'[n].new_prev \in R /\ loc'[n].new_next = loc[n].new_next
          /\ loc'[n].x = loc[n].x /\ loc'[n].kids = loc[n].kids
      BY <1>0, <3>1, <3>2 DEF Locals
    <3>4. QED
      BY <2>1, <2>2, <3>1, <3>2, <3>3 DEF LocalsWithin
  <2>5. QED
    BY <1>14, <2>3, <2>4
<1>15. CASE ClosePrev(n) \/ CloseNext(n) \/ Parent2(n) \/ Parent3(n) \/ Next3(n)
  <2>1. /\ loc' = loc /\ UNCHANGED e_children
        /\ \/ pc[n] = "close_prev" /\ pc'[n] = "close_next"
           \/ pc[n] \in LevelSteps /\ pc'[n] \in {"adopt_2", "adopt_3", "adopt_me", "prev_2"}
    BY <1>0, <1>15 DEF ClosePrev, CloseNext, Parent2, Parent3, Next3, TellKid, LevelStep, Calls,
       SetPrev, SetNext, SetParent, Goto
  <2>2. LocalsWithin(n, R)'
    BY <1>4, <2>1 DEF LocalsWithin
  <2>3. LinksWithin(R)'
    <3>1. CASE ClosePrev(n)
      <4>1. pc[n] = "close_prev" /\ SetPrev(loc[n].new_next, loc[n].new_prev)
        BY <3>1 DEF ClosePrev, LevelStep, Calls
      <4>2. loc[n].new_next \in R /\ loc[n].new_prev \in R
        BY <1>4, <4>1 DEF LocalsWithin
      <4>3. QED
        BY <1>0, <1>6, <4>1, <4>2 DEF SetPrev, LinksWithin, LinksTypeOK
    <3>2. CASE CloseNext(n)
      <4>1. pc[n] = "close_next" /\ SetNext(loc[n].new_prev, loc[n].new_next)
        BY <3>2 DEF CloseNext, LevelStep, Calls
      <4>2. loc[n].new_next \in R /\ loc[n].new_prev \in R
        BY <1>4, <4>1 DEF LocalsWithin
      <4>3. QED
        BY <1>0, <1>6, <4>1, <4>2 DEF SetNext, LinksWithin, LinksTypeOK
    <3>3. CASE Parent2(n) \/ Parent3(n)
      <4>1. /\ pc[n] \in LevelSteps
            /\ \E i \in 1 .. 4 : SetParent(loc[n].kids[i], loc[n].kids[1])
        BY <3>3 DEF Parent2, Parent3, TellKid, LevelStep, Calls
      <4>2. loc[n].kids[1] \in R
        BY <1>7, <4>1
      <4>3. QED
        BY <1>0, <1>6, <1>7, <4>1, <4>2 DEF SetParent, LinksWithin, LinksTypeOK
    <3>4. CASE Next3(n)
      <4>1. pc[n] \in LevelSteps /\ SetNext(loc[n].kids[4], n)
        BY <3>4 DEF Next3, LevelStep, Calls
      <4>2. QED
        BY <1>0, <1>6, <1>7, <4>1 DEF SetNext, LinksWithin, LinksTypeOK
    <3>5. QED
      BY <1>15, <3>1, <3>2, <3>3, <3>4
  <2>4. QED
    BY <2>2, <2>3
<1>16. CASE Adopt2(n) \/ Adopt3(n) \/ AdoptMe(n)
  <2>1. /\ loc' = loc /\ UNCHANGED <<e_prev, e_next>> /\ pc[n] \in LevelSteps
        /\ pc'[n] \in {"parent_2", "parent_3", "next_3"}
    BY <1>0, <1>16 DEF Adopt2, Adopt3, AdoptMe, AdoptKid, LevelStep, Calls, Goto
  <2>2. LocalsWithin(n, R)'
    BY <1>4, <2>1 DEF LocalsWithin
  <2>0. /\ loc[n].kids[1] \in R /\ loc[n].kids[2] \in R
        /\ loc[n].kids[3] \in R /\ loc[n].kids[4] \in R
    BY <1>7, <2>1
  <2>3. PICK p \in R, m \in R : e_children' = [e_children EXCEPT ![p] = AdoptedBy(p, m, FALSE)]
    <3>1. Adopt2(n) => e_children' = [e_children EXCEPT ![loc[n].kids[1]] =
                                        AdoptedBy(loc[n].kids[1], loc[n].kids[3], FALSE)]
      BY DEF Adopt2, AdoptKid, Adopt
    <3>2. Adopt3(n) => e_children' = [e_children EXCEPT ![loc[n].kids[1]] =
                                        AdoptedBy(loc[n].kids[1], loc[n].kids[4], FALSE)]
      BY DEF Adopt3, AdoptKid, Adopt
    <3>3. AdoptMe(n) => e_children' = [e_children EXCEPT ![loc[n].kids[2]] =
                                         AdoptedBy(loc[n].kids[2], n, FALSE)]
      BY DEF AdoptMe, Adopt
    <3>4. QED
      BY <1>16, <2>0, <3>1, <3>2, <3>3, Zenon
  <2>4. e_parent' = e_parent \/ \E q \in R : e_parent' = [e_parent EXCEPT ![n] = q]
    BY <1>16, <2>0 DEF Adopt2, Adopt3, AdoptMe, AdoptKid
  <2>5. Elems(AdoptedBy(p, m, FALSE)) \subseteq R
    <3>1. Elems(AdoptedBy(p, m, FALSE)) \subseteq Elems(e_children[p]) \cup {m}
      BY <1>0, <2>3, AdoptedWithin
    <3>2. QED
      BY <1>6, <2>3, <3>1 DEF LinksWithin
  <2>6. LinksWithin(R)'
    BY <1>0, <1>6, <2>1, <2>3, <2>4, <2>5 DEF LinksWithin, LinksTypeOK
  <2>7. QED
    BY <2>2, <2>6
<1>17. CASE Prev2(n)
  <2>1. /\ pc'[n] \in {"fetch", "activate"} /\ pc[n] \in LevelSteps
        /\ e_prev' = [e_prev EXCEPT ![loc[n].kids[3]] = n, ![n] = loc[n].kids[4]]
        /\ e_next' = [e_next EXCEPT ![n] = loc[n].kids[3]]
        /\ UNCHANGED <<e_parent, e_children>>
    BY <1>0, <1>17 DEF Prev2, Calls, JoinReturns, Goto
  <2>2. loc[n].kids[3] \in R /\ loc[n].kids[4] \in R
    BY <1>7, <2>1
  <2>3. LinksWithin(R)'
    BY <1>0, <1>6, <2>1, <2>2 DEF LinksWithin, LinksTypeOK
  <2>4. QED
    BY <2>1, <2>3
<1>18. QED
  BY <1>8, <1>9, <1>10, <1>11, <1>12, <1>13, <1>14, <1>15, <1>16, <1>17
     DEF InnerStep, CreateLevel

-----------------------------------------------------------------------------
(***************************************************************************)
(* No child is adopted twice                                               *)
(***************************************************************************)
Injective(s) == \A i, j \in DOMAIN s : s[i] = s[j] => i = j

\* No node of R has m for a child.
NotListed(R, m) == \A p \in R : m \notin Elems(e_children[p])

\* At these steps a node is nobody's child yet.
Unlisted == {"info", "edges", "adopt_below"} \cup AdoptSteps
              \cup (LevelSteps \ {"next_3", "prev_2"})

\* A node lists at most four children, no node twice and none that another lists.
ListsApart(R) ==
  /\ \A p \in Node : Len(e_children[p]) <= 4 /\ Injective(e_children[p])
  /\ \A p, q \in R : p # q => Elems(e_children[p]) \cap Elems(e_children[q]) = {}

\* The children that n moves to a new level: the third and fourth are nobody's
\* children until the first adopts them.
KidsMoved(n, R) ==
  LET kids == loc[n].kids IN
  /\ Injective(kids)
  /\ \A m \in Elems(kids) : m # n /\ pc[m] \notin Unlisted
  /\ pc[n] \in {"get_next", "get_prev", "close_prev", "close_next", "adopt_2"} =>
       NotListed(R, kids[3])
  /\ pc[n] \in {"get_next", "get_prev", "close_prev", "close_next", "adopt_2", "parent_2",
                "adopt_3"} => NotListed(R, kids[4])

KidOnce(R) ==
  /\ ListsApart(R)
  /\ \A n \in R : /\ pc[n] \in Unlisted => NotListed(R, n)
                  /\ pc[n] \in LevelSteps => KidsMoved(n, R)

\* The adopt handler, given a node that nobody lists.
LEMMA AdoptKeeps ==
  ASSUME LinksTypeOK, NEW R \in SUBSET Node, ListsApart(R), NEW p \in Node, p \in R,
         NEW v \in Node, NotListed(R, v), NEW r \in BOOLEAN,
         e_children'[p] = AdoptedBy(p, v, r),
         \A q \in Node : q # p => e_children'[q] = e_children[q]
  PROVE  /\ ListsApart(R)'
         /\ \A m \in Node : m # v /\ NotListed(R, m) =>
              \A q \in R : m \notin Elems(e_children'[q])
         /\ Redirects(p, r) \/ CreatesLevel(p) => \A q \in R : v \notin Elems(e_children'[q])
         /\ ~Redirects(p, r) /\ CreatesLevel(p) =>
              \A i \in 3 .. 4, q \in R : e_children[p][i] \notin Elems(e_children'[q])
<1>a. PICK ch : ch = e_children[p]
  OBVIOUS
<1>0. /\ p \in Node /\ ch \in Seq(Node) /\ Len(ch) \in Nat /\ DOMAIN ch = 1 .. Len(ch)
      /\ Len(ch) <= 4 /\ Injective(ch) /\ v \notin Elems(ch)
      /\ e_children \in [Node -> Seq(Node)]
  <2>1. /\ p \in Node /\ ch \in Seq(Node) /\ e_children \in [Node -> Seq(Node)]
    BY <1>a DEF LinksTypeOK
  <2>2. Len(ch) <= 4 /\ Injective(ch) /\ v \notin Elems(ch)
    BY <1>a, <2>1 DEF ListsApart, NotListed
  <2>3. QED
    BY <2>1, <2>2
<1>1. PICK a : a = AdoptedBy(p, v, r)
  OBVIOUS
<1>2. e_children'[p] = a /\ \A q \in Node : q # p => e_children'[q] = e_children[q]
  BY <1>0, <1>1
<1>3. /\ a \in Seq(Node) /\ Elems(a) \subseteq Elems(ch) \cup {v} /\ Len(a) <= 4
      /\ Redirects(p, r) => a = ch
      /\ ~Redirects(p, r) /\ ~CreatesLevel(p) => a = Append(ch, v)
      /\ ~Redirects(p, r) /\ CreatesLevel(p) =>
           Len(a) = 2 /\ \A i \in 1 .. 2 : a[i] = ch[i]
  <2>1. /\ AdoptedBy(p, v, r) \in Seq(Node)
        /\ Elems(AdoptedBy(p, v, r)) \subseteq Elems(e_children[p]) \cup {v}
        /\ Len(e_children[p]) <= 4 => Len(AdoptedBy(p, v, r)) <= 4
    BY AdoptedElems
  <2>2. /\ Redirects(p, r) => AdoptedBy(p, v, r) = e_children[p]
        /\ ~Redirects(p, r) /\ ~CreatesLevel(p) =>
             AdoptedBy(p, v, r) = Append(e_children[p], v)
    BY AdoptedElems, Zenon
  <2>3. ~Redirects(p, r) /\ CreatesLevel(p) =>
          Len(AdoptedBy(p, v, r)) = 2 /\ \A i \in 1 .. 2 : AdoptedBy(p, v, r)[i] = e_children[p][i]
    BY AdoptedElems
  <2>4. a \in Seq(Node) /\ Elems(a) \subseteq Elems(ch) \cup {v} /\ Len(a) <= 4
    BY <1>0, <1>a, <1>1, <2>1, Zenon
  <2>5. /\ Redirects(p, r) => a = ch
        /\ ~Redirects(p, r) /\ ~CreatesLevel(p) => a = Append(ch, v)
    BY <1>a, <1>1, <2>2, Zenon
  <2>6. ~Redirects(p, r) /\ CreatesLevel(p) => Len(a) = 2 /\ \A i \in 1 .. 2 : a[i] = ch[i]
    BY <1>a, <1>1, <2>3, Zenon
  <2>7. QED
    BY <2>4, <2>5, <2>6
<1>4. Injective(a)
  <2>1. CASE Redirects(p, r)
    BY <1>0, <1>3, <2>1
  <2>2. CASE ~Redirects(p, r) /\ ~CreatesLevel(p)
    <3>1. a = Append(ch, v)
      BY <1>3, <2>2
    <3>2. /\ Len(a) = Len(ch) + 1 /\ a[Len(ch) + 1] = v
          /\ \A i \in 1 .. Len(ch) : a[i] = ch[i]
      <4>1. /\ Len(Append(ch, v)) = Len(ch) + 1 /\ Append(ch, v)[Len(ch) + 1] = v
            /\ \A i \in 1 .. Len(ch) : Append(ch, v)[i] = ch[i]
        BY <1>0, AppendProperties
      <4>2. QED
        BY <3>1, <4>1
    <3>3. DOMAIN a = 1 .. Len(ch) + 1
      BY <1>3, <3>2
    <3>4. \A i \in 1 .. Len(ch) : ch[i] # v
      BY <1>0 DEF Elems
    <3>5. \A i, j \in 1 .. Len(ch) : ch[i] = ch[j] => i = j
      BY <1>0 DEF Injective
    <3>6. ASSUME NEW i \in 1 .. Len(ch) + 1, NEW j \in 1 .. Len(ch) + 1, a[i] = a[j]
          PROVE  i = j
      <4>1. CASE i \in 1 .. Len(ch) /\ j \in 1 .. Len(ch)
        BY <3>2, <3>5, <3>6, <4>1
      <4>2. CASE i = Len(ch) + 1 \/ j = Len(ch) + 1
        <5>1. \A h \in 1 .. Len(ch) : a[h] # v
          BY <3>2, <3>4
        <5>2. PICK h : h = Len(ch)
          OBVIOUS
        <5>3. h \in Nat /\ i \in 1 .. h+1 /\ j \in 1 .. h+1 /\ (i = h+1 \/ j = h+1)
          BY <1>0, <4>2, <5>2
        <5>4. a[h+1] = v /\ a[i] = a[j] /\ \A g \in 1 .. h : a[g] # v
          BY <3>2, <3>6, <5>1, <5>2
        <5>5. \A g \in 1 .. h+1 : g # h+1 => g \in 1 .. h
          BY <5>3
        <5>6. a[i] = v /\ a[j] = v
          BY <5>3, <5>4
        <5>7. ASSUME NEW g \in 1 .. h+1, a[g] = v  PROVE g = h+1
          BY <5>4, <5>5, <5>7
        <5>8. QED
          BY <5>3, <5>6, <5>7, Zenon
      <4>3. \A h \in Nat : \A g \in 1 .. h + 1 : g \in 1 .. h \/ g = h + 1
        OBVIOUS
      <4>4. /\ i \in 1 .. Len(ch) \/ i = Len(ch) + 1
            /\ j \in 1 .. Len(ch) \/ j = Len(ch) + 1
        BY <1>0, <4>3, Zenon
      <4>5. QED
        BY <4>1, <4>2, <4>4, Zenon
    <3>7. QED
      BY <3>3, <3>6 DEF Injective
  <2>3. CASE ~Redirects(p, r) /\ CreatesLevel(p)
    <3>1. Len(ch) = 4
      BY <1>a, <2>3 DEF CreatesLevel
    <3>2. ch[1] # ch[2]
      BY <1>0, <3>1 DEF Injective
    <3>3. DOMAIN a = 1 .. 2 /\ a[1] = ch[1] /\ a[2] = ch[2]
      BY <1>3, <2>3
    <3>4. QED
      BY <3>2, <3>3 DEF Injective
  <2>4. QED
    BY <2>1, <2>2, <2>3
<1>5. ListsApart(R)'
  <2>1. ASSUME NEW q \in Node  PROVE Len(e_children'[q]) <= 4 /\ Injective(e_children'[q])
    BY <1>2, <1>3, <1>4 DEF ListsApart
  <2>2. ASSUME NEW q \in R, q # p  PROVE Elems(a) \cap Elems(e_children'[q]) = {}
    <3>1. Elems(ch) \cap Elems(e_children[q]) = {} /\ v \notin Elems(e_children[q])
      BY <1>a, <2>2 DEF ListsApart, NotListed
    <3>2. e_children'[q] = e_children[q]
      BY <1>2, <2>2
    <3>3. QED
      BY <1>3, <3>1, <3>2
  <2>3. ASSUME NEW q \in R, NEW u \in R, q # u
        PROVE  Elems(e_children'[q]) \cap Elems(e_children'[u]) = {}
    <3>1. CASE q = p
      BY <1>2, <2>2, <2>3, <3>1
    <3>2. CASE u = p
      BY <1>2, <2>2, <2>3, <3>2
    <3>3. CASE q # p /\ u # p
      BY <1>2, <2>3, <3>3 DEF ListsApart
    <3>4. QED
      BY <3>1, <3>2, <3>3
  <2>4. QED
    BY <2>1, <2>3 DEF ListsApart
<1>6. ASSUME NEW m \in Node, m # v, NotListed(R, m)  
      PROVE  \A q \in R : m \notin Elems(e_children'[q])
  <2>1. m \notin Elems(ch)
    BY <1>a, <1>6 DEF NotListed
  <2>2. m \notin Elems(a)
    BY <1>3, <1>6, <2>1
  <2>3. QED
    BY <1>2, <1>6, <2>2 DEF NotListed
<1>7. ASSUME Redirects(p, r) \/ CreatesLevel(p)  
      PROVE  \A q \in R : v \notin Elems(e_children'[q])
  <2>1. v \notin Elems(a)
    <3>1. CASE Redirects(p, r)
      BY <1>0, <1>3, <3>1
    <3>2. CASE ~Redirects(p, r) /\ CreatesLevel(p)
      <4>1. Len(ch) = 4
        BY <1>a, <3>2 DEF CreatesLevel
      <4>2. ch[1] # v /\ ch[2] # v
        BY <1>0, <4>1 DEF Elems
      <4>3. DOMAIN a = 1 .. 2 /\ a[1] = ch[1] /\ a[2] = ch[2]
        BY <1>3, <3>2
      <4>4. QED
        BY <4>2, <4>3 DEF Elems
    <3>3. QED
      BY <1>7, <3>1, <3>2
  <2>2. QED
    BY <1>2, <2>1 DEF NotListed
<1>8. ASSUME ~Redirects(p, r), CreatesLevel(p), NEW i \in 3 .. 4  
      PROVE  \A q \in R : ch[i] \notin Elems(e_children'[q])
  <2>1. Len(ch) = 4
    BY <1>a, <1>8 DEF CreatesLevel
  <2>2. ch[1] # ch[i] /\ ch[2] # ch[i] /\ ch[i] \in Elems(ch)
    BY <1>0, <2>1 DEF Injective, Elems
  <2>3. DOMAIN a = 1 .. 2 /\ a[1] = ch[1] /\ a[2] = ch[2]
    BY <1>3, <1>8
  <2>4. ch[i] \notin Elems(a)
    BY <2>2, <2>3 DEF Elems
  <2>5. ASSUME NEW q \in R, q # p  PROVE ch[i] \notin Elems(e_children[q])
    BY <1>a, <2>2, <2>5 DEF ListsApart
  <2>6. QED
    BY <1>2, <2>4, <2>5 DEF NotListed
<1>9. QED
  BY <1>a, <1>5, <1>6, <1>7, <1>8

LEMMA UnlistedSteps ==
  /\ Unlisted \subseteq JoinSteps /\ LevelSteps \subseteq LinkSteps /\ LinkSteps \subseteq JoinSteps
  /\ Unlisted \cap {"fetch", "activate", "ring_next", "ring_prev", "next_3", "prev_2"} = {}
  /\ LevelSteps \cap {"fetch", "activate", "ring_next", "ring_prev", "info", "edges",
                      "adopt_below", "adopt", "adopt_redirected"} = {}
  /\ {"edges", "adopt_below", "ring_next", "ring_prev", "adopt", "adopt_redirected"}
       \subseteq LinkSteps
BY DEF Unlisted, JoinSteps, LinkSteps, RingSteps, AdoptSteps, LevelSteps

\* A step of n that leaves the children alone and takes n to no step of a join.
LEMMA KidIdle ==
  ASSUME TypeOK, NEW R \in SUBSET Node, KidOnce(R), NEW n \in Node,
         NEW s, s \notin Unlisted, s \notin LevelSteps, Goto(n, s), UNCHANGED e_children,
         \A m \in Node : m # n => loc'[m] = loc[m]
  PROVE  KidOnce(R)'
<1>0. pc \in [Node -> Steps]
  BY DEF TypeOK, ControlTypeOK
<1>1. pc'[n] = s /\ \A m \in Node : m # n => pc'[m] = pc[m]
  BY <1>0 DEF Goto
<1>2. ListsApart(R)' /\ \A m \in Node : NotListed(R, m)' = NotListed(R, m)
  BY DEF KidOnce, ListsApart, NotListed
<1>3. ASSUME NEW m \in R  PROVE /\ pc'[m] \in Unlisted => NotListed(R, m)'
                                /\ pc'[m] \in LevelSteps => KidsMoved(m, R)'
  <2>1. CASE m = n
    BY <1>1, <2>1
  <2>2. CASE m # n
    <3>1. pc'[m] = pc[m] /\ loc'[m] = loc[m]
      BY <1>1, <2>2
    <3>2. pc[m] \in LevelSteps => KidsMoved(m, R)
      BY DEF KidOnce
    <3>3. KidsMoved(m, R) => KidsMoved(m, R)'
      <4>1. SUFFICES ASSUME KidsMoved(m, R)  PROVE KidsMoved(m, R)'
        OBVIOUS
      <4>2. UNCHANGED e_children
        OBVIOUS
      <4>3. \A h \in R : e_children'[h] = e_children[h]
        BY <4>2
      <4>4. \A h : NotListed(R, h) => \A q \in R : h \notin Elems(e_children'[q])
        BY <4>3 DEF NotListed
      <4>5. \A h \in Elems(loc[m].kids) : h # m /\ pc[h] \notin Unlisted
        BY <4>1 DEF KidsMoved
      <4>6. loc[m].kids \in Seq(Node)
        BY DEF TypeOK, ControlTypeOK, Locals
      <4>7. \A h \in Elems(loc[m].kids) : h \in Node
        BY <4>6 DEF Elems
      <4>8. \A h \in Elems(loc[m].kids) : h # m /\ pc'[h] \notin Unlisted
        BY <1>1, <4>5, <4>7
      <4>9. QED
        BY <3>1, <4>1, <4>4, <4>8 DEF KidsMoved, NotListed
    <3>4. QED
      BY <1>2, <3>1, <3>2, <3>3 DEF KidOnce
  <2>3. QED
    BY <2>1, <2>2
<1>4. QED
  BY <1>2, <1>3 DEF KidOnce

\* A step of the one node that links itself.
LEMMA KidLinks ==
  ASSUME TypeOK, NEW R \in SUBSET Node, KidOnce(R), NEW n \in R,
         \A m \in R : m # n => pc[m] \notin LevelSteps,
         NEW s, Goto(n, s), \A m \in Node : m # n => loc'[m] = loc[m],
         ListsApart(R)',
         \A m \in R : m # n /\ pc[m] \in Unlisted /\ NotListed(R, m) => NotListed(R, m)',
         s \in Unlisted => NotListed(R, n)',
         s \in LevelSteps => KidsMoved(n, R)'
  PROVE  KidOnce(R)'
<1>0. pc \in [Node -> Steps]
  BY DEF TypeOK, ControlTypeOK
<1>1. pc'[n] = s /\ \A m \in R : m # n => pc'[m] = pc[m]
  BY <1>0 DEF Goto
<1>2. ASSUME NEW m \in R  PROVE /\ pc'[m] \in Unlisted => NotListed(R, m)'
                                /\ pc'[m] \in LevelSteps => KidsMoved(m, R)'
  <2>1. CASE m = n
    BY <1>1, <2>1
  <2>2. CASE m # n
    BY <1>1, <2>2 DEF KidOnce
  <2>3. QED
    BY <2>1, <2>2
<1>3. QED
  BY <1>2 DEF KidOnce

\* n moves on in the new level: its list of children stays, and nobody else
\* takes the two that are being moved.
LEMMA KidsStay ==
  ASSUME TypeOK, NEW R \in SUBSET Node, NEW n \in R, KidsMoved(n, R), NEW s, Goto(n, s),
         loc'[n].kids = loc[n].kids,
         s \in {"get_next", "get_prev", "close_prev", "close_next", "adopt_2"} =>
           NotListed(R, loc[n].kids[3])',
         s \in {"get_next", "get_prev", "close_prev", "close_next", "adopt_2", "parent_2",
                "adopt_3"} => NotListed(R, loc[n].kids[4])'
  PROVE  KidsMoved(n, R)'
<1>0. pc \in [Node -> Steps] /\ loc[n].kids \in Seq(Node)
  BY DEF TypeOK, ControlTypeOK, Locals
<1>1. pc'[n] = s /\ \A m \in Node : m # n => pc'[m] = pc[m]
  BY <1>0 DEF Goto
<1>2. \A m \in Elems(loc[n].kids) : m \in Node
  BY <1>0 DEF Elems
<1>3. \A m \in Elems(loc[n].kids) : m # n /\ pc'[m] \notin Unlisted
  BY <1>1, <1>2 DEF KidsMoved
<1>4. /\ s \in {"get_next", "get_prev", "close_prev", "close_next", "adopt_2"} =>
           \A p \in R : loc[n].kids[3] \notin Elems(e_children'[p])
      /\ s \in {"get_next", "get_prev", "close_prev", "close_next", "adopt_2", "parent_2",
                "adopt_3"} => \A p \in R : loc[n].kids[4] \notin Elems(e_children'[p])
  BY DEF NotListed
<1>5. QED
  BY <1>1, <1>3, <1>4 DEF KidsMoved, NotListed

\* The requests of a join, but for those that open a level.
LEMMA EnterKidOnce ==
  ASSUME TypeOK, NEW R \in SUBSET Node, Within(R), KidOnce(R), NEW n \in R,
         \A m \in R : m # n => pc[m] \notin LevelSteps,
         AskEdges(n) \/ RingNext(n) \/ RingPrev(n) \/ AdoptBelow(n) \/ AskParent(n)
           \/ AskParentNext(n)
  PROVE  KidOnce(R)'
<1>0. /\ LinksTypeOK /\ pc \in [Node -> Steps] /\ loc \in [Node -> Locals] /\ n \in Node
      /\ ListsApart(R)
  BY DEF TypeOK, ControlTypeOK, KidOnce
<1>1. \A m \in Node : m # n => loc'[m] = loc[m]
  <2>1. InnerStep(n)
    BY DEF InnerStep
  <2>2. QED
    BY <2>1, InnerStepFrame
<1>2. UNCHANGED e_children => ListsApart(R)' /\ \A m \in R : NotListed(R, m) => NotListed(R, m)'
  BY <1>0 DEF ListsApart, NotListed
<1>3. CASE AskEdges(n)
  <2>1. PICK s \in {"adopt", "ring_next", "adopt_below"} : Goto(n, s)
    BY <1>3 DEF AskEdges
  <2>2. pc[n] = "edges" /\ UNCHANGED e_children
    BY <1>3 DEF AskEdges, Calls, links
  <2>3. NotListed(R, n)
    BY <2>2 DEF KidOnce, Unlisted
  <2>4. QED
    BY <1>1, <1>2, <2>1, <2>2, <2>3, UnlistedSteps, KidLinks
<1>4. CASE RingNext(n) \/ RingPrev(n)
  <2>1. PICK s \in {"ring_prev", "fetch", "activate"} : Goto(n, s)
    BY <1>4 DEF RingNext, RingPrev, JoinReturns
  <2>2. UNCHANGED e_children
    BY <1>4 DEF RingNext, RingPrev, SetNext
  <2>3. QED
    BY <1>1, <1>2, <2>1, <2>2, UnlistedSteps, KidLinks
<1>5. CASE AdoptBelow(n)
  <2>1. PICK s \in {"fetch", "activate"} : Goto(n, s)
    BY <1>5 DEF AdoptBelow, JoinReturns
  <2>2. /\ pc[n] = "adopt_below"
        /\ e_children' = [e_children EXCEPT ![loc[n].x] = AdoptedBy(loc[n].x, n, FALSE)]
    BY <1>5 DEF AdoptBelow, Adopt, Calls
  <2>3. NotListed(R, n) /\ loc[n].x \in R
    BY <1>0, <2>2, UnlistedSteps DEF KidOnce, Within, LocalsWithin, Unlisted
  <2>4. ListsApart(R)' /\ \A m \in Node : m # n /\ NotListed(R, m) => NotListed(R, m)'
    <3>0. PICK p : p = loc[n].x
      OBVIOUS
    <3>1. /\ p \in R /\ p \in Node /\ e_children'[p] = AdoptedBy(p, n, FALSE)
          /\ \A q \in Node : q # p => e_children'[q] = e_children[q]
      BY <1>0, <2>2, <2>3, <3>0 DEF LinksTypeOK
    <3>2. /\ ListsApart(R)' /\ \A m \in Node : m # n /\ NotListed(R, m) =>
                               \A q \in R : m \notin Elems(e_children'[q])
      <4>1. FALSE \in BOOLEAN /\ n \in Node /\ LinksTypeOK /\ ListsApart(R)
        BY <1>0
      <4>2. QED
        BY <2>3, <3>1, <4>1, AdoptKeeps
    <3>3. QED
      BY <3>2 DEF NotListed
  <2>5. QED
    BY <1>1, <2>1, <2>4, UnlistedSteps, KidLinks
<1>6. CASE AskParent(n) \/ AskParentNext(n)
  <2>1. PICK t \in AdoptSteps, r \in BOOLEAN : AskAdopt(n, t, r)
    BY <1>6 DEF AskParent, AskParentNext, AdoptSteps
  <2>2. PICK p : p = loc[n].parent
    OBVIOUS
  <2>3. pc[n] \in AdoptSteps /\ e_children' = [e_children EXCEPT ![p] = AdoptedBy(p, n, r)]
    BY <2>1, <2>2 DEF AskAdopt, Adopt, Calls
  <2>4. pc[n] \in JoinSteps /\ pc[n] \in Unlisted
    BY <2>3 DEF Unlisted, JoinSteps, LinkSteps
  <2>5. NotListed(R, n) /\ p \in R /\ p \in Node
    BY <1>0, <2>2, <2>3, <2>4 DEF KidOnce, Within, LocalsWithin
  <2>6. PICK ch : ch = e_children[p]
    OBVIOUS
  <2>7. /\ ListsApart(R)'
        /\ \A m \in Node : m # n /\ NotListed(R, m) => NotListed(R, m)'
        /\ Redirects(p, r) \/ CreatesLevel(p) => NotListed(R, n)'
        /\ ~Redirects(p, r) /\ CreatesLevel(p) =>
             \A i \in 3 .. 4, q \in R : ch[i] \notin Elems(e_children'[q])
    <3>1. /\ LinksTypeOK /\ ListsApart(R) /\ n \in Node /\ p \in Node
          /\ e_children'[p] = AdoptedBy(p, n, r)
          /\ \A q \in Node : q # p => e_children'[q] = e_children[q]
      BY <1>0, <2>3, <2>5 DEF LinksTypeOK
    <3>2. /\ ListsApart(R)'
          /\ \A m \in Node : m # n /\ NotListed(R, m) =>
               \A q \in R : m \notin Elems(e_children'[q])
          /\ Redirects(p, r) \/ CreatesLevel(p) => \A q \in R : n \notin Elems(e_children'[q])
          /\ ~Redirects(p, r) /\ CreatesLevel(p) =>
               \A i \in 3 .. 4, q \in R : e_children[p][i] \notin Elems(e_children'[q])
      BY <2>5, <3>1, AdoptKeeps
    <3>3. QED
      BY <2>6, <3>2 DEF NotListed
  <2>8. CASE Redirects(p, r) /\ Goto(n, "adopt_redirected")
    BY <1>1, <2>7, <2>8, UnlistedSteps, KidLinks
  <2>9. CASE /\ CreatesLevel(p) /\ Goto(n, "get_next")
             /\ loc' = [loc EXCEPT ![n].kids = e_children[p]]
    <3>1. ~Redirects(p, r)
      BY <2>9 DEF CreatesLevel, Redirects
    <3>2. loc'[n].kids = ch
      BY <1>0, <2>6, <2>9 DEF Locals
    <3>3. pc'[n] = "get_next" /\ \A m \in Node : m # n => pc'[m] = pc[m]
      BY <1>0, <2>9 DEF Goto
    <3>4. Injective(ch)
      BY <1>0, <2>5, <2>6 DEF ListsApart
    <3>5. ASSUME NEW m \in Elems(ch)  PROVE m # n /\ pc'[m] \notin Unlisted
      <4>1. m \in R /\ ~NotListed(R, m)
        BY <2>5, <2>6 DEF Within, LinksWithin, NotListed
      <4>2. m # n
        BY <2>5, <4>1
      <4>3. pc[m] \notin Unlisted
        BY <4>1 DEF KidOnce
      <4>4. QED
        BY <3>3, <4>1, <4>2, <4>3
    <3>6. /\ \A q \in R : ch[3] \notin Elems(e_children'[q])
          /\ \A q \in R : ch[4] \notin Elems(e_children'[q])
      BY <2>7, <2>9, <3>1
    <3>7. KidsMoved(n, R)'
      BY <3>2, <3>3, <3>4, <3>5, <3>6 DEF KidsMoved, NotListed
    <3>8. QED
      BY <1>1, <2>7, <2>9, <3>7, KidLinks
  <2>10. CASE Goto(n, "ring_next")
    BY <1>1, <2>7, <2>10, UnlistedSteps, KidLinks
  <2>11. QED
    BY <2>1, <2>2, <2>8, <2>9, <2>10 DEF AskAdopt
<1>7. QED
  BY <1>3, <1>4, <1>5, <1>6

\* The requests that open a level.
LEMMA LevelKidOnce ==
  ASSUME TypeOK, NEW R \in SUBSET Node, Within(R), KidOnce(R), NEW n \in R,
         \A m \in R : m # n => pc[m] \notin LevelSteps,
         CreateLevel(n)
  PROVE  KidOnce(R)'
<1>0. /\ LinksTypeOK /\ pc \in [Node -> Steps] /\ loc \in [Node -> Locals] /\ n \in Node
      /\ ListsApart(R)
  BY DEF TypeOK, ControlTypeOK, KidOnce
<1>1. \A m \in Node : m # n => loc'[m] = loc[m]
  <2>1. InnerStep(n)
    BY DEF InnerStep
  <2>2. QED
    BY <2>1, InnerStepFrame
<1>2. pc[n] \in LevelSteps /\ (pc[n] \notin {"next_3", "prev_2"} => pc[n] \in Unlisted)
  BY DEF CreateLevel, GetNext, GetPrev, ClosePrev, CloseNext, Adopt2, Parent2, Adopt3, Parent3,
     AdoptMe, Next3, Prev2, AdoptKid, TellKid, LevelStep, Calls, LevelSteps, Unlisted
<1>3. PICK kids : kids = loc[n].kids
  OBVIOUS
<1>4. /\ kids \in Seq(Node) /\ Len(kids) = 4 /\ KidsMoved(n, R) /\ LocalsWithin(n, R)
  BY <1>0, <1>2, <1>3, UnlistedSteps DEF TypeOK, ControlTypeOK, Locals, KidOnce, Within
<1>5. /\ DOMAIN kids = 1 .. 4 /\ Elems(kids) = {kids[1], kids[2], kids[3], kids[4]}
      /\ Elems(kids) \subseteq R
  BY <1>2, <1>3, <1>4 DEF Elems, LocalsWithin
<1>6. /\ kids[1] \in R /\ kids[2] \in R /\ kids[3] \in R /\ kids[4] \in R
      /\ kids[3] # kids[4] /\ n # kids[3] /\ n # kids[4]
      /\ pc[kids[3]] \notin Unlisted /\ pc[kids[4]] \notin Unlisted
  BY <1>3, <1>4, <1>5 DEF KidsMoved, Injective
<1>7. UNCHANGED e_children =>
        ListsApart(R)' /\ \A m \in Node : NotListed(R, m) => NotListed(R, m)'
  BY <1>0 DEF ListsApart, NotListed
<1>8. pc[n] \in Unlisted => NotListed(R, n)
  BY DEF KidOnce
<1>9. CASE GetNext(n) \/ GetPrev(n) \/ ClosePrev(n) \/ CloseNext(n) \/ Parent2(n) \/ Parent3(n)
           \/ Next3(n)
  <2>1. /\ UNCHANGED e_children /\ loc'[n].kids = kids
    BY <1>0, <1>3, <1>9 DEF GetNext, GetPrev, ClosePrev, CloseNext, Parent2, Parent3, Next3,
       TellKid, LevelStep, SetPrev, SetNext, SetParent, links, Locals
  <2>2. \/ /\ pc[n] \in {"get_next", "get_prev", "close_prev", "close_next"}
           /\ \E s \in {"get_prev", "close_prev", "close_next", "adopt_2"} : Goto(n, s)
        \/ pc[n] = "parent_2" /\ Goto(n, "adopt_3")
        \/ pc[n] = "parent_3" /\ Goto(n, "adopt_me")
        \/ pc[n] = "next_3" /\ Goto(n, "prev_2")
    BY <1>9 DEF GetNext, GetPrev, ClosePrev, CloseNext, Parent2, Parent3, Next3, TellKid,
       LevelStep, Calls
  <2>3. PICK s : Goto(n, s)
    BY <2>2
  <2>4. pc'[n] = s
    BY <1>0, <2>3 DEF Goto
  <2>5. /\ s \in {"get_prev", "close_prev", "close_next", "adopt_2", "adopt_3", "adopt_me",
                  "prev_2"}
        /\ s \in {"get_prev", "close_prev", "close_next", "adopt_2"} => NotListed(R, kids[3])
        /\ s \in {"get_prev", "close_prev", "close_next", "adopt_2", "adopt_3"} =>
             NotListed(R, kids[4])
        /\ s # "prev_2" => pc[n] \in Unlisted
    <3>1. s # "prev_2" => pc[n] \notin {"next_3", "prev_2"}
      BY <1>0, <2>2, <2>4 DEF Goto
    <3>2. QED
      BY <1>0, <1>2, <1>3, <1>4, <2>2, <2>4, <3>1 DEF Goto, KidsMoved
  <2>6. KidsMoved(n, R)'
    <3>1. kids[3] \in Node /\ kids[4] \in Node
      BY <1>6
    <3>2. /\ s \in {"get_next", "get_prev", "close_prev", "close_next", "adopt_2"} =>
               NotListed(R, kids[3])'
          /\ s \in {"get_next", "get_prev", "close_prev", "close_next", "adopt_2", "parent_2",
                    "adopt_3"} => NotListed(R, kids[4])'
      BY <1>7, <2>1, <2>5, <3>1
    <3>3. QED
      BY <1>0, <1>3, <1>4, <2>1, <2>3, <3>2, KidsStay
  <2>7. s \in Unlisted => NotListed(R, n)'
    BY <1>0, <1>7, <1>8, <2>1, <2>5, UnlistedSteps
  <2>8. QED
    BY <1>0, <1>1, <1>7, <2>1, <2>3, <2>6, <2>7, KidLinks
<1>10. CASE Adopt2(n) \/ Adopt3(n)
  <2>1. PICK v \in {kids[3], kids[4]}, s \in {"parent_2", "parent_3"} :
          /\ Goto(n, s) /\ e_children' = [e_children EXCEPT ![kids[1]] = AdoptedBy(kids[1], v, FALSE)]
          /\ \/ pc[n] = "adopt_2" /\ s = "parent_2" /\ v = kids[3]
             \/ pc[n] = "adopt_3" /\ s = "parent_3" /\ v = kids[4]
    BY <1>3, <1>10 DEF Adopt2, Adopt3, AdoptKid, LevelStep, Calls, Adopt
  <2>2. UNCHANGED loc
    BY <1>10 DEF Adopt2, Adopt3, AdoptKid
  <2>3. /\ NotListed(R, v) /\ v \in Node /\ kids[1] \in Node /\ v # n /\ pc[v] \notin Unlisted
        /\ s = "parent_2" => NotListed(R, kids[4]) /\ kids[4] # v
    BY <1>3, <1>4, <1>6, <2>1 DEF KidsMoved
  <2>4. ListsApart(R)' /\ \A m \in Node : m # v /\ NotListed(R, m) =>
                            \A q \in R : m \notin Elems(e_children'[q])
    <3>0. PICK p : p = kids[1]
      OBVIOUS
    <3>1. /\ p \in R /\ p \in Node /\ v \in Node /\ NotListed(R, v)
          /\ LinksTypeOK /\ ListsApart(R) /\ FALSE \in BOOLEAN
          /\ e_children'[p] = AdoptedBy(p, v, FALSE)
          /\ \A q \in Node : q # p => e_children'[q] = e_children[q]
      BY <1>0, <1>6, <2>1, <2>3, <3>0 DEF LinksTypeOK
    <3>2. /\ ListsApart(R)'
          /\ \A m \in Node : m # v /\ NotListed(R, m) =>
               \A q \in R : m \notin Elems(e_children'[q])
          /\ Redirects(p, FALSE) \/ CreatesLevel(p) => \A q \in R : v \notin Elems(e_children'[q])
          /\ ~Redirects(p, FALSE) /\ CreatesLevel(p) =>
               \A i \in 3 .. 4, q \in R : e_children[p][i] \notin Elems(e_children'[q])
      BY <3>1, AdoptKeeps
    <3>3. QED
      BY <3>2
  <2>5. KidsMoved(n, R)'
    <3>1. s = "parent_2" => \A q \in R : loc[n].kids[4] \notin Elems(e_children'[q])
      BY <1>3, <1>6, <2>3, <2>4
    <3>2. s = "parent_2" => NotListed(R, loc[n].kids[4])'
      BY <2>2, <3>1 DEF NotListed
    <3>3. QED
      BY <1>0, <1>3, <1>4, <2>1, <2>2, <3>2, KidsStay
  <2>6. NotListed(R, n)'
    BY <1>0, <1>2, <1>8, <2>1, <2>3, <2>4 DEF NotListed
  <2>7. \A m \in R : m # n /\ pc[m] \in Unlisted /\ NotListed(R, m) => NotListed(R, m)'
    BY <2>3, <2>4 DEF NotListed
  <2>8. QED
    BY <1>0, <1>1, <2>1, <2>4, <2>5, <2>6, <2>7, KidLinks
<1>11. CASE AdoptMe(n)
  <2>1. /\ Goto(n, "next_3") /\ UNCHANGED loc /\ pc[n] = "adopt_me"
        /\ e_children' = [e_children EXCEPT ![kids[2]] = AdoptedBy(kids[2], n, FALSE)]
    BY <1>3, <1>11 DEF AdoptMe, LevelStep, Calls, Adopt
  <2>2. NotListed(R, n) /\ kids[2] \in Node
    BY <1>2, <1>6, <1>8, <2>1
  <2>3. ListsApart(R)' /\ \A m \in Node : m # n /\ NotListed(R, m) =>
                            \A q \in R : m \notin Elems(e_children'[q])
    <3>0. PICK p : p = kids[2]
      OBVIOUS
    <3>1. /\ p \in R /\ p \in Node /\ n \in Node /\ NotListed(R, n)
          /\ LinksTypeOK /\ ListsApart(R) /\ FALSE \in BOOLEAN
          /\ e_children'[p] = AdoptedBy(p, n, FALSE)
          /\ \A q \in Node : q # p => e_children'[q] = e_children[q]
      BY <1>0, <1>6, <2>1, <2>2, <3>0 DEF LinksTypeOK
    <3>2. QED
      BY <3>1, AdoptKeeps
  <2>4. KidsMoved(n, R)'
    BY <1>0, <1>3, <1>4, <2>1, KidsStay
  <2>5. QED
    <3>1. \A m \in R : m # n /\ NotListed(R, m) => NotListed(R, m)'
      BY <2>3 DEF NotListed
    <3>2. QED
      BY <1>0, <1>1, <2>1, <2>3, <2>4, <3>1, UnlistedSteps, KidLinks
<1>12. CASE Prev2(n)
  <2>1. PICK s \in {"fetch", "activate"} : Goto(n, s)
    BY <1>12 DEF Prev2, JoinReturns
  <2>2. UNCHANGED e_children
    BY <1>12 DEF Prev2
  <2>3. QED
    BY <1>0, <1>1, <1>7, <2>1, <2>2, UnlistedSteps, KidLinks
<1>13. QED
  BY <1>9, <1>10, <1>11, <1>12 DEF CreateLevel

\* A node that says hello comes in addition, alone.
LEMMA HelloWithin ==
  ASSUME TypeOK, NEW R \in SUBSET Node, Within(R), KidOnce(R), NEW n \in Node, n \notin R,
         NEW isNew \in BOOLEAN, SayHello(n, isNew), last \in R \cup {None}
  PROVE  Within(R \cup {n})' /\ KidOnce(R \cup {n})'
<1>0. /\ LinksTypeOK /\ pc \in [Node -> Steps] /\ loc \in [Node -> Locals]
  BY DEF TypeOK, ControlTypeOK
<1>1. PICK s \in {"fetch", "activate", "info"} : Goto(n, s) /\ (s = "info" => last # None)
  BY DEF SayHello
<1>2. pc'[n] = s /\ \A m \in Node : m # n => pc'[m] = pc[m] /\ loc'[m] = loc[m]
  <2>1. \A m \in Node : m # n => loc'[m] = loc[m]
    BY <1>0 DEF SayHello
  <2>2. QED
    BY <1>0, <1>1, <2>1 DEF Goto
<1>3. /\ e_children'[n] = <<>> /\ e_next'[n] = n /\ e_prev'[n] = n /\ e_parent'[n] = None
      /\ \A m \in Node : m # n => /\ e_children'[m] = e_children[m] /\ e_next'[m] = e_next[m]
                                  /\ e_prev'[m] = e_prev[m] /\ e_parent'[m] = e_parent[m]
  BY <1>0 DEF SayHello, LinksTypeOK
<1>4. Elems(<<>>) = {} /\ Len(<<>>) = 0 /\ Injective(<<>>)
  BY DEF Elems, Injective
<1>5. s = "info" => loc'[n].x \in R
  <2>1. s = "info" => loc' = [loc EXCEPT ![n].x = last, ![n].again = ~isNew] /\ last \in R
    BY <1>0, <1>1, <1>2 DEF SayHello, Goto
  <2>2. QED
    BY <1>0, <2>1 DEF Locals
<1>6. Within(R \cup {n})'
  <2>1. LinksWithin(R \cup {n})'
    <3>1. LinksWithin(R)
      BY DEF Within
    <3>2. ASSUME NEW m \in R \cup {n}
          PROVE  /\ e_next'[m] \in R \cup {n} /\ e_prev'[m] \in R \cup {n}
                 /\ e_parent'[m] \in (R \cup {n}) \cup {None}
                 /\ Elems(e_children'[m]) \subseteq R \cup {n}
      <4>1. CASE m = n
        BY <1>3, <1>4, <4>1
      <4>2. CASE m # n
        BY <1>3, <3>1, <4>2 DEF LinksWithin
      <4>3. QED
        BY <4>1, <4>2
    <3>3. QED
      BY <3>2 DEF LinksWithin
  <2>2. ASSUME NEW m \in R \cup {n}, pc'[m] \in JoinSteps  PROVE LocalsWithin(m, R \cup {n})'
    <3>1. CASE m = n
      <4>1. s = "info"
        BY <1>1, <1>2, <2>2, <3>1 DEF JoinSteps, LinkSteps, RingSteps, AdoptSteps, LevelSteps
      <4>2. QED
        BY <1>2, <1>5, <3>1, <4>1 DEF LocalsWithin, AdoptSteps, LevelSteps
    <3>2. CASE m # n
      <4>1. pc'[m] = pc[m] /\ loc'[m] = loc[m] /\ LocalsWithin(m, R)
        BY <1>2, <2>2, <3>2 DEF Within
      <4>2. QED
        BY <4>1 DEF LocalsWithin
    <3>3. QED
      BY <3>1, <3>2
  <2>3. QED
    BY <2>1, <2>2 DEF Within
<1>7. KidOnce(R \cup {n})'
  <2>1. ListsApart(R)
    BY DEF KidOnce
  <2>2. ListsApart(R \cup {n})'
    <3>1. \A p \in Node : Len(e_children'[p]) <= 4 /\ Injective(e_children'[p])
      BY <1>3, <1>4, <2>1 DEF ListsApart
    <3>2. \A p, q \in R \cup {n} : p # q => Elems(e_children'[p]) \cap Elems(e_children'[q]) = {}
      BY <1>3, <1>4, <2>1 DEF ListsApart
    <3>3. QED
      BY <3>1, <3>2 DEF ListsApart
  <2>3. \A h : NotListed(R, h) => \A q \in R \cup {n} : h \notin Elems(e_children'[q])
    BY <1>3, <1>4 DEF NotListed
  <2>4. ASSUME NEW m \in R \cup {n}, pc'[m] \in Unlisted  PROVE NotListed(R \cup {n}, m)'
    <3>1. NotListed(R, m)
      <4>1. CASE m = n
        BY <4>1 DEF Within, LinksWithin, NotListed
      <4>2. CASE m # n
        BY <1>2, <2>4, <4>2 DEF KidOnce
      <4>3. QED
        BY <4>1, <4>2
    <3>2. QED
      BY <2>3, <3>1 DEF NotListed
  <2>5. ASSUME NEW m \in R \cup {n}, pc'[m] \in LevelSteps  PROVE KidsMoved(m, R \cup {n})'
    <3>1. m # n
      BY <1>1, <1>2, <2>5 DEF LevelSteps
    <3>2. pc'[m] = pc[m] /\ loc'[m] = loc[m] /\ KidsMoved(m, R) /\ LocalsWithin(m, R)
      BY <1>2, <2>5, <3>1, UnlistedSteps DEF KidOnce, Within
    <3>3. \A h \in Elems(loc[m].kids) : h # m /\ h \in Node /\ h # n /\ pc[h] \notin Unlisted
      BY <2>5, <3>2 DEF KidsMoved, LocalsWithin
    <3>4. \A h \in Elems(loc'[m].kids) : h # m /\ pc'[h] \notin Unlisted
      BY <1>2, <3>2, <3>3
    <3>5. QED
      BY <2>3, <3>2, <3>4 DEF KidsMoved, NotListed
  <2>6. QED
    BY <2>2, <2>4, <2>5 DEF KidOnce
<1>8. QED
  BY <1>6, <1>7

\* A step that leaves links and local variables alone and takes n to no step of a
\* join.
LEMMA IdleWithin ==
  ASSUME TypeOK, NEW R \in SUBSET Node, Within(R), NEW n \in Node, NEW s, s \notin JoinSteps,
         Goto(n, s), UNCHANGED <<links, loc>>
  PROVE  Within(R)'
<1>0. pc \in [Node -> Steps]
  BY DEF TypeOK, ControlTypeOK
<1>1. LinksWithin(R)'
  BY DEF Within, LinksWithin, links
<1>2. ASSUME NEW m \in R, pc'[m] \in JoinSteps  PROVE LocalsWithin(m, R)'
  <2>1. pc'[m] = pc[m] /\ loc'[m] = loc[m]
    BY <1>0, <1>2 DEF Goto
  <2>2. LocalsWithin(m, R)
    BY <1>2, <2>1 DEF Within
  <2>3. QED
    BY <2>1, <2>2 DEF LocalsWithin
<1>3. QED
  BY <1>1, <1>2 DEF Within

\* Both, for a request of a node that is the only one to link itself.
LEMMA RequestKeeps ==
  ASSUME TypeOK, NEW R \in SUBSET Node, Within(R), KidOnce(R), NEW n \in R,
         InnerStep(n) \/ AskInfo(n),
         pc[n] \in LinkSteps => \A m \in R : m # n => pc[m] \notin LinkSteps
  PROVE  Within(R)' /\ KidOnce(R)'
<1>0. pc \in [Node -> Steps] /\ loc \in [Node -> Locals] /\ n \in Node
  BY DEF TypeOK, ControlTypeOK
<1>1. Within(R)'
  BY LinkWithin
<1>2. CASE AskInfo(n)
  <2>1. pc[n] = "info" /\ Goto(n, "edges") /\ UNCHANGED <<e_children, loc>>
    BY <1>2 DEF AskInfo, Calls, links
  <2>2. pc'[n] = "edges" /\ \A m \in Node : m # n => pc'[m] = pc[m]
    BY <1>0, <2>1 DEF Goto
  <2>3. \A m \in Node : pc'[m] \in Unlisted <=> pc[m] \in Unlisted
    BY <2>1, <2>2 DEF Unlisted
  <2>4. ListsApart(R)' /\ \A h : NotListed(R, h) => \A q \in R : h \notin Elems(e_children'[q])
    BY <2>1 DEF KidOnce, ListsApart, NotListed
  <2>5. ASSUME NEW m \in R, pc'[m] \in Unlisted  PROVE NotListed(R, m)'
    BY <2>3, <2>4, <2>5 DEF KidOnce, NotListed
  <2>6. ASSUME NEW m \in R, pc'[m] \in LevelSteps  PROVE KidsMoved(m, R)'
    <3>1. m # n /\ pc'[m] = pc[m] /\ loc'[m] = loc[m]
      BY <2>1, <2>2, <2>6, UnlistedSteps
    <3>2. KidsMoved(m, R) /\ LocalsWithin(m, R)
      BY <2>6, <3>1, UnlistedSteps DEF KidOnce, Within
    <3>3. \A h \in Elems(loc'[m].kids) : h # m /\ pc'[h] \notin Unlisted
      BY <2>3, <2>6, <3>1, <3>2 DEF KidsMoved, LocalsWithin
    <3>4. QED
      BY <2>4, <3>1, <3>2, <3>3 DEF KidsMoved, NotListed
  <2>7. QED
    BY <1>1, <2>4, <2>5, <2>6 DEF KidOnce
<1>3. CASE FetchJobs(n)
  <2>1. Goto(n, "activate") /\ UNCHANGED <<e_children, loc>>
    BY <1>3 DEF FetchJobs, links
  <2>2. "activate" \notin Unlisted /\ "activate" \notin LevelSteps
    BY UnlistedSteps
  <2>3. QED
    BY <1>0, <1>1, <2>1, <2>2, KidIdle
<1>4. CASE InnerStep(n) /\ ~FetchJobs(n)
  <2>1. pc[n] \in LinkSteps
    BY <1>4, UnlistedSteps DEF InnerStep, AskEdges, RingNext, RingPrev, AdoptBelow, AskParent,
       AskParentNext, AskAdopt, CreateLevel, GetNext, GetPrev, ClosePrev, CloseNext, Adopt2,
       Parent2, Adopt3, Parent3, AdoptMe, Next3, Prev2, AdoptKid, TellKid, LevelStep, Calls,
       LevelSteps
  <2>2. \A m \in R : m # n => pc[m] \notin LevelSteps
    BY <2>1, UnlistedSteps
  <2>3. QED
    BY <1>1, <1>4, <2>2, EnterKidOnce, LevelKidOnce DEF InnerStep
<1>5. QED
  BY <1>2, <1>3, <1>4

-----------------------------------------------------------------------------
(***************************************************************************)
(* Until a node crashes                                                    *)
(***************************************************************************)
\* Without crashes the worker's loop goes round without a reset: but for the
\* two steps of that loop, such a network is one of module Join.
joinPc == [n \in Node |-> IF pc[n] = "loop" THEN "run" ELSE pc[n]]

Joins == INSTANCE JoinShapeProofs WITH pc <- joinPc

LEMMA JoinPcFacts ==
  ASSUME TypeOK, NEW n \in Node
  PROVE  /\ joinPc[n] = IF pc[n] = "loop" THEN "run" ELSE pc[n]
         /\ Joins!Callee(n) = Callee(n)
         /\ \A s \in Steps \ {"run", "loop"} : Calls(n, s) => Joins!Calls(n, s)
         /\ \A s \in Steps \ {"loop"} : Goto(n, s) => Joins!Goto(n, s)
<1>0. pc \in [Node -> Steps]
  BY DEF TypeOK, ControlTypeOK
<1>1. joinPc[n] = IF pc[n] = "loop" THEN "run" ELSE pc[n]
  BY DEF joinPc
<1>2. Joins!Callee(n) = Callee(n)
  BY <1>1 DEF Joins!Callee, Callee, Joins!AdoptSteps, AdoptSteps, None, Joins!None
<1>3. ASSUME NEW s \in Steps \ {"run", "loop"}, Calls(n, s)  PROVE Joins!Calls(n, s)
  BY <1>1, <1>2, <1>3 DEF Calls, Joins!Calls
<1>4. ASSUME NEW s \in Steps \ {"loop"}, Goto(n, s)  PROVE Joins!Goto(n, s)
  BY <1>0, <1>4 DEF Goto, Joins!Goto, joinPc
<1>5. QED
  BY <1>1, <1>2, <1>3, <1>4

LEMMA JoinReturnsToo ==
  ASSUME TypeOK, NEW n \in Node, JoinReturns(n)  PROVE Joins!JoinReturns(n)
<1>1. "activate" \in Steps \ {"loop"} /\ "fetch" \in Steps \ {"loop"}
  BY DEF Steps
<1>2. QED
  BY <1>1, JoinPcFacts DEF JoinReturns, Joins!JoinReturns, NoLocals, Joins!NoLocals, None,
     Joins!None

LEMMA HelloToo ==
  ASSUME TypeOK, NEW n \in Node, Start(n)  PROVE Joins!Start(n)
<1>1. {"fetch", "activate", "info"} \subseteq Steps \ {"loop"}
  BY DEF Steps, JoinSteps
<1>2. joinPc[n] = "off"
  BY JoinPcFacts DEF Start
<1>3. Joins!SayHello(n, TRUE)
  BY <1>1, JoinPcFacts DEF Start, SayHello, Joins!SayHello, Hello, Joins!Hello, None, Joins!None
<1>4. QED
  BY <1>2, <1>3 DEF Start, Joins!Start

LEMMA AskToo ==
  ASSUME TypeOK, NEW n \in Node
  PROVE  /\ AskInfo(n) \/ AskEdges(n) => Joins!Request(n)
         /\ FetchJobs(n) \/ Activate(n) => Joins!JoinStep(n)
<1> USE DEF Joins!links, links, Joins!bootstrap, bootstrap
<1>0. {"info", "edges", "fetch", "activate", "adopt", "ring_next", "adopt_below", "run"}
        \subseteq Steps \ {"loop"}
  BY DEF Steps, JoinSteps, LinkSteps, RingSteps, AdoptSteps, LoopSteps
<1>1. ASSUME AskInfo(n)  PROVE Joins!AskInfo(n)
  BY <1>0, <1>1, JoinPcFacts DEF AskInfo, Joins!AskInfo
<1>2. ASSUME AskEdges(n)  PROVE Joins!AskEdges(n)
  BY <1>0, <1>2, JoinPcFacts DEF AskEdges, Joins!AskEdges, None, Joins!None
<1>3. ASSUME FetchJobs(n)  PROVE Joins!FetchJobs(n)
  BY <1>0, <1>3, JoinPcFacts DEF FetchJobs, Joins!FetchJobs
<1>4. ASSUME Activate(n)  PROVE Joins!Activate(n)
  BY <1>0, <1>4, JoinPcFacts DEF Activate, Joins!Activate
<1>5. QED
  BY <1>1, <1>2, <1>3, <1>4 DEF Joins!Request, Joins!JoinStep

LEMMA LinkToo ==
  ASSUME TypeOK, NEW n \in Node, RingNext(n) \/ RingPrev(n) \/ AdoptBelow(n)
  PROVE  Joins!Request(n)
<1> USE DEF Joins!Request, Joins!bootstrap, bootstrap
<1>0. {"ring_next", "ring_prev", "adopt_below"} \subseteq Steps \ {"run", "loop"}
  BY DEF Steps, JoinSteps, LinkSteps, RingSteps
<1>1. CASE RingNext(n)
  BY <1>0, <1>1, JoinPcFacts DEF RingNext, Joins!RingNext, SetNext, Joins!SetNext
<1>2. CASE RingPrev(n)
  BY <1>0, <1>2, JoinPcFacts, JoinReturnsToo DEF RingPrev, Joins!RingPrev
<1>3. CASE AdoptBelow(n)
  BY <1>0, <1>3, JoinPcFacts, JoinReturnsToo DEF AdoptBelow, Joins!AdoptBelow, Adopt,
     Joins!Adopt, AdoptedBy, Joins!AdoptedBy, Redirects, Joins!Redirects, CreatesLevel,
     Joins!CreatesLevel
<1>4. QED
  BY <1>1, <1>2, <1>3

LEMMA AdoptToo ==
  ASSUME TypeOK, NEW n \in Node, AskParent(n) \/ AskParentNext(n)
  PROVE  Joins!Request(n)
<1>0. {"adopt", "adopt_redirected", "get_next", "ring_next"} \subseteq Steps \ {"run", "loop"}
  BY DEF Steps, JoinSteps, LinkSteps, RingSteps, AdoptSteps, LevelSteps
<1>1. ASSUME NEW s \in {"adopt", "adopt_redirected"}, NEW r \in BOOLEAN, AskAdopt(n, s, r)
      PROVE  Joins!AskAdopt(n, s, r)
  <2>1. \A p : /\ Redirects(p, r) <=> Joins!Redirects(p, r)
               /\ CreatesLevel(p) <=> Joins!CreatesLevel(p)
    BY DEF Redirects, Joins!Redirects, CreatesLevel, Joins!CreatesLevel
  <2>2. \A p : Adopt(p, n, r) <=> Joins!Adopt(p, n, r)
    BY <2>1 DEF Adopt, Joins!Adopt, AdoptedBy, Joins!AdoptedBy
  <2>3. Joins!Calls(n, s)
    BY <1>0, <1>1, JoinPcFacts DEF AskAdopt
  <2>4. \A t \in {"adopt_redirected", "get_next", "ring_next"} : Goto(n, t) => Joins!Goto(n, t)
    BY <1>0, JoinPcFacts
  <2>5. QED
    BY <1>1, <2>1, <2>2, <2>3, <2>4 DEF AskAdopt, Joins!AskAdopt, bootstrap, Joins!bootstrap
<1>2. QED
  BY <1>1 DEF AskParent, AskParentNext, Joins!AskParent, Joins!AskParentNext, Joins!Request

LEMMA LevelToo ==
  ASSUME TypeOK, NEW n \in Node, CreateLevel(n)
  PROVE  Joins!Request(n)
<1>0. {"get_next", "get_prev", "close_prev", "close_next", "adopt_2", "parent_2", "adopt_3",
       "parent_3", "adopt_me", "next_3", "prev_2"} \subseteq Steps \ {"run", "loop"}
  BY DEF Steps, JoinSteps, LinkSteps, LevelSteps
<1>1. ASSUME NEW s \in Steps \ {"run", "loop"}, NEW t \in Steps \ {"run", "loop"},
             LevelStep(n, s, t)
      PROVE  Joins!LevelStep(n, s, t)
  BY <1>1, JoinPcFacts DEF LevelStep, Joins!LevelStep, bootstrap, Joins!bootstrap
<1>2. \A t, m : Adopt(t, m, FALSE) <=> Joins!Adopt(t, m, FALSE)
  BY DEF Adopt, Joins!Adopt, AdoptedBy, Joins!AdoptedBy, Redirects, Joins!Redirects,
     CreatesLevel, Joins!CreatesLevel
<1>3. \A t, m : /\ SetParent(t, m) <=> Joins!SetParent(t, m)
                /\ SetPrev(t, m) <=> Joins!SetPrev(t, m)
                /\ SetNext(t, m) <=> Joins!SetNext(t, m)
  BY DEF SetParent, Joins!SetParent, SetPrev, Joins!SetPrev, SetNext, Joins!SetNext
<1>4. UNCHANGED links => UNCHANGED Joins!links
  BY DEF Joins!links, links
<1>5. CASE GetNext(n) \/ GetPrev(n) \/ ClosePrev(n) \/ CloseNext(n)
  BY <1>0, <1>1, <1>3, <1>4, <1>5 DEF GetNext, GetPrev, ClosePrev, CloseNext,
     Joins!GetNext, Joins!GetPrev, Joins!ClosePrev, Joins!CloseNext,
     Joins!CreateLevel, Joins!Request
<1>6. CASE Adopt2(n) \/ Parent2(n) \/ Adopt3(n) \/ Parent3(n)
  BY <1>0, <1>1, <1>2, <1>3, <1>6 DEF Adopt2, Parent2, Adopt3, Parent3, AdoptKid, TellKid,
     Joins!Adopt2, Joins!Parent2, Joins!Adopt3, Joins!Parent3, Joins!AdoptKid, Joins!TellKid,
     Joins!CreateLevel, Joins!Request
<1>7. CASE AdoptMe(n) \/ Next3(n)
  BY <1>0, <1>1, <1>2, <1>3, <1>7 DEF AdoptMe, Next3, Joins!AdoptMe, Joins!Next3,
     Joins!CreateLevel, Joins!Request
<1>8. CASE Prev2(n)
  BY <1>0, <1>8, JoinPcFacts, JoinReturnsToo DEF Prev2, Joins!Prev2, bootstrap,
     Joins!bootstrap, Joins!CreateLevel, Joins!Request
<1>9. QED
  BY <1>5, <1>6, <1>7, <1>8 DEF CreateLevel

LEMMA RequestToo ==
  ASSUME TypeOK, NEW n \in Node, Request(n), Answers(Callee(n))
  PROVE  Joins!JoinStep(n)
<1>1. Joins!Request(n)
  BY AskToo, LinkToo, AdoptToo, LevelToo DEF Request
<1>2. Joins!Answers(Joins!Callee(n))
  BY JoinPcFacts DEF Answers, Joins!Answers
<1>3. QED
  BY <1>1, <1>2 DEF Joins!JoinStep

\* A step of the worker's loop is none of a join.
LEMMA LoopStutters ==
  ASSUME TypeOK, NEW n \in Node, pc[n] \in {"run", "loop"},
         Goto(n, "loop") \/ Goto(n, "run"), UNCHANGED <<links, bootstrap, WAIT, up, loc>>
  PROVE  UNCHANGED Joins!vars
<1>1. UNCHANGED joinPc
  BY DEF TypeOK, ControlTypeOK, Goto, joinPc
<1>2. QED
  BY <1>1 DEF Joins!vars, Joins!links, Joins!bootstrap, links, bootstrap

LEMMA JoinsTypes ==
  ASSUME TypeOK  PROVE Joins!TypeOK
<1>1. joinPc \in [Node -> Steps]
  <2>1. pc \in [Node -> Steps] /\ "run" \in Steps
    BY DEF TypeOK, ControlTypeOK, Steps, LoopSteps
  <2>2. QED
    BY <2>1 DEF joinPc
<1>2. \A n \in Node : joinPc[n] \in LevelSteps => pc[n] \in LevelSteps
  BY DEF joinPc, LevelSteps
<1>3. /\ Joins!Steps = Steps /\ Joins!Locals = Locals /\ Joins!LevelSteps = LevelSteps
      /\ Joins!MaybeNode = MaybeNode /\ Joins!Node = Node
  BY DEF Joins!Steps, Steps, Joins!Locals, Locals, Joins!LevelSteps, LevelSteps, Joins!MaybeNode,
     MaybeNode, Joins!Node, Node, Joins!None, None, Joins!JoinSteps, JoinSteps, Joins!LinkSteps,
     LinkSteps, Joins!RingSteps, RingSteps, Joins!AdoptSteps, AdoptSteps, Joins!LoopSteps, LoopSteps
<1>4. Joins!ControlTypeOK
  BY <1>1, <1>2, <1>3 DEF TypeOK, ControlTypeOK, Joins!ControlTypeOK
<1>5. Joins!LinksTypeOK /\ Joins!BootstrapTypeOK
  BY <1>3 DEF TypeOK, LinksTypeOK, Joins!LinksTypeOK, BootstrapTypeOK, Joins!BootstrapTypeOK
<1>6. QED
  BY <1>3, <1>4, <1>5 DEF TypeOK, Joins!TypeOK

\* What one step of a join keeps there.
LEMMA JoinsStep ==
  ASSUME Joins!TypeOK, Joins!HelloOrder, Joins!Shape, [Joins!Next]_(Joins!vars)
  PROVE  Joins!HelloOrder' /\ Joins!Shape'
<1>1. Joins!HelloOrder'
  BY NAssumption, Joins!NextHelloOrder DEF Joins!NextHelloOrder
<1>2. Joins!Shape'
  BY NAssumption, Joins!NextShape DEF Joins!NextShape
<1>3. QED
  BY <1>1, <1>2

LEMMA StartsJoin == FInit => Joins!Init /\ Joins!HelloOrder /\ Joins!Shape
<1>1. SUFFICES ASSUME FInit  PROVE Joins!Init /\ Joins!HelloOrder /\ Joins!Shape
  OBVIOUS
<1>2. joinPc = [n \in Node |-> "off"]
  BY <1>1 DEF FInit, Init, joinPc
<1>3. Joins!Init
  BY <1>1, <1>2 DEF FInit, Init, Joins!Init, LinksInit, Joins!LinksInit, BootstrapInit,
     Joins!BootstrapInit, Joins!None, None, Joins!NoLocals, NoLocals, Joins!Node, Node
<1>4. Joins!HelloOrder
  BY <1>3, NAssumption, Joins!InitHelloOrder DEF Joins!InitHelloOrder
<1>5. Joins!Shape
  BY <1>3, NAssumption, Joins!InitShape DEF Joins!InitShape
<1>6. QED
  BY <1>3, <1>4, <1>5

\* Only one node links itself, for it finds all earlier ones running.
LEMMA OneLinks ==
  ASSUME TypeOK, Joins!HelloOrder, NEW m \in Node, NEW n \in Node,
         pc[m] \in LinkSteps, pc[n] \in LinkSteps
  PROVE  m = n
<1>1. \A h \in Node : pc[h] \in LinkSteps => Joins!Joining(h) /\ joinPc[h] # "run"
  <2>1. SUFFICES ASSUME NEW h \in Node, pc[h] \in LinkSteps
                 PROVE  Joins!Joining(h) /\ joinPc[h] # "run"
    OBVIOUS
  <2>2. "loop" \notin LinkSteps /\ "run" \notin LinkSteps /\ Joins!LinkSteps = LinkSteps
    BY DEF LinkSteps, RingSteps, AdoptSteps, LevelSteps, Joins!LinkSteps, Joins!RingSteps,
       Joins!AdoptSteps, Joins!LevelSteps
  <2>3. joinPc[h] = pc[h]
    BY <2>1, <2>2, JoinPcFacts
  <2>4. QED
    BY <2>1, <2>2, <2>3 DEF Joins!Joining, Joins!JoiningSteps
<1>2. \A g, h \in Node : pc[g] \in LinkSteps /\ pc[h] \in LinkSteps => ~(g < h)
  <2>1. SUFFICES ASSUME NEW g \in Node, NEW h \in Node, pc[g] \in LinkSteps,
                        pc[h] \in LinkSteps, g < h
                 PROVE  FALSE
    OBVIOUS
  <2>2. g \in 0 .. h-1
    BY <2>1, NAssumption DEF Node
  <2>3. joinPc[g] = "run"
    BY <1>1, <2>1, <2>2 DEF Joins!HelloOrder, Joins!Node, Node
  <2>4. QED
    BY <1>1, <2>1, <2>3
<1>3. m \in Int /\ n \in Int
  BY NAssumption DEF Node
<1>4. QED
  BY <1>2, <1>3

\* Until a node crashes the network is the one of module Join.
Peace ==
  up = Node => /\ Joins!HelloOrder /\ Joins!Shape
               /\ Within(Started) /\ KidOnce(Started)

LEMMA InitPeace == FInit => Peace
<1>1. SUFFICES ASSUME FInit  PROVE Peace
  OBVIOUS
<1>2. Started = {} /\ \A n \in Node : e_children[n] = <<>>
  BY <1>1 DEF FInit, Init, LinksInit, Started
<1>3. Elems(<<>>) = {} /\ Len(<<>>) = 0 /\ Injective(<<>>)
  BY DEF Elems, Injective
<1>4. Within(Started) /\ KidOnce(Started)
  BY <1>2, <1>3 DEF Within, LinksWithin, KidOnce, ListsApart
<1>5. QED
  BY <1>1, <1>4, StartsJoin DEF Peace

\* A step that crashes nobody is one of a join or of the worker's loop.
LEMMA NextPeace ==
  ASSUME TypeOK, DetectionTypeOK, NextExists, MissedAreLost, Peace, AdmittedAnswer,
         MaxLost < FailLimit, [FNext]_fvars, up' = Node
  PROVE  Peace' /\ [Joins!Next]_(Joins!vars)
<1>0. /\ pc \in [Node -> Steps] /\ loc \in [Node -> Locals] /\ LinksTypeOK /\ up = Node
      /\ Joins!TypeOK /\ Joins!HelloOrder /\ Joins!Shape
      /\ Within(Started) /\ KidOnce(Started)
  <2>1. up = Node
    BY UpShrinks DEF TypeOK
  <2>2. QED
    BY <2>1, JoinsTypes DEF TypeOK, ControlTypeOK, Peace
<1>1. /\ \A n \in Node : pc[n] \notin {"reset", "search"}
      /\ \A n \in Node : pc'[n] \notin {"reset", "search"}
  BY <1>0, NextMissedAreLost DEF MissedAreLost
<1>2. Started = {n \in Node : pc[n] # "off"} /\ Started' = {n \in Node : pc'[n] # "off"}
      /\ Started \in SUBSET Node
  BY <1>0 DEF Started
<1>3. SUFFICES Within(Started)' /\ KidOnce(Started)' /\ [Joins!Next]_(Joins!vars)
  BY <1>0, JoinsStep DEF Peace
<1>4. ASSUME NEW n \in Node, Start(n)
      PROVE  Within(Started)' /\ KidOnce(Started)' /\ [Joins!Next]_(Joins!vars)
  <2>1. Joins!Next
    BY <1>0, <1>4, HelloToo DEF Joins!Next, Joins!Node, Node
  <2>2. n \notin Started /\ SayHello(n, TRUE) /\ TRUE \in BOOLEAN
    BY <1>2, <1>4 DEF Start
  <2>3. PICK s \in {"fetch", "activate", "info"} : Goto(n, s)
    BY <2>2 DEF SayHello
  <2>4. Started' = Started \cup {n}
    BY <1>0, <1>2, <2>3 DEF Goto
  <2>5. last \in Started \cup {None}
    <3>1. last = uuid - 1 /\ last \in Node \cup {None} /\ uuid \in Nat
      BY <1>0, NAssumption DEF Joins!HelloOrder, TypeOK, BootstrapTypeOK, MaybeNode
    <3>2. last \in Node => joinPc[last] # "off"
      BY <1>0, <3>1, NAssumption DEF Joins!HelloOrder, Joins!Node, Node
    <3>3. last \in Node => pc[last] # "off"
      BY <3>2, JoinPcFacts
    <3>4. QED
      BY <1>2, <3>1, <3>3
  <2>6. PICK R : R = Started
    OBVIOUS
  <2>7. Within(R \cup {n})' /\ KidOnce(R \cup {n})'
    BY <1>0, <1>2, <2>2, <2>5, <2>6, HelloWithin
  <2>8. PICK Q : Q = R \cup {n}
    OBVIOUS
  <2>9. Within(Q)' /\ KidOnce(Q)' /\ Started' = Q
    BY <2>4, <2>6, <2>7, <2>8
  <2>10. QED
    BY <2>1, <2>9 DEF Within, LinksWithin, LocalsWithin, KidOnce, ListsApart, NotListed,
       KidsMoved
<1>5. ASSUME NEW n \in Node, InnerStep(n) \/ AskInfo(n), FetchJobs(n) \/ n \in admitted
      PROVE  Within(Started)' /\ KidOnce(Started)' /\ [Joins!Next]_(Joins!vars)
  <2>1. Joins!JoinStep(n)
    <3>1. CASE FetchJobs(n)
      BY <3>1, AskToo
    <3>2. CASE ~FetchJobs(n)
      <4>1. Request(n)
        BY <1>5, <3>2 DEF InnerStep, Request
      <4>2. QED
        BY <1>5, <3>2, <4>1, ServedAnswers, RequestToo
    <3>3. QED
      BY <3>1, <3>2
  <2>2. Joins!Next
    BY <2>1 DEF Joins!Next, Joins!Node, Node
  <2>3. PICK s \in JoiningSteps : Goto(n, s)
    BY <1>5, InnerStepFrame, UnlistedSteps DEF AskInfo, JoiningSteps
  <2>4. pc[n] \in JoiningSteps \cup {"info"}
    BY <1>5, InnerStepFrame DEF AskInfo, Calls, Joining
  <2>5. "off" \notin JoiningSteps
    BY DEF JoiningSteps, LinkSteps, RingSteps, AdoptSteps, LevelSteps
  <2>6. n \in Started /\ Started' = Started
    BY <1>0, <1>2, <2>3, <2>4, <2>5 DEF Goto
  <2>7. pc[n] \in LinkSteps => \A m \in Started : m # n => pc[m] \notin LinkSteps
    BY <1>0, <1>2, OneLinks
  <2>8. PICK R : R = Started
    OBVIOUS
  <2>9. Within(R)' /\ KidOnce(R)'
    BY <1>0, <1>2, <1>5, <2>6, <2>7, <2>8, RequestKeeps
  <2>10. QED
    BY <2>2, <2>6, <2>8, <2>9 DEF Within, LinksWithin, LocalsWithin, KidOnce, ListsApart,
       NotListed, KidsMoved
<1>6. ASSUME NEW n \in Node, NEW s \in {"run", "loop"}, Goto(n, s), pc[n] # "off",
             UNCHANGED <<links, loc>>
      PROVE  Within(Started)' /\ KidOnce(Started)'
  <2>1. Started' = Started
    BY <1>0, <1>2, <1>6 DEF Goto
  <2>2. s \notin JoinSteps /\ s \notin Unlisted /\ s \notin LevelSteps
    BY DEF Unlisted, JoinSteps, LinkSteps, RingSteps, AdoptSteps, LevelSteps
  <2>3. UNCHANGED e_children /\ \A m \in Node : m # n => loc'[m] = loc[m]
    BY <1>6 DEF links
  <2>4. PICK R : R = Started
    OBVIOUS
  <2>5. Within(R)' /\ KidOnce(R)'
    BY <1>0, <1>2, <1>6, <2>2, <2>3, <2>4, IdleWithin, KidIdle
  <2>6. QED
    BY <2>1, <2>4, <2>5 DEF Within, LinksWithin, LocalsWithin, KidOnce, ListsApart, NotListed,
       KidsMoved
<1>7. ASSUME NEW n \in Node, Activate(n)
      PROVE  Within(Started)' /\ KidOnce(Started)' /\ [Joins!Next]_(Joins!vars)
  <2>1. Joins!Next
    BY <1>0, <1>7, AskToo DEF Joins!Next, Joins!Node, Node
  <2>2. QED
    BY <1>6, <1>7, <2>1 DEF Activate
<1>8. ASSUME NEW n \in Node, PingOk(n) \/ PingFails(n) \/ Work(n)
      PROVE  Within(Started)' /\ KidOnce(Started)' /\ [Joins!Next]_(Joins!vars)
  <2>1. /\ pc[n] \in {"run", "loop"} /\ UNCHANGED <<links, bootstrap, WAIT, up, loc>>
        /\ \E s \in {"run", "loop", "reset"} : Goto(n, s)
    BY <1>8 DEF PingOk, PingFails, Work
  <2>2. Goto(n, "loop") \/ Goto(n, "run")
    BY <1>0, <1>1, <2>1 DEF Goto
  <2>3. UNCHANGED Joins!vars
    BY <2>1, <2>2, LoopStutters
  <2>4. QED
    BY <1>6, <2>1, <2>2, <2>3
<1>9. ASSUME NEW n \in Node, RequestFails(n)  PROVE FALSE
  <2>1. pc[n] \in JoinSteps /\ Callee(n) \notin Node
    BY <1>0, <1>9 DEF RequestFails
  <2>2. n \in Started
    BY <1>2, <2>1 DEF JoinSteps, LinkSteps, RingSteps, AdoptSteps, LevelSteps
  <2>3. Callee(n) \in Started
    BY <1>0, <1>2, <2>1, <2>2, CalleeWithin
  <2>4. QED
    BY <1>2, <2>1, <2>3
<1>10. ASSUME NEW n \in Node, Rejoin(n)  PROVE FALSE
  <2>1. joinPc[n] = "run" /\ WAIT[n]
    BY <1>10, JoinPcFacts DEF Rejoin
  <2>2. QED
    BY <1>0, <2>1 DEF Joins!HelloOrder, Joins!Node, Node
<1>11. ASSUME NEW n \in Node, AskReset(n) \/ ResetNode(n) \/ FinishReset(n) \/ Crash(n)
       PROVE  FALSE
  BY <1>0, <1>1, <1>11 DEF AskReset, ResetNode, FinishReset, Crash
<1>12. CASE Quiet
  <2>1. UNCHANGED <<e_parent, e_prev, e_next, e_children, pc, loc, joinPc>> /\ Started' = Started
    BY <1>0, <1>2, <1>12 DEF Quiet, vars, links, joinPc
  <2>2. UNCHANGED Joins!vars
    BY <1>12, <2>1 DEF Quiet, vars, Joins!vars, Joins!links, links, Joins!bootstrap, bootstrap
  <2>3. QED
    BY <1>0, <2>1, <2>2 DEF Within, LinksWithin, LocalsWithin, KidOnce, ListsApart, NotListed,
       KidsMoved
<1>13. QED
  BY <1>4, <1>5, <1>7, <1>8, <1>9, <1>10, <1>11, <1>12, StepKinds
     DEF Moves, Request, InnerStep

AllUp == up = Node

\* As long as nobody crashes and fewer pings than the limit are lost, the failure
\* detection of failover() changes nothing: the nodes run the join protocol of
\* module Join, the loop of the worker being one step of it.
THEOREM DetectionIsSilent ==
  ASSUME MaxCrashes = 0, MaxLost < FailLimit  PROVE FSpec => Joins!Spec
<1>1. FInit => /\ Joins!Init /\ Peace /\ NextExists /\ MissedAreLost /\ AllUp
               /\ AdmittedTypeOK /\ AdmittedAnswer
  <2>1. FInit => /\ NextExists /\ MissedAreLost /\ up = Node
                 /\ AdmittedTypeOK /\ AdmittedAnswer
    BY FailoverAssumption
       DEF FInit, Init, NextExists, MissedAreLost, AdmittedTypeOK, AdmittedAnswer
  <2>2. QED
    BY <2>1, InitPeace, StartsJoin DEF AllUp
<1>2. ASSUME TypeOK, DetectionTypeOK, NextExists, MissedAreLost, Peace, AllUp, AdmittedTypeOK,
             AdmittedAnswer, [FNext]_fvars
      PROVE  AllUp' /\ Peace' /\ AdmittedAnswer' /\ [Joins!Next]_(Joins!vars)
  <2>1. ASSUME NEW n \in Node, Crash(n)  PROVE FALSE
    <3>1. Node \ up = {}
      BY <1>2 DEF AllUp
    <3>2. Cardinality(Node \ up) = 0
      BY <3>1, FS_EmptySet
    <3>3. QED
      BY <2>1, <3>2 DEF Crash
  <2>2. up' = Node
    BY <1>2, <2>1, UpSame DEF AllUp
  <2>3. \A n \in Node : ~ResetNode(n)
    BY <1>2 DEF AllUp, MissedAreLost, ResetNode
  <2>4. AdmittedAnswer'
    BY <1>2, <2>1, <2>3, AdmittedStay
  <2>5. QED
    BY <1>2, <2>2, <2>4, NextPeace DEF AllUp
<1>3. QED
  BY <1>1, <1>2, NextNextExists, NextMissedAreLost, NextAdmittedType, FailoverTypeCorrect, PTL
     DEF FSpec, Joins!Spec

-----------------------------------------------------------------------------
(***************************************************************************)
(* After a crash                                                           *)
(***************************************************************************)
\* The nodes of R have said hello since the reset began, n as number turn[n] of
\* them.  Each waits for the one before it, so that the one that links itself
\* finds all earlier ones running.
InTurn(R, turn) ==
  /\ \A m, n \in R : turn[m] = turn[n] => m = n
  /\ \A n \in R :
       /\ turn[n] # 0
       /\ pc[n] \in JoinSteps \cup RunSteps \cup {"activate"}
       /\ ~WAIT[n] <=> pc[n] \in RunSteps
       /\ pc[n] = "info" => turn[n] = turn[loc[n].x] + 1
       /\ pc[n] \in JoinSteps => loc[n].again
       /\ pc[n] \in LinkSteps \cup RunSteps \cup {"activate"} =>
            \A m \in R : turn[m] < turn[n] => pc[m] \in RunSteps

\* t has kept the links nb[t] that it had when c crashed.
Stays(t, c, nb) ==
  /\ pc[t] \in RunSteps \cup {"reset", "search"}
  /\ Neighbours(t) = nb[t]
  /\ pc[t] \in {"reset", "search"} => e_next[t] = c
  /\ e_next[t] # c => fail_cnt[t] <= lost

Behind(c, R) == Node \ (R \cup {c})

\* The search of d has seen whoever waits, and has its neighbours in the queue.
SearchFrom(d, c, R, nb) ==
  /\ R \subseteq visited[d]
  /\ \A t \in Behind(c, R) : WAIT[t] => t \in visited[d]
  /\ Elems(queue[d]) \cap visited[d] = {}
  /\ \/ visited[d] = {} /\ queue[d] = <<d>>
     \/ /\ WAIT[d]
        /\ \A t \in visited[d] \ {c} : nb[t] \subseteq visited[d] \cup Elems(queue[d]) \cup {c}

\* Nobody has asked for a reset yet.
Unnoticed(c, R) ==
  /\ R = {} /\ can_reset
  /\ \A t \in Node \ {c} : ~WAIT[t] /\ pc[t] # "search"

\* The one node that misses c resets the network, or has done so and is about to
\* join again; nobody else misses more pings than were lost.
Rebuilding(c, R, turn, nb) ==
  /\ last = None => R = {}
  /\ last # None => last \in R /\ \A n \in R : turn[n] <= turn[last]
  /\ \A n \in R : fail_cnt[n] <= lost
  /\ \A t \in Behind(c, R) :
       /\ pc[t] # "reset"
       /\ e_next[t] = c => \/ pc[t] = "search"
                           \/ pc[t] = "loop" /\ WAIT[t] /\ fail_cnt[t] <= lost
       /\ pc[t] = "search" => SearchFrom(t, c, R, nb)

\* A search from d along the links of the old network finds everybody but c.
Reaches(d, c, nb) ==
  \A V \in SUBSET Node :
    d \in V /\ (\A t \in V \ {c} : nb[t] \ {c} \subseteq V) => Node \ {c} \subseteq V

\* The nodes that have not said hello since c crashed.  Only one of them has c for
\* its next node.  In networks of four and five nodes the links to 3 and 4 are
\* lost with node 2, their contact.
OldNetwork(c, R, turn, nb) ==
  /\ \A t \in Behind(c, R) : Stays(t, c, nb)
  /\ \A t, u \in Behind(c, R) : e_next[t] = c /\ e_next[u] = c => t = u
  /\ c # 2 \/ N \notin {4, 5} => \A t \in Behind(c, R) : e_next[t] = c => Reaches(t, c, nb)
  /\ Unnoticed(c, R) \/ Rebuilding(c, R, turn, nb)

Epoch(c, R, turn, nb) ==
  /\ up = Node \ {c} /\ pc[c] = "dead"
  /\ Within(R) /\ KidOnce(R) /\ InTurn(R, turn)
  /\ OldNetwork(c, R, turn, nb)

\* A step of a node that has said hello leaves the others of the old network alone.
LEMMA OldKept ==
  ASSUME DetectionTypeOK, DetectionTypeOK',
         NEW c \in Node, NEW R \in SUBSET (Node \ {c}), NEW turn \in [Node -> Nat], NEW nb,
         OldNetwork(c, R, turn, nb),
         \A t \in Behind(c, R) :
           /\ pc'[t] = pc[t] /\ WAIT'[t] = WAIT[t] /\ fail_cnt'[t] = fail_cnt[t]
           /\ e_next'[t] = e_next[t] /\ Neighbours(t)' = Neighbours(t),
         lost <= lost', \A n \in R : fail_cnt[n] <= lost => fail_cnt'[n] <= lost',
         UNCHANGED <<last, can_reset, search>>
  PROVE  OldNetwork(c, R, turn, nb)'
<1>0. /\ \A t \in Node : fail_cnt[t] \in Int /\ fail_cnt'[t] \in Int
      /\ lost \in Int /\ lost' \in Int
      /\ Behind(c, R) \subseteq Node
  BY FailoverAssumption DEF DetectionTypeOK, Behind
<1>1. ASSUME NEW t \in Behind(c, R)  PROVE Stays(t, c, nb)'
  <2>1. Stays(t, c, nb)
    BY <1>1 DEF OldNetwork
  <2>2. fail_cnt[t] <= lost => fail_cnt'[t] <= lost'
    BY <1>0, <1>1
  <2>3. QED
    BY <1>1, <2>1, <2>2 DEF Stays
<1>2. \A t, u \in Behind(c, R) : e_next'[t] = c /\ e_next'[u] = c => t = u
  BY DEF OldNetwork
<1>3. c # 2 \/ N \notin {4, 5} =>
        \A t \in Behind(c, R) : e_next'[t] = c => Reaches(t, c, nb)
  BY DEF OldNetwork
<1>4. CASE Unnoticed(c, R)
  <2>1. Behind(c, R) = Node \ {c}
    BY <1>4 DEF Unnoticed, Behind
  <2>2. Unnoticed(c, R)'
    BY <1>4, <2>1 DEF Unnoticed
  <2>3. QED
    BY <1>1, <1>2, <1>3, <2>2 DEF OldNetwork, Reaches, Behind
<1>5. CASE Rebuilding(c, R, turn, nb)
  <2>1. \A t \in Behind(c, R) : fail_cnt[t] <= lost => fail_cnt'[t] <= lost'
    BY <1>0
  <2>2. ASSUME NEW t \in Behind(c, R), SearchFrom(t, c, R, nb)  PROVE SearchFrom(t, c, R, nb)'
    BY <2>2 DEF SearchFrom, search, Behind
  <2>3. Rebuilding(c, R, turn, nb)'
    BY <1>5, <2>1, <2>2 DEF Rebuilding, Behind
  <2>4. QED
    BY <1>1, <1>2, <1>3, <2>3 DEF OldNetwork, Reaches, Behind
<1>6. QED
  BY <1>4, <1>5 DEF OldNetwork

\* A node that says hello again is told to go on without asking for jobs.
LEMMA AgainStays ==
  ASSUME TypeOK, NEW n \in Node, InnerStep(n) \/ AskInfo(n), pc[n] # "fetch", loc[n].again
  PROVE  /\ pc[n] \in JoinSteps
         /\ pc'[n] \in LinkSteps \cup {"activate"}
         /\ pc'[n] \in LinkSteps => loc'[n].again
<1>0. pc \in [Node -> Steps] /\ loc \in [Node -> Locals]
  BY DEF TypeOK, ControlTypeOK
<1> USE <1>0 DEF JoinSteps, LinkSteps, RingSteps, AdoptSteps, LevelSteps, Calls, Goto
<1>1. CASE AskInfo(n) \/ AskEdges(n)
  BY <1>1 DEF AskInfo, AskEdges, Locals
<1>2. CASE RingNext(n) \/ RingPrev(n) \/ AdoptBelow(n)
  BY <1>2 DEF RingNext, RingPrev, AdoptBelow, JoinReturns, Locals
<1>3. CASE AskParent(n) \/ AskParentNext(n)
  BY <1>3 DEF AskParent, AskParentNext, AskAdopt, Locals
<1>4. CASE CreateLevel(n)
  <2>1. CASE Prev2(n)
    BY <2>1 DEF Prev2, JoinReturns
  <2>2. CASE GetNext(n) \/ GetPrev(n)
    BY <2>2 DEF GetNext, GetPrev, LevelStep, Locals
  <2>3. CASE ClosePrev(n) \/ CloseNext(n) \/ Adopt2(n) \/ Parent2(n) \/ Adopt3(n) \/ Parent3(n)
               \/ AdoptMe(n) \/ Next3(n)
    BY <2>3 DEF ClosePrev, CloseNext, Adopt2, Parent2, Adopt3, Parent3, AdoptMe, Next3, AdoptKid,
       TellKid, LevelStep
  <2>4. QED
    BY <1>4, <2>1, <2>2, <2>3 DEF CreateLevel
<1>5. CASE FetchJobs(n)
  BY <1>5 DEF FetchJobs
<1>6. QED
  BY <1>1, <1>2, <1>3, <1>4, <1>5 DEF InnerStep

\* Only one node of R links itself.
LEMMA TurnsExclude ==
  ASSUME NEW R \in SUBSET Node, NEW turn \in [Node -> Nat], InTurn(R, turn),
         NEW m \in R, NEW n \in R, pc[m] \in LinkSteps, pc[n] \in LinkSteps
  PROVE  m = n
<1>1. \A h \in R : pc[h] \in LinkSteps => pc[h] \notin RunSteps
  BY DEF RunSteps, LinkSteps, RingSteps, AdoptSteps, LevelSteps
<1>2. ~(turn[m] < turn[n]) /\ ~(turn[n] < turn[m])
  BY <1>1 DEF InTurn
<1>3. turn[m] = turn[n]
  BY <1>2
<1>4. QED
  BY <1>3 DEF InTurn

\* The turns after a step of a node whose turn it is.
LEMMA TurnTaken ==
  ASSUME TypeOK, NEW R \in SUBSET Node, NEW turn \in [Node -> Nat], InTurn(R, turn), NEW n \in R,
         pc[n] \notin RunSteps, \A m \in R : turn[m] < turn[n] => pc[m] \in RunSteps,
         pc'[n] \in LinkSteps \cup {"activate"}, pc'[n] \in LinkSteps => loc'[n].again,
         WAIT'[n] = WAIT[n],
         \A m \in R : m # n => pc'[m] = pc[m] /\ loc'[m] = loc[m] /\ WAIT'[m] = WAIT[m]
  PROVE  InTurn(R, turn)'
<1> USE DEF JoinSteps, LinkSteps, RingSteps, AdoptSteps, LevelSteps, RunSteps
<1>1. pc'[n] \notin RunSteps /\ pc'[n] # "info" /\ WAIT[n]
  BY DEF InTurn
<1>2. ASSUME NEW m \in R
      PROVE  /\ turn[m] # 0
             /\ pc'[m] \in JoinSteps \cup RunSteps \cup {"activate"}
             /\ ~WAIT'[m] <=> pc'[m] \in RunSteps
             /\ pc'[m] = "info" => turn[m] = turn[loc'[m].x] + 1
             /\ pc'[m] \in JoinSteps => loc'[m].again
             /\ pc'[m] \in LinkSteps \cup RunSteps \cup {"activate"} =>
                  \A h \in R : turn[h] < turn[m] => pc'[h] \in RunSteps
  <2>1. CASE m = n
    BY <1>1, <2>1 DEF InTurn
  <2>2. CASE m # n
    <3>1. pc'[m] = pc[m] /\ loc'[m] = loc[m] /\ WAIT'[m] = WAIT[m]
      BY <2>2
    <3>2. ASSUME pc[m] \in LinkSteps \cup RunSteps \cup {"activate"}, NEW h \in R,
                 turn[h] < turn[m]
          PROVE  pc'[h] \in RunSteps
      <4>1. pc[h] \in RunSteps
        BY <3>2 DEF InTurn
      <4>2. QED
        BY <4>1
    <3>3. QED
      BY <3>1, <3>2 DEF InTurn
  <2>3. QED
    BY <2>1, <2>2
<1>3. QED
  BY <1>2 DEF InTurn

\* A request of a node that joins again.
LEMMA EpochRequest ==
  ASSUME TypeOK, DetectionTypeOK, DetectionTypeOK',
         NEW c \in Node, NEW R \in SUBSET (Node \ {c}), NEW turn \in [Node -> Nat], NEW nb,
         Epoch(c, R, turn, nb), NEW n \in Node, InnerStep(n) \/ AskInfo(n),
         AskInfo(n) => Answers(Callee(n)), UNCHANGED <<detection, search>>
  PROVE  Epoch(c, R, turn, nb)'
<1>0. pc \in [Node -> Steps] /\ loc \in [Node -> Locals] /\ R \in SUBSET Node /\ c \notin R
  BY DEF TypeOK, ControlTypeOK
<1>1. /\ pc[n] \in JoiningSteps \cup {"info"}
      /\ \E s \in Steps : Goto(n, s)
      /\ \A m \in Node : m # n => loc'[m] = loc[m]
      /\ UNCHANGED <<WAIT, last, can_reset>>
  <2>1. JoiningSteps \subseteq Steps /\ "edges" \in Steps
    BY DEF JoiningSteps, Steps, JoinSteps, LinkSteps
  <2>2. QED
    BY <2>1, InnerStepFrame DEF AskInfo, Calls, Joining, bootstrap
<1>2. \A m \in Node : m # n => pc'[m] = pc[m]
  BY <1>0, <1>1 DEF Goto
<1>3. n \in R
  <2>1. n # c
    BY <1>1 DEF Epoch, JoiningSteps, LinkSteps, RingSteps, AdoptSteps, LevelSteps
  <2>2. n \in Behind(c, R) => pc[n] \in RunSteps \cup {"reset", "search"}
    BY DEF Epoch, OldNetwork, Stays
  <2>3. QED
    BY <1>1, <2>1, <2>2 DEF Behind, RunSteps, JoiningSteps, LinkSteps, RingSteps, AdoptSteps,
       LevelSteps
<1>4. pc[n] \in JoinSteps /\ loc[n].again /\ pc[n] \notin RunSteps
  <2>1. pc[n] \in JoinSteps \cup RunSteps \cup {"activate"}
    BY <1>3 DEF Epoch, InTurn
  <2>2. pc[n] # "activate"
    BY <1>0 DEF InnerStep, AskInfo, AskEdges, RingNext, RingPrev, AdoptBelow, AskParent,
       AskParentNext, AskAdopt, FetchJobs, CreateLevel, GetNext, GetPrev, ClosePrev, CloseNext,
       Adopt2, Parent2, Adopt3, Parent3, AdoptMe, Next3, Prev2, AdoptKid, TellKid, LevelStep,
       Calls
  <2>3. pc[n] \notin RunSteps
    BY <1>1 DEF RunSteps, JoiningSteps, LinkSteps, RingSteps, AdoptSteps, LevelSteps
  <2>4. QED
    BY <1>3, <2>1, <2>2, <2>3 DEF Epoch, InTurn
<1>5. Callee(n) \in R
  BY <1>0, <1>3, <1>4, CalleeWithin DEF Epoch
<1>6. \A m \in R : turn[m] < turn[n] => pc[m] \in RunSteps
  <2>1. CASE AskInfo(n)
    <3>1. PICK x \in R : x = loc[n].x /\ ~WAIT[x]
      BY <1>5, <2>1, CalleeIsNode DEF AskInfo, Answers
    <3>2. pc[x] \in RunSteps /\ turn[n] = turn[x] + 1
      BY <1>3, <2>1, <3>1 DEF Epoch, InTurn, AskInfo, Calls
    <3>3. \A m \in R : turn[m] < turn[x] => pc[m] \in RunSteps
      BY <3>1, <3>2 DEF Epoch, InTurn
    <3>4. \A m \in R : turn[m] < turn[n] => turn[m] < turn[x] \/ turn[m] = turn[x]
      BY <1>0, <3>1, <3>2
    <3>5. \A m \in R : turn[m] = turn[x] => m = x
      BY <3>1 DEF Epoch, InTurn
    <3>6. QED
      BY <3>2, <3>3, <3>4, <3>5
  <2>2. CASE InnerStep(n)
    <3>1. pc[n] \in LinkSteps
      <4>1. Joining(n)
        BY <2>2, InnerStepFrame
      <4>2. QED
        BY <1>4, <4>1 DEF Joining, JoiningSteps, JoinSteps, LinkSteps, RingSteps, AdoptSteps,
           LevelSteps
    <3>2. QED
      BY <1>3, <3>1 DEF Epoch, InTurn
  <2>3. QED
    BY <2>1, <2>2
<1>7. Within(R)' /\ KidOnce(R)'
  <2>1. \A m \in R : m # n /\ pc[n] \in LinkSteps => pc[m] \notin LinkSteps
    BY <1>0, <1>3, TurnsExclude DEF Epoch
  <2>2. Within(R) /\ KidOnce(R)
    BY DEF Epoch
  <2>3. QED
    BY <1>0, <1>3, <2>1, <2>2, RequestKeeps
<1>8. InTurn(R, turn)'
  <2>1. pc'[n] \in LinkSteps \cup {"activate"} /\ (pc'[n] \in LinkSteps => loc'[n].again)
    <3>1. pc[n] # "fetch"
      BY <1>4 DEF JoinSteps, LinkSteps, RingSteps, AdoptSteps, LevelSteps
    <3>2. QED
      BY <1>4, <3>1, AgainStays
  <2>2. InTurn(R, turn)
    BY DEF Epoch
  <2>3. QED
    BY <1>0, <1>1, <1>2, <1>3, <1>4, <1>6, <2>1, <2>2, TurnTaken
<1>9. OldNetwork(c, R, turn, nb)'
  <2>1. ASSUME NEW t \in Behind(c, R)
        PROVE  e_next'[t] = e_next[t] /\ Neighbours(t)' = Neighbours(t)
    <3>1. t \in Node /\ t # n /\ t # Callee(n)
      BY <1>3, <1>5, <2>1 DEF Behind
    <3>2. LinksOfJoiner(t)' = LinksOfJoiner(t)
      BY <3>1, RequestWrites
    <3>3. QED
      BY <3>2 DEF LinksOfJoiner, Neighbours, Children
  <2>2. \A t \in Behind(c, R) : t \in Node /\ t # n
    BY <1>3 DEF Behind
  <2>3. lost \in Int
    BY FailoverAssumption DEF DetectionTypeOK
  <2>4. OldNetwork(c, R, turn, nb)
    BY DEF Epoch
  <2>5. QED
    BY <1>1, <1>2, <2>1, <2>2, <2>3, <2>4, OldKept DEF detection
<1>10. up' = up /\ pc'[c] = pc[c]
  <2>1. up' = up
    BY InnerStepUp DEF AskInfo
  <2>2. QED
    BY <1>0, <1>2, <1>3, <2>1
<1>11. QED
  BY <1>7, <1>8, <1>9, <1>10 DEF Epoch

\* A member, or a node that becomes one, goes on.
LEMMA TurnRuns ==
  ASSUME TypeOK, NEW R \in SUBSET Node, NEW turn \in [Node -> Nat], InTurn(R, turn), NEW n \in R,
         pc[n] \in RunSteps \cup {"activate"}, pc'[n] \in RunSteps, ~WAIT'[n],
         \A m \in R : m # n => pc'[m] = pc[m] /\ loc'[m] = loc[m] /\ WAIT'[m] = WAIT[m]
  PROVE  InTurn(R, turn)'
<1> USE DEF JoinSteps, LinkSteps, RingSteps, AdoptSteps, LevelSteps, RunSteps
<1>1. ASSUME NEW m \in R
      PROVE  /\ turn[m] # 0
             /\ pc'[m] \in JoinSteps \cup RunSteps \cup {"activate"}
             /\ ~WAIT'[m] <=> pc'[m] \in RunSteps
             /\ pc'[m] = "info" => turn[m] = turn[loc'[m].x] + 1
             /\ pc'[m] \in JoinSteps => loc'[m].again
             /\ pc'[m] \in LinkSteps \cup RunSteps \cup {"activate"} =>
                  \A h \in R : turn[h] < turn[m] => pc'[h] \in RunSteps
  <2>1. ASSUME pc[m] \in LinkSteps \cup RunSteps \cup {"activate"}, NEW h \in R,
               turn[h] < turn[m]
        PROVE  pc'[h] \in RunSteps
    <3>1. pc[h] \in RunSteps
      BY <2>1 DEF InTurn
    <3>2. QED
      BY <3>1
  <2>2. CASE m = n
    BY <2>1, <2>2 DEF InTurn
  <2>3. CASE m # n
    BY <2>1, <2>3 DEF InTurn
  <2>4. QED
    BY <2>2, <2>3
<1>2. QED
  BY <1>1 DEF InTurn

\* A node of the new network activates itself, works or pings: what it misses is lost.
LEMMA EpochMember ==
  ASSUME TypeOK, DetectionTypeOK, DetectionTypeOK', MaxLost < FailLimit,
         NEW c \in Node, NEW R \in SUBSET (Node \ {c}), NEW turn \in [Node -> Nat], NEW nb,
         Epoch(c, R, turn, nb), NEW n \in R,
         \/ Activate(n) /\ UNCHANGED <<detection, search>>
         \/ PingOk(n) \/ PingFails(n) \/ Work(n)
  PROVE  Epoch(c, R, turn, nb)'
<1>0. /\ pc \in [Node -> Steps] /\ R \in SUBSET Node /\ c \notin R /\ WAIT \in [Node -> BOOLEAN]
      /\ fail_cnt \in [Node -> 0 .. FailLimit + 1] /\ lost \in 0 .. MaxLost
      /\ FailLimit \in Nat /\ MaxLost \in Nat
  BY FailoverAssumption DEF TypeOK, ControlTypeOK, DetectionTypeOK
<1>1. /\ pc[n] \in RunSteps \cup {"activate"} /\ UNCHANGED <<links, loc, up, bootstrap, search>>
      /\ \A m \in Node : m # n => WAIT'[m] = WAIT[m]
      /\ ~WAIT'[n]
  <2>1. pc[n] \in RunSteps => ~WAIT[n]
    BY DEF Epoch, InTurn
  <2>2. QED
    BY <1>0, <2>1 DEF Activate, PingOk, PingFails, Work, RunSteps
<1>2. /\ e_next[n] \in up
      /\ \A m \in R : fail_cnt[m] <= lost
  <2>1. e_next[n] \in R
    BY DEF Epoch, Within, LinksWithin
  <2>2. ~Unnoticed(c, R)
    BY DEF Unnoticed
  <2>3. QED
    BY <2>1, <2>2 DEF Epoch, OldNetwork, Rebuilding
<1>3. /\ \E s \in RunSteps : Goto(n, s)
      /\ \A m \in Node : m # n => fail_cnt'[m] = fail_cnt[m]
      /\ fail_cnt'[n] <= lost' /\ lost <= lost'
  <2>1. CASE PingFails(n)
    <3>1. lost < MaxLost /\ lost' = lost + 1
      BY <1>2, <2>1 DEF PingFails
    <3>2. fail_cnt[n] + 1 # FailLimit /\ fail_cnt[n] <= lost
      BY <1>0, <1>2, <3>1
    <3>3. Goto(n, "loop")
      BY <2>1, <3>2 DEF PingFails
    <3>4. /\ \A m \in Node : m # n => fail_cnt'[m] = fail_cnt[m]
          /\ fail_cnt'[n] = fail_cnt[n] \/ fail_cnt'[n] = fail_cnt[n] + 1
      BY <1>0, <2>1 DEF PingFails
    <3>5. QED
      BY <1>0, <3>1, <3>2, <3>3, <3>4 DEF RunSteps
  <2>2. CASE PingOk(n)
    <3>1. /\ fail_cnt'[n] = 0 /\ \A m \in Node : m # n => fail_cnt'[m] = fail_cnt[m]
          /\ lost' = lost /\ Goto(n, "loop")
      BY <1>0, <2>2 DEF PingOk
    <3>2. QED
      BY <1>0, <3>1 DEF RunSteps
  <2>3. CASE Work(n) \/ (Activate(n) /\ UNCHANGED <<detection, search>>)
    <3>1. UNCHANGED detection /\ Goto(n, "run")
      BY <2>3 DEF Work, Activate
    <3>2. QED
      BY <1>0, <1>2, <3>1 DEF detection, RunSteps
  <2>4. QED
    BY <2>1, <2>2, <2>3
<1>4. PICK s \in RunSteps : Goto(n, s)
  BY <1>3
<1>5. pc'[n] = s /\ \A m \in Node : m # n => pc'[m] = pc[m]
  BY <1>0, <1>4 DEF Goto
<1>6. /\ s \notin JoinSteps /\ s \notin Unlisted /\ s \notin LevelSteps
      /\ UNCHANGED e_children /\ \A m \in Node : m # n => loc'[m] = loc[m]
  BY <1>1 DEF links, RunSteps, Unlisted, JoinSteps, LinkSteps, RingSteps, AdoptSteps, LevelSteps
<1>7. Within(R)' /\ KidOnce(R)'
  <2>1. Within(R) /\ KidOnce(R) /\ n \in Node
    BY <1>0 DEF Epoch
  <2>2. QED
    BY <1>0, <1>1, <1>4, <1>6, <2>1, IdleWithin, KidIdle
<1>8. InTurn(R, turn)'
  <2>1. \A m \in R : m # n => pc'[m] = pc[m] /\ loc'[m] = loc[m] /\ WAIT'[m] = WAIT[m]
    BY <1>0, <1>1, <1>5, <1>6
  <2>2. InTurn(R, turn)
    BY DEF Epoch
  <2>3. QED
    BY <1>0, <1>1, <1>5, <2>1, <2>2, TurnRuns
<1>9. OldNetwork(c, R, turn, nb)'
  <2>1. \A t \in Behind(c, R) : t \in Node /\ t # n
    BY DEF Behind
  <2>2. \A m \in R : fail_cnt'[m] <= lost'
    <3>1. ASSUME NEW m \in R, m # n  PROVE fail_cnt'[m] <= lost'
      <4>1. fail_cnt'[m] = fail_cnt[m] /\ fail_cnt[m] <= lost /\ lost <= lost'
        BY <1>0, <1>2, <1>3, <3>1
      <4>2. fail_cnt[m] \in Int /\ lost \in Int /\ lost' \in Int
        BY <1>0 DEF DetectionTypeOK
      <4>3. QED
        BY <4>1, <4>2
    <3>2. QED
      BY <1>3, <3>1
  <2>3. UNCHANGED <<last, can_reset, search>>
    BY <1>1 DEF bootstrap
  <2>4. \A t \in Node : e_next'[t] = e_next[t] /\ Neighbours(t)' = Neighbours(t)
    BY <1>1 DEF links, Neighbours, Children
  <2>5. OldNetwork(c, R, turn, nb)
    BY DEF Epoch
  <2>6. QED
    BY <1>1, <1>3, <1>5, <2>1, <2>2, <2>3, <2>4, <2>5, OldKept
<1>10. QED
  <2>1. c # n
    BY <1>0
  <2>2. up' = up /\ pc'[c] = pc[c]
    BY <1>1, <1>5, <2>1
  <2>3. QED
    BY <1>7, <1>8, <1>9, <2>2 DEF Epoch

\* A step of a node that has not said hello again does not disturb those that have.
LEMMA MembersKept ==
  ASSUME TypeOK, NEW c \in Node, NEW R \in SUBSET (Node \ {c}), NEW turn \in [Node -> Nat],
         NEW nb, Epoch(c, R, turn, nb), NEW n \in Behind(c, R),
         NEW s \in RunSteps \cup {"reset", "search"}, Goto(n, s), UNCHANGED <<links, loc, up>>,
         \A m \in R : WAIT'[m] = WAIT[m]
  PROVE  /\ (up = Node \ {c})' /\ (pc[c] = "dead")'
         /\ Within(R)' /\ KidOnce(R)' /\ InTurn(R, turn)'
         /\ n \in Node \ {c} /\ pc'[n] = s
         /\ \A m \in Node : m # n => pc'[m] = pc[m]
<1>0. pc \in [Node -> Steps] /\ R \in SUBSET Node /\ n \in Node /\ n # c /\ n \notin R
  BY DEF TypeOK, ControlTypeOK, Behind
<1>1. pc'[n] = s /\ \A m \in Node : m # n => pc'[m] = pc[m]
  BY <1>0 DEF Goto
<1>2. Within(R)' /\ KidOnce(R)'
  <2>1. s \notin JoinSteps /\ s \notin Unlisted /\ s \notin LevelSteps
    BY DEF RunSteps, Unlisted, JoinSteps, LinkSteps, RingSteps, AdoptSteps, LevelSteps
  <2>2. UNCHANGED e_children /\ \A m \in Node : m # n => loc'[m] = loc[m]
    BY DEF links
  <2>3. Within(R) /\ KidOnce(R)
    BY DEF Epoch
  <2>4. QED
    BY <1>0, <2>1, <2>2, <2>3, IdleWithin, KidIdle
<1>3. InTurn(R, turn)'
  <2>1. InTurn(R, turn)
    BY DEF Epoch
  <2>2. \A m \in R : pc'[m] = pc[m] /\ WAIT'[m] = WAIT[m] /\ loc'[m] = loc[m]
    BY <1>0, <1>1
  <2>3. QED
    BY <2>1, <2>2 DEF InTurn
<1>4. QED
  BY <1>0, <1>1, <1>2, <1>3 DEF Epoch

\* A node of the old network works or pings: it notices c, or what it misses is lost.
LEMMA EpochLoops ==
  ASSUME TypeOK, DetectionTypeOK, DetectionTypeOK', NextExists, MaxLost < FailLimit,
         NEW c \in Node, NEW R \in SUBSET (Node \ {c}), NEW turn \in [Node -> Nat], NEW nb,
         Epoch(c, R, turn, nb), NEW n \in Behind(c, R), PingOk(n) \/ PingFails(n) \/ Work(n)
  PROVE  Epoch(c, R, turn, nb)'
<1>0. /\ pc \in [Node -> Steps] /\ n \in Node \ {c}
      /\ fail_cnt \in [Node -> 0 .. FailLimit + 1] /\ lost \in 0 .. MaxLost
      /\ FailLimit \in Nat /\ MaxLost \in Nat /\ lost' \in Int
      /\ Behind(c, R) \subseteq Node \ {c} /\ Stays(n, c, nb)
  BY FailoverAssumption DEF TypeOK, ControlTypeOK, DetectionTypeOK, Behind, Epoch, OldNetwork
<1>1. /\ pc[n] \in RunSteps /\ UNCHANGED <<links, loc, up, bootstrap, WAIT, search>>
      /\ pc[n] = "loop" => ~WAIT[n]
  BY DEF PingOk, PingFails, Work, RunSteps
<1>2. e_next[n] # c => e_next[n] \in up
  <2>1. e_next[n] # None /\ e_next[n] \in MaybeNode
    BY <1>0, <1>1 DEF NextExists, RunSteps, TypeOK, LinksTypeOK
  <2>2. QED
    BY <2>1 DEF MaybeNode, Epoch
<1>3. PICK s \in RunSteps \cup {"reset"} :
        /\ Goto(n, s)
        /\ \A m \in Node : m # n => fail_cnt'[m] = fail_cnt[m]
        /\ lost <= lost'
        /\ e_next[n] # c => fail_cnt'[n] <= lost' /\ s # "reset"
  <2>1. CASE PingFails(n)
    <3>1. CASE e_next[n] # c
      <4>1. lost < MaxLost /\ lost' = lost + 1
        BY <1>2, <2>1, <3>1 DEF PingFails
      <4>2. fail_cnt[n] + 1 # FailLimit /\ fail_cnt[n] <= lost
        BY <1>0, <3>1, <4>1 DEF Stays
      <4>3. Goto(n, "loop")
        BY <2>1, <4>2 DEF PingFails
      <4>4. /\ \A m \in Node : m # n => fail_cnt'[m] = fail_cnt[m]
            /\ fail_cnt'[n] = fail_cnt[n] \/ fail_cnt'[n] = fail_cnt[n] + 1
        BY <1>0, <2>1 DEF PingFails
      <4>5. QED
        BY <1>0, <4>1, <4>2, <4>3, <4>4 DEF RunSteps
    <3>2. CASE e_next[n] = c
      <4>1. lost' = lost
        BY <2>1, <3>2 DEF PingFails, Epoch
      <4>2. /\ \A m \in Node : m # n => fail_cnt'[m] = fail_cnt[m]
            /\ \E s \in {"reset", "loop"} : Goto(n, s)
        BY <1>0, <2>1 DEF PingFails
      <4>3. QED
        BY <1>0, <3>2, <4>1, <4>2 DEF RunSteps
    <3>3. QED
      BY <3>1, <3>2
  <2>2. CASE PingOk(n)
    <3>1. /\ fail_cnt'[n] = 0 /\ \A m \in Node : m # n => fail_cnt'[m] = fail_cnt[m]
          /\ lost' = lost /\ Goto(n, "loop")
      BY <1>0, <2>2 DEF PingOk
    <3>2. QED
      BY <1>0, <3>1 DEF RunSteps
  <2>3. CASE Work(n)
    <3>1. UNCHANGED detection /\ Goto(n, "run")
      BY <2>3 DEF Work
    <3>2. QED
      BY <1>0, <3>1 DEF detection, RunSteps, Stays
  <2>4. QED
    BY <2>1, <2>2, <2>3
<1>4. /\ (up = Node \ {c})' /\ (pc[c] = "dead")'
      /\ Within(R)' /\ KidOnce(R)' /\ InTurn(R, turn)'
      /\ pc'[n] = s /\ \A m \in Node : m # n => pc'[m] = pc[m]
  <2>1. Goto(n, s) /\ s \in RunSteps \cup {"reset", "search"} /\ \A m \in R : WAIT'[m] = WAIT[m]
    BY <1>1, <1>3
  <2>2. QED
    BY <1>1, <2>1, MembersKept
<1>5. /\ \A t \in Node : e_next'[t] = e_next[t] /\ Neighbours(t)' = Neighbours(t)
      /\ UNCHANGED <<WAIT, last, can_reset, queue, visited>>
  BY <1>1 DEF links, Neighbours, Children, bootstrap, search
<1>6. \A t \in Node : t # n /\ fail_cnt[t] <= lost => fail_cnt'[t] <= lost'
  <2>1. ASSUME NEW t \in Node, t # n, fail_cnt[t] <= lost  PROVE fail_cnt'[t] <= lost'
    <3>1. fail_cnt'[t] = fail_cnt[t] /\ fail_cnt[t] \in Int /\ lost \in Int /\ lost <= lost'
      BY <1>0, <1>3, <2>1
    <3>2. QED
      BY <1>0, <2>1, <3>1
  <2>2. QED
    BY <2>1
<1>7. ASSUME NEW t \in Behind(c, R)  PROVE Stays(t, c, nb)'
  <2>1. CASE t = n
    BY <1>0, <1>3, <1>4, <1>5, <2>1 DEF Stays, RunSteps
  <2>2. CASE t # n
    <3>1. Stays(t, c, nb) /\ t \in Node
      BY <1>0, <1>7 DEF Epoch, OldNetwork
    <3>2. QED
      BY <1>4, <1>5, <1>6, <2>2, <3>1 DEF Stays
  <2>3. QED
    BY <2>1, <2>2
<1>8. /\ \A t, u \in Behind(c, R) : e_next'[t] = c /\ e_next'[u] = c => t = u
      /\ c # 2 \/ N \notin {4, 5} =>
           \A t \in Behind(c, R) : e_next'[t] = c => Reaches(t, c, nb)
  BY <1>0, <1>5 DEF Epoch, OldNetwork
<1>9. CASE Unnoticed(c, R)
  <2>1. Unnoticed(c, R)'
    <3>1. \A t \in Node \ {c} : ~WAIT'[t] /\ pc'[t] # "search"
      BY <1>4, <1>5, <1>9 DEF Unnoticed, RunSteps
    <3>2. QED
      BY <1>5, <1>9, <3>1 DEF Unnoticed
  <2>2. QED
    BY <1>4, <1>7, <1>8, <2>1 DEF Epoch, OldNetwork, Behind, Reaches
<1>10. CASE Rebuilding(c, R, turn, nb)
  <2>1. e_next[n] # c
    BY <1>1, <1>10 DEF Rebuilding, RunSteps
  <2>2. \A m \in R : fail_cnt'[m] <= lost'
    <3>1. \A m \in R : m # n /\ m \in Node /\ fail_cnt[m] <= lost
      BY <1>10 DEF Rebuilding, Behind
    <3>2. QED
      BY <1>6, <3>1
  <2>3. ASSUME NEW t \in Behind(c, R)
        PROVE  /\ pc'[t] # "reset"
               /\ e_next'[t] = c => \/ pc'[t] = "search"
                                    \/ pc'[t] = "loop" /\ WAIT'[t] /\ fail_cnt'[t] <= lost'
               /\ pc'[t] = "search" => SearchFrom(t, c, R, nb)'
    <3>1. CASE t = n
      BY <1>0, <1>3, <1>4, <1>5, <2>1, <3>1 DEF RunSteps
    <3>2. CASE t # n
      <4>1. /\ pc'[t] = pc[t] /\ e_next'[t] = e_next[t] /\ WAIT'[t] = WAIT[t]
            /\ fail_cnt[t] <= lost => fail_cnt'[t] <= lost'
        BY <1>0, <1>4, <1>5, <1>6, <3>2
      <4>2. SearchFrom(t, c, R, nb) => SearchFrom(t, c, R, nb)'
        BY <1>5 DEF SearchFrom, Behind
      <4>3. QED
        BY <1>10, <4>1, <4>2 DEF Rebuilding
    <3>3. QED
      BY <3>1, <3>2
  <2>4. Rebuilding(c, R, turn, nb)'
    BY <1>5, <1>10, <2>2, <2>3 DEF Rebuilding, Behind
  <2>5. QED
    BY <1>4, <1>7, <1>8, <2>4 DEF Epoch, OldNetwork, Behind, Reaches
<1>11. QED
  BY <1>9, <1>10 DEF Epoch, OldNetwork

\* Who misses c is given leave to reset: nobody has asked before.
LEMMA EpochAsks ==
  ASSUME TypeOK, DetectionTypeOK, SearchTypeOK,
         NEW c \in Node, NEW R \in SUBSET (Node \ {c}), NEW turn \in [Node -> Nat], NEW nb,
         Epoch(c, R, turn, nb), NEW n \in Behind(c, R), AskReset(n)
  PROVE  Epoch(c, R, turn, nb)'
<1>0. /\ n \in Node \ {c} /\ Behind(c, R) \subseteq Node \ {c} /\ Stays(n, c, nb)
      /\ pc[n] = "reset" /\ e_next[n] = c
      /\ queue \in [Node -> Seq(Node)] /\ visited \in [Node -> SUBSET Node]
  BY DEF SearchTypeOK, Behind, Epoch, OldNetwork, Stays, AskReset
<1>1. Unnoticed(c, R) /\ R = {} /\ can_reset
  <2>1. ~Rebuilding(c, R, turn, nb)
    BY <1>0 DEF Rebuilding
  <2>2. QED
    BY <2>1 DEF Epoch, OldNetwork, Unnoticed
<1>2. /\ Goto(n, "search") /\ UNCHANGED <<links, loc, up, WAIT, detection>>
      /\ last' = None /\ queue'[n] = <<n>> /\ visited'[n] = {}
  BY <1>0, <1>1 DEF AskReset, Reset
<1>3. /\ (up = Node \ {c})' /\ (pc[c] = "dead")'
      /\ Within(R)' /\ KidOnce(R)' /\ InTurn(R, turn)'
      /\ pc'[n] = "search" /\ \A m \in Node : m # n => pc'[m] = pc[m]
  <2>1. /\ Goto(n, "search") /\ "search" \in RunSteps \cup {"reset", "search"}
        /\ \A m \in R : WAIT'[m] = WAIT[m]
    BY <1>2
  <2>2. QED
    BY <1>2, <2>1, MembersKept
<1>4. /\ \A t \in Node : e_next'[t] = e_next[t] /\ Neighbours(t)' = Neighbours(t)
      /\ UNCHANGED <<fail_cnt, lost, WAIT>>
  BY <1>2 DEF links, Neighbours, Children, detection
<1>5. ASSUME NEW t \in Behind(c, R)  PROVE Stays(t, c, nb)'
  <2>1. Stays(t, c, nb) /\ t \in Node
    BY <1>0, <1>5 DEF Epoch, OldNetwork
  <2>2. QED
    BY <1>0, <1>3, <1>4, <2>1 DEF Stays
<1>6. /\ \A t, u \in Behind(c, R) : e_next'[t] = c /\ e_next'[u] = c => t = u
      /\ c # 2 \/ N \notin {4, 5} =>
           \A t \in Behind(c, R) : e_next'[t] = c => Reaches(t, c, nb)
  BY <1>0, <1>4 DEF Epoch, OldNetwork
<1>7. \A t \in Behind(c, R) : e_next[t] = c => t = n
  BY <1>0 DEF Epoch, OldNetwork
<1>8. SearchFrom(n, c, R, nb)'
  <2>1. \A t \in Behind(c, R) : ~WAIT'[t]
    BY <1>0, <1>1, <1>4 DEF Unnoticed
  <2>2. QED
    BY <1>1, <1>2, <2>1 DEF SearchFrom, Behind
<1>9. ASSUME NEW t \in Behind(c, R)
      PROVE  /\ pc'[t] # "reset"
             /\ e_next'[t] = c => pc'[t] = "search"
             /\ pc'[t] = "search" => SearchFrom(t, c, R, nb)'
  <2>1. CASE t = n
    BY <1>3, <1>8, <2>1
  <2>2. CASE t # n
    <3>1. pc'[t] = pc[t] /\ e_next'[t] = e_next[t] /\ e_next[t] # c
      BY <1>0, <1>3, <1>4, <1>7, <2>2
    <3>2. pc[t] \notin {"reset", "search"}
      BY <3>1 DEF Epoch, OldNetwork, Stays
    <3>3. QED
      BY <3>1, <3>2
  <2>3. QED
    BY <2>1, <2>2
<1>10. Rebuilding(c, R, turn, nb)'
  BY <1>1, <1>2, <1>9 DEF Rebuilding, Behind
<1>11. QED
  BY <1>3, <1>5, <1>6, <1>10 DEF Epoch, OldNetwork, Behind, Reaches

\* The search resets a node that it has not seen: none of the new network.
LEMMA EpochSearches ==
  ASSUME TypeOK, DetectionTypeOK, SearchTypeOK,
         NEW c \in Node, NEW R \in SUBSET (Node \ {c}), NEW turn \in [Node -> Nat], NEW nb,
         Epoch(c, R, turn, nb), NEW n \in Behind(c, R), ResetNode(n), Overtaken = {}
  PROVE  Epoch(c, R, turn, nb)'
<1>0. /\ n \in Node \ {c} /\ Behind(c, R) \subseteq Node \ {c} /\ Stays(n, c, nb)
      /\ pc[n] = "search" /\ e_next[n] = c
      /\ queue \in [Node -> Seq(Node)] /\ visited \in [Node -> SUBSET Node]
      /\ queue[n] \in Seq(Node) /\ queue[n] # <<>> /\ WAIT \in [Node -> BOOLEAN]
  BY DEF TypeOK, SearchTypeOK, Behind, Epoch, OldNetwork, Stays, ResetNode
<1>1. Rebuilding(c, R, turn, nb) /\ SearchFrom(n, c, R, nb)
  <2>1. ~Unnoticed(c, R)
    BY <1>0 DEF Unnoticed
  <2>2. QED
    BY <1>0, <2>1 DEF Epoch, OldNetwork, Rebuilding
<1>2. PICK t : t = Head(queue[n])
  OBVIOUS
<1>3. PICK seen : seen = visited[n] \cup {t}
  OBVIOUS
<1>4. PICK more : more = IF t \in up THEN AllEdges(t) ELSE <<>>
  OBVIOUS
<1>5. /\ UNCHANGED <<links, bootstrap, up, pc, loc, detection>>
      /\ WAIT' = [WAIT EXCEPT ![t] = TRUE]
      /\ visited'[n] = seen /\ queue'[n] = Without(Tail(queue[n]) \o more, seen)
  <2>1. ReadEdges(n, t) = {AllEdges(t)}
    BY DEF ReadEdges
  <2>2. QED
    BY <1>0, <1>2, <1>3, <1>4, <2>1 DEF ResetNode
<1>6. Elems(queue[n]) = {t} \cup Elems(Tail(queue[n])) /\ t \in Node
  BY <1>0, <1>2, TailElems, HeadTailProperties
<1>7. t \notin visited[n] /\ t \notin R
  BY <1>1, <1>6 DEF SearchFrom
<1>8. more \in Seq(Node) /\ (t # c => Elems(more) = nb[t])
  <2>1. AllEdges(t) \in Seq(Node) /\ Elems(AllEdges(t)) = Neighbours(t)
    BY <1>6, EdgesOf DEF TypeOK
  <2>2. CASE t = c
    BY <1>4, <2>2 DEF Epoch
  <2>3. CASE t # c
    <3>1. t \in Behind(c, R)
      BY <1>6, <1>7, <2>3 DEF Behind
    <3>2. Neighbours(t) = nb[t] /\ t \in up
      BY <1>6, <2>3, <3>1 DEF Epoch, OldNetwork, Stays
    <3>3. QED
      BY <1>4, <2>1, <3>2
  <2>4. QED
    BY <2>2, <2>3
<1>9. Elems(queue'[n]) = (Elems(Tail(queue[n])) \cup Elems(more)) \ seen
  <2>1. Elems(Without(Tail(queue[n]) \o more, seen)) =
          (Elems(Tail(queue[n])) \cup Elems(more)) \ seen
    BY <1>0, <1>8, SearchGoesOn
  <2>2. QED
    BY <1>5, <2>1
<1>10. SearchFrom(n, c, R, nb)'
  <2>1. R \subseteq visited'[n]
    BY <1>1, <1>3, <1>5 DEF SearchFrom
  <2>2. ASSUME NEW u \in Behind(c, R), WAIT'[u]  PROVE u \in visited'[n]
    <3>1. CASE u = t
      BY <1>3, <1>5, <3>1
    <3>2. CASE u # t
      <4>1. WAIT[u] /\ u \in Behind(c, R)
        BY <1>0, <1>5, <2>2, <3>2
      <4>2. QED
        BY <1>1, <1>3, <1>5, <4>1 DEF SearchFrom
    <3>3. QED
      BY <3>1, <3>2
  <2>3. Elems(queue'[n]) \cap visited'[n] = {}
    BY <1>5, <1>9
  <2>4. WAIT'[n]
    <3>1. CASE WAIT[n]
      BY <1>0, <1>5, <1>6, <3>1
    <3>2. CASE queue[n] = <<n>>
      <4>1. t = n
        BY <1>2, <3>2
      <4>2. QED
        BY <1>0, <1>5, <4>1
    <3>3. QED
      BY <1>1, <3>1, <3>2 DEF SearchFrom
  <2>5. ASSUME NEW u \in visited'[n] \ {c}
        PROVE  nb[u] \subseteq visited'[n] \cup Elems(queue'[n]) \cup {c}
    <3>1. CASE u = t
      BY <1>5, <1>8, <1>9, <2>5, <3>1
    <3>2. CASE u # t
      <4>1. u \in visited[n] \ {c}
        BY <1>3, <1>5, <2>5, <3>2
      <4>2. nb[u] \subseteq visited[n] \cup Elems(queue[n]) \cup {c}
        BY <1>1, <4>1 DEF SearchFrom
      <4>3. QED
        BY <1>3, <1>5, <1>6, <1>9, <4>2
    <3>3. QED
      BY <3>1, <3>2
  <2>6. QED
    BY <2>1, <2>2, <2>3, <2>4, <2>5 DEF SearchFrom, Behind
<1>11. /\ (up = Node \ {c})' /\ (pc[c] = "dead")'
       /\ Within(R)' /\ KidOnce(R)' /\ InTurn(R, turn)'
  <2>1. /\ Goto(n, "search") /\ "search" \in RunSteps \cup {"reset", "search"}
        /\ UNCHANGED <<links, loc, up>>
    BY <1>0, <1>5 DEF Goto, TypeOK, ControlTypeOK
  <2>2. \A m \in R : WAIT'[m] = WAIT[m]
    BY <1>0, <1>5, <1>7
  <2>3. QED
    BY <2>1, <2>2, MembersKept
<1>12. /\ \A u \in Node : e_next'[u] = e_next[u] /\ Neighbours(u)' = Neighbours(u)
       /\ UNCHANGED <<fail_cnt, lost, pc, last>>
       /\ \A u \in Node : WAIT[u] => WAIT'[u]
  BY <1>0, <1>5 DEF links, Neighbours, Children, detection, bootstrap
<1>13. ASSUME NEW u \in Behind(c, R)  PROVE Stays(u, c, nb)'
  <2>1. Stays(u, c, nb) /\ u \in Node
    BY <1>0, <1>13 DEF Epoch, OldNetwork
  <2>2. QED
    BY <1>12, <2>1 DEF Stays
<1>14. /\ \A v, u \in Behind(c, R) : e_next'[v] = c /\ e_next'[u] = c => v = u
       /\ c # 2 \/ N \notin {4, 5} =>
            \A u \in Behind(c, R) : e_next'[u] = c => Reaches(u, c, nb)
  BY <1>0, <1>12 DEF Epoch, OldNetwork
<1>15. ASSUME NEW u \in Behind(c, R)
       PROVE  /\ pc'[u] # "reset"
              /\ e_next'[u] = c => \/ pc'[u] = "search"
                                   \/ pc'[u] = "loop" /\ WAIT'[u] /\ fail_cnt'[u] <= lost'
              /\ pc'[u] = "search" => SearchFrom(u, c, R, nb)'
  <2>1. pc[u] = "search" => u = n
    BY <1>0, <1>15 DEF Epoch, OldNetwork, Stays
  <2>2. u \in Node
    BY <1>0
  <2>3. QED
    BY <1>1, <1>10, <1>12, <2>1, <2>2 DEF Rebuilding
<1>16. Rebuilding(c, R, turn, nb)'
  BY <1>1, <1>12, <1>15 DEF Rebuilding, Behind
<1>17. QED
  BY <1>11, <1>13, <1>14, <1>16 DEF Epoch, OldNetwork, Behind, Reaches

\* A search ends with nothing in its queue: it has seen its own node.
LEMMA SearchIsOver ==
  ASSUME NEW c \in Node, NEW R \in SUBSET (Node \ {c}), NEW turn \in [Node -> Nat], NEW nb,
         Epoch(c, R, turn, nb), NEW n \in Behind(c, R), FinishReset(n)
  PROVE  /\ Rebuilding(c, R, turn, nb) /\ e_next[n] = c
         /\ WAIT[n] /\ n \in visited[n]
         /\ \A t \in visited[n] \ {c} : nb[t] \ {c} \subseteq visited[n]
<1>1. n \in Node \ {c} /\ pc[n] = "search" /\ queue[n] = <<>> /\ e_next[n] = c
  BY DEF Behind, FinishReset, Epoch, OldNetwork, Stays
<1>2. Rebuilding(c, R, turn, nb) /\ SearchFrom(n, c, R, nb)
  <2>1. ~Unnoticed(c, R)
    BY <1>1 DEF Unnoticed
  <2>2. QED
    BY <1>1, <2>1 DEF Epoch, OldNetwork, Rebuilding
<1>3. <<n>> # <<>> /\ Elems(<<>>) = {}
  BY DEF Elems
<1>4. WAIT[n] /\ n \in visited[n]
  BY <1>1, <1>2, <1>3 DEF SearchFrom
<1>5. ASSUME NEW t \in visited[n] \ {c}  PROVE nb[t] \ {c} \subseteq visited[n]
  <2>1. visited[n] # {}
    BY <1>4
  <2>2. nb[t] \subseteq visited[n] \cup Elems(queue[n]) \cup {c}
    BY <1>2, <1>5, <2>1 DEF SearchFrom
  <2>3. QED
    BY <1>1, <1>3, <2>2
<1>6. QED
  BY <1>1, <1>2, <1>4, <1>5

LEMMA EpochFinishes ==
  ASSUME TypeOK, DetectionTypeOK, DetectionTypeOK',
         NEW c \in Node, NEW R \in SUBSET (Node \ {c}), NEW turn \in [Node -> Nat], NEW nb,
         Epoch(c, R, turn, nb), NEW n \in Behind(c, R), FinishReset(n)
  PROVE  Epoch(c, R, turn, nb)'
<1>0. /\ n \in Node \ {c} /\ Behind(c, R) \subseteq Node \ {c}
      /\ fail_cnt \in [Node -> 0 .. FailLimit + 1] /\ lost \in 0 .. MaxLost /\ MaxLost \in Nat
  BY FailoverAssumption DEF Behind, DetectionTypeOK
<1>1. Rebuilding(c, R, turn, nb) /\ e_next[n] = c /\ WAIT[n]
  BY SearchIsOver
<1>2. /\ Goto(n, "loop") /\ UNCHANGED <<links, loc, up, WAIT, lost, last>>
      /\ fail_cnt'[n] = 0 /\ fail_cnt'[n] <= lost'
      /\ \A m \in Node : m # n => fail_cnt'[m] = fail_cnt[m] /\ visited'[m] = visited[m]
      /\ UNCHANGED queue /\ pc[n] = "search"
  <2>1. fail_cnt'[n] = 0 /\ lost' = lost
    BY <1>0 DEF FinishReset
  <2>2. fail_cnt'[n] <= lost'
    BY <1>0, <2>1
  <2>3. QED
    BY <1>0, <2>1, <2>2 DEF FinishReset, ResetDone
<1>3. /\ (up = Node \ {c})' /\ (pc[c] = "dead")'
      /\ Within(R)' /\ KidOnce(R)' /\ InTurn(R, turn)'
      /\ pc'[n] = "loop" /\ \A m \in Node : m # n => pc'[m] = pc[m]
  <2>1. /\ Goto(n, "loop") /\ "loop" \in RunSteps \cup {"reset", "search"}
        /\ \A m \in R : WAIT'[m] = WAIT[m]
    BY <1>2 DEF RunSteps
  <2>2. QED
    BY <1>2, <2>1, MembersKept
<1>4. \A t \in Node : e_next'[t] = e_next[t] /\ Neighbours(t)' = Neighbours(t)
  BY <1>2 DEF links, Neighbours, Children
<1>5. ASSUME NEW t \in Behind(c, R)  PROVE Stays(t, c, nb)'
  <2>1. Stays(t, c, nb) /\ t \in Node
    BY <1>0, <1>5 DEF Epoch, OldNetwork
  <2>2. CASE t = n
    BY <1>1, <1>2, <1>3, <1>4, <2>1, <2>2 DEF Stays, RunSteps
  <2>3. CASE t # n
    BY <1>2, <1>3, <1>4, <2>1, <2>3 DEF Stays
  <2>4. QED
    BY <2>2, <2>3
<1>6. /\ \A t, u \in Behind(c, R) : e_next'[t] = c /\ e_next'[u] = c => t = u
      /\ c # 2 \/ N \notin {4, 5} =>
           \A t \in Behind(c, R) : e_next'[t] = c => Reaches(t, c, nb)
  BY <1>0, <1>4 DEF Epoch, OldNetwork
<1>7. ASSUME NEW t \in Behind(c, R)
      PROVE  /\ pc'[t] # "reset"
             /\ e_next'[t] = c => \/ pc'[t] = "search"
                                  \/ pc'[t] = "loop" /\ WAIT'[t] /\ fail_cnt'[t] <= lost'
             /\ pc'[t] = "search" => SearchFrom(t, c, R, nb)'
  <2>1. CASE t = n
    BY <1>1, <1>2, <1>3, <2>1
  <2>2. CASE t # n
    <3>1. /\ t \in Node /\ pc'[t] = pc[t] /\ e_next'[t] = e_next[t] /\ e_next[t] # c
          /\ pc[t] \notin {"search", "reset"}
      BY <1>0, <1>1, <1>3, <1>4, <1>7, <2>2 DEF Epoch, OldNetwork, Stays
    <3>2. QED
      BY <3>1
  <2>3. QED
    BY <2>1, <2>2
<1>8. Rebuilding(c, R, turn, nb)'
  <2>1. \A m \in R : m \in Node /\ m # n
    BY DEF Behind
  <2>2. QED
    BY <1>1, <1>2, <1>7, <2>1 DEF Rebuilding, Behind
<1>9. QED
  BY <1>3, <1>5, <1>6, <1>8 DEF Epoch, OldNetwork, Behind, Reaches

\* A reset node says hello again, after all others that have.
LEMMA TurnAdded ==
  ASSUME TypeOK, NEW R \in SUBSET Node, NEW turn \in [Node -> Nat], InTurn(R, turn),
         NEW n \in Node, n \notin R, NEW turn2 \in [Node -> Nat],
         \A m \in R : turn2[m] = turn[m] /\ turn[m] < turn2[n], turn2[n] # 0,
         WAIT[n], UNCHANGED WAIT, \A m \in Node : m # n => pc'[m] = pc[m] /\ loc'[m] = loc[m],
         \/ pc'[n] = "activate" /\ R = {}
         \/ pc'[n] = "info" /\ loc'[n].again /\ loc'[n].x \in R
            /\ turn2[n] = turn[loc'[n].x] + 1,
         \A m \in R : pc[m] = "info" => loc[m].x \in R
  PROVE  InTurn(R \cup {n}, turn2)'
<1> USE DEF JoinSteps, LinkSteps, RingSteps, AdoptSteps, LevelSteps, RunSteps
<1>1. \A m, h \in R \cup {n} : turn2[m] = turn2[h] => m = h
  BY DEF InTurn
<1>2. ASSUME NEW m \in R \cup {n}
      PROVE  /\ turn2[m] # 0
             /\ pc'[m] \in JoinSteps \cup RunSteps \cup {"activate"}
             /\ ~WAIT'[m] <=> pc'[m] \in RunSteps
             /\ pc'[m] = "info" => turn2[m] = turn2[loc'[m].x] + 1
             /\ pc'[m] \in JoinSteps => loc'[m].again
             /\ pc'[m] \in LinkSteps \cup RunSteps \cup {"activate"} =>
                  \A h \in R \cup {n} : turn2[h] < turn2[m] => pc'[h] \in RunSteps
  <2>1. CASE m = n
    BY <2>1
  <2>2. CASE m # n
    <3>1. m \in R /\ m \in Node /\ pc'[m] = pc[m] /\ loc'[m] = loc[m] /\ WAIT'[m] = WAIT[m]
      BY <1>2, <2>2
    <3>2. pc[m] = "info" => turn2[m] = turn2[loc[m].x] + 1
      BY <3>1 DEF InTurn
    <3>3. ASSUME pc[m] \in LinkSteps \cup RunSteps \cup {"activate"}, NEW h \in R \cup {n},
                 turn2[h] < turn2[m]
          PROVE  pc'[h] \in RunSteps
      <4>1. h \in R /\ h # n /\ turn[h] < turn[m]
        BY <3>1, <3>3
      <4>2. QED
        BY <3>1, <3>3, <4>1 DEF InTurn
    <3>4. QED
      BY <3>1, <3>2, <3>3 DEF InTurn
  <2>3. QED
    BY <2>1, <2>2
<1>3. QED
  BY <1>1, <1>2 DEF InTurn

LEMMA EpochGrows ==
  ASSUME TypeOK, DetectionTypeOK, SearchTypeOK,
         NEW c \in Node, NEW R \in SUBSET (Node \ {c}), NEW turn \in [Node -> Nat], NEW nb,
         Epoch(c, R, turn, nb), NEW n \in Behind(c, R), Rejoin(n)
  PROVE  \E R2 \in SUBSET (Node \ {c}), turn2 \in [Node -> Nat] : Epoch(c, R2, turn2, nb)'
<1>0. /\ pc \in [Node -> Steps] /\ loc \in [Node -> Locals] /\ LinksTypeOK
      /\ n \in Node \ {c} /\ n \notin R /\ Behind(c, R) \subseteq Node \ {c}
      /\ R \in SUBSET Node /\ Stays(n, c, nb)
  BY DEF TypeOK, ControlTypeOK, Behind, Epoch, OldNetwork
<1>1. pc[n] = "loop" /\ WAIT[n] /\ SayHello(n, FALSE) /\ UNCHANGED <<WAIT, up, detection, search>>
  BY DEF Rejoin, SayHello
<1>2. Rebuilding(c, R, turn, nb)
  <2>1. ~Unnoticed(c, R)
    BY <1>0, <1>1 DEF Unnoticed
  <2>2. QED
    BY <2>1 DEF Epoch, OldNetwork
<1>3. /\ last = None => R = {}
      /\ last # None => last \in R /\ \A m \in R : turn[m] <= turn[last]
  BY <1>2 DEF Rebuilding
<1>4. PICK R2 : R2 = R \cup {n}
  OBVIOUS
<1>5. PICK now \in Nat : now = IF last = None THEN 1 ELSE turn[last] + 1
  BY <1>0, <1>3
<1>6. PICK turn2 : turn2 = [turn EXCEPT ![n] = now]
  OBVIOUS
<1>7. /\ R2 \in SUBSET (Node \ {c}) /\ turn2 \in [Node -> Nat]
      /\ turn2[n] = now /\ now # 0
      /\ \A m \in R : turn2[m] = turn[m] /\ turn[m] < turn2[n]
  <2>1. /\ R2 \in SUBSET (Node \ {c}) /\ turn2 \in [Node -> Nat] /\ turn2[n] = now
        /\ \A m \in R : turn2[m] = turn[m]
    BY <1>0, <1>4, <1>5, <1>6
  <2>2. now # 0
    <3>1. last # None => turn[last] \in Nat
      BY <1>0, <1>3
    <3>2. QED
      BY <1>5, <3>1
  <2>3. ASSUME NEW m \in R  PROVE turn[m] < now
    <3>1. last \in R /\ turn[m] <= turn[last] /\ now = turn[last] + 1
      BY <1>3, <1>5, <2>3
    <3>2. turn[m] \in Nat /\ turn[last] \in Nat
      BY <1>0, <3>1
    <3>3. QED
      BY <3>1, <3>2
  <2>4. QED
    BY <2>1, <2>2, <2>3
<1>8. /\ \A m \in Node : m # n => pc'[m] = pc[m] /\ loc'[m] = loc[m]
      /\ \/ pc'[n] = "activate" /\ last = None
         \/ pc'[n] = "info" /\ loc'[n].again /\ loc'[n].x = last /\ last # None
      /\ last' = n
  <2>1. CASE last = None
    BY <1>0, <1>1, <2>1 DEF SayHello, Hello, Goto
  <2>2. CASE last # None
    <3>1. /\ pc' = [pc EXCEPT ![n] = "info"] /\ last' = n
          /\ loc' = [loc EXCEPT ![n].x = last, ![n].again = TRUE]
      BY <1>1, <2>2 DEF SayHello, Hello, Goto
    <3>2. loc'[n].again /\ loc'[n].x = last
      BY <1>0, <3>1 DEF Locals
    <3>3. QED
      BY <1>0, <2>2, <3>1, <3>2
  <2>3. QED
    BY <2>1, <2>2
<1>9. Within(R2)' /\ KidOnce(R2)'
  <2>1. Within(R) /\ KidOnce(R) /\ last \in R \cup {None} /\ FALSE \in BOOLEAN
    BY <1>3 DEF Epoch
  <2>2. Within(R \cup {n})' /\ KidOnce(R \cup {n})'
    BY <1>0, <1>1, <2>1, HelloWithin
  <2>3. QED
    BY <1>4, <2>2
<1>10. InTurn(R2, turn2)'
  <2>1. InTurn(R, turn) /\ \A m \in R : pc[m] = "info" => loc[m].x \in R
    BY DEF Epoch, Within, LocalsWithin, JoinSteps
  <2>2. \/ pc'[n] = "activate" /\ R = {}
        \/ pc'[n] = "info" /\ loc'[n].again /\ loc'[n].x \in R
           /\ turn2[n] = turn[loc'[n].x] + 1
    BY <1>3, <1>5, <1>7, <1>8
  <2>3. InTurn(R \cup {n}, turn2)'
    BY <1>0, <1>1, <1>7, <1>8, <2>1, <2>2, TurnAdded
  <2>4. QED
    BY <1>4, <2>3
<1>11. Behind(c, R2) = Behind(c, R) \ {n}
  BY <1>4 DEF Behind
<1>12. \A t \in Behind(c, R2) : /\ t \in Behind(c, R) /\ t \in Node /\ t # n
                                /\ pc'[t] = pc[t] /\ e_next'[t] = e_next[t]
                                /\ Neighbours(t)' = Neighbours(t)
  <2>1. ASSUME NEW t \in Behind(c, R2)
        PROVE  /\ t \in Behind(c, R) /\ t \in Node /\ t # n
               /\ pc'[t] = pc[t] /\ e_next'[t] = e_next[t] /\ Neighbours(t)' = Neighbours(t)
    <3>1. t \in Behind(c, R) /\ t \in Node /\ t # n
      BY <1>0, <1>11, <2>1
    <3>2. /\ e_next'[t] = e_next[t] /\ e_prev'[t] = e_prev[t]
          /\ e_parent'[t] = e_parent[t] /\ e_children'[t] = e_children[t]
      BY <1>0, <1>1, <3>1 DEF SayHello, LinksTypeOK
    <3>3. QED
      BY <1>8, <3>1, <3>2 DEF Neighbours, Children
  <2>2. QED
    BY <2>1
<1>13. UNCHANGED <<fail_cnt, lost, WAIT, queue, visited>>
  BY <1>1 DEF detection, search
<1>14. /\ \A t \in Behind(c, R2) : Stays(t, c, nb)'
       /\ \A t, u \in Behind(c, R2) : e_next'[t] = c /\ e_next'[u] = c => t = u
       /\ c # 2 \/ N \notin {4, 5} =>
            \A t \in Behind(c, R2) : e_next'[t] = c => Reaches(t, c, nb)
  <2>1. \A t \in Behind(c, R2) : Stays(t, c, nb) => Stays(t, c, nb)'
    BY <1>12, <1>13 DEF Stays
  <2>2. QED
    BY <1>12, <2>1 DEF Epoch, OldNetwork
<1>15. Rebuilding(c, R2, turn2, nb)'
  <2>1. last' # None
    BY <1>0, <1>8, NAssumption DEF Node, None
  <2>2. last' \in R2 /\ \A m \in R2 : turn2[m] <= turn2[n]
    BY <1>0, <1>4, <1>7, <1>8
  <2>3. \A m \in R2 : fail_cnt[m] <= lost
    <3>1. fail_cnt[n] <= lost
      BY <1>0, <1>1, <1>2 DEF Rebuilding, Stays
    <3>2. QED
      BY <1>2, <1>4, <3>1 DEF Rebuilding
  <2>4. ASSUME NEW t \in Behind(c, R2)
        PROVE  /\ pc'[t] # "reset"
               /\ e_next'[t] = c => \/ pc'[t] = "search"
                                    \/ pc'[t] = "loop" /\ WAIT'[t] /\ fail_cnt'[t] <= lost'
               /\ pc'[t] = "search" => SearchFrom(t, c, R2, nb)'
    <3>1. SearchFrom(t, c, R, nb) => SearchFrom(t, c, R2, nb)'
      <4>1. SUFFICES ASSUME SearchFrom(t, c, R, nb)  PROVE SearchFrom(t, c, R2, nb)'
        OBVIOUS
      <4>2. R2 \subseteq visited[t]
        BY <1>1, <1>4, <4>1 DEF SearchFrom
      <4>3. \A u \in Behind(c, R2) : WAIT[u] => u \in visited[t]
        BY <1>11, <4>1 DEF SearchFrom
      <4>4. QED
        BY <1>13, <4>1, <4>2, <4>3 DEF SearchFrom, Behind
    <3>2. QED
      BY <1>2, <1>12, <1>13, <3>1 DEF Rebuilding
  <2>5. QED
    BY <1>8, <1>13, <2>1, <2>2, <2>3, <2>4 DEF Rebuilding, Behind
<1>16. up' = Node \ {c} /\ pc'[c] = "dead"
  BY <1>0, <1>1, <1>8 DEF Epoch
<1>17. Epoch(c, R2, turn2, nb)'
  BY <1>9, <1>10, <1>14, <1>15, <1>16 DEF Epoch, OldNetwork, Behind, Reaches
<1>18. QED
  BY <1>7, <1>17

\* Everybody runs: the network is at rest, and its links are those of module Join.
LEMMA CalmNetwork ==
  ASSUME TypeOK, Peace, up = Node, AllRunning
  PROVE  /\ \E s \in Joins!Starts :
              Joins!Size(s, N) /\ Joins!Resting(s, N) /\ Joins!LinksTypeOK /\ N \in 0 .. N
         /\ \A t \in Node : e_next[t] \in Node /\ e_prev[e_next[t]] = t
<1>0. /\ Joins!TypeOK /\ Joins!Shape /\ Joins!Node = Node /\ N \in Nat \ {0} /\ Node = 0 .. N-1
      /\ Joins!LinksTypeOK
  BY JoinsTypes, NAssumption DEF Peace, Joins!Node, Node, Joins!TypeOK
<1>1. \A t \in Node : joinPc[t] = "run"
  BY DEF AllRunning, joinPc
<1>2. Joins!AtRest /\ Joins!Linked = Node
  BY <1>0, <1>1 DEF Joins!AtRest, Joins!Linked, Joins!LinkSteps, Joins!RingSteps,
     Joins!AdoptSteps, Joins!LevelSteps
<1>3. PICK s \in Joins!Starts, k \in 0 .. N :
        Joins!Linked = 0 .. k-1 /\ Joins!Size(s, k) /\ Joins!Resting(s, k)
  BY <1>0, <1>2, NAssumption, Joins!RestFacts
<1>4. k = N
  <2>1. N-1 \in 0 .. k-1
    BY <1>0, <1>2, <1>3
  <2>2. QED
    BY <1>0, <2>1
<1>5. Joins!RingsOf(0 .. k-1)
  BY <1>0, <1>3, NAssumption, Joins!RestRings
<1>6. QED
  BY <1>0, <1>3, <1>4, <1>5 DEF Joins!RingsOf

\* The crash of c: the others know each other, and only one of them has c for its
\* next node.
LEMMA CrashBegins ==
  ASSUME TypeOK, DetectionTypeOK, DetectionTypeOK', LockHeld, MissedAreLost, Peace, Calm,
         up = Node, NEW c \in Node, Crash(c)
  PROVE  \E R \in SUBSET (Node \ {c}), turn \in [Node -> Nat], nb \in [Node -> SUBSET Node] :
           Epoch(c, R, turn, nb)'
<1>0. /\ pc \in [Node -> Steps] /\ LinksTypeOK /\ WAIT \in [Node -> BOOLEAN]
      /\ fail_cnt \in [Node -> 0 .. FailLimit + 1] /\ lost \in 0 .. MaxLost /\ MaxLost \in Nat
      /\ None \notin Node
  BY FailoverAssumption DEF TypeOK, ControlTypeOK, DetectionTypeOK, None, Node
<1>1. /\ AllRunning /\ can_reset
      /\ \A t \in Node : pc[t] \in RunSteps /\ ~WAIT[t] /\ fail_cnt[t] <= lost
  <2>1. AllRunning
    BY DEF Crash, FailureAllowed
  <2>2. \A t \in Node : pc[t] \in RunSteps /\ ~WAIT[t]
    BY <2>1 DEF AllRunning, RunSteps
  <2>3. can_reset
    BY <2>2 DEF LockHeld, RunSteps
  <2>4. QED
    BY <2>1, <2>2, <2>3 DEF MissedAreLost
<1>2. PICK nb \in [Node -> SUBSET Node] : \A t \in Node : nb[t] = Neighbours(t)
  <2>1. \A t \in Node : Neighbours(t) \in SUBSET Node
    BY <1>0 DEF Neighbours, Children, LinksTypeOK, MaybeNode
  <2>2. [t \in Node |-> Neighbours(t)] \in [Node -> SUBSET Node]
    BY <2>1
  <2>3. QED
    BY <2>2
<1>3. PICK R \in SUBSET (Node \ {c}) : R = {}
  OBVIOUS
<1>4. PICK turn \in [Node -> Nat] : TRUE
  <2>1. [t \in Node |-> 0] \in [Node -> Nat]
    OBVIOUS
  <2>2. QED
    BY <2>1
<1>5. Behind(c, R) = Node \ {c}
  BY <1>3 DEF Behind
<1>6. /\ up' = Node \ {c} /\ pc'[c] = "dead"
      /\ UNCHANGED <<bootstrap, lost>>
      /\ e_children'[c] = <<>>
      /\ \A t \in Node \ {c} : /\ pc'[t] = pc[t] /\ WAIT'[t] = WAIT[t]
                               /\ fail_cnt'[t] = fail_cnt[t]
                               /\ e_next'[t] = e_next[t] /\ e_prev'[t] = e_prev[t]
                               /\ e_parent'[t] = e_parent[t]
                               /\ e_children'[t] = e_children[t]
  BY <1>0 DEF Crash, LinksTypeOK
<1>7. Within(R)' /\ KidOnce(R)' /\ InTurn(R, turn)'
  <2>1. \A t \in Node : Len(e_children[t]) <= 4 /\ Injective(e_children[t])
    BY DEF Peace, KidOnce, ListsApart
  <2>2. Len(<<>>) = 0 /\ Injective(<<>>)
    BY DEF Injective
  <2>3. \A t \in Node : Len(e_children'[t]) <= 4 /\ Injective(e_children'[t])
    BY <1>6, <2>1, <2>2
  <2>4. QED
    BY <1>3, <2>3 DEF Within, LinksWithin, KidOnce, ListsApart, InTurn
<1>8. ASSUME NEW t \in Node \ {c}  PROVE Stays(t, c, nb)'
  <2>1. Neighbours(t)' = nb[t]
    BY <1>2, <1>6, <1>8 DEF Neighbours, Children
  <2>2. QED
    BY <1>1, <1>6, <1>8, <2>1 DEF Stays, RunSteps
<1>9. \A t, u \in Node \ {c} : e_next'[t] = c /\ e_next'[u] = c => t = u
  BY <1>1, <1>6, CalmNetwork
<1>10. ASSUME c # 2 \/ N \notin {4, 5}, NEW d \in Node \ {c}, e_next'[d] = c
       PROVE  Reaches(d, c, nb)
  <2>1. PICK s \in Joins!Starts :
          Joins!Size(s, N) /\ Joins!Resting(s, N) /\ Joins!LinksTypeOK /\ N \in 0 .. N
    BY <1>1, CalmNetwork
  <2>2. SUFFICES ASSUME NEW V \in SUBSET Node, d \in V,
                        \A t \in V \ {c} : nb[t] \ {c} \subseteq V
                 PROVE  Node \ {c} \subseteq V
    BY DEF Reaches
  <2>3. \A t : Joins!Neighbours(t) = Neighbours(t)
    BY DEF Joins!Neighbours, Neighbours, Joins!Children, Children, Joins!None, None
  <2>4. \A t \in 0 .. N-1 : t \in V /\ t # c => Joins!Neighbours(t) \ {c} \subseteq V
    BY <1>2, <2>2, <2>3 DEF Node
  <2>5. c \in 0 .. N-1 /\ d \in 0 .. N-1 /\ d # c /\ e_next[d] = c
    BY <1>6, <1>10 DEF Node
  <2>6. (0 .. N-1) \ {c} \subseteq V
    BY <1>10, <2>1, <2>2, <2>4, <2>5, NAssumption, Joins!RestWithout
  <2>7. QED
    BY <2>6 DEF Node
<1>11. Unnoticed(c, R)'
  BY <1>1, <1>3, <1>6 DEF Unnoticed, RunSteps, bootstrap
<1>12. Epoch(c, R, turn, nb)'
  BY <1>5, <1>6, <1>7, <1>8, <1>9, <1>10, <1>11 DEF Epoch, OldNetwork, Behind, Reaches
<1>13. QED
  BY <1>12

\* No second node crashes.
LEMMA EpochStep ==
  ASSUME TypeOK, DetectionTypeOK, SearchTypeOK, NextExists, AdmittedAnswer, DetectionTypeOK',
         MaxLost < FailLimit, MaxCrashes <= 1, Overtaken = {}, [FNext]_fvars,
         NEW c \in Node, NEW R \in SUBSET (Node \ {c}), NEW turn \in [Node -> Nat], NEW nb,
         Epoch(c, R, turn, nb)
  PROVE  \E R2 \in SUBSET (Node \ {c}), turn2 \in [Node -> Nat] : Epoch(c, R2, turn2, nb)'
<1>0. /\ up = Node \ {c} /\ R \in SUBSET Node
      /\ \A n \in up : n \in R \/ n \in Behind(c, R)
  BY DEF Epoch, Behind
<1>1. /\ \A n \in R : pc[n] \in JoinSteps \cup RunSteps \cup {"activate"}
      /\ \A n \in Behind(c, R) : pc[n] \in RunSteps \cup {"reset", "search"}
  BY DEF Epoch, InTurn, OldNetwork, Stays
<1> USE DEF JoinSteps, LinkSteps, RingSteps, AdoptSteps, LevelSteps, RunSteps
<1>2. ASSUME NEW n \in Node, InnerStep(n) \/ AskInfo(n), FetchJobs(n) \/ n \in admitted,
             UNCHANGED <<detection, search>>
      PROVE  Epoch(c, R, turn, nb)'
  <2>1. AskInfo(n) => ~FetchJobs(n)
    BY DEF AskInfo, FetchJobs, Calls
  <2>2. AskInfo(n) => Answers(Callee(n))
    BY <1>2, <2>1, ServedAnswers DEF Request
  <2>3. QED
    BY <1>2, <2>2, EpochRequest
<1>3. ASSUME NEW n \in Node, Activate(n), UNCHANGED <<detection, search>>
      PROVE  Epoch(c, R, turn, nb)'
  <2>1. n \in R
    BY <1>0, <1>1, <1>3 DEF Activate
  <2>2. QED
    BY <1>3, <2>1, EpochMember
<1>4. ASSUME NEW n \in Node, PingOk(n) \/ PingFails(n) \/ Work(n)
      PROVE  Epoch(c, R, turn, nb)'
  <2>1. n \in R \/ n \in Behind(c, R)
    BY <1>0, <1>4 DEF PingOk, PingFails, Work
  <2>2. QED
    BY <1>4, <2>1, EpochMember, EpochLoops
<1>5. ASSUME NEW n \in Node, AskReset(n) \/ ResetNode(n) \/ FinishReset(n)
      PROVE  Epoch(c, R, turn, nb)'
  <2>1. n \in Behind(c, R)
    BY <1>0, <1>1, <1>5 DEF AskReset, ResetNode, FinishReset
  <2>2. QED
    BY <1>5, <2>1, EpochAsks, EpochSearches, EpochFinishes
<1>6. ASSUME NEW n \in Node, Rejoin(n)
      PROVE  \E R2 \in SUBSET (Node \ {c}), turn2 \in [Node -> Nat] : Epoch(c, R2, turn2, nb)'
  <2>1. n \notin R
    BY <1>6 DEF Rejoin, Epoch, InTurn
  <2>2. n \in Behind(c, R)
    BY <1>0, <1>6, <2>1 DEF Rejoin
  <2>3. QED
    BY <1>6, <2>2, EpochGrows
<1>7. ASSUME NEW n \in Node, Start(n) \/ RequestFails(n) \/ Crash(n)  PROVE FALSE
  <2>1. CASE Start(n)
    BY <1>0, <1>1, <2>1 DEF Start
  <2>2. CASE RequestFails(n)
    <3>1. n \in R /\ Callee(n) \notin up
      BY <1>0, <1>1, <2>2 DEF RequestFails
    <3>2. Callee(n) \in R
      BY <1>0, <2>2, <3>1, CalleeWithin DEF Epoch, RequestFails
    <3>3. QED
      BY <1>0, <3>1, <3>2
  <2>3. CASE Crash(n)
    <3>1. Node \ up = {c}
      BY <1>0
    <3>2. Cardinality(Node \ up) = 1
      BY <3>1, FS_Singleton
    <3>3. QED
      BY <2>3, <3>2, FailoverAssumption DEF Crash
  <2>4. QED
    BY <1>7, <2>1, <2>2, <2>3
<1> HIDE DEF JoinSteps, LinkSteps, RingSteps, AdoptSteps, LevelSteps, RunSteps
<1>8. CASE Quiet
  <2>1. UNCHANGED <<e_parent, e_prev, e_next, e_children, last, can_reset, WAIT, up, pc, loc,
                    fail_cnt, lost, queue, visited>>
    BY <1>8 DEF Quiet, vars, links, bootstrap, detection, search
  <2>2. Within(R)' /\ KidOnce(R)' /\ InTurn(R, turn)'
    <3>1. Within(R)' /\ InTurn(R, turn)'
      BY <2>1 DEF Epoch, Within, LinksWithin, LocalsWithin, InTurn
    <3>2. KidOnce(R)'
      BY <2>1 DEF Epoch, KidOnce, ListsApart, NotListed, KidsMoved
    <3>3. QED
      BY <3>1, <3>2
  <2>3. OldNetwork(c, R, turn, nb)'
    <3>1. \A t \in Behind(c, R) : t \in Node /\ Neighbours(t)' = Neighbours(t)
      BY <2>1 DEF Behind, Neighbours, Children
    <3>2. lost \in Int
      BY FailoverAssumption DEF DetectionTypeOK
    <3>3. OldNetwork(c, R, turn, nb) /\ UNCHANGED <<last, can_reset, search>>
      BY <2>1 DEF Epoch, search
    <3>4. lost <= lost' /\ \A n \in R : fail_cnt[n] <= lost => fail_cnt'[n] <= lost'
      BY <2>1, <3>2
    <3>5. QED
      BY <2>1, <3>1, <3>3, <3>4, OldKept
  <2>4. Epoch(c, R, turn, nb)'
    BY <2>1, <2>2, <2>3 DEF Epoch
  <2>5. QED
    BY <2>4
<1>9. QED
  BY <1>2, <1>3, <1>4, <1>5, <1>6, <1>7, <1>8, StepKinds
     DEF Moves, Request, InnerStep

\* After a crash the survivors are split into those that have said hello again and
\* the old network.
Aftermath ==
  up # Node =>
    \E c \in Node : \E R \in SUBSET (Node \ {c}), turn \in [Node -> Nat],
                       nb \in [Node -> SUBSET Node] : Epoch(c, R, turn, nb)

\* A search resets no node that has let a request in: whoever joins again asks nodes
\* that have said hello again, and the search has been there.
LEMMA SearchSpares ==
  ASSUME TypeOK, SearchTypeOK, MissedAreLost, Aftermath, AdmittedTypeOK,
         NEW d \in Node, ResetNode(d), NEW n \in admitted
  PROVE  Callee(n) # Head(queue[d])
<1>1. up # Node
  BY DEF MissedAreLost, ResetNode
<1>2. PICK c \in Node :
        \E R \in SUBSET (Node \ {c}), turn \in [Node -> Nat], nb \in [Node -> SUBSET Node] :
          Epoch(c, R, turn, nb)
  BY <1>1 DEF Aftermath
<1>3. PICK R \in SUBSET (Node \ {c}), turn \in [Node -> Nat],
           nb \in [Node -> SUBSET Node] : Epoch(c, R, turn, nb)
  BY <1>2
<1>4. n \in Node /\ pc[n] \in JoinSteps /\ n # c
  BY <1>3 DEF AdmittedTypeOK, TypeOK, Epoch
<1>5. "search" \notin JoinSteps \cup RunSteps \cup {"activate", "dead"}
      /\ \A s \in RunSteps \cup {"reset", "search"} : s \notin JoinSteps
  BY DEF RunSteps, JoinSteps, LinkSteps, RingSteps, AdoptSteps, LevelSteps
<1>6. Callee(n) \in R
  <2>1. n \in R
    BY <1>3, <1>4, <1>5 DEF Epoch, OldNetwork, Stays, Behind
  <2>2. QED
    BY <1>3, <1>4, <2>1, CalleeWithin DEF Epoch
<1>7. SearchFrom(d, c, R, nb)
  <2>1. pc[d] = "search"
    BY DEF ResetNode
  <2>2. d \in Behind(c, R)
    BY <1>3, <1>5, <2>1 DEF Epoch, InTurn, Behind
  <2>3. ~Unnoticed(c, R)
    BY <2>1, <2>2 DEF Unnoticed, Behind
  <2>4. QED
    BY <1>3, <2>1, <2>2, <2>3 DEF Epoch, OldNetwork, Rebuilding
<1>8. Head(queue[d]) \in Elems(queue[d])
  <2>1. queue[d] \in Seq(Node) /\ queue[d] # <<>>
    BY DEF SearchTypeOK, ResetNode
  <2>2. 1 \in DOMAIN queue[d] /\ Head(queue[d]) = queue[d][1]
    BY <2>1
  <2>3. QED
    BY <2>2 DEF Elems
<1>9. QED
  BY <1>6, <1>7, <1>8 DEF SearchFrom

LEMMA NextAftermath ==
  ASSUME TypeOK, DetectionTypeOK, SearchTypeOK, NextExists, MissedAreLost, LockHeld, Peace,
         Aftermath, AdmittedAnswer, DetectionTypeOK', Calm, MaxLost < FailLimit, MaxCrashes <= 1,
         Overtaken = {}, [FNext]_fvars
  PROVE  Peace' /\ Aftermath'
<1>1. Peace'
  <2>1. CASE up' = Node
    BY <2>1, NextPeace
  <2>2. CASE up' # Node
    BY <2>2 DEF Peace
  <2>3. QED
    BY <2>1, <2>2
<1>2. CASE up = Node
  <2>1. SUFFICES ASSUME up' # Node  PROVE Aftermath'
    BY <1>1 DEF Aftermath
  <2>2. PICK c \in Node : Crash(c)
    BY <1>2, <2>1, UpSame
  <2>3. QED
    BY <1>1, <1>2, <2>2, CrashBegins DEF Aftermath
<1>3. CASE up # Node
  <2>0. PICK c \in Node :
          \E R \in SUBSET (Node \ {c}), turn \in [Node -> Nat], nb \in [Node -> SUBSET Node] :
            Epoch(c, R, turn, nb)
    BY <1>3 DEF Aftermath
  <2>1. PICK R \in SUBSET (Node \ {c}), turn \in [Node -> Nat],
             nb \in [Node -> SUBSET Node] : Epoch(c, R, turn, nb)
    BY <2>0
  <2>2. PICK R2 \in SUBSET (Node \ {c}), turn2 \in [Node -> Nat] : Epoch(c, R2, turn2, nb)'
    BY <2>1, EpochStep
  <2>3. QED
    BY <1>1, <2>2 DEF Aftermath
<1>4. QED
  BY <1>2, <1>3

-----------------------------------------------------------------------------
(***************************************************************************)
(* One crash, between joins                                                *)
(***************************************************************************)
OnlyCrashable == Node \ up \subseteq Crashable

\* A network in which one node may crash, when nobody is joining.
OneCrash ==
  /\ NextExists /\ MissedAreLost /\ ResetLock /\ LockHeld /\ SearchTypeOK
  /\ Peace /\ Aftermath /\ OnlyCrashable
  /\ AdmittedTypeOK /\ AdmittedAnswer /\ JoiningWaits

LEMMA InitOneCrash == FInit => OneCrash
<1>1. SUFFICES ASSUME FInit  PROVE OneCrash
  OBVIOUS
<1>2. up = Node /\ Aftermath /\ OnlyCrashable
  BY <1>1 DEF FInit, Init, Aftermath, OnlyCrashable
<1>3. NextExists /\ MissedAreLost /\ SearchTypeOK
  BY <1>1, FailoverAssumption DEF FInit, Init, NextExists, MissedAreLost, SearchTypeOK
<1>4. ResetLock /\ LockHeld
  BY <1>1 DEF FInit, Init, BootstrapInit, LockHeld, ResetLock, OneReset
<1>5. AdmittedTypeOK /\ AdmittedAnswer /\ JoiningWaits
  BY <1>1 DEF FInit, Init, AdmittedTypeOK, AdmittedAnswer, JoiningWaits
<1>6. QED
  BY <1>1, <1>2, <1>3, <1>4, <1>5, InitPeace DEF OneCrash

LEMMA NextAdmittedAnswer ==
  ASSUME TypeOK, SearchTypeOK, MissedAreLost, Aftermath, AdmittedTypeOK, AdmittedAnswer, Calm,
         [FNext]_fvars
  PROVE  AdmittedAnswer'
<1>1. ASSUME NEW d \in Node, Crash(d)  PROVE admitted = {}
  <2>1. \A n \in up : pc[n] \notin JoinSteps
    BY <1>1 DEF Crash, FailureAllowed, AllRunning, JoinSteps, LinkSteps, RingSteps, AdoptSteps,
       LevelSteps
  <2>2. QED
    BY <2>1 DEF AdmittedTypeOK
<1>2. QED
  BY <1>1, SearchSpares, AdmittedStay

LEMMA NextOneCrash ==
  ASSUME TypeOK, DetectionTypeOK, OneCrash, DetectionTypeOK',
         Calm, MaxLost < FailLimit, MaxCrashes <= 1, Overtaken = {}, [FNext]_fvars
  PROVE  OneCrash'
<1>1. Peace' /\ Aftermath'
  BY NextAftermath DEF OneCrash
<1>2. NextExists' /\ MissedAreLost' /\ SearchTypeOK'
  BY NextNextExists, NextMissedAreLost, SearchTypes DEF OneCrash
<1>3. ResetLock' /\ LockHeld'
  BY NextResetLock, NextLockHeld DEF OneCrash
<1>4. OnlyCrashable'
  <2>1. CASE \E n \in Node : Crash(n)
    BY <2>1 DEF Crash, OneCrash, OnlyCrashable
  <2>2. CASE \A n \in Node : ~Crash(n)
    BY <2>2, UpSame DEF OneCrash, OnlyCrashable
  <2>3. QED
    BY <2>1, <2>2
<1>5. AdmittedTypeOK' /\ AdmittedAnswer' /\ JoiningWaits'
  BY NextAdmittedType, NextAdmittedAnswer, NextJoiningWaits DEF OneCrash
<1>6. QED
  BY <1>1, <1>2, <1>3, <1>4, <1>5 DEF OneCrash

LEMMA StaysOneCrash ==
  ASSUME Calm, MaxLost < FailLimit, MaxCrashes <= 1, Overtaken = {}
  PROVE  FSpec => []OneCrash
BY InitOneCrash, NextOneCrash, FailoverTypeCorrect, PTL DEF FSpec

LEMMA OneCrashMutex == ASSUME TypeOK, OneCrash  PROVE RejoinMutex
<1>1. SUFFICES ASSUME NEW m \in Node, NEW n \in Node, pc[m] \in LinkSteps, pc[n] \in LinkSteps
               PROVE  m = n
  BY DEF RejoinMutex
<1>2. CASE up = Node
  BY <1>1, <1>2, OneLinks DEF OneCrash, Peace
<1>3. CASE up # Node
  <2>1. PICK c \in Node :
          \E R \in SUBSET (Node \ {c}), turn \in [Node -> Nat], nb \in [Node -> SUBSET Node] :
            Epoch(c, R, turn, nb)
    BY <1>3 DEF OneCrash, Aftermath
  <2>2. PICK R \in SUBSET (Node \ {c}), turn \in [Node -> Nat],
             nb \in [Node -> SUBSET Node] : Epoch(c, R, turn, nb)
    BY <2>1
  <2>3. /\ "dead" \notin LinkSteps
        /\ \A s \in RunSteps \cup {"reset", "search"} : s \notin LinkSteps
    BY DEF RunSteps, LinkSteps, RingSteps, AdoptSteps, LevelSteps
  <2>4. \A t \in Node : pc[t] \in LinkSteps => t \in R
    BY <2>2, <2>3 DEF Epoch, OldNetwork, Stays, Behind
  <2>5. QED
    BY <1>1, <2>2, <2>4, TurnsExclude DEF Epoch
<1>4. QED
  BY <1>2, <1>3

\* Nodes that join again after a reset link themselves one at a time: in join() each
\* asks the node that said hello before it, and asks again until that one is no longer
\* waiting (node.cpp:614, node.hpp:630-638).  For one crash in a network at rest, in
\* which no worker overtakes a reset handler.
THEOREM RejoinsExclude ==
  ASSUME Calm, MaxLost < FailLimit, MaxCrashes <= 1, Overtaken = {}
  PROVE  FSpec => []RejoinMutex
BY OneCrashMutex, StaysOneCrash, FailoverTypeCorrect, PTL

\* While join() of a node runs nobody else writes its links, although no lock ties the
\* handlers' look at WAIT to what they write (node.cpp:176-188, 199-232): a search never
\* resets a node whose handler has let a request in.  For one crash in a network at rest,
\* in which no worker overtakes a reset handler.
THEOREM JoinerOwnsLinks ==
  ASSUME Calm, MaxLost < FailLimit, MaxCrashes <= 1, Overtaken = {}
  PROVE  FSpec => LinksOwnedWhileJoining
<1>1. ASSUME TypeOK, OneCrash, [FNext]_fvars
      PROVE  [\A n \in Node : pc[n] \in JoinSteps /\ pc'[n] = pc[n] =>
                LinksOfJoiner(n)' = LinksOfJoiner(n)]_fvars
  BY <1>1, StepOwned DEF OneCrash
<1>2. QED
  BY <1>1, StaysOneCrash, FailoverTypeCorrect, PTL DEF FSpec, LinksOwnedWhileJoining

LEMMA InjectiveLength ==
  ASSUME NEW S, NEW s \in Seq(S), Injective(s)  PROVE Len(s) = Cardinality(Elems(s))
<1>1. Len(s) \in Nat /\ DOMAIN s = 1 .. Len(s)
  OBVIOUS
<1>2. s \in Bijection(1 .. Len(s), Elems(s))
  <2>1. s \in [1 .. Len(s) -> Elems(s)]
    BY <1>1 DEF Elems
  <2>2. QED
    BY <1>1, <2>1 DEF Elems, Injective, Bijection, Injection, Surjection, IsInjective
<1>3. ExistsBijection(1 .. Len(s), Elems(s))
  BY <1>2 DEF ExistsBijection
<1>4. QED
  BY <1>1, <1>3, FS_CountingElements

LEMMA OneCrashChildren == ASSUME TypeOK, OneCrash  PROVE ChildrenBounded
<1>1. PICK R \in SUBSET Node : ListsApart(R)
  <2>1. CASE up = Node
    <3>1. ListsApart(Started) /\ Started \in SUBSET Node
      BY <2>1 DEF OneCrash, Peace, KidOnce, Started
    <3>2. PICK R : R = Started
      OBVIOUS
    <3>3. QED
      BY <3>1
  <2>2. CASE up # Node
    BY <2>2 DEF OneCrash, Aftermath, Epoch, KidOnce
  <2>3. QED
    BY <2>1, <2>2
<1>2. ASSUME NEW n \in Node
      PROVE  Len(e_children[n]) <= 4 /\ Len(e_children[n]) = Cardinality(Children(n))
  <2>1. e_children[n] \in Seq(Node)
    BY DEF TypeOK, LinksTypeOK
  <2>2. Len(e_children[n]) <= 4 /\ Injective(e_children[n])
    BY <1>1 DEF ListsApart
  <2>3. Children(n) = Elems(e_children[n])
    BY DEF Children, Elems
  <2>4. QED
    BY <2>1, <2>2, <2>3, InjectiveLength
<1>3. QED
  BY <1>2 DEF ChildrenBounded

\* However nodes join again after a crash, none has more than four children or one
\* child twice, although adopt appends without looking for it (node.cpp:211-233).  For
\* one crash in a network at rest, in which no worker overtakes a reset handler.
THEOREM ChildrenStayFew ==
  ASSUME Calm, MaxLost < FailLimit, MaxCrashes <= 1, Overtaken = {}
  PROVE  FSpec => []ChildrenBounded
BY OneCrashChildren, StaysOneCrash, FailoverTypeCorrect, PTL

LEMMA OneCrashSearch ==
  ASSUME TypeOK, OneCrash, 2 \notin Crashable \/ N \notin {4, 5}, [FNext]_fvars,
         NEW n \in Node, pc[n] = "search", pc'[n] = "loop"
  PROVE  up \subseteq visited[n]
<1>1. FinishReset(n)
  <2>0. pc \in [Node -> Steps]
    BY DEF TypeOK, ControlTypeOK
  <2>1. ASSUME NEW m \in Node, Start(m) \/ Moves(m) \/ RequestFails(m) \/ Rejoin(m)  PROVE FALSE
    <3>1. pc[m] # "search" /\ \E s : Goto(m, s)
      BY <2>1, JoinStepFrame
    <3>2. QED
      BY <2>0, <3>1 DEF Goto
  <2>2. ASSUME NEW m \in Node, m # n \/ pc[m] # "search",
               PingOk(m) \/ PingFails(m) \/ AskReset(m) \/ FinishReset(m) \/ Work(m) \/ Crash(m)
        PROVE  FALSE
    <3>1. m # n
      BY <2>2
    <3>2. PICK s : pc' = [pc EXCEPT ![m] = s]
      BY <2>2 DEF PingOk, PingFails, AskReset, FinishReset, Work, Crash, Goto
    <3>3. QED
      BY <2>0, <3>1, <3>2
  <2>3. ASSUME PingOk(n) \/ PingFails(n) \/ AskReset(n) \/ Work(n) \/ Crash(n)  PROVE FALSE
    BY <2>0, <2>3 DEF PingOk, PingFails, AskReset, Work, Crash
  <2>4. ASSUME Quiet \/ \E m \in Node : ResetNode(m)  PROVE FALSE
    BY <2>4 DEF Quiet, vars, ResetNode
  <2>5. QED
    BY <2>1, <2>2, <2>3, <2>4, StepKinds DEF Moves
<1>2. up # Node
  BY DEF OneCrash, MissedAreLost
<1>3. PICK c \in Node :
        \E R \in SUBSET (Node \ {c}), turn \in [Node -> Nat], nb \in [Node -> SUBSET Node] :
          Epoch(c, R, turn, nb)
  BY <1>2 DEF OneCrash, Aftermath
<1>4. PICK R \in SUBSET (Node \ {c}), turn \in [Node -> Nat],
           nb \in [Node -> SUBSET Node] : Epoch(c, R, turn, nb)
  BY <1>3
<1>5. up = Node \ {c} /\ c \in Crashable
  BY <1>4 DEF Epoch, OneCrash, OnlyCrashable
<1>6. n \in Behind(c, R)
  <2>1. n # c
    BY <1>4 DEF Epoch
  <2>2. "search" \notin JoinSteps \cup RunSteps \cup {"activate"}
    BY DEF RunSteps, JoinSteps, LinkSteps, RingSteps, AdoptSteps, LevelSteps
  <2>3. n \notin R
    BY <1>4, <2>2 DEF Epoch, InTurn
  <2>4. QED
    BY <2>1, <2>3 DEF Behind
<1>7. /\ e_next[n] = c /\ n \in visited[n]
      /\ \A t \in visited[n] \ {c} : nb[t] \ {c} \subseteq visited[n]
  BY <1>1, <1>4, <1>6, SearchIsOver
<1>8. Reaches(n, c, nb)
  BY <1>4, <1>5, <1>6, <1>7 DEF Epoch, OldNetwork
<1>9. visited[n] \in SUBSET Node
  BY DEF OneCrash, SearchTypeOK
<1>10. Node \ {c} \subseteq visited[n]
  BY <1>7, <1>8, <1>9 DEF Reaches
<1>11. QED
  BY <1>5, <1>10

\* The search of failover() finds every survivor along the links that the crash has
\* left to children, parents and ring neighbours (node.cpp:704-722).  Of four or five
\* nodes, those of the second level have no link to the first but through node 2.  For one
\* crash in a network at rest, in which no worker overtakes a reset handler.
THEOREM SearchesFindAll ==
  ASSUME Calm, MaxLost < FailLimit, MaxCrashes <= 1, Overtaken = {}, 2 \notin Crashable \/ N \notin {4, 5}
  PROVE  FSpec => SearchFindsAll
<1>1. ASSUME TypeOK, OneCrash, [FNext]_fvars
      PROVE  [\A n \in Node : pc[n] = "search" /\ pc'[n] = "loop" => up \subseteq visited[n]]_fvars
  BY <1>1, OneCrashSearch
<1>2. QED
  BY <1>1, StaysOneCrash, FailoverTypeCorrect, PTL DEF FSpec, SearchFindsAll

==============================================================================
