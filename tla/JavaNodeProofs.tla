--------------------------- MODULE JavaNodeProofs ----------------------------
(***************************************************************************)
(* Proofs about the Java nodes of module JavaNode, for every number of     *)
(* nodes, jobs and broadcasts, whichever nodes are asked for the data of   *)
(* jobs, as long as none has been asked before it was linked: data()       *)
(* releases the network lock of a joiner, and then a node may be linked to *)
(* one that is not yet.                                                    *)
(***************************************************************************)
EXTENDS JavaNode, TopologyProofs

-----------------------------------------------------------------------------
(***************************************************************************)
(* The inductive invariant                                                 *)
(***************************************************************************)
IsCast(r) ==
  /\ r = [step |-> r.step, at |-> r.at, view |-> r.view, queue |-> r.queue,
          seen |-> r.seen, members |-> r.members]
  /\ r.step \in {"idle", "read", "search", "failed", "done"}
  /\ r.at \in MaybeNode

JNTypes ==
  /\ LinksTypeOK
  /\ BootstrapTypeOK
  /\ status \in [Node -> BOOLEAN]
  /\ jobServerStatus \in [Node -> BOOLEAN]
  /\ pc \in [Node -> {"off", "run"} \cup Joining]
  /\ loc \in [Node -> Locals]
  /\ cast = [c \in Casts |-> cast[c]]
  /\ \A c \in Casts : IsCast(cast[c])

\* Each node joins at the one before it, which holds its network lock at least
\* until it is linked.
JoinOrder ==
  /\ last = uuid - 1
  /\ \A n \in Node :
       /\ pc[n] = "off" <=> n >= uuid
       /\ n = 0 => pc[n] = "off" \/ n \in Linked
       /\ pc[n] \in LinkSteps \cup {"edges"} => status[n]
       /\ pc[n] \in LinkSteps \cup {"edges"} => loc[n].contact = n - 1
       /\ pc[n] \in LinkSteps \/ n \in Linked => \A m \in 0 .. n-1 : m \in Linked

\* The edges a joiner follows exist.
EdgesExist ==
  \A n \in Node :
    /\ n \in Linked => e_prev[n] # None /\ e_next[n] # None
    /\ n \in Linked => e_next[n] \in Linked \/ pc[e_next[n]] = "set_prev"
    /\ e_parent[n] # None => e_parent[n] \in Linked
    /\ pc[n] = "info" =>
         /\ loc[n].how \in {"adopt", "set_next", "adopt_below"}
         /\ loc[n].how = "adopt" => loc[n].other \in Linked
    /\ pc[n] \in {"adopt", "adopt_redirected", "set_prev"} => loc[n].other \in Linked

\* Who works under the job lock of n.
Working == {"read", "search", "failed"}

Holds(c, n) == cast[c].step \in Working /\ cast[c].at = n

JobLock ==
  \A n \in Node :
    /\ \A c, d \in Casts : Holds(c, n) /\ Holds(d, n) => c = d
    /\ \A c \in Casts : Holds(c, n) => pc[n] # "fetch"
    /\ jobServerStatus[n] <=> pc[n] = "fetch" \/ \E c \in Casts : Holds(c, n)

CastAt == \A c \in Casts : cast[c].step \in Working => cast[c].at \in Node

JInv == JNTypes /\ JoinOrder /\ EdgesExist /\ JobLock /\ CastAt

-----------------------------------------------------------------------------
(***************************************************************************)
(* The order of the joins                                                  *)
(***************************************************************************)
LinkedSteps == {"lock_jobs", "fetch", "release", "run"}

LEMMA NodeFacts == /\ Node \subseteq Nat /\ None \notin Node
                   /\ \A n \in Node : n \in MaybeNode /\ 0 .. n-1 \subseteq Node
BY NAssumption DEF Node, MaybeNode, None

LEMMA LinkedFacts == /\ \A n \in Node : n \in Linked <=> pc[n] \in LinkedSteps
                     /\ Linked \subseteq Node
BY DEF Linked, LinkedSteps

LEMMA StepNames ==
  /\ LinkSteps \cap LinkedSteps = {} /\ "edges" \notin LinkSteps \cup LinkedSteps
  /\ "off" \notin LinkSteps \cup LinkedSteps \cup Joining
  /\ LinkSteps \subseteq Joining /\ "edges" \in Joining
  /\ {"lock_jobs", "fetch", "release"} \subseteq Joining
  /\ Joining \subseteq LinkSteps \cup LinkedSteps \cup {"edges"}
  /\ "run" \notin Joining
BY DEF LinkSteps, LinkedSteps, Joining

\* A node that links itself finds all earlier ones linked, and no other one
\* links itself.
LEMMA LinksAlone ==
  ASSUME JNTypes, JoinOrder, NEW n \in Node, pc[n] \in LinkSteps
  PROVE  /\ n # 0 /\ n - 1 \in Linked
         /\ loc[n].contact = n - 1
         /\ \A m \in Node : pc[m] \in LinkSteps => m = n
<1>1. n # 0
  BY StepNames, LinkedFacts DEF JoinOrder
<1>2. n \in Nat /\ n - 1 \in 0 .. n-1
  BY <1>1, NodeFacts
<1>3. n - 1 \in Linked /\ loc[n].contact = n - 1
  BY <1>2 DEF JoinOrder
<1>4. ASSUME NEW m \in Node, pc[m] \in LinkSteps, m # n
      PROVE  FALSE
  <2>1. m \in Nat /\ (m \in 0 .. n-1 \/ n \in 0 .. m-1)
    BY <1>2, <1>4, NodeFacts
  <2>2. m \in Linked \/ n \in Linked
    BY <1>4, <2>1 DEF JoinOrder
  <2>3. QED
    BY <1>4, <2>2, LinkedFacts, StepNames
<1>5. QED
  BY <1>1, <1>3, <1>4

\* A node whose network lock is free is linked, or has not started.
LEMMA FreeIsLinked ==
  ASSUME JNTypes, JoinOrder, NEW n \in Node, NetworkFree(n), pc[n] # "off"
  PROVE  n \in Linked
<1>1. ~status[n] /\ pc[n] \in {"off", "run"} \cup Joining
  BY DEF NetworkFree, JNTypes
<1>2. pc[n] \notin LinkSteps \cup {"edges"}
  BY <1>1 DEF JoinOrder
<1>3. QED
  BY <1>1, <1>2, LinkedFacts, StepNames DEF LinkedSteps

\* A joiner goes on to step s.
LEMMA JoinOrderStep ==
  ASSUME JNTypes, JoinOrder, NEW n \in Node, pc[n] \in Joining,
         NEW s \in {"run"} \cup Joining, Goto(n, s), UNCHANGED bootstrap,
         \A m \in Node \ {n} : loc'[m].contact = loc[m].contact,
         \A m \in Node \ {n} : status'[m] = status[m],
         s # "run" => status'[n] = status[n] \/ n = 0,
         s \in LinkSteps => loc'[n].contact = n - 1,
         s # "edges", n \in Linked => s \in LinkedSteps, n = 0 => s \in LinkedSteps,
         s \in LinkSteps \cup LinkedSteps => \A m \in 0 .. n-1 : m \in Linked
  PROVE  /\ JoinOrder'
         /\ Linked' = Linked \cup (IF s \in LinkedSteps THEN {n} ELSE {})
<1>1. pc' = [pc EXCEPT ![n] = s] /\ pc'[n] = s /\ \A m \in Node \ {n} : pc'[m] = pc[m]
  BY DEF Goto, JNTypes
<1>2. Linked' = Linked \cup (IF s \in LinkedSteps THEN {n} ELSE {})
  BY <1>1, LinkedFacts DEF Linked, LinkedSteps
<1>3. last' = last /\ uuid' = uuid
  BY DEF bootstrap
<1>4. ASSUME NEW m \in Node
      PROVE  /\ pc'[m] = "off" <=> m >= uuid'
             /\ m = 0 => pc'[m] = "off" \/ m \in Linked'
             /\ pc'[m] \in LinkSteps \cup {"edges"} => status'[m]
             /\ pc'[m] \in LinkSteps \cup {"edges"} => loc'[m].contact = m - 1
             /\ pc'[m] \in LinkSteps \/ m \in Linked' => \A k \in 0 .. m-1 : k \in Linked'
  <2>1. CASE m # n
    BY <1>1, <1>2, <1>3, <2>1 DEF JoinOrder
  <2>2. CASE m = n
    <3>1. pc[n] # "off" /\ s # "off"
      BY StepNames
    <3>2. s \in LinkSteps => status'[n]
      <4>1. SUFFICES ASSUME s \in LinkSteps  PROVE status'[n]
        OBVIOUS
      <4>2. n # 0 /\ n \notin Linked /\ s # "run"
        BY <4>1, StepNames
      <4>3. pc[n] \in LinkSteps \cup {"edges"}
        BY <4>2, LinkedFacts, StepNames
      <4>4. QED
        BY <4>2, <4>3 DEF JoinOrder
    <3>3. QED
      BY <1>1, <1>2, <1>3, <2>2, <3>1, <3>2, StepNames DEF JoinOrder
  <2>3. QED
    BY <2>1, <2>2
<1>5. QED
  BY <1>2, <1>3, <1>4 DEF JoinOrder


-----------------------------------------------------------------------------
(***************************************************************************)
(* The steps of a joiner                                                   *)
(***************************************************************************)
LEMMA NoLocalsType ==
  /\ NoLocals \in Locals
  /\ \A m \in MaybeNode : [NoLocals EXCEPT !.contact = m] \in Locals
  /\ \A m \in MaybeNode : [NoLocals EXCEPT !.other = m] \in Locals
BY DEF Locals, NoLocals, MaybeNode

LEMMA LocSet ==
  ASSUME JNTypes, NEW n \in Node, NEW l \in Locals, loc' = [loc EXCEPT ![n] = l]
  PROVE  /\ loc'[n] = l /\ loc' \in [Node -> Locals]
         /\ \A m \in Node \ {n} : loc'[m] = loc[m] /\ loc'[m].contact = loc[m].contact
BY DEF JNTypes

LEMMA TypesStep ==
  ASSUME JNTypes, NEW n \in Node, NEW s \in {"run"} \cup Joining, Goto(n, s),
         UNCHANGED <<bootstrap, cast>>, LinksTypeOK', status' \in [Node -> BOOLEAN],
         jobServerStatus' \in [Node -> BOOLEAN], loc' \in [Node -> Locals]
  PROVE  JNTypes'
BY DEF JNTypes, Goto, bootstrap, BootstrapTypeOK

LEMMA JobLockStep ==
  ASSUME JobLock, CastAt, NEW n \in Node, NEW s \in Joining \cup {"run"},
         pc \in [Node -> {"off", "run"} \cup Joining], Goto(n, s),
         s # "fetch", pc[n] # "fetch", UNCHANGED <<jobServerStatus, cast>>
  PROVE  JobLock' /\ CastAt'
<1>1. \A m \in Node : pc'[m] = "fetch" <=> pc[m] = "fetch"
  BY DEF Goto
<1>2. \A c \in Casts, m \in Node : Holds(c, m)' <=> Holds(c, m)
  BY DEF Holds
<1>3. QED
  BY <1>1, <1>2 DEF JobLock, CastAt

\* A step that changes no edges and links nobody.
LEMMA EdgesStep ==
  ASSUME JNTypes, EdgesExist, NEW n \in Node, NEW s \in {"run"} \cup Joining, Goto(n, s),
         pc[n] # "set_prev", UNCHANGED links, Linked' = Linked,
         \A m \in Node \ {n} : loc'[m] = loc[m],
         s = "info" => /\ loc'[n].how \in {"adopt", "set_next", "adopt_below"}
                       /\ loc'[n].how = "adopt" => loc'[n].other \in Linked,
         s \in {"adopt", "adopt_redirected", "set_prev"} => loc'[n].other \in Linked
  PROVE  EdgesExist'
<1>1. pc'[n] = s /\ \A m : m # n => pc'[m] = pc[m]
  BY DEF Goto, JNTypes
<1>2. UNCHANGED <<e_parent, e_prev, e_next, e_children>>
  BY DEF links
<1>3. QED
  BY <1>1, <1>2 DEF EdgesExist

\* A node that is linked has edges of nodes.
LEMMA LinkedEdges ==
  ASSUME JNTypes, EdgesExist, NEW m \in Linked
  PROVE  /\ m \in Node /\ e_prev[m] \in Node /\ e_next[m] \in Node
         /\ e_parent[m] # None => e_parent[m] \in Linked
BY LinkedFacts DEF EdgesExist, JNTypes, LinksTypeOK, MaybeNode

LEMMA AskEdgesInv ==
  ASSUME JInv, NEW n \in Node, AskEdges(n)
  PROVE  JInv'
<1> USE DEF JInv
<1> DEFINE x == loc[n].contact
           h == HowToJoin(x)
<1>1. pc[n] = "edges" /\ x = n - 1
  BY DEF AskEdges, JoinOrder
<1>2. n # 0 /\ x \in 0 .. n-1 /\ x \in Node
  <2>1. n # 0
    BY <1>1, LinkedFacts DEF JoinOrder, LinkedSteps
  <2>2. QED
    BY <1>1, <2>1, NodeFacts
<1>3. x \in Linked
  <2>1. pc[x] # "off"
    BY <1>1, <1>2, NodeFacts DEF JoinOrder, JNTypes, BootstrapTypeOK
  <2>2. QED
    BY <1>2, <2>1, FreeIsLinked DEF AskEdges
<1>4. \A m \in 0 .. n-1 : m \in Linked
  <2>1. ASSUME NEW m \in 0 .. n-1  PROVE m \in Linked
    <3>1. m = x \/ m \in 0 .. x-1
      BY <1>1, <1>2, NodeFacts
    <3>2. QED
      BY <1>2, <1>3, <3>1 DEF JoinOrder
  <2>2. QED
    BY <2>1
<1>5. /\ h \in {"adopt", "set_next", "adopt_below"}
      /\ h = "adopt" => e_parent[x] \in Linked
  BY <1>3, LinkedEdges, NodeFacts DEF HowToJoin
<1>6. /\ loc' = [loc EXCEPT ![n] = [loc[n] EXCEPT !.how = h, !.other = e_parent[x]]]
      /\ Goto(n, "info") /\ UNCHANGED <<links, bootstrap, locks, jobs, cast>>
  BY DEF AskEdges, JNTypes
<1>7. /\ loc'[n] \in Locals /\ loc'[n].contact = x /\ loc'[n].how = h
      /\ loc'[n].other = e_parent[x]
      /\ \A m \in Node \ {n} : loc'[m] = loc[m] /\ loc'[m].contact = loc[m].contact
      /\ loc' \in [Node -> Locals]
  <2>1. h \in {"none"} \cup Joining
    BY <1>5 DEF Joining
  <2>2. loc[n] \in Locals /\ e_parent[x] \in MaybeNode
    BY <1>2 DEF JNTypes, LinksTypeOK
  <2>3. PICK l : l = [loc[n] EXCEPT !.how = h, !.other = e_parent[x]]
    OBVIOUS
  <2>4. l \in Locals /\ l.contact = x /\ l.how = h /\ l.other = e_parent[x]
    <3> HIDE DEF h
    <3>1. QED
      BY <2>1, <2>2, <2>3 DEF Locals
  <2>5. QED
    BY <1>6, <2>3, <2>4, LocSet
<1>8. "info" \in Joining /\ "info" \in LinkSteps /\ "info" \notin LinkedSteps
  BY DEF Joining, LinkSteps, LinkedSteps
<1>9. n \notin Linked
  BY <1>1, LinkedFacts, StepNames
<1>10. JoinOrder' /\ Linked' = Linked
  <2>1. pc[n] \in Joining /\ status' = status
    BY <1>1, <1>6, StepNames DEF locks
  <2>2. "info" \in LinkSteps \cup LinkedSteps => \A m \in 0 .. n-1 : m \in Linked
    BY <1>4
  <2>3. QED
    BY <1>1, <1>2, <1>6, <1>7, <1>8, <1>9, <2>1, <2>2, JoinOrderStep
<1>11. EdgesExist'
  BY <1>1, <1>5, <1>6, <1>7, <1>8, <1>10, EdgesStep
<1>12. JNTypes'
  BY <1>6, <1>7, <1>8, TypesStep DEF locks, links, LinksTypeOK, JNTypes
<1>13. JobLock' /\ CastAt'
  BY <1>1, <1>6, <1>8, JobLockStep DEF locks, JNTypes
<1>14. QED
  BY <1>10, <1>11, <1>12, <1>13


LEMMA AskInfoInv ==
  ASSUME JInv, NEW n \in Node, AskInfo(n)
  PROVE  JInv'
<1> USE DEF JInv
<1> DEFINE h == loc[n].how
<1>1. /\ pc[n] = "info" /\ Goto(n, h)
      /\ UNCHANGED <<links, bootstrap, status, jobServerStatus, cast, loc>>
  BY DEF AskInfo, locks
<1>2. /\ h \in {"adopt", "set_next", "adopt_below"}
      /\ h = "adopt" => loc[n].other \in Linked
  BY <1>1 DEF EdgesExist
<1>3. /\ h \in Joining /\ h \in LinkSteps /\ h \notin LinkedSteps /\ "info" \in LinkSteps
      /\ h # "edges" /\ h # "run" /\ h # "info" /\ h # "fetch"
      /\ h \notin {"adopt_redirected", "set_prev"}
  BY <1>2 DEF Joining, LinkSteps, LinkedSteps
<1>4. /\ n # 0 /\ loc[n].contact = n - 1 /\ n \notin Linked
      /\ \A m \in 0 .. n-1 : m \in Linked
  BY <1>1, <1>3, LinksAlone, LinkedFacts, StepNames DEF JoinOrder
<1> HIDE DEF h
<1>5. JoinOrder' /\ Linked' = Linked
  <2>1. pc[n] \in Joining /\ h \in {"run"} \cup Joining /\ loc'[n].contact = n - 1
    BY <1>1, <1>3, <1>4, StepNames
  <2>2. \A m \in Node \ {n} : loc'[m].contact = loc[m].contact /\ status'[m] = status[m]
    BY <1>1
  <2>3. QED
    BY <1>1, <1>3, <1>4, <2>1, <2>2, JoinOrderStep
<1>6. EdgesExist'
  BY <1>1, <1>2, <1>3, <1>5, EdgesStep
<1>7. JNTypes'
  BY <1>1, <1>3, TypesStep DEF links, LinksTypeOK, JNTypes
<1>8. JobLock' /\ CastAt'
  BY <1>1, <1>3, JobLockStep DEF JNTypes
<1>9. QED
  BY <1>5, <1>6, <1>7, <1>8

\* What a step of a linking node n to s leaves of the invariant to be shown.
LEMMA LinkingStep ==
  ASSUME JInv, NEW n \in Node, pc[n] \in LinkSteps,
         NEW s \in LinkSteps \cup {"lock_jobs"}, Goto(n, s), LinksTypeOK',
         UNCHANGED <<bootstrap, status, jobServerStatus, cast>>,
         NEW l \in Locals, l.contact = n - 1, loc' = [loc EXCEPT ![n] = l],
         EdgesExist'
  PROVE  JInv'
<1> USE DEF JInv
<1>1. /\ n # 0 /\ n \notin Linked /\ pc[n] # "fetch" /\ pc[n] \in Joining
      /\ \A m \in 0 .. n-1 : m \in Linked
  BY LinksAlone, LinkedFacts, StepNames DEF JoinOrder, LinkSteps
<1>2. s \in Joining /\ s # "fetch" /\ s # "edges" /\ s # "run"
  BY StepNames DEF LinkSteps
<1>3. JNTypes'
  BY <1>2, LocSet, TypesStep DEF JNTypes
<1>4. JobLock' /\ CastAt'
  BY <1>1, <1>2, JobLockStep DEF JNTypes
<1>5. JoinOrder'
  BY <1>1, <1>2, LocSet, JoinOrderStep
<1>6. QED
  BY <1>3, <1>4, <1>5

\* What becomes of the linked nodes in such a step.
LEMMA LinkingFacts ==
  ASSUME JInv, NEW n \in Node, pc[n] \in LinkSteps,
         NEW s \in LinkSteps \cup {"lock_jobs"}, Goto(n, s)
  PROVE  /\ Linked' = Linked \cup (IF s = "lock_jobs" THEN {n} ELSE {})
         /\ n \notin Linked /\ n # 0 /\ n \in MaybeNode /\ n # None
         /\ pc'[n] = s /\ \A m : m # n => pc'[m] = pc[m]
         /\ \A m \in Node : m # n => pc[m] \notin {"info", "adopt", "adopt_redirected", "set_prev"}
         /\ \A m \in Linked : e_next[m] \in Linked \/ (e_next[m] = n /\ pc[n] = "set_prev")
         /\ loc[n].contact \in Linked /\ loc[n].contact = n - 1
         /\ loc[n] \in Locals
<1> USE DEF JInv
<1>1. /\ loc[n].contact \in Linked /\ loc[n].contact = n - 1 /\ n # 0 /\ n \notin Linked
      /\ \A m \in Node : pc[m] \in LinkSteps => m = n
  BY LinksAlone, LinkedFacts, StepNames
<1>2. pc'[n] = s /\ \A m : m # n => pc'[m] = pc[m]
  BY DEF Goto, JNTypes
<1>3. Linked' = Linked \cup (IF s = "lock_jobs" THEN {n} ELSE {})
  <2>1. s \in LinkedSteps <=> s = "lock_jobs"
    BY StepNames DEF LinkedSteps
  <2>2. QED
    BY <1>1, <1>2, <2>1 DEF Linked, LinkedSteps
<1>4. {"info", "adopt", "adopt_redirected", "set_prev"} \subseteq LinkSteps
  BY DEF LinkSteps
<1>5. \A m \in Linked : e_next[m] \in Linked \/ (e_next[m] = n /\ pc[n] = "set_prev")
  BY <1>1, <1>4, LinkedEdges DEF EdgesExist
<1>6. QED
  BY <1>1, <1>2, <1>3, <1>4, <1>5, NodeFacts DEF JNTypes


LEMMA AdoptBelowInv ==
  ASSUME JInv, NEW n \in Node, AdoptBelow(n)
  PROVE  JInv'
<1> USE DEF JInv
<1> DEFINE x == loc[n].contact
<1>1. /\ pc[n] = "adopt_below" /\ pc[n] \in LinkSteps /\ Goto(n, "lock_jobs")
      /\ UNCHANGED <<bootstrap, status, jobServerStatus, cast, loc>>
  BY DEF AdoptBelow, locks, LinkSteps
<1>2. /\ Linked' = Linked \cup {n}
      /\ n \notin Linked /\ n # 0 /\ n \in MaybeNode /\ n # None
      /\ pc'[n] = "lock_jobs" /\ \A m : m # n => pc'[m] = pc[m]
      /\ \A m \in Linked : e_next[m] \in Linked
      /\ x \in Linked /\ x = n - 1 /\ x \in Node
      /\ loc[n] \in Locals
      /\ \A m \in Node : m # n => pc[m] \notin {"info", "adopt", "adopt_redirected", "set_prev"}
  BY <1>1, LinkingFacts, LinkedFacts
<1>3. /\ e_children' = [e_children EXCEPT ![x] = Append(@, n)]
      /\ e_parent' = [e_parent EXCEPT ![n] = x]
      /\ e_prev'   = [e_prev EXCEPT ![n] = n]
      /\ e_next'   = [e_next EXCEPT ![n] = n]
  BY DEF AdoptBelow
<1>4. LinksTypeOK'
  BY <1>2, <1>3, NodeFacts DEF JNTypes, LinksTypeOK
<1>5. EdgesExist'
  BY <1>1, <1>2, <1>3 DEF EdgesExist, JNTypes, LinksTypeOK
<1>6. loc' = [loc EXCEPT ![n] = loc[n]]
  BY <1>1 DEF JNTypes
<1>7. QED
  BY <1>1, <1>2, <1>4, <1>5, <1>6, LinkingStep

LEMMA AskAdoptInv ==
  ASSUME JInv, NEW n \in Node, AskAdopt(n)
  PROVE  JInv'
<1> USE DEF JInv
<1> DEFINE t == loc[n].other
<1>1. /\ pc[n] \in {"adopt", "adopt_redirected"} /\ pc[n] \in LinkSteps
      /\ UNCHANGED <<bootstrap, status, jobServerStatus, cast>>
      /\ t \in Linked /\ t \in Node
  BY LinkedFacts DEF AskAdopt, locks, LinkSteps, EdgesExist
<1>2. /\ n \notin Linked /\ n # 0 /\ n \in MaybeNode /\ n # None
      /\ \A m \in Linked : e_next[m] \in Linked
      /\ loc[n] \in Locals /\ loc[n].contact = n - 1
      /\ \A m \in Node : m # n => pc[m] \notin {"info", "adopt", "adopt_redirected", "set_prev"}
  <2>1. PICK s \in LinkSteps : Goto(n, s)
    BY DEF AskAdopt, LinkSteps
  <2>2. QED
    BY <1>1, <2>1, LinkingFacts
<1>3. CASE Redirects(t, pc[n] = "adopt")
  <2>1. /\ Goto(n, "adopt_redirected") /\ UNCHANGED links
        /\ loc' = [loc EXCEPT ![n] = [loc[n] EXCEPT !.other = e_next[t]]]
    BY <1>3 DEF AskAdopt, JNTypes
  <2>2. "adopt_redirected" \in LinkSteps
    BY DEF LinkSteps
  <2>3. PICK l : l = [loc[n] EXCEPT !.other = e_next[t]]
    OBVIOUS
  <2>4. l \in Locals /\ l.contact = n - 1 /\ l.other = e_next[t] /\ e_next[t] \in Linked
    BY <1>1, <1>2, <2>3, LinkedFacts, NodeFacts DEF Locals
  <2>5. /\ Linked' = Linked /\ pc'[n] = "adopt_redirected" /\ \A m : m # n => pc'[m] = pc[m]
    BY <1>1, <2>1, <2>2, LinkingFacts
  <2>6. EdgesExist'
    BY <1>1, <2>1, <2>2, <2>3, <2>4, <2>5, StepNames, LocSet, EdgesStep
  <2>7. LinksTypeOK'
    BY <2>1 DEF links, LinksTypeOK, JNTypes
  <2>8. QED
    BY <1>1, <2>1, <2>2, <2>3, <2>4, <2>6, <2>7, LinkingStep
<1>4. CASE ~Redirects(t, pc[n] = "adopt")
  <2>1. /\ e_children' = [e_children EXCEPT ![t] = Append(@, n)]
        /\ e_parent'   = [e_parent EXCEPT ![n] = t]
        /\ Goto(n, "set_next")
        /\ UNCHANGED <<e_prev, e_next, loc>>
    BY <1>4 DEF AskAdopt
  <2>2. "set_next" \in LinkSteps
    BY DEF LinkSteps
  <2>3. Linked' = Linked /\ pc'[n] = "set_next" /\ \A m : m # n => pc'[m] = pc[m]
    <3>1. "set_next" \in LinkSteps \cup {"lock_jobs"} /\ "set_next" # "lock_jobs"
      BY <2>2
    <3>2. /\ Linked' = Linked \cup (IF "set_next" = "lock_jobs" THEN {n} ELSE {})
          /\ pc'[n] = "set_next" /\ \A m : m # n => pc'[m] = pc[m]
      BY <1>1, <2>1, <3>1, LinkingFacts
    <3>3. QED
      BY <3>1, <3>2
  <2>4. LinksTypeOK'
    BY <1>1, <1>2, <2>1, NodeFacts DEF JNTypes, LinksTypeOK
  <2>5. EdgesExist'
    BY <1>1, <1>2, <2>1, <2>3 DEF EdgesExist, JNTypes, LinksTypeOK
  <2>6. loc' = [loc EXCEPT ![n] = loc[n]]
    BY <2>1 DEF JNTypes
  <2>7. QED
    BY <1>1, <1>2, <2>1, <2>2, <2>4, <2>5, <2>6, LinkingStep
<1>5. QED
  BY <1>3, <1>4

LEMMA AskSetNextInv ==
  ASSUME JInv, NEW n \in Node, AskSetNext(n)
  PROVE  JInv'
<1> USE DEF JInv
<1> DEFINE x == loc[n].contact
<1>1. /\ pc[n] = "set_next" /\ pc[n] \in LinkSteps
      /\ UNCHANGED <<bootstrap, status, jobServerStatus, cast>>
  BY DEF AskSetNext, locks, LinkSteps
<1>2. /\ n \notin Linked /\ n # 0 /\ n \in MaybeNode /\ n # None
      /\ \A m \in Linked : e_next[m] \in Linked
      /\ loc[n] \in Locals /\ x = n - 1 /\ x \in Linked /\ x \in Node
      /\ \A m \in Node : m # n => pc[m] \notin {"info", "adopt", "adopt_redirected", "set_prev"}
  <2>1. PICK s \in LinkSteps \cup {"lock_jobs"} : Goto(n, s)
    BY DEF AskSetNext, LinkSteps
  <2>2. QED
    BY <1>1, <2>1, LinkingFacts, LinkedFacts
<1>3. e_next[x] \in Linked /\ e_next[x] # None /\ e_next[x] \in MaybeNode
  BY <1>2, LinkedFacts, NodeFacts
<1>4. /\ Goto(n, "set_prev")
      /\ e_next' = [e_next EXCEPT ![x] = n]
      /\ UNCHANGED <<e_parent, e_prev, e_children>>
      /\ loc' = [loc EXCEPT ![n] = [loc[n] EXCEPT !.other = e_next[x]]]
  BY <1>3 DEF AskSetNext, SetNext, JNTypes
<1>5. "set_prev" \in LinkSteps
  BY DEF LinkSteps
<1>6. PICK l : l = [loc[n] EXCEPT !.other = e_next[x]]
  OBVIOUS
<1>7. l \in Locals /\ l.contact = n - 1 /\ l.other = e_next[x]
  BY <1>2, <1>3, <1>6 DEF Locals
<1>8. /\ Linked' = Linked /\ pc'[n] = "set_prev" /\ \A m : m # n => pc'[m] = pc[m]
  BY <1>1, <1>4, <1>5, LinkingFacts
<1>9. LinksTypeOK'
  BY <1>2, <1>4 DEF JNTypes, LinksTypeOK
<1>10. loc'[n] = l /\ \A m \in Node \ {n} : loc'[m] = loc[m]
  BY <1>4, <1>6, <1>7, LocSet
<1>11. EdgesExist'
  BY <1>1, <1>2, <1>3, <1>4, <1>7, <1>8, <1>10 DEF EdgesExist, JNTypes, LinksTypeOK
<1>12. QED
  BY <1>1, <1>4, <1>5, <1>6, <1>7, <1>9, <1>11, LinkingStep

LEMMA AskSetPrevInv ==
  ASSUME JInv, NEW n \in Node, AskSetPrev(n)
  PROVE  JInv'
<1> USE DEF JInv
<1> DEFINE y == loc[n].other
           x == loc[n].contact
<1>1. /\ pc[n] = "set_prev" /\ pc[n] \in LinkSteps /\ Goto(n, "lock_jobs")
      /\ UNCHANGED <<bootstrap, status, jobServerStatus, cast, loc, e_parent, e_children>>
      /\ e_prev' = [e_prev EXCEPT ![y] = n, ![n] = x]
      /\ e_next' = [e_next EXCEPT ![n] = y]
      /\ y \in Linked /\ y \in Node
  BY LinkedFacts DEF AskSetPrev, locks, LinkSteps, EdgesExist
<1>2. /\ Linked' = Linked \cup {n}
      /\ n \notin Linked /\ n # 0 /\ n \in MaybeNode /\ n # None
      /\ pc'[n] = "lock_jobs" /\ \A m : m # n => pc'[m] = pc[m]
      /\ \A m \in Linked : e_next[m] \in Linked \/ e_next[m] = n
      /\ x \in Linked /\ x = n - 1 /\ x \in Node
      /\ loc[n] \in Locals
      /\ \A m \in Node : m # n => pc[m] \notin {"info", "adopt", "adopt_redirected", "set_prev"}
  BY <1>1, LinkingFacts, LinkedFacts
<1>3. LinksTypeOK'
  BY <1>1, <1>2, NodeFacts DEF JNTypes, LinksTypeOK
<1>4. EdgesExist'
  <2>1. \A m \in Linked' : e_next'[m] \in Linked' /\ e_next'[m] # None /\ e_prev'[m] # None
    BY <1>1, <1>2, NodeFacts, LinkedFacts DEF EdgesExist, JNTypes, LinksTypeOK
  <2>2. QED
    BY <1>1, <1>2, <2>1 DEF EdgesExist
<1>5. loc' = [loc EXCEPT ![n] = loc[n]]
  BY <1>1 DEF JNTypes
<1>6. QED
  BY <1>1, <1>2, <1>3, <1>4, <1>5, LinkingStep

-----------------------------------------------------------------------------
(***************************************************************************)
(* The steps of a node that is linked                                      *)
(***************************************************************************)
\* A joiner that is linked goes on to s.
LEMMA LinkedStep ==
  ASSUME JInv, NEW n \in Node, pc[n] \in {"lock_jobs", "fetch", "release"},
         NEW s \in {"fetch", "release", "run"}, Goto(n, s),
         UNCHANGED <<links, bootstrap, cast>>,
         NEW l \in Locals, loc' = [loc EXCEPT ![n] = l],
         status' \in [Node -> BOOLEAN], jobServerStatus' \in [Node -> BOOLEAN],
         \A m \in Node \ {n} : status'[m] = status[m],
         s # "run" => status'[n] = status[n]
  PROVE  JNTypes' /\ JoinOrder' /\ EdgesExist' /\ Linked' = Linked
<1> USE DEF JInv
<1>1. /\ n \in Linked /\ pc[n] \in Joining /\ pc[n] \notin {"set_prev"}
      /\ \A m \in 0 .. n-1 : m \in Linked
  BY LinkedFacts, StepNames DEF LinkedSteps, JoinOrder
<1>2. /\ s \in {"run"} \cup Joining /\ s \in LinkedSteps /\ s \notin LinkSteps /\ s # "edges"
      /\ s \notin {"info", "adopt", "adopt_redirected", "set_prev"}
  BY StepNames DEF LinkedSteps, LinkSteps
<1>3. JoinOrder' /\ Linked' = Linked
  <2>1. JoinOrder' /\ Linked' = Linked \cup {n}
    BY <1>1, <1>2, LocSet, JoinOrderStep
  <2>2. QED
    BY <1>1, <2>1
<1>4. EdgesExist'
  BY <1>1, <1>2, <1>3, LocSet, EdgesStep
<1>5. JNTypes'
  BY <1>2, LocSet, TypesStep DEF links, LinksTypeOK, JNTypes
<1>6. QED
  BY <1>3, <1>4, <1>5

LEMMA LockJobsInv ==
  ASSUME JInv, NEW n \in Node, LockJobs(n)
  PROVE  JInv'
<1> USE DEF JInv
<1>1. /\ pc[n] = "lock_jobs" /\ ~jobServerStatus[n]
      /\ jobServerStatus' = [jobServerStatus EXCEPT ![n] = e_next[n] # n]
      /\ UNCHANGED <<links, bootstrap, status, cast>>
  BY DEF LockJobs, JobsFree
<1>2. n \in Linked /\ e_next[n] \in Node /\ e_next[n] # None
  BY <1>1, LinkedFacts, LinkedEdges, NodeFacts DEF LinkedSteps
<1> DEFINE s == IF e_next[n] = n THEN "release" ELSE "fetch"
<1>3. Goto(n, s) /\ s \in {"fetch", "release", "run"} /\ s # "run"
  BY <1>2 DEF LockJobs
<1>4. PICK l : l = [NoLocals EXCEPT !.other = e_next[n]]
  OBVIOUS
<1>5. l \in Locals /\ loc' = [loc EXCEPT ![n] = l]
  BY <1>2, <1>4, NodeFacts, NoLocalsType DEF LockJobs
<1>6. JNTypes' /\ JoinOrder' /\ EdgesExist'
  <2>1. jobServerStatus' \in [Node -> BOOLEAN] /\ status' \in [Node -> BOOLEAN]
    BY <1>1 DEF JNTypes
  <2>2. \A m \in Node : status'[m] = status[m]
    BY <1>1
  <2> HIDE DEF s
  <2>3. QED
    BY <1>1, <1>3, <1>5, <2>1, <2>2, LinkedStep
<1>7. JobLock'
  <2>1. /\ pc'[n] = s /\ \A m \in Node \ {n} : pc'[m] = pc[m]
        /\ jobServerStatus'[n] = (s = "fetch")
        /\ \A m \in Node \ {n} : jobServerStatus'[m] = jobServerStatus[m]
    BY <1>1, <1>3 DEF Goto, JNTypes
  <2>2. \A c \in Casts, m \in Node : Holds(c, m)' <=> Holds(c, m)
    BY <1>1 DEF Holds
  <2>3. \A c \in Casts : ~Holds(c, n)
    BY <1>1 DEF JobLock
  <2> HIDE DEF s
  <2>4. /\ ~jobServerStatus[n] \/ pc[n] = "fetch"
        /\ jobServerStatus'[n] <=> pc'[n] = "fetch"
    BY <2>1, <2>3 DEF JobLock
  <2>5. QED
    BY <2>1, <2>2, <2>3, <2>4 DEF JobLock
<1>8. CastAt'
  BY <1>1 DEF CastAt
<1>9. QED
  BY <1>6, <1>7, <1>8

LEMMA FetchJobsInv ==
  ASSUME JInv, NEW n \in Node, FetchJobs(n)
  PROVE  JInv'
<1> USE DEF JInv
<1>1. /\ pc[n] = "fetch" /\ Goto(n, "release")
      /\ jobServerStatus' = [jobServerStatus EXCEPT ![n] = FALSE]
      /\ UNCHANGED <<links, bootstrap, status, cast, loc>>
  BY DEF FetchJobs
<1>2. loc[n] \in Locals /\ loc' = [loc EXCEPT ![n] = loc[n]]
  BY <1>1 DEF JNTypes
<1>3. JNTypes' /\ JoinOrder' /\ EdgesExist'
  <2>1. jobServerStatus' \in [Node -> BOOLEAN] /\ status' \in [Node -> BOOLEAN]
    BY <1>1 DEF JNTypes
  <2>2. \A m \in Node : status'[m] = status[m]
    BY <1>1
  <2>3. QED
    BY <1>1, <1>2, <2>1, <2>2, LinkedStep
<1>4. JobLock'
  <2>1. /\ pc'[n] = "release" /\ \A m \in Node \ {n} : pc'[m] = pc[m]
        /\ ~jobServerStatus'[n]
        /\ \A m \in Node \ {n} : jobServerStatus'[m] = jobServerStatus[m]
    BY <1>1 DEF Goto, JNTypes
  <2>2. \A c \in Casts, m \in Node : Holds(c, m)' <=> Holds(c, m)
    BY <1>1 DEF Holds
  <2>3. \A c \in Casts : ~Holds(c, n)
    BY <1>1 DEF JobLock
  <2>4. QED
    BY <2>1, <2>2, <2>3 DEF JobLock
<1>5. CastAt'
  BY <1>1 DEF CastAt
<1>6. QED
  BY <1>3, <1>4, <1>5

LEMMA ReleaseInv ==
  ASSUME JInv, NEW n \in Node, Release(n)
  PROVE  JInv'
<1> USE DEF JInv
<1>1. /\ pc[n] = "release" /\ Goto(n, "run")
      /\ status' = [status EXCEPT ![n] = FALSE]
      /\ loc' = [loc EXCEPT ![n] = NoLocals]
      /\ UNCHANGED <<links, bootstrap, jobServerStatus, cast>>
  BY DEF Release
<1>2. JNTypes' /\ JoinOrder' /\ EdgesExist'
  <2>1. jobServerStatus' \in [Node -> BOOLEAN] /\ status' \in [Node -> BOOLEAN]
        /\ \A m \in Node \ {n} : status'[m] = status[m]
    BY <1>1 DEF JNTypes
  <2>2. QED
    BY <1>1, <2>1, NoLocalsType, LinkedStep
<1>3. JobLock' /\ CastAt'
  BY <1>1, JobLockStep DEF JNTypes
<1>4. QED
  BY <1>2, <1>3

-----------------------------------------------------------------------------
(***************************************************************************)
(* The start of a node                                                     *)
(***************************************************************************)
LEMMA StartInv ==
  ASSUME JInv, NEW n \in Node, Start(n)
  PROVE  JInv'
<1> USE DEF JInv
<1>1. /\ pc[n] = "off" /\ n = uuid /\ n \in Nat
      /\ uuid' = uuid + 1 /\ last' = n
      /\ status' = [status EXCEPT ![n] = TRUE]
      /\ UNCHANGED <<jobServerStatus, cast>>
  BY NodeFacts DEF Start, Hello
<1>2. n \notin Linked /\ last = n - 1
  BY <1>1, LinkedFacts, StepNames DEF JoinOrder
<1> DEFINE s == IF n = 0 THEN "lock_jobs" ELSE "edges"
<1>3. /\ Goto(n, s) /\ s \in Joining /\ s # "fetch" /\ s \notin LinkSteps
      /\ s \in LinkedSteps <=> n = 0
  <2>1. last = None <=> n = 0
    BY <1>1, <1>2 DEF None
  <2>2. QED
    BY <2>1 DEF Start, Joining, LinkedSteps, LinkSteps
<1>4. /\ n # 0 => UNCHANGED links /\ loc' = [loc EXCEPT ![n] = [loc[n] EXCEPT !.contact = n - 1]]
      /\ n = 0 => /\ e_prev' = [e_prev EXCEPT ![n] = n]
                  /\ e_next' = [e_next EXCEPT ![n] = n]
                  /\ UNCHANGED <<e_parent, e_children, loc>>
  BY <1>1, <1>2 DEF Start, None, JNTypes
<1> HIDE DEF s
<1>5. /\ pc' = [pc EXCEPT ![n] = s] /\ pc'[n] = s /\ \A m \in Node \ {n} : pc'[m] = pc[m]
  BY <1>3 DEF Goto, JNTypes
<1>6. Linked' = Linked \cup (IF n = 0 THEN {n} ELSE {})
  <2>1. /\ \A m \in Node : m \in Linked' <=> pc'[m] \in LinkedSteps
        /\ Linked' \subseteq Node
    BY DEF Linked, LinkedSteps
  <2>2. \A m \in Node \ {n} : m \in Linked' <=> m \in Linked
    BY <1>5, <2>1, LinkedFacts
  <2>3. n \in Linked' <=> n = 0
    BY <1>3, <1>5, <2>1
  <2>4. QED
    BY <1>2, <2>1, <2>2, <2>3, LinkedFacts
<1>7. /\ loc' \in [Node -> Locals] /\ \A m \in Node \ {n} : loc'[m] = loc[m]
      /\ n # 0 => loc'[n].contact = n - 1
  <2>1. CASE n = 0
    BY <1>4, <2>1 DEF JNTypes
  <2>2. CASE n # 0
    <3>1. PICK l : l = [loc[n] EXCEPT !.contact = n - 1]
      OBVIOUS
    <3>2. n - 1 \in MaybeNode
      BY <1>1, <2>2, NAssumption DEF MaybeNode, Node
    <3>3. loc[n] \in Locals
      BY DEF JNTypes
    <3>4. l \in Locals /\ l.contact = n - 1
      BY <3>1, <3>2, <3>3 DEF Locals
    <3>5. QED
      BY <1>4, <2>2, <3>1, <3>4, LocSet
  <2>3. QED
    BY <2>1, <2>2
<1>8. JoinOrder'
  <2>1. last' = uuid' - 1
    BY <1>1
  <2>2. ASSUME NEW m \in Node
        PROVE  /\ pc'[m] = "off" <=> m >= uuid'
               /\ m = 0 => pc'[m] = "off" \/ m \in Linked'
               /\ pc'[m] \in LinkSteps \cup {"edges"} => status'[m]
               /\ pc'[m] \in LinkSteps \cup {"edges"} => loc'[m].contact = m - 1
               /\ pc'[m] \in LinkSteps \/ m \in Linked' => \A k \in 0 .. m-1 : k \in Linked'
    <3>1. CASE m # n
      <4>1. m \in Nat /\ (m >= uuid' <=> m >= uuid)
        BY <1>1, <3>1, NodeFacts
      <4>2. status'[m] = status[m] /\ (m \in Linked' <=> m \in Linked) /\ Linked \subseteq Linked'
        BY <1>1, <1>6, <3>1 DEF JNTypes
      <4>3. QED
        BY <1>5, <1>7, <3>1, <4>1, <4>2 DEF JoinOrder
    <3>2. CASE m = n
      <4>1. ~(n >= uuid') /\ s # "off"
        BY <1>1, <1>3, StepNames
      <4>2. status'[n] /\ (n \in Linked' <=> n = 0)
        BY <1>1, <1>2, <1>6 DEF JNTypes
      <4>3. s \in LinkSteps \cup {"edges"} => n # 0
        BY <1>3, StepNames DEF s
      <4>4. n = 0 => 0 .. n-1 = {}
        BY <1>1
      <4>5. QED
        BY <1>3, <1>5, <1>7, <3>2, <4>1, <4>2, <4>3, <4>4
    <3>3. QED
      BY <3>1, <3>2
  <2>3. QED
    BY <2>1, <2>2 DEF JoinOrder
<1>9. LinksTypeOK'
  <2>1. LinksTypeOK /\ n \in MaybeNode
    BY DEF JNTypes, MaybeNode
  <2>2. CASE n = 0
    <3>1. /\ e_prev' = [e_prev EXCEPT ![n] = n] /\ e_next' = [e_next EXCEPT ![n] = n]
          /\ e_parent' = e_parent /\ e_children' = e_children
      BY <1>4, <2>2
    <3>2. QED
      BY <2>1, <3>1 DEF LinksTypeOK
  <2>3. CASE n # 0
    BY <1>4, <2>1, <2>3 DEF LinksTypeOK, links
  <2>4. QED
    BY <2>2, <2>3
<1>10. JNTypes'
  <2>1. BootstrapTypeOK'
    BY <1>1, NAssumption DEF Start, Hello, BootstrapTypeOK, JNTypes, MaybeNode, Node
  <2>2. QED
    BY <1>1, <1>3, <1>5, <1>7, <1>9, <2>1 DEF JNTypes
<1>11. EdgesExist'
  <2>1. s \notin {"info", "adopt", "adopt_redirected", "set_prev"}
    BY <1>3 DEF LinkSteps
  <2>2. pc[n] # "set_prev"
    BY <1>1
  <2>3. CASE n = 0
    <3>1. n # None /\ n \in Linked'
      BY <1>6, <2>3, NodeFacts
    <3>2. QED
      BY <1>4, <1>5, <1>6, <1>7, <2>1, <2>2, <2>3, <3>1 DEF EdgesExist, JNTypes, LinksTypeOK
  <2>4. CASE n # 0
    <3>1. Linked' = Linked /\ UNCHANGED <<e_parent, e_prev, e_next>>
      BY <1>4, <1>6, <2>4 DEF links
    <3>2. QED
      BY <1>2, <1>5, <1>7, <2>1, <2>2, <3>1 DEF EdgesExist
  <2>5. QED
    BY <2>3, <2>4
<1>12. JobLock' /\ CastAt'
  BY <1>1, <1>3, JobLockStep DEF JNTypes
<1>13. QED
  BY <1>8, <1>10, <1>11, <1>12

-----------------------------------------------------------------------------
(***************************************************************************)
(* The broadcasts                                                          *)
(***************************************************************************)
\* A step of broadcast c leaves the links, the joins and the other broadcasts.
LEMMA CastStepTypes ==
  ASSUME JInv, NEW c \in Casts, NEW r, IsCast(r), cast' = [cast EXCEPT ![c] = r],
         r.step \in Working => r.at \in Node,
         UNCHANGED <<links, bootstrap, status, pc, loc>>,
         jobServerStatus' \in [Node -> BOOLEAN]
  PROVE  /\ JNTypes' /\ JoinOrder' /\ EdgesExist' /\ CastAt'
         /\ cast'[c] = r /\ \A d \in Casts \ {c} : cast'[d] = cast[d]
<1> USE DEF JInv
<1>1. /\ cast' = [d \in Casts |-> cast'[d]]
      /\ cast'[c] = r /\ \A d \in Casts \ {c} : cast'[d] = cast[d]
  BY DEF JNTypes
<1>2. Linked' = Linked
  BY DEF Linked
<1>3. JNTypes'
  BY <1>1 DEF JNTypes, IsCast, links, LinksTypeOK, bootstrap, BootstrapTypeOK
<1>4. JoinOrder'
  BY <1>2 DEF JoinOrder, bootstrap
<1>5. EdgesExist'
  BY <1>2 DEF EdgesExist, links
<1>6. CastAt'
  BY <1>1 DEF CastAt
<1>7. QED
  BY <1>1, <1>3, <1>4, <1>5, <1>6

LEMMA CastStartsInv ==
  ASSUME JInv, NEW c \in Casts, NEW a \in Entry, CastStarts(c, a)
  PROVE  JInv'
<1> USE DEF JInv
<1> DEFINE ms == IF a \in Members THEN Members ELSE {}
<1>1. a \in Node /\ ~jobServerStatus[a] /\ cast[c].step = "idle"
  BY JavaAssumption DEF CastStarts, JobsFree
<1>2. PICK r : r = [step |-> "read", at |-> a, view |-> Neighbours(a), queue |-> <<>>,
                    seen |-> {a}, members |-> ms]
  OBVIOUS
<1>3. /\ cast' = [cast EXCEPT ![c] = r]
      /\ jobServerStatus' = [jobServerStatus EXCEPT ![a] = TRUE]
      /\ UNCHANGED <<links, bootstrap, status, pc, loc>>
  BY <1>2 DEF CastStarts
<1> HIDE DEF ms
<1>4. IsCast(r) /\ r.step \in Working /\ r.at = a
  BY <1>1, <1>2, NodeFacts DEF IsCast, Working
<1>5. jobServerStatus' \in [Node -> BOOLEAN]
  BY <1>3 DEF JNTypes
<1>6. /\ JNTypes' /\ JoinOrder' /\ EdgesExist' /\ CastAt'
      /\ cast'[c] = r /\ \A d \in Casts \ {c} : cast'[d] = cast[d]
  BY <1>1, <1>3, <1>4, <1>5, CastStepTypes
<1>7. JobLock'
  <2>1. /\ \A n \in Node : Holds(c, n)' <=> n = a
        /\ \A n \in Node : ~Holds(c, n)
        /\ \A d \in Casts \ {c}, n \in Node : Holds(d, n)' <=> Holds(d, n)
    BY <1>1, <1>4, <1>6 DEF Holds, Working
  <2>2. /\ jobServerStatus'[a]
        /\ \A n \in Node \ {a} : jobServerStatus'[n] = jobServerStatus[n]
    BY <1>1, <1>3 DEF JNTypes
  <2>3. pc[a] # "fetch" /\ \A d \in Casts : ~Holds(d, a)
    BY <1>1 DEF JobLock
  <2>4. pc' = pc
    BY <1>3
  <2>5. QED
    BY <2>1, <2>2, <2>3, <2>4 DEF JobLock
<1>8. QED
  BY <1>6, <1>7

\* A broadcast that goes on, or fails, keeps the job lock of its node.
LEMMA CastGoesOn ==
  ASSUME JInv, NEW c \in Casts, NEW r, IsCast(r), cast' = [cast EXCEPT ![c] = r],
         cast[c].step \in Working, r.step \in Working, r.at = cast[c].at,
         UNCHANGED <<links, bootstrap, locks, pc, loc>>
  PROVE  JInv'
<1> USE DEF JInv
<1>1. UNCHANGED <<links, bootstrap, status, jobServerStatus, pc, loc>>
  BY DEF locks
<1>2. r.at \in Node /\ jobServerStatus' \in [Node -> BOOLEAN]
  BY <1>1 DEF CastAt, JNTypes
<1>3. /\ JNTypes' /\ JoinOrder' /\ EdgesExist' /\ CastAt'
      /\ cast'[c] = r /\ \A d \in Casts \ {c} : cast'[d] = cast[d]
  BY <1>1, <1>2, CastStepTypes
<1>4. \A d \in Casts, n \in Node : Holds(d, n)' <=> Holds(d, n)
  BY <1>3 DEF Holds
<1>5. JobLock'
  BY <1>1, <1>4 DEF JobLock
<1>6. QED
  BY <1>3, <1>5

\* What the handler may find when it reads the edges of its node a: at least the
\* old neighbours that a still has.
LEMMA ReadFacts ==
  ASSUME JInv, NEW c \in Casts, CastReads(c)
  PROVE  \E edges, r :
           /\ edges \in Seq(Node)
           /\ cast[c].step = "read" /\ cast[c].at \in Node
           /\ UNCHANGED <<links, bootstrap, locks, jobs, pc, loc>>
           /\ Neighbours(cast[c].at) \cap cast[c].view \subseteq Elems(edges)
           /\ IsCast(r) /\ cast' = [cast EXCEPT ![c] = r]
           /\ r.step = "search" /\ r.at = cast[c].at /\ r.view = {}
           /\ r.queue = Enqueue(<<>>, edges, {cast[c].at}).q
           /\ r.seen = Enqueue(<<>>, edges, {cast[c].at}).s
           /\ r.members = cast[c].members
<1> USE DEF JInv
<1> DEFINE a == cast[c].at
           all == AllEdges(a)
           gone == Neighbours(a) \ cast[c].view
<1>1. cast[c].step = "read" /\ a \in Node
      /\ UNCHANGED <<links, bootstrap, locks, jobs, pc, loc>>
  BY DEF CastReads, CastAt, Working
<1>2. all \in Seq(Node) /\ Elems(all) = Neighbours(a)
  BY <1>1, EdgesOf DEF JNTypes
<1>3. /\ Without(all, gone) \in Seq(Node)
      /\ Neighbours(a) \cap cast[c].view \subseteq Elems(Without(all, gone))
  <2> DEFINE rest == Without(all, gone)
  <2> HIDE DEF all, gone
  <2>1. rest \in Seq(Node \ gone) /\ Elems(rest) = Elems(all) \ gone
    BY <1>2, WithoutElems
  <2> HIDE DEF rest
  <2>2. rest \in Seq(Node)
    <3>1. Len(rest) \in Nat /\ rest = [i \in 1 .. Len(rest) |-> rest[i]]
      BY <2>1, LenProperties
    <3>2. \A i \in 1 .. Len(rest) : rest[i] \in Node
      BY <2>1, ElementOfSeq
    <3>3. QED
      BY <3>1, <3>2
  <2>3. QED
    BY <1>2, <2>1, <2>2 DEF gone, rest
<1>4. PICK edges \in {all, Without(all, gone)} :
        cast' = [cast EXCEPT ![c].step = "search", ![c].view = {},
                             ![c].queue = Enqueue(<<>>, edges, {a}).q,
                             ![c].seen = Enqueue(<<>>, edges, {a}).s]
  BY DEF CastReads
<1>5. edges \in Seq(Node) /\ Neighbours(a) \cap cast[c].view \subseteq Elems(edges)
  BY <1>2, <1>3, <1>4
<1>6. PICK q, v : q = Enqueue(<<>>, edges, {a}).q /\ v = Enqueue(<<>>, edges, {a}).s
  OBVIOUS
<1>7. PICK r : r = [cast[c] EXCEPT !.step = "search", !.view = {}, !.queue = q, !.seen = v]
  OBVIOUS
<1>8. cast' = [cast EXCEPT ![c] = r]
  <2>1. cast' = [cast EXCEPT ![c].step = "search", ![c].view = {}, ![c].queue = q, ![c].seen = v]
    BY <1>4, <1>6
  <2>2. QED
    BY <1>7, <2>1 DEF JNTypes
<1>9. IsCast(cast[c])
  BY DEF JNTypes
<1>10. /\ IsCast(r) /\ r.step = "search" /\ r.at = a /\ r.view = {} /\ r.queue = q
       /\ r.seen = v /\ r.members = cast[c].members
  BY <1>7, <1>9 DEF IsCast
<1>11. QED
  BY <1>1, <1>5, <1>6, <1>8, <1>10

LEMMA CastReadsInv ==
  ASSUME JInv, NEW c \in Casts, CastReads(c)
  PROVE  JInv'
<1>1. PICK r : /\ cast[c].step = "read" /\ UNCHANGED <<links, bootstrap, locks, pc, loc>>
               /\ IsCast(r) /\ cast' = [cast EXCEPT ![c] = r]
               /\ r.step = "search" /\ r.at = cast[c].at
  BY ReadFacts
<1>2. QED
  BY <1>1, CastGoesOn DEF Working

LEMMA FailFacts ==
  ASSUME JInv, NEW c \in Casts, CastFails(c)
  PROVE  \E r : /\ cast[c].step = "read"
                /\ UNCHANGED <<links, bootstrap, locks, jobs, pc, loc>>
                /\ IsCast(r) /\ cast' = [cast EXCEPT ![c] = r]
                /\ r.step = "failed" /\ r.at = cast[c].at /\ r.view = {}
                /\ r.queue = cast[c].queue /\ r.seen = cast[c].seen
                /\ r.members = cast[c].members
<1>1. PICK r : r = [cast[c] EXCEPT !.step = "failed", !.view = {}]
  OBVIOUS
<1>2. IsCast(cast[c])
  BY DEF JInv, JNTypes
<1>3. cast' = [cast EXCEPT ![c] = r]
  BY <1>1 DEF CastFails, JInv, JNTypes
<1>4. /\ IsCast(r) /\ r.step = "failed" /\ r.at = cast[c].at /\ r.view = {}
      /\ r.queue = cast[c].queue /\ r.seen = cast[c].seen /\ r.members = cast[c].members
  BY <1>1, <1>2 DEF IsCast
<1>5. cast[c].step = "read" /\ UNCHANGED <<links, bootstrap, locks, jobs, pc, loc>>
  BY DEF CastFails
<1>6. QED
  BY <1>3, <1>4, <1>5

LEMMA CastFailsInv ==
  ASSUME JInv, NEW c \in Casts, CastFails(c)
  PROVE  JInv'
<1>1. PICK r : /\ cast[c].step = "read" /\ UNCHANGED <<links, bootstrap, locks, pc, loc>>
               /\ IsCast(r) /\ cast' = [cast EXCEPT ![c] = r]
               /\ r.step = "failed" /\ r.at = cast[c].at
  BY FailFacts
<1>2. QED
  BY <1>1, CastGoesOn DEF Working

LEMMA CastVisitsInv ==
  ASSUME JInv, NEW c \in Casts, CastVisits(c)
  PROVE  JInv'
<1> USE DEF JInv
<1>1. PICK q, s : cast' = [cast EXCEPT ![c] = [cast[c] EXCEPT !.queue = q, !.seen = s]]
  <2> DEFINE t == Head(cast[c].queue)
             unknown == c[1] = "kill" /\ jobs[t][c[2]] = 0
             b == Enqueue(Tail(cast[c].queue), IF unknown THEN <<>> ELSE AllEdges(t),
                          cast[c].seen)
  <2>1. cast' = [cast EXCEPT ![c].queue = b.q, ![c].seen = b.s]
    BY DEF CastVisits
  <2> HIDE DEF b
  <2>2. PICK q, s : q = b.q /\ s = b.s
    OBVIOUS
  <2>3. cast' = [cast EXCEPT ![c] = [cast[c] EXCEPT !.queue = q, !.seen = s]]
    BY <2>1, <2>2 DEF JNTypes
  <2>4. QED
    BY <2>3
<1>2. PICK r : r = [cast[c] EXCEPT !.queue = q, !.seen = s]
  OBVIOUS
<1>3. IsCast(cast[c])
  BY DEF JNTypes
<1>4. IsCast(r) /\ r.step = cast[c].step /\ r.at = cast[c].at
  BY <1>2, <1>3 DEF IsCast
<1>5. cast[c].step = "search" /\ UNCHANGED <<links, bootstrap, locks, pc, loc>>
  BY DEF CastVisits
<1>6. cast' = [cast EXCEPT ![c] = r]
  BY <1>1, <1>2
<1>7. QED
  BY <1>4, <1>5, <1>6, CastGoesOn DEF Working

LEMMA CastEndsInv ==
  ASSUME JInv, NEW c \in Casts, CastEnds(c)
  PROVE  JInv'
<1> USE DEF JInv
<1> DEFINE a == cast[c].at
<1>1. a \in Node /\ Holds(c, a) /\ cast[c].step = "search"
  BY DEF CastEnds, CastAt, Holds, Working
<1>2. PICK r : r = [cast[c] EXCEPT !.step = "done", !.at = None, !.seen = {}]
  OBVIOUS
<1>3. /\ cast' = [cast EXCEPT ![c] = r]
      /\ jobServerStatus' = [jobServerStatus EXCEPT ![a] = FALSE]
      /\ UNCHANGED <<links, bootstrap, status, pc, loc>>
  BY <1>2 DEF CastEnds, JNTypes
<1>4. IsCast(cast[c])
  BY DEF JNTypes
<1>5. IsCast(r) /\ r.step = "done"
  BY <1>2, <1>4 DEF IsCast, MaybeNode
<1>6. r.step \notin Working /\ jobServerStatus' \in [Node -> BOOLEAN]
  BY <1>3, <1>5 DEF JNTypes, Working
<1>7. /\ JNTypes' /\ JoinOrder' /\ EdgesExist' /\ CastAt'
      /\ cast'[c] = r /\ \A d \in Casts \ {c} : cast'[d] = cast[d]
  BY <1>3, <1>5, <1>6, CastStepTypes
<1>8. JobLock'
  <2>1. /\ \A n \in Node : ~Holds(c, n)' /\ (Holds(c, n) <=> n = a)
        /\ \A d \in Casts \ {c}, n \in Node : Holds(d, n)' <=> Holds(d, n)
    BY <1>1, <1>6, <1>7 DEF Holds
  <2>2. /\ ~jobServerStatus'[a]
        /\ \A n \in Node \ {a} : jobServerStatus'[n] = jobServerStatus[n]
    BY <1>1, <1>3 DEF JNTypes
  <2>3. pc[a] # "fetch" /\ \A d \in Casts \ {c} : ~Holds(d, a)
    BY <1>1 DEF JobLock
  <2>4. pc' = pc
    BY <1>3
  <2>5. QED
    BY <2>1, <2>2, <2>3, <2>4 DEF JobLock
<1>9. QED
  BY <1>7, <1>8

\* No node is asked for data before it is linked.
LEMMA DataInv ==
  ASSUME JInv, NEW n \in Node, Data(n), early' = {}
  PROVE  JInv'
<1> USE DEF JInv
<1>1. /\ pc[n] \notin LinkSteps \cup {"edges"} /\ status' = [status EXCEPT ![n] = FALSE]
      /\ UNCHANGED <<links, bootstrap, jobServerStatus, pc, loc, cast>>
  BY DEF Data
<1>2. Linked' = Linked
  BY <1>1 DEF Linked
<1>3. JNTypes'
  BY <1>1 DEF JNTypes, links, LinksTypeOK, bootstrap, BootstrapTypeOK, IsCast
<1>4. JoinOrder'
  BY <1>1, <1>2 DEF JoinOrder, bootstrap, JNTypes
<1>5. EdgesExist'
  BY <1>1, <1>2 DEF EdgesExist, links
<1>6. JobLock' /\ CastAt'
  BY <1>1 DEF JobLock, CastAt, Holds
<1>7. QED
  BY <1>3, <1>4, <1>5, <1>6

-----------------------------------------------------------------------------
(***************************************************************************)
(* The invariant holds                                                     *)
(***************************************************************************)
LEMMA JNInitInv ==
  ASSUME JNInit  PROVE JInv
<1> USE DEF JNInit
<1>1. JNTypes
  <2>1. /\ None \in MaybeNode /\ NoLocals \in Locals
        /\ 0 \in 0 .. N
    BY NAssumption, NoLocalsType DEF MaybeNode
  <2>2. LinksTypeOK
    BY <2>1 DEF LinksInit, LinksTypeOK
  <2>3. BootstrapTypeOK
    BY <2>1, NAssumption DEF BootstrapInit, BootstrapTypeOK
  <2>4. QED
    BY <2>1, <2>2, <2>3 DEF JNTypes, IsCast
<1>2. Linked = {}
  BY DEF Linked
<1>3. JoinOrder
  BY <1>2, NodeFacts, StepNames DEF JoinOrder, BootstrapInit, None
<1>4. EdgesExist
  BY <1>2 DEF EdgesExist, LinksInit
<1>5. JobLock /\ CastAt
  BY DEF JobLock, CastAt, Holds, Working
<1>6. QED
  BY <1>1, <1>3, <1>4, <1>5 DEF JInv

LEMMA JNStep ==
  ASSUME JInv, [JNNext]_jnvars, early' = {}
  PROVE  JInv'
<1>1. ASSUME NEW n \in Node, JoinerStep(n)  PROVE JInv'
  BY <1>1, AskEdgesInv, AskInfoInv, AdoptBelowInv, AskAdoptInv, AskSetNextInv,
     AskSetPrevInv, LockJobsInv, FetchJobsInv, ReleaseInv DEF JoinerStep
<1>2. CASE UNCHANGED jnvars
  <2>1. UNCHANGED <<links, bootstrap, status, jobServerStatus, pc, loc, cast>>
    BY <1>2 DEF jnvars
  <2>2. Linked' = Linked
    BY <2>1 DEF Linked
  <2>3. QED
    BY <2>1, <2>2 DEF JInv, JNTypes, links, LinksTypeOK, bootstrap, BootstrapTypeOK, IsCast,
       JoinOrder, EdgesExist, JobLock, CastAt, Holds
<1>3. QED
  BY <1>1, <1>2, StartInv, DataInv, CastStartsInv, CastReadsInv, CastFailsInv, CastVisitsInv,
     CastEndsInv DEF JNNext, CastStep

\* What has been asked too early stays recorded.
LEMMA StaysEarly ==
  ASSUME [JNNext]_jnvars  PROVE early \subseteq early'
<1>1. ASSUME NEW n \in Node, Start(n) \/ JoinerStep(n) \/ Data(n)  PROVE early \subseteq early'
  BY <1>1 DEF Start, JoinerStep, AskEdges, AskInfo, AdoptBelow, AskAdopt, AskSetNext,
     AskSetPrev, LockJobs, FetchJobs, Release, Data
<1>2. ASSUME NEW c \in Casts, CastStep(c) \/ \E a \in Entry : CastStarts(c, a)
      PROVE  early \subseteq early'
  BY <1>2 DEF CastStep, CastReads, CastFails, CastVisits, CastEnds, CastStarts
<1>3. QED
  BY <1>1, <1>2 DEF JNNext, jnvars

\* As long as no unlinked node has been asked for data: the links, locks, steps and
\* broadcasts of the Java nodes keep their types, a node joins only when all earlier
\* ones are linked, the edges that a joiner follows exist, and every taken job lock
\* has one holder.
THEOREM JavaInvariant == JNSpec => [](Undisturbed => JInv)
<1>1. JNInit => JInv
  BY JNInitInv
<1>2. (Undisturbed => JInv) /\ [JNNext]_jnvars => (Undisturbed => JInv)'
  BY JNStep, StaysEarly DEF Undisturbed
<1>3. QED
  BY <1>1, <1>2, PTL DEF JNSpec

\* As long as no unlinked node has been asked for data, two joiners never link
\* themselves at the same time: the network lock of the contact keeps the second
\* out (NetworkJoiner.java:61).
THEOREM JoinersLinkAlone == JNSpec => []OneLinks
<1>1. (Undisturbed => JInv) => OneLinks
  BY LinksAlone DEF JInv, OneLinks
<1>2. QED
  BY <1>1, JavaInvariant, PTL

\* As long as no unlinked node has been asked for data, the job lock of a node is
\* taken exactly while one broadcast of the node, or its joiner, works under it,
\* though any thread could release it (Node.java, jobLock and jobLockRelease), and
\* for ever after a broadcast has failed to read the edges.
THEOREM JobLockHasOneOwner == JNSpec => []JobLockOwned
<1>1. ASSUME Undisturbed => JInv  PROVE JobLockOwned
  <2>1. SUFFICES ASSUME Undisturbed, NEW n \in Node
                 PROVE  Cardinality(JobLockOwners(n)) = IF jobServerStatus[n] THEN 1 ELSE 0
    BY DEF JobLockOwned
  <2>2. JobLock
    BY <1>1, <2>1 DEF JInv
  <2>3. JobLockOwners(n) = {c \in Casts : Holds(c, n)}
                             \cup (IF pc[n] = "fetch" THEN {<<"fetch", n>>} ELSE {})
    BY DEF JobLockOwners, Holds, Working
  <2>4. CASE pc[n] = "fetch"
    <3>1. jobServerStatus[n] /\ JobLockOwners(n) = {<<"fetch", n>>}
      BY <2>2, <2>3, <2>4 DEF JobLock
    <3>2. QED
      BY <3>1, FS_Singleton
  <2>5. CASE pc[n] # "fetch" /\ \E c \in Casts : Holds(c, n)
    <3>1. PICK c \in Casts : Holds(c, n)
      BY <2>5
    <3>2. jobServerStatus[n] /\ JobLockOwners(n) = {c}
      BY <2>2, <2>3, <2>5, <3>1 DEF JobLock
    <3>3. QED
      BY <3>2, FS_Singleton
  <2>6. CASE pc[n] # "fetch" /\ \A c \in Casts : ~Holds(c, n)
    <3>1. ~jobServerStatus[n] /\ JobLockOwners(n) = {}
      BY <2>2, <2>3, <2>6 DEF JobLock
    <3>2. QED
      BY <3>1, FS_EmptySet
  <2>7. QED
    BY <2>4, <2>5, <2>6
<1>2. QED
  BY <1>1, JavaInvariant, PTL

-----------------------------------------------------------------------------
(***************************************************************************)
(* The circles                                                             *)
(*                                                                         *)
(* As long as no level is split, the Java joiners give k linked nodes the  *)
(* links that module TopologyProofs describes.                             *)
(***************************************************************************)
\* Where the lower of the two circles starts when k nodes are linked.
Low(k) == IF k <= 3 THEN 0 ELSE 3

\* The edges of its contact send node k to its parent, to the last node of the
\* full first circle, or behind the last node of a circle that is not full.
Directed(s, k, how, other) ==
  /\ how = "adopt"            => s > 0 /\ other = Dad(s, k-1)
  /\ how = "adopt_redirected" => s > 0 /\ other = Dad(s, k)
  /\ how = "adopt_below"      => k = 3
  /\ how = "set_next"         => k \in {1, 2}

\* Node k has its parent, and the circle ends at k-1, whose next is z.
Opening(s, k, z) ==
  /\ k \notin {0, 3}
  /\ KidsAre(s, k+1) /\ ParentsAre(s, k+1)
  /\ RingsAbove(s) /\ NextsAre(s, k, z) /\ PrevsAre(s, k, k-1)

\* The links when node k is at step st of its joiner, with the local variables l.
LinksAt(s, k, st, l) ==
  /\ st \notin {"set_next", "set_prev"} => Resting(s, k)
  /\ st = "info" => Directed(s, k, l.how, l.other)
  /\ st \in {"adopt", "adopt_redirected", "adopt_below"} => Directed(s, k, st, l.other)
  /\ st = "set_next" => Opening(s, k, s)
  /\ st = "set_prev" => Opening(s, k, k) /\ l.other = s

ShapeAt(k) ==
  /\ Linked = 0 .. k-1
  /\ IF k \in Node THEN LinksAt(Low(k), k, pc[k], loc[k]) ELSE Resting(Low(k), k)

JShape == \E k \in 0 .. N : ShapeAt(k)

LEMMA LowFacts ==
  ASSUME NEW k \in 0 .. N
  PROVE  /\ Low(k) \in Starts /\ k \in Nat /\ Size(Low(k), k) /\ Low(k) <= k
         /\ k \in Node \/ k = N
         /\ k <= 3 => Low(k) = 0
         /\ k > 3 => Low(k) = 3
         /\ k \in Node => k + 1 \in 0 .. N /\ k < 11
         /\ k \in Node /\ k # 3 => Low(k+1) = Low(k)
         /\ Low(4) = 3
<1>1. 0 \in Starts /\ 3 \in Starts
  <2>1. 0 \in Starts /\ 2*0 + 3 \in Starts
    BY StartsClosed
  <2>2. QED
    BY <2>1
<1>2. k \in Nat /\ N \in Nat /\ N < 12
  BY NAssumption, JavaAssumption
<1>3. QED
  BY <1>1, <1>2 DEF Low, Size, Node

\* The node that links itself is the next one.
LEMMA NextLinks ==
  ASSUME JInv, NEW k \in 0 .. N, ShapeAt(k), NEW n \in Node, pc[n] \in LinkSteps
  PROVE  /\ n = k /\ k # 0 /\ loc[k].contact = k - 1 /\ k - 1 \in Node
         /\ LinksAt(Low(k), k, pc[k], loc[k])
         /\ Linked = 0 .. k-1
<1>1. n # 0 /\ n - 1 \in Linked /\ loc[n].contact = n - 1 /\ n \notin Linked
  BY LinksAlone, LinkedFacts, StepNames DEF JInv
<1>2. n \in Nat /\ k \in Nat /\ Linked = 0 .. k-1 /\ n - 1 \in Node
  BY <1>1, NodeFacts, LowFacts, LinkedFacts DEF ShapeAt
<1>3. n = k
  BY <1>1, <1>2
<1>4. QED
  BY <1>1, <1>2, <1>3 DEF ShapeAt

\* Steps that link nobody keep the shape.
LEMMA ShapeKept ==
  ASSUME JInv, JShape, UNCHANGED links, Linked' = Linked,
         \A n \in Node : pc[n] \in LinkSteps \/ pc'[n] \in LinkSteps =>
                           pc'[n] = pc[n] /\ loc'[n] = loc[n]
  PROVE  JShape'
<1>1. PICK k \in 0 .. N : ShapeAt(k)
  BY DEF JShape
<1>2. k \in Nat /\ Low(k) \in Starts
  BY <1>1, LowFacts
<1> DEFINE s == Low(k)
<1> HIDE DEF s
<1>3. /\ Resting(s, k) => Resting(s, k)'
      /\ \A z : Opening(s, k, z) => Opening(s, k, z)'
  <2>1. s \in Starts /\ k + 1 \in Nat
    BY <1>2 DEF s
  <2>2. QED
    BY <1>2, <2>1, RestUnchanged DEF Opening, RingsAbove, RingIs, NextsAre, PrevsAre, links
<1>4. CASE k \notin Node
  BY <1>1, <1>3, <1>4 DEF ShapeAt, JShape, s
<1>5. CASE k \in Node /\ pc[k] \notin LinkSteps
  <2>1. Resting(s, k) /\ pc'[k] \notin LinkSteps
    BY <1>1, <1>5 DEF ShapeAt, LinksAt, LinkSteps, s
  <2>2. LinksAt(s, k, pc[k], loc[k])'
    BY <1>3, <2>1 DEF LinksAt, LinkSteps
  <2>3. QED
    BY <1>1, <1>5, <2>2 DEF ShapeAt, JShape, s
<1>6. CASE k \in Node /\ pc[k] \in LinkSteps
  <2>1. pc'[k] = pc[k] /\ loc'[k] = loc[k] /\ LinksAt(s, k, pc[k], loc[k])
    BY <1>1, <1>6 DEF ShapeAt, s
  <2>2. LinksAt(s, k, pc[k], loc[k])'
    BY <1>3, <2>1 DEF LinksAt, Directed
  <2>3. QED
    BY <1>1, <1>6, <2>2 DEF ShapeAt, JShape, s
<1>7. QED
  BY <1>4, <1>5, <1>6

\* The next node goes from one of its steps to st.
LEMMA ShapeStep ==
  ASSUME NEW k \in Node, k \in 0 .. N, Linked = 0 .. k-1, Linked' = Linked,
         LinksAt(Low(k), k, pc[k], loc[k])'
  PROVE  JShape'
BY DEF JShape, ShapeAt

\* The next node is linked, and j are.
LEMMA ShapeLinked ==
  ASSUME NEW k \in Node, NEW j \in 0 .. N, j = k + 1, Linked = 0 .. k-1,
         Linked' = Linked \cup {k}, Resting(Low(j), j)',
         j \in Node => pc'[j] \notin LinkSteps
  PROVE  JShape'
<1>1. Linked' = 0 .. j-1
  BY NodeFacts
<1>2. j \in Node => LinksAt(Low(j), j, pc[j], loc[j])'
  <2>1. SUFFICES ASSUME j \in Node, pc'[j] \notin LinkSteps
                 PROVE  LinksAt(Low(j), j, pc[j], loc[j])'
    OBVIOUS
  <2>2. pc'[j] \notin {"info", "adopt", "adopt_redirected", "adopt_below", "set_next", "set_prev"}
    BY <2>1 DEF LinkSteps
  <2>3. QED
    BY <2>2 DEF LinksAt
<1>3. ShapeAt(j)'
  BY <1>1, <1>2 DEF ShapeAt
<1>4. QED
  BY <1>3 DEF JShape

\* What the edges of the last linked node say.
LEMMA EdgesOfLast ==
  ASSUME NEW k \in Node, k \in 0 .. N, k # 0, Resting(Low(k), k)
  PROVE  /\ e_parent[k-1] = IF k > 3 THEN Dad(3, k-1) ELSE None
         /\ k > 3 => e_parent[k-1] # None
         /\ e_next[k-1] = Low(k)
         /\ e_prev[k-1] = IF k - 1 = Low(k) THEN k - 1 ELSE k - 2
<1> DEFINE s == Low(k)
<1>1. k \in Nat /\ s \in Nat /\ s <= k - 1 /\ k - 1 \in Node /\ k - 1 \in s .. k-1
  BY LowFacts, NodeFacts, StartsClosed
<1>2. ParentsAre(s, k) /\ NextsAre(s, k, s) /\ PrevsAre(s, k, k-1)
  BY DEF Resting, RingIs
<1>3. e_parent[k-1] = Dad(s, k-1)
  BY <1>1, <1>2 DEF ParentsAre
<1>4. /\ e_next[k-1] = s
      /\ e_prev[k-1] = IF k - 1 = s THEN k - 1 ELSE k - 2
  BY <1>1, <1>2 DEF NextsAre, PrevsAre
<1>5. k <= 3 => Dad(s, k-1) = None
  BY <1>1, LowFacts DEF Dad, Home
<1>6. k > 3 => s = 3 /\ Dad(3, k-1) # None
  BY <1>1, LowFacts, HomeFacts, NodeFacts DEF Dad, Home, None
<1>7. QED
  BY <1>1, <1>3, <1>4, <1>5, <1>6, LowFacts

LEMMA AskEdgesShape ==
  ASSUME JInv, JShape, NEW n \in Node, AskEdges(n)
  PROVE  JShape'
<1> USE DEF JInv
<1>1. /\ pc[n] = "edges" /\ Goto(n, "info")
      /\ loc' = [loc EXCEPT ![n].how = HowToJoin(loc[n].contact),
                            ![n].other = e_parent[loc[n].contact]]
      /\ UNCHANGED links
  BY DEF AskEdges
<1>2. pc' = [pc EXCEPT ![n] = "info"] /\ pc'[n] = "info" /\ \A m \in Node \ {n} : pc'[m] = pc[m]
  BY <1>1 DEF Goto, JNTypes
<1>3. Linked' = Linked
  BY <1>1, <1>2, LinkedFacts DEF Linked
<1>4. PICK k \in 0 .. N : ShapeAt(k)
  BY DEF JShape
<1>5. n = k /\ k # 0 /\ k \in Node /\ loc[n].contact = k - 1
  <2>1. n \in Nat /\ k \in Nat /\ Linked = 0 .. k-1
    BY <1>4, NodeFacts, LowFacts DEF ShapeAt
  <2>2. n \notin Linked /\ n # 0 /\ loc[n].contact = n - 1
    BY <1>1, LinkedFacts, StepNames DEF JoinOrder
  <2>3. n - 1 \in Node /\ pc[n-1] # "off"
    <3>1. n - 1 \in 0 .. n-1 /\ n - 1 \in Node
      BY <2>1, <2>2, NodeFacts
    <3>2. uuid \in Nat /\ ~(n >= uuid)
      BY <1>1, NAssumption DEF JoinOrder, JNTypes, BootstrapTypeOK
    <3>3. ~(n - 1 >= uuid)
      BY <2>1, <3>2
    <3>4. QED
      BY <3>1, <3>3 DEF JoinOrder
  <2>4. n - 1 \in Linked
    BY <2>2, <2>3, FreeIsLinked DEF AskEdges
  <2>5. n = k
    BY <2>1, <2>2, <2>4
  <2>6. QED
    BY <2>2, <2>5
<1>6. Resting(Low(k), k) /\ Linked = 0 .. k-1
  BY <1>1, <1>4, <1>5 DEF ShapeAt, LinksAt
<1>7. /\ loc'[k].how = HowToJoin(k-1) /\ loc'[k].other = e_parent[k-1]
  BY <1>1, <1>5 DEF JNTypes, Locals
<1>8. Directed(Low(k), k, HowToJoin(k-1), e_parent[k-1])
  <2>1. k \in Nat /\ k - 1 \in Node /\ Low(k) \in Nat /\ e_next[k-1] = Low(k)
        /\ e_prev[k-1] = (IF k - 1 = Low(k) THEN k - 1 ELSE k - 2)
        /\ e_parent[k-1] = (IF k > 3 THEN Dad(3, k-1) ELSE None)
        /\ (k > 3 => e_parent[k-1] # None)
    BY <1>5, <1>6, EdgesOfLast, LowFacts, NodeFacts, StartsClosed
  <2>2. CASE k > 3
    <3>1. HowToJoin(k-1) = "adopt" /\ Low(k) = 3
      BY <2>1, <2>2, LowFacts DEF HowToJoin
    <3>2. QED
      BY <2>1, <2>2, <3>1 DEF Directed
  <2>3. CASE k \in {1, 2}
    <3>1. Low(k) = 0 /\ k <= 3 /\ ~(k > 3)
      BY <2>3, LowFacts
    <3>2. e_parent[k-1] = None /\ e_next[k-1] = 0 /\ e_prev[k-1] = 0
      BY <2>1, <2>3, <3>1
    <3>3. HowToJoin(k-1) = "set_next"
      BY <3>2 DEF HowToJoin, None
    <3>4. QED
      BY <2>3, <3>3 DEF Directed
  <2>4. CASE k = 3
    <3>1. Low(k) = 0 /\ e_parent[k-1] = None /\ e_next[k-1] = 0 /\ e_prev[k-1] = 1
      BY <2>1, <2>4, LowFacts
    <3>2. HowToJoin(k-1) = "adopt_below"
      BY <3>1 DEF HowToJoin, None
    <3>3. QED
      BY <2>4, <3>2 DEF Directed
  <2>5. QED
    BY <1>5, <2>1, <2>2, <2>3, <2>4
<1>9. Resting(Low(k), k)'
  BY <1>1, <1>6, LowFacts, RestUnchanged
<1>10. LinksAt(Low(k), k, pc[k], loc[k])'
  BY <1>2, <1>5, <1>7, <1>8, <1>9 DEF LinksAt, Directed
<1>11. QED
  BY <1>3, <1>5, <1>6, <1>10, ShapeStep

\* What is known of the next node when it makes a step of its own.
LEMMA NextStep ==
  ASSUME JInv, JShape, NEW n \in Node, pc[n] \in LinkSteps
  PROVE  /\ n \in 0 .. N /\ n \in Nat /\ n # 0 /\ loc[n].contact = n - 1 /\ n - 1 \in Node
         /\ Linked = 0 .. n-1 /\ LinksAt(Low(n), n, pc[n], loc[n])
         /\ Low(n) \in Starts /\ Low(n) \in Nat /\ Low(n) <= n - 1 /\ Size(Low(n), n)
         /\ n < 11 /\ n + 1 \in 0 .. N
         /\ LinksTypeOK /\ loc[n] \in Locals
         /\ n + 1 \in Node => pc[n+1] \notin LinkSteps
<1>1. PICK k \in 0 .. N : ShapeAt(k)
  BY DEF JShape
<1>2. /\ n = k /\ k # 0 /\ loc[k].contact = k - 1 /\ k - 1 \in Node
      /\ LinksAt(Low(k), k, pc[k], loc[k]) /\ Linked = 0 .. k-1
  BY <1>1, NextLinks
<1>3. LinksTypeOK /\ loc[n] \in Locals
  BY DEF JInv, JNTypes
<1>4. n + 1 \in Node => pc[n+1] \notin LinkSteps
  BY LinksAlone, NodeFacts DEF JInv
<1>5. /\ n \in Nat /\ Low(n) \in Starts /\ Low(n) \in Nat /\ Size(Low(n), n)
      /\ n < 11 /\ n + 1 \in 0 .. N /\ Low(n) <= n - 1
  BY <1>2, LowFacts, StartsClosed
<1>6. QED
  BY <1>2, <1>3, <1>4, <1>5

LEMMA AskInfoShape ==
  ASSUME JInv, JShape, NEW n \in Node, AskInfo(n)
  PROVE  JShape'
<1>1. pc[n] = "info" /\ Goto(n, loc[n].how) /\ UNCHANGED <<links, loc>>
  BY DEF AskInfo
<1>2. pc[n] \in LinkSteps
  BY <1>1 DEF LinkSteps
<1>3. /\ n \in 0 .. N /\ Linked = 0 .. n-1 /\ LinksAt(Low(n), n, pc[n], loc[n])
      /\ Low(n) \in Starts /\ Low(n) \in Nat /\ Low(n) <= n - 1 /\ n \in Nat /\ n # 0
  BY <1>2, NextStep
<1>4. loc[n].how \in {"adopt", "set_next", "adopt_below"}
  BY <1>1 DEF JInv, EdgesExist
<1>5. pc'[n] = loc[n].how /\ Linked' = Linked
  BY <1>1, <1>4, LinkedFacts DEF JInv, JNTypes, Goto, Linked
<1>6. Resting(Low(n), n) /\ Directed(Low(n), n, loc[n].how, loc[n].other)
  BY <1>1, <1>3 DEF LinksAt
<1>7. Resting(Low(n), n)'
  BY <1>1, <1>3, <1>6, RestUnchanged
<1>8. loc[n].how = "set_next" => Opening(Low(n), n, Low(n))'
  <2>1. SUFFICES ASSUME loc[n].how = "set_next"  PROVE Opening(Low(n), n, Low(n))'
    OBVIOUS
  <2>2. n \in {1, 2} /\ Low(n) = 0
    BY <1>3, <1>6, <2>1, LowFacts DEF Directed
  <2>3. Resting(0, n) /\ n < 3
    BY <1>6, <2>2
  <2>4. KidsAre(0, n+1) /\ ParentsAre(0, n+1)
    BY <1>3, <2>3, TopRing
  <2>5. KidsAre(0, n+1)' /\ ParentsAre(0, n+1)'
    BY <1>1, <1>3, <2>2, <2>4, RestUnchanged
  <2>6. QED
    BY <1>7, <2>2, <2>5 DEF Opening, Resting, RingIs
<1>9. LinksAt(Low(n), n, pc[n], loc[n])'
  BY <1>1, <1>4, <1>5, <1>6, <1>7, <1>8 DEF LinksAt, Directed
<1>10. QED
  BY <1>3, <1>5, <1>9, ShapeStep

LEMMA AdoptBelowShape ==
  ASSUME JInv, JShape, NEW n \in Node, AdoptBelow(n)
  PROVE  JShape'
<1>1. /\ pc[n] = "adopt_below" /\ Goto(n, "lock_jobs")
      /\ e_children' = [e_children EXCEPT ![n-1] = Append(@, n)]
      /\ e_parent' = [e_parent EXCEPT ![n] = n-1]
      /\ e_prev'   = [e_prev EXCEPT ![n] = n]
      /\ e_next'   = [e_next EXCEPT ![n] = n]
      /\ pc[n] \in LinkSteps
  <2>1. pc[n] \in LinkSteps
    BY DEF AdoptBelow, LinkSteps
  <2>2. QED
    BY <2>1, NextStep DEF AdoptBelow
<1>2. /\ n \in 0 .. N /\ Linked = 0 .. n-1 /\ LinksAt(Low(n), n, pc[n], loc[n])
      /\ n + 1 \in 0 .. N /\ LinksTypeOK /\ n \in Nat
      /\ n + 1 \in Node => pc[n+1] \notin LinkSteps
  BY <1>1, NextStep
<1>3. n = 3 /\ Low(n) = 0 /\ Resting(Low(n), n) /\ Low(4) = 3
  <2>1. n = 3 /\ Resting(Low(n), n)
    BY <1>1, <1>2 DEF LinksAt, Directed
  <2>2. QED
    BY <1>2, <2>1, LowFacts
<1>4. Linked' = Linked \cup {n} /\ pc'[n] = "lock_jobs" /\ \A m \in Node \ {n} : pc'[m] = pc[m]
  BY <1>1, LinkingFacts
<1>5. Resting(3, 4)'
  <2>1. /\ e_children' = [e_children EXCEPT ![2] = Append(e_children[2], 3)]
        /\ e_parent' = [e_parent EXCEPT ![3] = 2]
    BY <1>1, <1>3
  <2>2. /\ \A m \in Nat : m < 3 => e_next'[m] = e_next[m] /\ e_prev'[m] = e_prev[m]
        /\ e_next'[3] = 3 /\ e_prev'[3] = 3
    <3>1. \A m \in Nat : m < 3 => m \in Node /\ m # n
      BY <1>2, <1>3, NAssumption DEF Node
    <3>2. QED
      BY <1>1, <1>2, <1>3, <3>1 DEF LinksTypeOK
  <2>3. Resting(0, 3) /\ 3 \in Node
    BY <1>3
  <2>4. QED
    BY <1>2, <2>1, <2>2, <2>3, LevelOpened
<1>6. 4 = n + 1 /\ 4 \in 0 .. N /\ (4 \in Node => pc'[4] \notin LinkSteps)
  BY <1>2, <1>3, <1>4
<1>7. QED
  BY <1>2, <1>3, <1>4, <1>5, <1>6, ShapeLinked

\* The parent of the contact adopts the node, or names the one that will.
LEMMA AskAdoptShape ==
  ASSUME JInv, JShape, NEW n \in Node, AskAdopt(n)
  PROVE  JShape'
<1> DEFINE t == loc[n].other
           s == Low(n)
<1>1. /\ pc[n] \in {"adopt", "adopt_redirected"} /\ pc[n] \in LinkSteps
      /\ t \in Node
  BY LinkedFacts DEF AskAdopt, LinkSteps, EdgesExist, JInv
<1>2. /\ n \in 0 .. N /\ Linked = 0 .. n-1 /\ LinksAt(s, n, pc[n], loc[n])
      /\ s \in Starts /\ s \in Nat /\ s <= n - 1 /\ n \in Nat /\ n < 11
      /\ LinksTypeOK /\ loc[n] \in Locals
  BY <1>1, NextStep
<1>3. /\ Resting(s, n) /\ s > 0
      /\ pc[n] = "adopt" => t = Dad(s, n-1)
      /\ pc[n] = "adopt_redirected" => t = Dad(s, n)
  BY <1>1, <1>2 DEF LinksAt, Directed
<1>4. s = 3 /\ n > 3 /\ n <= 2*s + 4 /\ s < n
  BY <1>2, <1>3, LowFacts
<1> HIDE DEF s
<1>5. /\ KidsAre(s, n) /\ ParentsAre(s, n) /\ RingsAbove(s) /\ RingIs(s, n)
      /\ e_children[t] = KidSeq(s, n, t) /\ t \in Nat
  BY <1>1, <1>3, NodeFacts DEF Resting, KidsAre
<1>6. CASE Redirects(t, pc[n] = "adopt")
  <2>1. /\ Goto(n, "adopt_redirected") /\ UNCHANGED links
        /\ loc' = [loc EXCEPT ![n] = [loc[n] EXCEPT !.other = e_next[t]]]
        /\ pc[n] = "adopt" /\ Len(e_children[t]) = 2
    BY <1>6 DEF AskAdopt, JInv, JNTypes, Redirects
  <2>2. n <= 2*s + 3 /\ t = Home(n-1) /\ First(t) = n - 2
    <3>1. n <= 2*s + 5 /\ t = Dad(s, n-1) /\ Len(KidSeq(s, n, t)) = 2
      BY <1>2, <1>3, <1>4, <1>5, <2>1
    <3>2. QED
      BY <1>2, <1>3, <1>4, <3>1, KidsOfLast
  <2>3. e_next[t] = Dad(s, n)
    BY <1>2, <1>3, <1>4, <1>5, <2>2, RedirectTarget
  <2>4. loc'[n].other = Dad(s, n)
    BY <1>2, <2>1, <2>3 DEF JInv, JNTypes, Locals
  <2>5. pc'[n] = "adopt_redirected" /\ Linked' = Linked
    BY <1>1, <2>1, LinkedFacts DEF JInv, JNTypes, Goto, Linked
  <2>6. Resting(s, n)'
    BY <1>2, <1>3, <2>1, RestUnchanged
  <2>7. LinksAt(s, n, pc[n], loc[n])'
    BY <1>3, <2>4, <2>5, <2>6 DEF LinksAt, Directed
  <2>8. QED
    BY <1>2, <2>5, <2>7, ShapeStep DEF s
<1>7. CASE ~Redirects(t, pc[n] = "adopt")
  <2>1. /\ e_children' = [e_children EXCEPT ![t] = Append(e_children[t], n)]
        /\ e_parent'   = [e_parent EXCEPT ![n] = t]
        /\ Goto(n, "set_next")
        /\ UNCHANGED <<e_prev, e_next, loc>>
    BY <1>7 DEF AskAdopt
  <2>2. t = Dad(s, n)
    <3>1. CASE pc[n] = "adopt"
      <4>1. t = Dad(s, n-1) /\ Len(KidSeq(s, n, t)) # 2
        BY <1>3, <1>5, <1>7, <3>1 DEF Redirects
      <4>2. n <= 2*s + 5 /\ n # 2*s + 5
        BY <1>4, <1>2
      <4>3. Len(KidSeq(s, n, t)) # 4
        BY <1>2, <1>3, <1>4, <4>1, <4>2, KidsOfLast
      <4>4. QED
        BY <1>2, <1>3, <1>4, <4>1, <4>2, <4>3, KidsOfLast
    <3>2. QED
      BY <1>1, <1>3, <3>1
  <2>3. KidsAre(s, n+1)'
    <3> HIDE DEF t
    <3>1. s <= n /\ n <= 2*s + 4
      BY <1>2, <1>4
    <3>2. QED
      BY <1>1, <1>2, <1>3, <1>5, <2>1, <2>2, <3>1, KidAdded
  <2>4. ParentsAre(s, n+1)'
    BY <1>2, <1>5, <2>1, <2>2, ParentAdded
  <2>5. RingsAbove(s)' /\ NextsAre(s, n, s)' /\ PrevsAre(s, n, n-1)'
    BY <1>5, <2>1 DEF RingsAbove, RingIs, NextsAre, PrevsAre
  <2>6. Opening(s, n, s)'
    BY <1>4, <2>3, <2>4, <2>5 DEF Opening
  <2>7. pc'[n] = "set_next" /\ Linked' = Linked
    BY <1>1, <2>1, LinkedFacts DEF JInv, JNTypes, Goto, Linked
  <2>8. LinksAt(s, n, pc[n], loc[n])'
    BY <2>6, <2>7 DEF LinksAt
  <2>9. QED
    BY <1>2, <2>7, <2>8, ShapeStep DEF s
<1>8. QED
  BY <1>6, <1>7

LEMMA AskSetNextShape ==
  ASSUME JInv, JShape, NEW n \in Node, AskSetNext(n)
  PROVE  JShape'
<1> DEFINE s == Low(n)
<1>1. pc[n] = "set_next" /\ pc[n] \in LinkSteps
  BY DEF AskSetNext, LinkSteps
<1>2. /\ n \in 0 .. N /\ Linked = 0 .. n-1 /\ LinksAt(s, n, pc[n], loc[n])
      /\ s \in Starts /\ s \in Nat /\ s <= n - 1 /\ n \in Nat /\ loc[n].contact = n - 1
      /\ LinksTypeOK /\ loc[n] \in Locals /\ n - 1 \in Node
  BY <1>1, NextStep
<1>3. /\ n \notin {0, 3} /\ KidsAre(s, n+1) /\ ParentsAre(s, n+1)
      /\ RingsAbove(s) /\ NextsAre(s, n, s) /\ PrevsAre(s, n, n-1)
  BY <1>1, <1>2 DEF LinksAt, Opening
<1> HIDE DEF s
<1>4. /\ e_next' = [e_next EXCEPT ![n-1] = n] /\ UNCHANGED <<e_parent, e_prev, e_children>>
      /\ loc' = [loc EXCEPT ![n].other = e_next[n-1]]
      /\ Goto(n, IF e_next[n-1] = None THEN "lock_jobs" ELSE "set_prev")
  BY <1>2 DEF AskSetNext, SetNext
<1>5. e_next[n-1] = s /\ RingsAbove(s)' /\ NextsAre(s, n, n)' /\ PrevsAre(s, n, n-1)'
  <2>1. s < n /\ UNCHANGED e_prev
    BY <1>2, <1>4
  <2>2. QED
    BY <1>2, <1>3, <1>4, <2>1, RingOpened
<1>6. pc'[n] = "set_prev" /\ Linked' = Linked /\ loc'[n].other = s
  <2>1. Goto(n, "set_prev")
    BY <1>2, <1>4, <1>5 DEF None
  <2>2. QED
    BY <1>1, <1>2, <1>4, <1>5, <2>1, LinkedFacts DEF JInv, JNTypes, Goto, Linked, Locals
<1>7. KidsAre(s, n+1)' /\ ParentsAre(s, n+1)'
  BY <1>3, <1>4 DEF KidsAre, ParentsAre
<1>8. LinksAt(s, n, pc[n], loc[n])'
  BY <1>3, <1>5, <1>6, <1>7 DEF LinksAt, Opening
<1>9. QED
  BY <1>2, <1>6, <1>8, ShapeStep DEF s

LEMMA AskSetPrevShape ==
  ASSUME JInv, JShape, NEW n \in Node, AskSetPrev(n)
  PROVE  JShape'
<1> DEFINE s == Low(n)
<1>1. pc[n] = "set_prev" /\ pc[n] \in LinkSteps
  BY DEF AskSetPrev, LinkSteps
<1>2. /\ n \in 0 .. N /\ Linked = 0 .. n-1 /\ LinksAt(s, n, pc[n], loc[n])
      /\ s \in Starts /\ s \in Nat /\ s <= n - 1 /\ n \in Nat /\ loc[n].contact = n - 1
      /\ LinksTypeOK /\ n + 1 \in 0 .. N
      /\ n + 1 \in Node => pc[n+1] \notin LinkSteps
  BY <1>1, NextStep
<1>3. /\ n \notin {0, 3} /\ KidsAre(s, n+1) /\ ParentsAre(s, n+1) /\ loc[n].other = s
      /\ RingsAbove(s) /\ NextsAre(s, n, n) /\ PrevsAre(s, n, n-1)
  BY <1>1, <1>2 DEF LinksAt, Opening
<1>4. Low(n+1) = s
  BY <1>2, <1>3, LowFacts
<1> HIDE DEF s
<1>5. /\ e_prev' = [e_prev EXCEPT ![s] = n, ![n] = n - 1]
      /\ e_next' = [e_next EXCEPT ![n] = s]
      /\ Goto(n, "lock_jobs") /\ UNCHANGED <<e_parent, e_children>>
  BY <1>2, <1>3 DEF AskSetPrev
<1>6. RingsAbove(s)' /\ RingIs(s, n+1)'
  <2>1. s < n
    BY <1>2
  <2>2. QED
    BY <1>2, <1>3, <1>5, <2>1, RingClosed
<1>7. Resting(s, n+1)'
  BY <1>3, <1>5, <1>6 DEF Resting, KidsAre, ParentsAre
<1>8. Linked' = Linked \cup {n} /\ \A m \in Node \ {n} : pc'[m] = pc[m]
  BY <1>1, <1>5, LinkingFacts
<1>9. PICK j \in 0 .. N : j = n + 1
  BY <1>2
<1>10. j # n /\ (j \in Node => pc'[j] \notin LinkSteps)
  BY <1>2, <1>8, <1>9
<1>11. Resting(Low(j), j)'
  BY <1>4, <1>7, <1>9
<1>12. QED
  BY <1>2, <1>8, <1>9, <1>10, <1>11, ShapeLinked

\* The first node is its own circle; the others start without links.
LEMMA StartShape ==
  ASSUME JInv, JShape, NEW n \in Node, Start(n)
  PROVE  JShape'
<1> USE DEF JInv
<1>1. /\ pc[n] = "off" /\ n = uuid /\ last = n - 1 /\ n \in Nat /\ n \notin Linked
  BY NodeFacts, LinkedFacts, StepNames DEF Start, JoinOrder
<1>2. CASE n # 0
  <2>1. Goto(n, "edges") /\ UNCHANGED links /\ loc' = [loc EXCEPT ![n].contact = last]
    BY <1>1, <1>2 DEF Start, None
  <2>2. \A m \in Node \ {n} : pc'[m] = pc[m] /\ loc'[m] = loc[m]
    BY <2>1 DEF Goto, JNTypes
  <2>3. pc'[n] = "edges" /\ pc'[n] \notin LinkSteps /\ pc[n] \notin LinkSteps
    BY <1>1, <2>1, StepNames DEF Goto, JNTypes
  <2>4. Linked' = Linked
    BY <1>1, <2>2, <2>3, LinkedFacts DEF Linked
  <2>5. QED
    BY <2>1, <2>2, <2>3, <2>4, ShapeKept
<1>3. CASE n = 0
  <2>1. /\ e_prev' = [e_prev EXCEPT ![0] = 0] /\ e_next' = [e_next EXCEPT ![0] = 0]
        /\ UNCHANGED <<e_parent, e_children>> /\ Goto(n, "lock_jobs")
    BY <1>1, <1>3 DEF Start, None
  <2>2. PICK k \in 0 .. N : ShapeAt(k)
    BY DEF JShape
  <2>3. \A m \in Node : pc[m] = "off"
    <3>1. \A m \in Node : m \in Nat /\ m >= uuid
      BY <1>1, <1>3, NodeFacts
    <3>2. QED
      BY <3>1 DEF JoinOrder
  <2>4. Linked = {}
    BY <2>3, LinkedFacts, StepNames
  <2>5. k = 0 /\ 0 \in Node /\ Low(0) = 0
    BY <1>3, <2>2, <2>4, LowFacts DEF ShapeAt
  <2>6. Resting(0, 0)
    BY <2>2, <2>3, <2>5 DEF ShapeAt, LinksAt
  <2>7. KidsAre(0, 1) /\ ParentsAre(0, 1)
    <3>1. 0 \in Nat /\ 0 < 3 /\ 0 + 1 = 1
      OBVIOUS
    <3>2. KidsAre(0, 0 + 1) /\ ParentsAre(0, 0 + 1)
      BY <2>6, <3>1, TopRing
    <3>3. QED
      BY <3>1, <3>2
  <2>8. KidsAre(0, 1)' /\ ParentsAre(0, 1)'
    BY <2>1, <2>7 DEF KidsAre, ParentsAre
  <2>9. RingsAbove(0)'
    BY StartsClosed DEF RingsAbove
  <2>10. RingIs(0, 1)'
    <3>1. e_next'[0] = 0 /\ e_prev'[0] = 0
      BY <2>1, <2>5 DEF JNTypes, LinksTypeOK
    <3>2. \A m \in 0 .. 1-1 : m = 0
      OBVIOUS
    <3>3. QED
      BY <3>1, <3>2 DEF RingIs, NextsAre, PrevsAre
  <2>11. Resting(0, 1)'
    BY <2>8, <2>9, <2>10 DEF Resting
  <2>12. /\ Linked' = Linked \cup {0}
         /\ \A m \in Node \ {0} : pc'[m] = pc[m]
    BY <1>3, <2>1, LinkedFacts DEF Goto, JNTypes, Linked, LinkedSteps
  <2>13. 1 \in 0 .. N /\ Low(1) = 0 /\ 1 = 0 + 1
    BY NAssumption, LowFacts
  <2>14. 1 \in Node => pc'[1] \notin LinkSteps
    BY <2>3, <2>12, StepNames
  <2>15. Linked = 0 .. 0-1
    BY <2>4
  <2>16. QED
    BY <2>5, <2>11, <2>12, <2>13, <2>14, <2>15, ShapeLinked
<1>4. QED
  BY <1>2, <1>3

\* No other step links anybody.
LEMMA OtherShape ==
  ASSUME JInv, JShape, NEW n \in Node, LockJobs(n) \/ FetchJobs(n) \/ Release(n)
  PROVE  JShape'
<1>1. PICK st \in {"release", "fetch", "run"} : Goto(n, st)
  BY DEF LockJobs, FetchJobs, Release
<1>2. UNCHANGED links /\ pc[n] \in {"lock_jobs", "fetch", "release"}
      /\ \A m \in Node \ {n} : loc'[m] = loc[m]
  BY DEF LockJobs, FetchJobs, Release, JInv, JNTypes
<1>3. pc'[n] = st /\ \A m \in Node \ {n} : pc'[m] = pc[m]
  BY <1>1 DEF Goto, JInv, JNTypes
<1>4. Linked' = Linked
  <2>1. \A m \in Node : pc'[m] \in LinkedSteps <=> pc[m] \in LinkedSteps
    BY <1>2, <1>3 DEF LinkedSteps
  <2>2. QED
    BY <2>1 DEF Linked, LinkedSteps
<1>5. pc'[n] \notin LinkSteps /\ pc[n] \notin LinkSteps
  BY <1>2, <1>3 DEF LinkSteps
<1>6. QED
  BY <1>2, <1>3, <1>4, <1>5, ShapeKept

LEMMA ShapeNext ==
  ASSUME JInv, JShape, [JNNext]_jnvars
  PROVE  JShape'
<1>1. ASSUME UNCHANGED <<links, pc, loc>>  PROVE JShape'
  <2>1. Linked' = Linked
    BY <1>1 DEF Linked
  <2>2. QED
    BY <1>1, <2>1, ShapeKept
<1>2. ASSUME NEW n \in Node, JoinerStep(n)  PROVE JShape'
  BY <1>2, AskEdgesShape, AskInfoShape, AdoptBelowShape, AskAdoptShape, AskSetNextShape,
     AskSetPrevShape, OtherShape DEF JoinerStep
<1>3. ASSUME NEW n \in Node, Data(n)  PROVE JShape'
  BY <1>1, <1>3 DEF Data
<1>4. ASSUME NEW c \in Casts, CastStep(c) \/ \E a \in Entry : CastStarts(c, a)
      PROVE  JShape'
  BY <1>1, <1>4 DEF CastStep, CastReads, CastFails, CastVisits, CastEnds, CastStarts
<1>5. CASE UNCHANGED jnvars
  BY <1>1, <1>5 DEF jnvars
<1>6. QED
  BY <1>2, <1>3, <1>4, <1>5, StartShape DEF JNNext

LEMMA ShapeInit ==
  ASSUME JNInit  PROVE JShape
<1>1. Linked = {} /\ 0 .. 0-1 = {} /\ 0 \in 0 .. N /\ Low(0) = 0
  BY NAssumption DEF JNInit, Linked, Low
<1>2. Resting(0, 0)
  <2>1. KidsAre(0, 0)
    BY NoKids, NodeFacts DEF KidsAre, JNInit, LinksInit
  <2>2. ParentsAre(0, 0)
    BY NodeFacts DEF ParentsAre, JNInit, LinksInit
  <2>3. RingsAbove(0) /\ RingIs(0, 0)
    BY StartsClosed DEF RingsAbove, RingIs, NextsAre, PrevsAre
  <2>4. QED
    BY <2>1, <2>2, <2>3 DEF Resting
<1>3. 0 \in Node => LinksAt(0, 0, pc[0], loc[0])
  BY <1>2 DEF LinksAt, JNInit
<1>4. ShapeAt(0)
  BY <1>1, <1>2, <1>3 DEF ShapeAt
<1>5. QED
  BY <1>1, <1>4 DEF JShape

\* As long as no unlinked node has been asked for data: when no joiner links itself,
\* the links are those of module TopologyProofs for as many nodes as are linked; and
\* what a joiner leaves undone is done when it has set its edges (NetworkJoiner.java:
\* join).
THEOREM JavaShape == JNSpec => [](Undisturbed => JShape)
<1>1. JNInit => JShape
  BY ShapeInit
<1>2. (Undisturbed => JInv) /\ (Undisturbed => JShape) /\ [JNNext]_jnvars
        => (Undisturbed => JShape)'
  BY ShapeNext, StaysEarly DEF Undisturbed
<1>3. QED
  BY <1>1, <1>2, JavaInvariant, PTL DEF JNSpec

\* Whenever no joiner links itself, the links of the linked nodes are at rest.
LEMMA QuietLinks ==
  ASSUME JShape, \A n \in Node : pc[n] \notin LinkSteps
  PROVE  \E k \in 0 .. N : Linked = 0 .. k-1 /\ Resting(Low(k), k)
<1>1. PICK k \in 0 .. N : ShapeAt(k)
  BY DEF JShape
<1>2. Resting(Low(k), k)
  BY <1>1 DEF ShapeAt, LinksAt, LinkSteps
<1>3. QED
  BY <1>1, <1>2 DEF ShapeAt

\* As long as no unlinked node has been asked for data: whenever no joiner is
\* linking, next and prev are inverse, the circle of a node is its whole level, and
\* parents and children agree, each node having a child once and at most four
\* (NetworkJoiner.java: join and joinCircle).
THEOREM CirclesStayWhole == JNSpec => []CirclesWhole
<1>1. ASSUME Undisturbed => JInv, Undisturbed => JShape  PROVE CirclesWhole
  <2>1. SUFFICES ASSUME Undisturbed, \A n \in Node : pc[n] \notin LinkSteps
                 PROVE  RingsOf(Linked) /\ TreeOf(Linked)
    BY DEF CirclesWhole
  <2>2. PICK k \in 0 .. N : Linked = 0 .. k-1 /\ Resting(Low(k), k)
    BY <1>1, <2>1, QuietLinks
  <2>3. LinksTypeOK /\ Low(k) \in Starts /\ Size(Low(k), k)
    BY <1>1, <2>1, LowFacts DEF JInv, JNTypes
  <2>4. RingsOf(0 .. k-1) /\ TreeOf(0 .. k-1)
    BY <2>2, <2>3, RestRings, RestTree
  <2>5. QED
    BY <2>2, <2>4
<1>2. QED
  BY <1>1, JavaInvariant, JavaShape, PTL

-----------------------------------------------------------------------------
(***************************************************************************)
(* The queue of a broadcast and how often a job is in a list               *)
(***************************************************************************)
\* No node is in the queue twice.
OneEach(q) == \A i, k \in DOMAIN q : q[i] = q[k] => i = k

LEMMA HeadOnce ==
  ASSUME NEW q \in Seq(Node), q # <<>>, OneEach(q)
  PROVE  /\ Tail(q) \in Seq(Node) /\ Head(q) \in Node /\ OneEach(Tail(q))
         /\ Elems(q) = {Head(q)} \cup Elems(Tail(q)) /\ Head(q) \notin Elems(Tail(q))
<1>1. /\ Tail(q) \in Seq(Node) /\ Len(Tail(q)) = Len(q) - 1
      /\ \A i \in 1 .. Len(Tail(q)) : Tail(q)[i] = q[i+1]
      /\ Head(q) \in Node /\ Head(q) = q[1]
  BY HeadTailProperties
<1>2. /\ Len(q) \in Nat \ {0} /\ DOMAIN q = 1 .. Len(q)
      /\ DOMAIN Tail(q) = 1 .. Len(q) - 1
  BY <1>1, LenProperties, EmptySeq
<1>3. ASSUME NEW i \in DOMAIN Tail(q), NEW k \in DOMAIN Tail(q), Tail(q)[i] = Tail(q)[k]
      PROVE  i = k
  <2>1. i + 1 \in DOMAIN q /\ k + 1 \in DOMAIN q /\ q[i+1] = q[k+1] /\ i \in Nat /\ k \in Nat
    BY <1>1, <1>2, <1>3
  <2>2. i + 1 = k + 1
    BY <2>1 DEF OneEach
  <2>3. QED
    BY <2>1, <2>2
<1>4. ASSUME NEW i \in DOMAIN Tail(q), Tail(q)[i] = Head(q)
      PROVE  FALSE
  <2>1. i + 1 \in DOMAIN q /\ 1 \in DOMAIN q /\ q[i+1] = q[1] /\ i \in Nat /\ i # 0
    BY <1>1, <1>2, <1>4
  <2>2. i + 1 = 1
    BY <2>1 DEF OneEach
  <2>3. QED
    BY <2>1, <2>2
<1>5. Elems(q) = {Head(q)} \cup Elems(Tail(q))
  BY TailElems
<1>6. OneEach(Tail(q))
  BY <1>3 DEF OneEach
<1>7. Head(q) \notin Elems(Tail(q))
  BY <1>4 DEF Elems
<1>8. QED
  BY <1>1, <1>5, <1>6, <1>7

LEMMA AppendOnce ==
  ASSUME NEW q \in Seq(Node), OneEach(q), NEW e \in Node, e \notin Elems(q)
  PROVE  OneEach(Append(q, e))
<1>1. /\ Append(q, e) \in Seq(Node) /\ Len(Append(q, e)) = Len(q) + 1
      /\ \A i \in 1 .. Len(q) : Append(q, e)[i] = q[i]
      /\ Append(q, e)[Len(q) + 1] = e
  BY AppendProperties
<1>2. /\ Len(q) \in Nat /\ DOMAIN q = 1 .. Len(q)
      /\ DOMAIN Append(q, e) = 1 .. Len(q) + 1
  BY <1>1, LenProperties
<1>3. \A i \in 1 .. Len(q) : q[i] # e
  BY <1>2 DEF Elems
<1>4. QED
  BY <1>1, <1>2, <1>3 DEF OneEach

\* One pass of the loop over the edges of a node.
Enqueued(b, e) == IF e \in b.s THEN b ELSE [q |-> Append(b.q, e), s |-> b.s \cup {e}]

Batches == [q : Seq(Node), s : SUBSET Node]

\* What the queue and the nodes seen are when the loop has gone over edges to E.
Batch(b, queue, seen, E) ==
  /\ b \in Batches
  /\ b.s = seen \cup E
  /\ Elems(b.q) = Elems(queue) \cup (E \ seen)
  /\ OneEach(b.q)

LEMMA EnqueuedBatch ==
  ASSUME NEW queue, NEW seen, Elems(queue) \subseteq seen, NEW E, NEW e \in Node,
         NEW b, Batch(b, queue, seen, E)
  PROVE  Batch(Enqueued(b, e), queue, seen, E \cup {e})
<1> USE DEF Batch
<1>1. CASE e \in b.s
  BY <1>1 DEF Enqueued
<1>2. CASE e \notin b.s
  <2>1. b.q \in Seq(Node) /\ b.s \subseteq Node
    BY DEF Batches
  <2>2. e \notin Elems(b.q) /\ e \notin seen
    BY <1>2
  <2> DEFINE r == Append(b.q, e)
  <2>3. r \in Seq(Node) /\ Elems(r) = Elems(b.q) \cup {e} /\ OneEach(r)
    BY <2>1, <2>2, AppendProperties, AppendElems, AppendOnce
  <2> HIDE DEF r
  <2>4. Enqueued(b, e) = [q |-> r, s |-> b.s \cup {e}]
    BY <1>2 DEF Enqueued, r
  <2>5. QED
    BY <2>1, <2>2, <2>3, <2>4 DEF Batches
<1>3. QED
  BY <1>1, <1>2

Upto(edges, i) == {edges[x] : x \in 1 .. i}

\* w[k] is what the loop has after k edges.
Loops(w, queue, edges, seen, h) ==
  /\ w \in [0 .. h -> Batches]
  /\ w[0] = [q |-> queue, s |-> seen]
  /\ \A k \in 1 .. h : w[k] = Enqueued(w[k-1], edges[k])

LoopEnds(queue, edges, seen, h) ==
  \E w : Loops(w, queue, edges, seen, h) /\ Batch(w[h], queue, seen, Upto(edges, h))

LEMMA Looping ==
  ASSUME NEW queue \in Seq(Node), NEW edges \in Seq(Node), NEW seen \in SUBSET Node,
         Elems(queue) \subseteq seen, OneEach(queue), NEW h \in 0 .. Len(edges)
  PROVE  LoopEnds(queue, edges, seen, h)
<1> DEFINE T == {i \in 0 .. Len(edges) : ~LoopEnds(queue, edges, seen, i)}
<1>0. Len(edges) \in Nat /\ \A k \in 1 .. Len(edges) : edges[k] \in Node
  BY LenProperties, ElementOfSeq
<1>1. SUFFICES ASSUME T # {}  PROVE FALSE
  OBVIOUS
<1>2. PICK i \in T : \A j \in T : i <= j
  <2>1. T \in SUBSET Nat
    BY <1>0
  <2>2. QED
    BY <1>1, <2>1, Smallest
<1>3. CASE i = 0
  <2> DEFINE w == [k \in 0 .. 0 |-> [q |-> queue, s |-> seen]]
  <2>1. w[0] = [q |-> queue, s |-> seen] /\ w \in [0 .. 0 -> Batches]
    BY DEF Batches
  <2>2. Upto(edges, 0) = {}
    BY DEF Upto
  <2> HIDE DEF w
  <2>3. w[0] \in Batches
    BY <2>1
  <2>4. Batch(w[0], queue, seen, Upto(edges, 0)) /\ Loops(w, queue, edges, seen, 0)
    BY <2>1, <2>2, <2>3 DEF Batch, Loops
  <2>5. QED
    BY <1>2, <1>3, <2>4 DEF LoopEnds
<1>4. CASE i # 0
  <2>1. i \in 1 .. Len(edges) /\ i - 1 \in 0 .. Len(edges) /\ ~(i <= i - 1)
    BY <1>0, <1>4
  <2>2. i - 1 \notin T
    BY <1>2, <2>1
  <2>3. LoopEnds(queue, edges, seen, i - 1)
    BY <2>1, <2>2
  <2>4. PICK v : Loops(v, queue, edges, seen, i-1)
                   /\ Batch(v[i-1], queue, seen, Upto(edges, i-1))
    BY <2>3 DEF LoopEnds
  <2> DEFINE b == Enqueued(v[i-1], edges[i])
             w == [k \in 0 .. i |-> IF k = i THEN b ELSE v[k]]
  <2>5. Upto(edges, i) = Upto(edges, i-1) \cup {edges[i]}
    <3>1. \A x : x \in 1 .. i <=> x \in 1 .. i-1 \/ x = i
      BY <1>0, <2>1
    <3>2. QED
      BY <3>1, Zenon DEF Upto
  <2>6. Batch(b, queue, seen, Upto(edges, i))
    <3>1. edges[i] \in Node
      BY <1>0, <2>1
    <3>2. QED
      BY <2>4, <2>5, <3>1, EnqueuedBatch
  <2> HIDE DEF b
  <2>7. w \in [0 .. i -> Batches] /\ w[0] = v[0] /\ w[i] = b
    <3>1. ASSUME NEW k \in 0 .. i  PROVE w[k] \in Batches
      <4>1. CASE k = i
        BY <2>6, <4>1 DEF Batch
      <4>2. CASE k # i
        <5>1. k \in 0 .. i-1 /\ w[k] = v[k]
          BY <2>1, <4>2
        <5>2. QED
          BY <2>4, <5>1 DEF Loops
      <4>3. QED
        BY <4>1, <4>2
    <3>2. 0 \in 0 .. i /\ i \in 0 .. i
      BY <1>0, <2>1
    <3>3. QED
      BY <1>4, <3>1, <3>2
  <2>8. ASSUME NEW k \in 1 .. i  PROVE w[k] = Enqueued(w[k-1], edges[k])
    <3>1. k - 1 \in 0 .. i-1 /\ w[k-1] = v[k-1]
      BY <2>1
    <3>2. CASE k = i
      BY <2>7, <3>1, <3>2 DEF b
    <3>3. CASE k # i
      <4>1. k \in 1 .. i-1 /\ w[k] = v[k]
        BY <2>1, <3>3
      <4>2. QED
        BY <2>4, <3>1, <4>1 DEF Loops
    <3>4. QED
      BY <3>2, <3>3
  <2> HIDE DEF w
  <2>9. Loops(w, queue, edges, seen, i)
    BY <2>4, <2>7, <2>8 DEF Loops
  <2>10. QED
    BY <1>2, <2>6, <2>7, <2>9 DEF LoopEnds
<1>5. QED
  BY <1>3, <1>4

\* The queue goes on with the edges to nodes not seen, each once.
LEMMA EnqueueBatch ==
  ASSUME NEW queue \in Seq(Node), NEW edges \in Seq(Node), NEW seen \in SUBSET Node,
         Elems(queue) \subseteq seen, OneEach(queue)
  PROVE  Batch(Enqueue(queue, edges, seen), queue, seen, Elems(edges))
<1> DEFINE h == Len(edges)
           P(f) == f = [i \in 0 .. Len(edges) |->
                     IF i = 0 THEN [q |-> queue, s |-> seen]
                     ELSE LET b == f[i-1] IN
                          IF edges[i] \in b.s THEN b
                          ELSE [q |-> Append(b.q, edges[i]), s |-> b.s \cup {edges[i]}]]
           L == CHOOSE f : P(f)
<1>0. h \in Nat /\ h \in 0 .. Len(edges) /\ DOMAIN edges = 1 .. h
  BY LenProperties
<1>1. PICK w : Loops(w, queue, edges, seen, h) /\ Batch(w[h], queue, seen, Upto(edges, h))
  <2> HIDE DEF h
  <2>1. LoopEnds(queue, edges, seen, h)
    BY <1>0, Looping
  <2>2. QED
    BY <2>1 DEF LoopEnds
<1>2. P(w)
  <2>1. ASSUME NEW i \in 0 .. h
        PROVE  w[i] = IF i = 0 THEN [q |-> queue, s |-> seen]
                      ELSE Enqueued(w[i-1], edges[i])
    <3>1. CASE i = 0
      BY <1>1, <3>1 DEF Loops
    <3>2. CASE i # 0
      <4>1. i \in 1 .. h
        BY <1>0, <3>2
      <4> HIDE DEF h
      <4>2. QED
        BY <1>1, <3>2, <4>1 DEF Loops
    <3>3. QED
      BY <3>1, <3>2
  <2>2. w = [i \in 0 .. h |-> w[i]]
    BY <1>1 DEF Loops
  <2>3. QED
    BY <2>1, <2>2 DEF Enqueued
<1>3. P(L)
  <2> HIDE DEF P
  <2>1. QED
    BY <1>2, Zenon
<1>4. Enqueue(queue, edges, seen) = L[h]
  BY Zenon DEF Enqueue
<1>5. \A i \in 0 .. h : L[i] = IF i = 0 THEN [q |-> queue, s |-> seen]
                               ELSE Enqueued(L[i-1], edges[i])
  <2> HIDE DEF L
  <2>1. QED
    BY <1>3 DEF Enqueued
<1> HIDE DEF L, P
<1>6. \A i \in 0 .. h : L[i] = w[i]
  <2> DEFINE T == {i \in 0 .. h : L[i] # w[i]}
  <2>1. SUFFICES ASSUME T # {}  PROVE FALSE
    OBVIOUS
  <2>2. PICK i \in T : \A j \in T : i <= j
    <3>1. T \in SUBSET Nat
      BY <1>0
    <3>2. QED
      BY <2>1, <3>1, Smallest
  <2>3. CASE i = 0
    <3>1. L[0] = [q |-> queue, s |-> seen] /\ w[0] = [q |-> queue, s |-> seen]
      BY <1>0, <1>1, <1>5 DEF Loops
    <3>2. QED
      BY <2>2, <2>3, <3>1
  <2>4. CASE i # 0
    <3>1. i \in 1 .. h /\ i - 1 \in 0 .. h /\ ~(i <= i - 1)
      BY <1>0, <2>2, <2>4
    <3>2. L[i-1] = w[i-1]
      BY <2>2, <3>1
    <3>3. L[i] = Enqueued(L[i-1], edges[i])
      BY <1>5, <2>2, <2>4
    <3>4. w[i] = Enqueued(w[i-1], edges[i])
      BY <1>1, <3>1 DEF Loops
    <3>5. QED
      BY <2>2, <3>2, <3>3, <3>4
  <2>5. QED
    BY <2>3, <2>4
<1>7. L[h] = w[h] /\ Upto(edges, h) = Elems(edges)
  BY <1>0, <1>6 DEF Upto, Elems
<1>8. QED
  BY <1>1, <1>4, <1>7

\* The queue of a broadcast holds nodes that it has seen, each once.
CastQueues ==
  \A c \in Casts :
    /\ cast[c].queue \in Seq(Node) /\ cast[c].seen \in SUBSET Node
    /\ cast[c].members \in SUBSET Node /\ cast[c].view \in SUBSET Node
    /\ OneEach(cast[c].queue) /\ Elems(cast[c].queue) \subseteq cast[c].seen
    /\ cast[c].step = "read" => cast[c].queue = <<>> /\ cast[c].seen = {cast[c].at}

HasFetched(n) == pc[n] \in {"release", "run"}

\* The broadcast of newJob has been at n, or may have been.
Added(j, n) ==
  LET c == cast[<<"new", j>>] IN
  c.step = "done" \/ (c.step \in Working /\ n \in c.seen \ Elems(c.queue))

\* A job comes into a list when it is fetched and when it is broadcast.
JobCounts ==
  /\ jobs \in [Node -> [Job -> 0 .. 2]]
  /\ \A n \in Node, j \in Job :
       /\ jobs[n][j] > 0 => HasFetched(n) \/ Added(j, n)
       /\ jobs[n][j] > 1 => HasFetched(n) /\ Added(j, n)

CountInv == JInv /\ CastQueues /\ JobCounts

LEMMA CastFacts == /\ \A j \in Job : <<"new", j>> \in Casts
                   /\ \A c \in Casts : c[1] \in {"new", "kill"} /\ c[2] \in Job /\ c = <<c[1], c[2]>>
BY DEF Casts

\* Broadcast c is at node t.
LEMMA ListStep ==
  ASSUME JobCounts, NEW c \in Casts, NEW t \in Node, jobs' = ListAfter(c, t),
         c[1] = "kill" => jobs[t][c[2]] > 0,
         c[1] = "new" => ~Added(c[2], t) /\ Added(c[2], t)',
         \A n \in Node, j \in Job : Added(j, n) => Added(j, n)',
         UNCHANGED pc
  PROVE  JobCounts'
<1> DEFINE k == c[2]
<1>1. k \in Job /\ c[1] \in {"new", "kill"}
  BY CastFacts
<1>2. PICK x : x = IF c[1] = "new" THEN jobs[t][k] + 1 ELSE jobs[t][k] - 1
  OBVIOUS
<1>3. jobs' = [jobs EXCEPT ![t] = [jobs[t] EXCEPT ![k] = x]]
  BY <1>1, <1>2 DEF ListAfter, JobCounts
<1>4. jobs[t][k] \in 0 .. 2
  BY <1>1 DEF JobCounts
<1> HIDE DEF k
<1>5. \A n \in Node : HasFetched(n)' <=> HasFetched(n)
  BY DEF HasFetched
<1>6. /\ x \in 0 .. 2
      /\ x > 0 => HasFetched(t) \/ Added(k, t)'
      /\ x > 1 => HasFetched(t) /\ Added(k, t)'
  <2>1. /\ jobs[t][k] > 0 => HasFetched(t) \/ Added(k, t)
        /\ jobs[t][k] > 1 => HasFetched(t) /\ Added(k, t)
        /\ Added(k, t) => Added(k, t)'
    BY <1>1 DEF JobCounts
  <2>2. CASE c[1] = "new"
    <3>1. ~Added(k, t) /\ Added(k, t)'
      BY <2>2 DEF k
    <3>2. jobs[t][k] \in {0, 1} /\ x = jobs[t][k] + 1
      BY <1>2, <1>4, <2>1, <2>2, <3>1
    <3>3. QED
      BY <2>1, <3>1, <3>2
  <2>3. CASE c[1] = "kill"
    <3>1. jobs[t][k] > 0 /\ x = jobs[t][k] - 1
      BY <1>2, <2>3 DEF k
    <3>2. QED
      BY <1>4, <2>1, <3>1
  <2>4. QED
    BY <1>1, <2>2, <2>3
<1>7. jobs' \in [Node -> [Job -> 0 .. 2]]
  BY <1>1, <1>3, <1>6 DEF JobCounts
<1>8. ASSUME NEW n \in Node, NEW j \in Job
      PROVE  /\ jobs'[n][j] > 0 => HasFetched(n)' \/ Added(j, n)'
             /\ jobs'[n][j] > 1 => HasFetched(n)' /\ Added(j, n)'
  <2>1. CASE n = t /\ j = k
    <3>1. jobs'[n][j] = x
      BY <1>1, <1>3, <2>1 DEF JobCounts
    <3>2. QED
      BY <1>5, <1>6, <2>1, <3>1
  <2>2. CASE ~(n = t /\ j = k)
    <3>1. jobs'[n][j] = jobs[n][j]
      BY <1>3, <2>2 DEF JobCounts
    <3>2. Added(j, n) => Added(j, n)'
      OBVIOUS
    <3>3. /\ jobs[n][j] > 0 => HasFetched(n) \/ Added(j, n)
          /\ jobs[n][j] > 1 => HasFetched(n) /\ Added(j, n)
      BY DEF JobCounts
    <3>4. QED
      BY <1>5, <3>1, <3>2, <3>3
  <2>3. QED
    BY <2>1, <2>2
<1>9. QED
  BY <1>7, <1>8 DEF JobCounts

\* A broadcast goes on with record r.
LEMMA QueueStep ==
  ASSUME CastQueues, JNTypes, NEW c \in Casts, NEW r, cast' = [cast EXCEPT ![c] = r],
         r.queue \in Seq(Node), r.seen \in SUBSET Node, r.members \in SUBSET Node,
         r.view \in SUBSET Node, OneEach(r.queue), Elems(r.queue) \subseteq r.seen,
         r.step = "read" => r.queue = <<>> /\ r.seen = {r.at}
  PROVE  CastQueues' /\ cast'[c] = r /\ \A d \in Casts \ {c} : cast'[d] = cast[d]
<1>1. cast'[c] = r /\ \A d \in Casts \ {c} : cast'[d] = cast[d]
  BY DEF JNTypes
<1>2. QED
  BY <1>1 DEF CastQueues

LEMMA NeighboursNodes ==
  ASSUME LinksTypeOK, NEW a \in Node  PROVE Neighbours(a) \in SUBSET Node
<1>1. AllEdges(a) \in Seq(Node) /\ Elems(AllEdges(a)) = Neighbours(a)
  BY EdgesOf
<1>2. QED
  BY <1>1, ElementOfSeq DEF Elems

LEMMA CastStartsCount ==
  ASSUME CountInv, NEW c \in Casts, NEW a \in Entry, CastStarts(c, a)
  PROVE  CastQueues' /\ JobCounts'
<1> USE DEF CountInv, JInv
<1>1. a \in Node /\ cast[c].step = "idle" /\ jobs' = ListAfter(c, a) /\ UNCHANGED pc
      /\ (c[1] = "kill" => jobs[a][c[2]] > 0)
  BY JavaAssumption DEF CastStarts
<1>2. PICK ms : ms = IF a \in Members THEN Members ELSE {}
  OBVIOUS
<1>3. PICK r : r = [step |-> "read", at |-> a, view |-> Neighbours(a), queue |-> <<>>,
                    seen |-> {a}, members |-> ms]
  OBVIOUS
<1>4. cast' = [cast EXCEPT ![c] = r]
  BY <1>2, <1>3 DEF CastStarts
<1>5. ms \in SUBSET Node /\ Neighbours(a) \in SUBSET Node
  BY <1>1, <1>2, NeighboursNodes DEF Members, JNTypes
<1>6. Elems(<<>>) = {} /\ OneEach(<<>>) /\ <<>> \in Seq(Node)
  BY DEF Elems, OneEach
<1>7. CastQueues' /\ cast'[c] = r /\ \A d \in Casts \ {c} : cast'[d] = cast[d]
  <2>1. /\ r.queue = <<>> /\ r.seen = {a} /\ r.members = ms /\ r.view = Neighbours(a)
        /\ r.at = a
    BY <1>3
  <2>2. /\ r.queue \in Seq(Node) /\ r.seen \in SUBSET Node /\ r.members \in SUBSET Node
        /\ r.view \in SUBSET Node /\ OneEach(r.queue) /\ Elems(r.queue) \subseteq r.seen
    BY <1>1, <1>5, <1>6, <2>1
  <2>3. QED
    BY <1>4, <2>1, <2>2, QueueStep
<1>8. ASSUME NEW n \in Node, NEW j \in Job, Added(j, n)  PROVE Added(j, n)'
  BY <1>1, <1>7, <1>8, CastFacts DEF Added, Working
<1>9. c[1] = "new" => ~Added(c[2], a) /\ Added(c[2], a)'
  <2>1. r.step = "read" /\ a \in r.seen \ Elems(r.queue)
    BY <1>3, <1>6
  <2>2. QED
    BY <1>1, <1>7, <2>1, CastFacts DEF Added, Working
<1>10. QED
  BY <1>1, <1>7, <1>8, <1>9, ListStep

\* What the handler has read makes a queue of nodes.
LEMMA ReadQueue ==
  ASSUME JInv, NEW c \in Casts, CastReads(c)
  PROVE  \E r :
           /\ cast[c].step = "read" /\ cast[c].at \in Node
           /\ UNCHANGED <<links, bootstrap, locks, jobs, pc, loc>>
           /\ Neighbours(cast[c].at) \cap cast[c].view \subseteq r.seen
           /\ cast' = [cast EXCEPT ![c] = r]
           /\ r.step = "search" /\ r.at = cast[c].at /\ r.view = {}
           /\ r.members = cast[c].members
           /\ r.queue \in Seq(Node) /\ r.seen \in SUBSET Node /\ OneEach(r.queue)
           /\ cast[c].at \in r.seen /\ Elems(r.queue) = r.seen \ {cast[c].at}
<1>1. PICK edges, r :
           /\ edges \in Seq(Node)
           /\ cast[c].step = "read" /\ cast[c].at \in Node
           /\ UNCHANGED <<links, bootstrap, locks, jobs, pc, loc>>
           /\ Neighbours(cast[c].at) \cap cast[c].view \subseteq Elems(edges)
           /\ cast' = [cast EXCEPT ![c] = r]
           /\ r.step = "search" /\ r.at = cast[c].at /\ r.view = {}
           /\ r.queue = Enqueue(<<>>, edges, {cast[c].at}).q
           /\ r.seen = Enqueue(<<>>, edges, {cast[c].at}).s
           /\ r.members = cast[c].members
  BY ReadFacts
<1> DEFINE a == cast[c].at
           b == Enqueue(<<>>, edges, {a})
<1>2. Elems(<<>>) = {} /\ OneEach(<<>>) /\ <<>> \in Seq(Node) /\ {a} \in SUBSET Node
  BY <1>1 DEF Elems, OneEach
<1>3. Elems(edges) \in SUBSET Node
  BY <1>1, ElementOfSeq DEF Elems
<1>4. Batch(b, <<>>, {a}, Elems(edges))
  BY <1>1, <1>2, <1>3, EnqueueBatch
<1> HIDE DEF b
<1>5. /\ b.q \in Seq(Node) /\ b.s \in SUBSET Node /\ OneEach(b.q)
      /\ Elems(b.q) = Elems(edges) \ {a} /\ b.s = {a} \cup Elems(edges)
  BY <1>2, <1>4 DEF Batch, Batches
<1>6. r.queue = b.q /\ r.seen = b.s
  BY <1>1 DEF b
<1>7. QED
  BY <1>1, <1>5, <1>6

\* The lists stay when the broadcast goes on to record r and has been wherever it
\* was before.
LEMMA CountsKept ==
  ASSUME CountInv, NEW c \in Casts, NEW r, UNCHANGED <<jobs, pc>>,
         cast[c].step \in Working, r.step \in Working, cast'[c] = r,
         \A d \in Casts \ {c} : cast'[d] = cast[d],
         cast[c].seen \ Elems(cast[c].queue) \subseteq r.seen \ Elems(r.queue)
  PROVE  JobCounts'
<1>1. ASSUME NEW n \in Node, NEW j \in Job, Added(j, n)  PROVE Added(j, n)'
  <2>1. CASE c = <<"new", j>>
    <3>1. n \in cast[c].seen \ Elems(cast[c].queue)
      BY <1>1, <2>1 DEF Added, Working
    <3>2. QED
      BY <2>1, <3>1 DEF Added
  <2>2. CASE c # <<"new", j>>
    BY <1>1, <2>2, CastFacts DEF Added
  <2>3. QED
    BY <2>1, <2>2
<1>2. QED
  BY <1>1 DEF CountInv, JobCounts, HasFetched

LEMMA CastReadsCount ==
  ASSUME CountInv, NEW c \in Casts, CastReads(c)
  PROVE  CastQueues' /\ JobCounts'
<1> USE DEF CountInv, JInv
<1>1. PICK r :
           /\ cast[c].step = "read" /\ UNCHANGED <<jobs, pc>>
           /\ cast' = [cast EXCEPT ![c] = r]
           /\ r.step = "search" /\ r.view = {} /\ r.members = cast[c].members
           /\ r.queue \in Seq(Node) /\ r.seen \in SUBSET Node /\ OneEach(r.queue)
           /\ cast[c].at \in r.seen /\ Elems(r.queue) = r.seen \ {cast[c].at}
  BY ReadQueue
<1>2. /\ r.members \in SUBSET Node /\ r.view \in SUBSET Node
      /\ Elems(r.queue) \subseteq r.seen /\ cast[c].at \in r.seen \ Elems(r.queue)
  BY <1>1 DEF CastQueues
<1>3. CastQueues' /\ cast'[c] = r /\ \A d \in Casts \ {c} : cast'[d] = cast[d]
  BY <1>1, <1>2, QueueStep
<1>4. cast[c].seen \ Elems(cast[c].queue) \subseteq r.seen \ Elems(r.queue)
  <2>1. cast[c].seen = {cast[c].at}
    BY <1>1 DEF CastQueues
  <2>2. QED
    BY <1>2, <2>1
<1>5. QED
  BY <1>1, <1>3, <1>4, CountsKept DEF Working

LEMMA CastFailsCount ==
  ASSUME CountInv, NEW c \in Casts, CastFails(c)
  PROVE  CastQueues' /\ JobCounts'
<1> USE DEF CountInv
<1>1. PICK r : /\ cast[c].step = "read" /\ UNCHANGED <<jobs, pc>>
               /\ cast' = [cast EXCEPT ![c] = r]
               /\ r.step = "failed" /\ r.view = {} /\ r.queue = cast[c].queue
               /\ r.seen = cast[c].seen /\ r.members = cast[c].members
  BY FailFacts
<1>2. /\ r.queue \in Seq(Node) /\ r.seen \in SUBSET Node /\ r.members \in SUBSET Node
      /\ r.view \in SUBSET Node /\ OneEach(r.queue) /\ Elems(r.queue) \subseteq r.seen
  BY <1>1 DEF CastQueues
<1>3. CastQueues' /\ cast'[c] = r /\ \A d \in Casts \ {c} : cast'[d] = cast[d]
  BY <1>1, <1>2, QueueStep DEF JInv
<1>4. QED
  BY <1>1, <1>3, CountsKept DEF Working

\* What a visit does.
LEMMA VisitFacts ==
  ASSUME CountInv, NEW c \in Casts, CastVisits(c)
  PROVE  \E t \in Node, E \in SUBSET Node : \E r :
           /\ cast[c].step = "search" /\ t \in Elems(cast[c].queue)
           /\ UNCHANGED <<links, bootstrap, locks, pc, loc>>
           /\ cast' = [cast EXCEPT ![c] = r]
           /\ r.step = "search" /\ r.at = cast[c].at /\ r.members = cast[c].members
           /\ r.view = cast[c].view
           /\ r.queue \in Seq(Node) /\ r.seen \in SUBSET Node /\ OneEach(r.queue)
           /\ r.seen = cast[c].seen \cup E
           /\ Elems(r.queue) = (Elems(cast[c].queue) \ {t}) \cup (E \ cast[c].seen)
           /\ \/ c[1] = "kill" /\ jobs' = jobs
              \/ /\ E = Neighbours(t) /\ jobs' = ListAfter(c, t)
                 /\ c[1] = "kill" => jobs[t][c[2]] > 0
<1> USE DEF CountInv, JInv
<1> DEFINE q == cast[c].queue
<1>0. PICK t : t = Head(q)
  OBVIOUS
<1> DEFINE unknown == c[1] = "kill" /\ jobs[t][c[2]] = 0
           edges == IF unknown THEN <<>> ELSE AllEdges(t)
           b == Enqueue(Tail(q), edges, cast[c].seen)
<1>1. /\ cast[c].step = "search" /\ q # <<>>
      /\ UNCHANGED <<links, bootstrap, locks, pc, loc>>
      /\ jobs' = IF unknown THEN jobs ELSE ListAfter(c, t)
      /\ cast' = [cast EXCEPT ![c].queue = b.q, ![c].seen = b.s]
  BY <1>0 DEF CastVisits
<1>2. q \in Seq(Node) /\ OneEach(q) /\ Elems(q) \subseteq cast[c].seen /\ cast[c].seen \in SUBSET Node
  BY DEF CastQueues
<1>3. /\ Tail(q) \in Seq(Node) /\ t \in Node /\ OneEach(Tail(q))
      /\ Elems(q) = {t} \cup Elems(Tail(q)) /\ t \notin Elems(Tail(q))
  <2> HIDE DEF q
  <2>1. QED
    BY <1>0, <1>1, <1>2, HeadOnce
<1>4. /\ edges \in Seq(Node) /\ Elems(edges) \in SUBSET Node
      /\ ~unknown => Elems(edges) = Neighbours(t)
  <2>1. /\ AllEdges(t) \in Seq(Node) /\ <<>> \in Seq(Node)
        /\ Elems(AllEdges(t)) = Neighbours(t) /\ Elems(<<>>) = {}
    BY <1>3, EdgesOf DEF JNTypes, Elems
  <2>2. Neighbours(t) \in SUBSET Node
    BY <2>1, ElementOfSeq DEF Elems
  <2> HIDE DEF unknown
  <2>3. QED
    BY <2>1, <2>2
<1>5. Batch(b, Tail(q), cast[c].seen, Elems(edges))
  <2> HIDE DEF edges, q
  <2>1. QED
    BY <1>2, <1>3, <1>4, EnqueueBatch
<1> HIDE DEF b, edges, q
<1>6. /\ b.q \in Seq(Node) /\ b.s \in SUBSET Node /\ OneEach(b.q)
      /\ Elems(b.q) = Elems(Tail(q)) \cup (Elems(edges) \ cast[c].seen)
      /\ b.s = cast[c].seen \cup Elems(edges)
  BY <1>5 DEF Batch, Batches
<1>7. PICK r : r = [cast[c] EXCEPT !.queue = b.q, !.seen = b.s]
  OBVIOUS
<1>8. /\ r.queue = b.q /\ r.seen = b.s /\ r.members = cast[c].members /\ r.step = "search"
      /\ r.at = cast[c].at /\ r.view = cast[c].view
      /\ cast' = [cast EXCEPT ![c] = r]
  <2>1. IsCast(cast[c])
    BY DEF JNTypes
  <2>2. cast' = [cast EXCEPT ![c] = r]
    BY <1>1, <1>7 DEF JNTypes
  <2>3. QED
    BY <1>1, <1>7, <2>1, <2>2 DEF IsCast
<1>9. \/ c[1] = "kill" /\ jobs' = jobs
      \/ /\ Elems(edges) = Neighbours(t) /\ jobs' = ListAfter(c, t)
         /\ c[1] = "kill" => jobs[t][c[2]] > 0
  <2>1. jobs[t][c[2]] \in 0 .. 2
    BY <1>3, CastFacts DEF JobCounts
  <2>2. QED
    BY <1>1, <1>4, <2>1
<1> DEFINE E == Elems(edges)
<1>10. t \in Elems(cast[c].queue) /\ E \in SUBSET Node
  BY <1>3, <1>4 DEF q
<1>11. Elems(r.queue) = (Elems(cast[c].queue) \ {t}) \cup (E \ cast[c].seen)
  BY <1>3, <1>6, <1>8 DEF q
<1>12. E = Elems(edges)
  OBVIOUS
<1> HIDE DEF E, unknown
<1>13. t \in Node
  BY <1>3
<1> WITNESS t \in Node, E \in SUBSET Node
<1> WITNESS r
<1>14. QED
  BY <1>1, <1>6, <1>8, <1>9, <1>10, <1>11, <1>12

LEMMA CastVisitsCount ==
  ASSUME CountInv, NEW c \in Casts, CastVisits(c)
  PROVE  CastQueues' /\ JobCounts'
<1> USE DEF CountInv, JInv
<1>1. PICK t \in Node, E \in SUBSET Node : \E r :
        /\ cast[c].step = "search" /\ t \in Elems(cast[c].queue) /\ UNCHANGED pc
        /\ cast' = [cast EXCEPT ![c] = r]
        /\ r.step = "search" /\ r.members = cast[c].members /\ r.view = cast[c].view
        /\ r.queue \in Seq(Node) /\ r.seen \in SUBSET Node /\ OneEach(r.queue)
        /\ r.seen = cast[c].seen \cup E
        /\ Elems(r.queue) = (Elems(cast[c].queue) \ {t}) \cup (E \ cast[c].seen)
        /\ \/ c[1] = "kill" /\ jobs' = jobs
           \/ jobs' = ListAfter(c, t) /\ (c[1] = "kill" => jobs[t][c[2]] > 0)
  BY VisitFacts
<1>2. PICK r :
        /\ cast[c].step = "search" /\ t \in Elems(cast[c].queue) /\ UNCHANGED pc
        /\ cast' = [cast EXCEPT ![c] = r]
        /\ r.step = "search" /\ r.members = cast[c].members /\ r.view = cast[c].view
        /\ r.queue \in Seq(Node) /\ r.seen \in SUBSET Node /\ OneEach(r.queue)
        /\ r.seen = cast[c].seen \cup E
        /\ Elems(r.queue) = (Elems(cast[c].queue) \ {t}) \cup (E \ cast[c].seen)
        /\ \/ c[1] = "kill" /\ jobs' = jobs
           \/ jobs' = ListAfter(c, t) /\ (c[1] = "kill" => jobs[t][c[2]] > 0)
  BY <1>1
<1>3. /\ Elems(cast[c].queue) \subseteq cast[c].seen
      /\ cast[c].members \in SUBSET Node /\ cast[c].view \in SUBSET Node
  BY DEF CastQueues
<1>4. Elems(r.queue) \subseteq r.seen /\ t \in r.seen \ Elems(r.queue)
  BY <1>2, <1>3
<1>5. CastQueues' /\ cast'[c] = r /\ \A d \in Casts \ {c} : cast'[d] = cast[d]
  BY <1>2, <1>3, <1>4, QueueStep
<1>6. ASSUME NEW n \in Node, NEW j \in Job, Added(j, n)  PROVE Added(j, n)'
  <2>1. CASE c = <<"new", j>>
    <3>1. n \in cast[c].seen \ Elems(cast[c].queue)
      BY <1>2, <1>6, <2>1 DEF Added, Working
    <3>2. n \in r.seen \ Elems(r.queue)
      BY <1>2, <3>1
    <3>3. QED
      BY <1>2, <1>5, <2>1, <3>2 DEF Added, Working
  <2>2. CASE c # <<"new", j>>
    BY <1>5, <1>6, <2>2, CastFacts DEF Added
  <2>3. QED
    BY <2>1, <2>2
<1>7. c[1] = "new" => ~Added(c[2], t) /\ Added(c[2], t)'
  <2>1. SUFFICES ASSUME c[1] = "new"  PROVE ~Added(c[2], t) /\ Added(c[2], t)'
    OBVIOUS
  <2>2. c = <<"new", c[2]>>
    BY <2>1, CastFacts
  <2>3. ~Added(c[2], t)
    BY <1>2, <2>2 DEF Added
  <2>4. Added(c[2], t)'
    BY <1>2, <1>4, <1>5, <2>2 DEF Added, Working
  <2>5. QED
    BY <2>3, <2>4
<1>8. CASE c[1] = "kill" /\ jobs' = jobs
  BY <1>2, <1>5, <1>6, <1>8 DEF JobCounts, HasFetched
<1>9. CASE jobs' = ListAfter(c, t) /\ (c[1] = "kill" => jobs[t][c[2]] > 0)
  <2>1. JobCounts'
    BY <1>2, <1>6, <1>7, <1>9, ListStep
  <2>2. QED
    BY <1>5, <2>1
<1>10. QED
  BY <1>2, <1>8, <1>9

LEMMA CastEndsCount ==
  ASSUME CountInv, NEW c \in Casts, CastEnds(c)
  PROVE  CastQueues' /\ JobCounts'
<1> USE DEF CountInv, JInv
<1>1. PICK r : r = [cast[c] EXCEPT !.step = "done", !.at = None, !.seen = {}]
  OBVIOUS
<1>2. /\ cast' = [cast EXCEPT ![c] = r] /\ UNCHANGED <<jobs, pc>> /\ cast[c].queue = <<>>
  BY <1>1 DEF CastEnds, JNTypes
<1>3. IsCast(cast[c])
  BY DEF JNTypes
<1>4. /\ r.step = "done" /\ r.queue = <<>> /\ r.seen = {}
      /\ r.members = cast[c].members /\ r.view = cast[c].view
  BY <1>1, <1>2, <1>3 DEF IsCast
<1>5. CastQueues' /\ cast'[c] = r /\ \A d \in Casts \ {c} : cast'[d] = cast[d]
  <2>1. Elems(<<>>) = {} /\ OneEach(<<>>) /\ <<>> \in Seq(Node)
    BY DEF Elems, OneEach
  <2>2. cast[c].members \in SUBSET Node /\ cast[c].view \in SUBSET Node
    BY DEF CastQueues
  <2>3. /\ r.queue \in Seq(Node) /\ r.seen \in SUBSET Node /\ r.members \in SUBSET Node
        /\ r.view \in SUBSET Node /\ OneEach(r.queue) /\ Elems(r.queue) \subseteq r.seen
    BY <1>4, <2>1, <2>2
  <2>4. QED
    BY <1>2, <1>4, <2>3, QueueStep
<1>6. ASSUME NEW n \in Node, NEW j \in Job, Added(j, n)  PROVE Added(j, n)'
  BY <1>4, <1>5, <1>6, CastFacts DEF Added
<1>7. QED
  BY <1>2, <1>5, <1>6 DEF JobCounts, HasFetched

\* The steps of a node: its list changes only when it fetches jobs.
LEMMA JoinerCount ==
  ASSUME CountInv, NEW n \in Node, Start(n) \/ JoinerStep(n) \/ Data(n)
  PROVE  CastQueues' /\ JobCounts'
<1> USE DEF CountInv, JInv
<1>1. cast' = cast
  BY DEF Start, JoinerStep, AskEdges, AskInfo, AdoptBelow, AskAdopt, AskSetNext, AskSetPrev,
         LockJobs, FetchJobs, Release, Data
<1>2. CastQueues' /\ \A m \in Node, j \in Job : Added(j, m)' <=> Added(j, m)
  BY <1>1 DEF CastQueues, Added
<1>3. \A m \in Node : HasFetched(m) => HasFetched(m)'
  BY DEF HasFetched, JNTypes, Start, JoinerStep, AskEdges, AskInfo, AdoptBelow, AskAdopt,
         AskSetNext, AskSetPrev, LockJobs, FetchJobs, Release, Data, Goto
<1>4. CASE jobs' = jobs
  BY <1>2, <1>3, <1>4 DEF JobCounts
<1>5. CASE FetchJobs(n)
  <2> DEFINE t == loc[n].other
             x(j) == IF jobs[n][j] = 0 /\ jobs[t][j] > 0 THEN 1 ELSE jobs[n][j]
  <2>1. jobs' = [jobs EXCEPT ![n] = [j \in Job |-> x(j)]]
    BY <1>5 DEF FetchJobs
  <2>2. HasFetched(n)' /\ ~HasFetched(n)
    BY <1>5 DEF FetchJobs, Goto, HasFetched, JNTypes
  <2>3. ASSUME NEW j \in Job
        PROVE  /\ x(j) \in 0 .. 2
               /\ x(j) > 1 => Added(j, n)
    <3>1. jobs[n][j] \in 0 .. 2 /\ (jobs[n][j] > 1 => Added(j, n))
      BY DEF JobCounts
    <3>2. QED
      BY <3>1
  <2> HIDE DEF x
  <2>4. jobs' \in [Node -> [Job -> 0 .. 2]]
    BY <2>1, <2>3 DEF JobCounts
  <2>5. /\ \A j \in Job : jobs'[n][j] = x(j)
        /\ \A m \in Node \ {n} : jobs'[m] = jobs[m]
    BY <2>1 DEF JobCounts
  <2>6. QED
    BY <1>2, <1>3, <2>2, <2>3, <2>4, <2>5 DEF JobCounts
<1>6. QED
  BY <1>4, <1>5 DEF Start, JoinerStep, AskEdges, AskInfo, AdoptBelow, AskAdopt, AskSetNext,
     AskSetPrev, LockJobs, FetchJobs, Release, Data

LEMMA CountStep ==
  ASSUME CountInv, [JNNext]_jnvars
  PROVE  CastQueues' /\ JobCounts'
<1>1. CASE UNCHANGED jnvars
  BY <1>1 DEF jnvars, CountInv, CastQueues, JobCounts, Added, HasFetched
<1>2. QED
  BY <1>1, JoinerCount, CastStartsCount, CastReadsCount, CastFailsCount, CastVisitsCount,
     CastEndsCount DEF JNNext, CastStep

\* The lists and the queues of the broadcasts.
LEMMA JavaCounts == JNSpec => [](Undisturbed => CountInv)
<1>1. JNInit => CastQueues /\ JobCounts
  <2>1. Elems(<<>>) = {} /\ OneEach(<<>>) /\ <<>> \in Seq(Node)
    BY DEF Elems, OneEach
  <2>2. ASSUME JNInit  PROVE CastQueues
    BY <2>1, <2>2 DEF JNInit, CastQueues
  <2>3. ASSUME JNInit  PROVE JobCounts
    BY <2>3 DEF JNInit, JobCounts
  <2>4. QED
    BY <2>2, <2>3
<1> DEFINE Counts == Undisturbed => CastQueues /\ JobCounts
<1>2. (Undisturbed => JInv) /\ Counts /\ [JNNext]_jnvars => Counts'
  BY CountStep, StaysEarly DEF CountInv, Undisturbed
<1>3. (Undisturbed => JInv) /\ Counts => (Undisturbed => CountInv)
  BY DEF CountInv
<1>4. JNInit => Counts
  BY <1>1
<1> HIDE DEF Counts
<1>5. QED
  BY <1>2, <1>3, <1>4, JavaInvariant, PTL DEF JNSpec

\* All variables keep their types, as long as no unlinked node has been asked for
\* data.  For the lists this says that a job is never more than twice in one, though
\* addJob() does not look for it: a broadcast is at a node once, and fetchJobs()
\* takes no job that is there.
THEOREM JavaTypeCorrect == JNSpec => [](Undisturbed => JNTypeOK)
<1>1. ASSUME CountInv, Undisturbed  PROVE JNTypeOK
  <2>1. ASSUME NEW c \in Casts  PROVE cast[c] \in CastState
    <3>1. IsCast(cast[c])
      BY <1>1 DEF CountInv, JInv, JNTypes
    <3>2. /\ cast[c].queue \in Seq(Node) /\ cast[c].seen \in SUBSET Node
          /\ cast[c].members \in SUBSET Node /\ cast[c].view \in SUBSET Node
      BY <1>1 DEF CountInv, CastQueues
    <3>3. QED
      BY <3>1, <3>2 DEF IsCast, CastState
  <2>2. cast \in [Casts -> CastState]
    BY <1>1, <2>1 DEF CountInv, JInv, JNTypes
  <2>3. QED
    BY <1>1, <2>2 DEF CountInv, JInv, JNTypes, JobCounts, JNTypeOK, Undisturbed
<1>2. (Undisturbed => CountInv) => (Undisturbed => JNTypeOK)
  BY <1>1
<1>3. QED
  BY <1>2, JavaCounts, PTL

-----------------------------------------------------------------------------
(***************************************************************************)
(* Who gets a job                                                          *)
(*                                                                         *)
(* Two nodes i and i+1 that are linked are neighbours for good, whatever   *)
(* joins later: on their circle, or as the first of the second circle and  *)
(* its parent.  So a broadcast finds every node that was linked when it    *)
(* started.                                                                *)
(***************************************************************************)
LEMMA BesideEachOther ==
  ASSUME JShape, LinksTypeOK, NEW i \in Nat, i + 1 \in Linked
  PROVE  i \in Neighbours(i+1) /\ i + 1 \in Neighbours(i) /\ i \in Linked
<1>1. PICK k \in 0 .. N : ShapeAt(k)
  BY DEF JShape
<1>2. PICK s : s = Low(k)
  OBVIOUS
<1>3. k \in Nat /\ i + 1 < k /\ i \in Linked /\ i \in Node /\ i + 1 \in Node
  BY <1>1, LowFacts, LinkedFacts DEF ShapeAt
<1>4. s \in Starts /\ s \in Nat /\ s <= k /\ ((s = 0 /\ k <= 3) \/ (s = 3 /\ k > 3))
  BY <1>2, <1>3, LowFacts, StartsClosed
<1>5. PICK j, z : /\ j \in {k, k+1} /\ KidsAre(s, j) /\ ParentsAre(s, j) /\ RingsAbove(s)
                  /\ NextsAre(s, k, z) /\ PrevsAre(s, k, k-1)
                  /\ k <= 3 => s = 0
                  /\ k + 1 = j => k <= 10
  <2>1. CASE Resting(s, k)
    BY <1>3, <1>4, <2>1 DEF Resting, RingIs
  <2>2. CASE ~Resting(s, k)
    <3>1. k \in Node /\ (Opening(s, k, s) \/ Opening(s, k, k))
      BY <1>1, <1>2, <2>2 DEF ShapeAt, LinksAt
    <3>2. k < 11
      BY <3>1, LowFacts
    <3>3. QED
      BY <1>3, <1>4, <3>1, <3>2 DEF Opening
  <2>3. QED
    BY <2>1, <2>2
<1>6. i # None /\ i + 1 # None
  BY <1>3 DEF None
<1>7. CASE i # 2
  <2>1. e_next[i] = i + 1 /\ e_prev[i+1] = i
    <3>1. CASE i < 2 /\ s = 3
      <4>1. 0 \in Starts /\ RingIs(0, 2*0 + 3)
        BY <1>5, <3>1, StartsClosed DEF RingsAbove
      <4>2. NextsAre(0, 3, 0) /\ PrevsAre(0, 3, 2)
        BY <4>1 DEF RingIs
      <4>3. i \in 0 .. 3-1 /\ i + 1 \in 0 .. 3-1 /\ i # 3-1 /\ i + 1 # 0 /\ i + 1 - 1 = i
        BY <3>1
      <4>4. QED
        BY <4>2, <4>3 DEF NextsAre, PrevsAre
    <3>2. CASE ~(i < 2 /\ s = 3)
      <4>1. i \in s .. k-1 /\ i + 1 \in s .. k-1 /\ i # k - 1 /\ i + 1 # s /\ i + 1 - 1 = i
        BY <1>3, <1>4, <1>7, <3>2
      <4>2. QED
        BY <1>5, <4>1 DEF NextsAre, PrevsAre
    <3>3. QED
      BY <3>1, <3>2
  <2>2. QED
    BY <1>3, <1>6, <2>1 DEF Neighbours
<1>8. CASE i = 2
  <2>1. s = 3 /\ j >= 4 /\ j \in Nat
    BY <1>3, <1>4, <1>5, <1>8
  <2>2. e_parent[3] = 2
    <3>1. e_parent[3] = Dad(3, 3) /\ 3 \in Node
      BY <1>3, <1>5, <1>8, <2>1 DEF ParentsAre
    <3>2. QED
      BY <3>1 DEF Dad, Home
  <2>3. e_children[2] = KidSeq(3, j, 2) /\ 2 \in Node
    BY <1>3, <1>5, <1>8, <2>1 DEF KidsAre
  <2>4. 3 \in Children(2)
    <3>1. First(2) = 3 /\ Home(3) = 2
      BY DEF First, Home
    <3>2. KidSeq(3, j, 2) \in {<<3, 4, 9, 10>>, <<3, 4, 9>>, <<3, 4>>, <<3>>}
      BY <2>1, <3>1 DEF KidSeq
    <3>3. 1 \in DOMAIN e_children[2] /\ e_children[2][1] = 3
      BY <2>3, <3>2
    <3>4. QED
      BY <3>3 DEF Children
  <2>5. QED
    BY <1>3, <1>6, <1>8, <2>2, <2>4 DEF Neighbours
<1>9. QED
  BY <1>7, <1>8

\* A broadcast that has not read the edges of its node yet is going to find the
\* neighbours that the node had, and keeps, among 0 .. k-1.
Intends(c, k) ==
  /\ c.members \subseteq 0 .. k-1 /\ 0 .. k-1 \subseteq Linked
  /\ c.members # {} => c.at \in 0 .. k-1
  /\ \A i, m \in 0 .. k-1 : (m = i + 1 \/ i = m + 1) /\ i = c.at => m \in c.view

\* A broadcast that has been at a node of 0 .. k-1 has seen its neighbours there.
Spreads(c, k) ==
  /\ c.members \subseteq 0 .. k-1 /\ 0 .. k-1 \subseteq Linked
  /\ c.members # {} => c.at \in 0 .. k-1
  /\ c.at \in c.seen \ Elems(c.queue)
  /\ \A i, m \in 0 .. k-1 :
       (m = i + 1 \/ i = m + 1) /\ i \in c.seen \ Elems(c.queue) => m \in c.seen

\* As long as nobody kills job j, it is at all nodes that newJob has been at.
Has(S, j) == \A n \in S : n \in Node /\ jobs[n][j] > 0

JobSpreads(j) ==
  LET c      == cast[<<"new", j>>]
      killed == cast[<<"kill", j>>].step # "idle"
  IN
  /\ c.step = "read" => \E k \in 0 .. N : Intends(c, k)
  /\ c.step = "search" => \E k \in 0 .. N : Spreads(c, k)
  /\ c.step \in {"read", "search"} /\ ~killed => Has(c.seen \ Elems(c.queue), j)
  /\ c.step = "done" /\ ~killed => Has(c.members, j)

LEMMA LinkedGrows ==
  ASSUME JInv, [JNNext]_jnvars
  PROVE  Linked \subseteq Linked'
<1>1. ASSUME NEW n \in Node, Start(n) \/ JoinerStep(n) \/ Data(n)
      PROVE  \A m \in Node : pc[m] \in LinkedSteps => pc'[m] \in LinkedSteps
  <2>1. CASE LockJobs(n) \/ FetchJobs(n) \/ Release(n)
    BY <2>1 DEF JInv, JNTypes, LockJobs, FetchJobs, Release, Goto, LinkedSteps
  <2>2. CASE ~(LockJobs(n) \/ FetchJobs(n) \/ Release(n))
    <3>1. \A m \in Node \ {n} : pc'[m] = pc[m]
      BY <1>1, <2>2 DEF JInv, JNTypes, Start, JoinerStep, AskEdges, AskInfo, AdoptBelow,
         AskAdopt, AskSetNext, AskSetPrev, Data, Goto
    <3>2. CASE Data(n)
      BY <3>2 DEF Data
    <3>3. CASE ~Data(n)
      <4>1. pc[n] \notin LinkedSteps
        BY <1>1, <2>2, <3>3 DEF Start, JoinerStep, AskEdges, AskInfo, AdoptBelow,
           AskAdopt, AskSetNext, AskSetPrev, LinkedSteps
      <4>2. QED
        BY <3>1, <4>1
    <3>4. QED
      BY <3>2, <3>3
  <2>3. QED
    BY <2>1, <2>2
<1>2. ASSUME pc' = pc  PROVE Linked \subseteq Linked'
  BY <1>2 DEF Linked
<1>3. CASE UNCHANGED jnvars
  BY <1>2, <1>3 DEF jnvars
<1>4. CASE \E c \in Casts : CastStep(c) \/ \E a \in Entry : CastStarts(c, a)
  BY <1>2, <1>4 DEF CastStep, CastReads, CastFails, CastVisits, CastEnds, CastStarts
<1>5. CASE \E n \in Node : Start(n) \/ JoinerStep(n) \/ Data(n)
  BY <1>1, <1>5 DEF Linked, LinkedSteps
<1>6. QED
  BY <1>3, <1>4, <1>5 DEF JNNext

\* What broadcast c does to the lists.
LEMMA ListChange ==
  ASSUME JobCounts, NEW c \in Casts, NEW t \in Node, jobs' = ListAfter(c, t)
  PROVE  \A n \in Node, j \in Job :
           jobs'[n][j] = IF n = t /\ j = c[2]
                         THEN (IF c[1] = "new" THEN jobs[n][j] + 1 ELSE jobs[n][j] - 1)
                         ELSE jobs[n][j]
<1>1. c[2] \in Job
  BY CastFacts
<1>2. PICK x : x = IF c[1] = "new" THEN jobs[t][c[2]] + 1 ELSE jobs[t][c[2]] - 1
  OBVIOUS
<1>3. jobs' = [jobs EXCEPT ![t] = [jobs[t] EXCEPT ![c[2]] = x]]
  BY <1>1, <1>2 DEF ListAfter, JobCounts
<1>4. QED
  BY <1>1, <1>2, <1>3 DEF JobCounts

\* A job that nobody kills stays where it is.
LEMMA JobStays ==
  ASSUME CountInv, [JNNext]_jnvars, NEW j \in Job, cast'[<<"kill", j>>].step = "idle"
  PROVE  /\ cast[<<"kill", j>>].step = "idle"
         /\ \A n \in Node : jobs[n][j] > 0 => jobs'[n][j] > 0
<1> USE DEF CountInv, JInv
<1> DEFINE d == <<"kill", j>>
<1>0. d \in Casts /\ \A c \in Casts : c # d => c[1] = "new" \/ c[2] # j
  BY CastFacts DEF Casts
<1>1. \A n \in Node : jobs[n][j] \in Nat
  BY DEF JobCounts
<1> HIDE DEF d
<1>2. ASSUME NEW c \in Casts, NEW t \in Node, jobs' = ListAfter(c, t), c # d
      PROVE  \A n \in Node : jobs[n][j] > 0 => jobs'[n][j] > 0
  BY <1>0, <1>1, <1>2, ListChange
<1>3. ASSUME NEW c \in Casts, NEW r, cast' = [cast EXCEPT ![c] = r], r.step # "idle"
      PROVE  c # d /\ cast[d].step = "idle"
  BY <1>0, <1>3 DEF JNTypes, d
<1>4. ASSUME NEW c \in Casts, NEW a \in Entry, CastStarts(c, a)
      PROVE  cast[d].step = "idle" /\ \A n \in Node : jobs[n][j] > 0 => jobs'[n][j] > 0
  <2>1. PICK r : r = [step |-> "read", at |-> a, view |-> Neighbours(a), queue |-> <<>>,
                      seen |-> {a}, members |-> IF a \in Members THEN Members ELSE {}]
    OBVIOUS
  <2>2. cast' = [cast EXCEPT ![c] = r] /\ jobs' = ListAfter(c, a) /\ a \in Node
    BY <1>4, <2>1, JavaAssumption DEF CastStarts
  <2>3. r.step = "read"
    BY <2>1
  <2>4. QED
    BY <1>2, <1>3, <2>2, <2>3
<1>5. ASSUME NEW c \in Casts, CastVisits(c)
      PROVE  cast[d].step = "idle" /\ \A n \in Node : jobs[n][j] > 0 => jobs'[n][j] > 0
  <2>1. PICK t \in Node : \E r :
          /\ cast' = [cast EXCEPT ![c] = r] /\ r.step = "search"
          /\ jobs' = jobs \/ jobs' = ListAfter(c, t)
    BY <1>5, VisitFacts
  <2>2. c # d /\ cast[d].step = "idle"
    BY <1>3, <2>1
  <2>3. QED
    BY <1>2, <2>1, <2>2
<1>6. ASSUME NEW c \in Casts, CastEnds(c)
      PROVE  cast[d].step = "idle" /\ \A n \in Node : jobs[n][j] > 0 => jobs'[n][j] > 0
  <2>1. PICK r : r = [cast[c] EXCEPT !.step = "done", !.at = None, !.seen = {}]
    OBVIOUS
  <2>2. IsCast(cast[c])
    BY DEF JNTypes
  <2>3. cast' = [cast EXCEPT ![c] = r] /\ r.step = "done" /\ jobs' = jobs
    BY <1>6, <2>1, <2>2 DEF CastEnds, JNTypes, IsCast
  <2>4. QED
    BY <1>3, <2>3
<1>7. ASSUME NEW c \in Casts, CastReads(c) \/ CastFails(c)
      PROVE  cast[d].step = "idle" /\ \A n \in Node : jobs[n][j] > 0 => jobs'[n][j] > 0
  <2>1. CASE CastReads(c)
    <3>1. PICK r : cast' = [cast EXCEPT ![c] = r] /\ r.step = "search" /\ jobs' = jobs
      BY <2>1, ReadQueue
    <3>2. c # d /\ cast[d].step = "idle"
      BY <1>3, <3>1
    <3>3. QED
      BY <3>1, <3>2
  <2>2. CASE CastFails(c)
    <3>1. PICK r : cast' = [cast EXCEPT ![c] = r] /\ r.step = "failed" /\ jobs' = jobs
      BY <2>2, FailFacts
    <3>2. c # d /\ cast[d].step = "idle"
      BY <1>3, <3>1
    <3>3. QED
      BY <3>1, <3>2
  <2>3. QED
    BY <1>7, <2>1, <2>2
<1>8. ASSUME NEW n \in Node, Start(n) \/ JoinerStep(n) \/ Data(n)
      PROVE  cast[d].step = "idle" /\ \A m \in Node : jobs[m][j] > 0 => jobs'[m][j] > 0
  <2>1. cast' = cast
    BY <1>8 DEF Start, JoinerStep, AskEdges, AskInfo, AdoptBelow, AskAdopt, AskSetNext,
           AskSetPrev, LockJobs, FetchJobs, Release, Data
  <2>2. CASE FetchJobs(n)
    <3> DEFINE t == loc[n].other
               x(i) == IF jobs[n][i] = 0 /\ jobs[t][i] > 0 THEN 1 ELSE jobs[n][i]
    <3>1. jobs' = [jobs EXCEPT ![n] = [i \in Job |-> x(i)]]
      BY <2>2 DEF FetchJobs
    <3>2. jobs[n][j] > 0 => x(j) > 0
      BY <1>1
    <3> HIDE DEF x
    <3>3. QED
      BY <2>1, <3>1, <3>2 DEF JobCounts, d
  <2>3. CASE ~FetchJobs(n)
    <3>1. jobs' = jobs
      BY <1>8, <2>3 DEF Start, JoinerStep, AskEdges, AskInfo, AdoptBelow, AskAdopt, AskSetNext,
         AskSetPrev, LockJobs, Release, Data
    <3>2. QED
      BY <2>1, <3>1 DEF d
  <2>4. QED
    BY <2>2, <2>3
<1>9. CASE UNCHANGED jnvars
  BY <1>9 DEF jnvars
<1>10. QED
  BY <1>4, <1>5, <1>6, <1>7, <1>8, <1>9 DEF JNNext, CastStep, d

\* A step that leaves the broadcast of j alone.
LEMMA SpreadKept ==
  ASSUME CountInv, [JNNext]_jnvars, NEW j \in Job, JobSpreads(j),
         cast'[<<"new", j>>] = cast[<<"new", j>>]
  PROVE  JobSpreads(j)'
<1> DEFINE c == cast[<<"new", j>>]
<1>1. ASSUME NEW k \in 0 .. N, Spreads(c, k)  PROVE Spreads(c, k)'
  BY <1>1, LinkedGrows DEF CountInv, Spreads
<1>2. ASSUME NEW k \in 0 .. N, Intends(c, k)  PROVE Intends(c, k)'
  BY <1>2, LinkedGrows DEF CountInv, Intends
<1>3. ASSUME NEW S, Has(S, j), cast'[<<"kill", j>>].step = "idle"
      PROVE  cast[<<"kill", j>>].step = "idle" /\ Has(S, j)'
  BY <1>3, JobStays DEF Has
<1>4. cast'[<<"kill", j>>].step = "idle" => cast[<<"kill", j>>].step = "idle"
  BY JobStays
<1>5. QED
  BY <1>1, <1>2, <1>3, <1>4 DEF JobSpreads

\* The neighbours of a node that is visited are seen.
LEMMA NeighboursSeen ==
  ASSUME JShape, LinksTypeOK, NEW k \in 0 .. N, 0 .. k-1 \subseteq Linked,
         NEW i \in 0 .. k-1, NEW m \in 0 .. k-1, m = i + 1 \/ i = m + 1
  PROVE  m \in Neighbours(i)
<1>1. i \in Nat /\ m \in Nat /\ i \in Linked /\ m \in Linked
  OBVIOUS
<1>2. QED
  BY <1>1, BesideEachOther

\* The broadcast starts.
LEMMA SpreadStarts ==
  ASSUME CountInv, JShape, JNNext, NEW j \in Job, NEW a \in Entry, CastStarts(<<"new", j>>, a)
  PROVE  JobSpreads(j)'
<1> USE DEF CountInv, JInv
<1> DEFINE d == <<"new", j>>
<1>1. a \in Node /\ jobs' = ListAfter(d, a) /\ UNCHANGED <<links, pc>> /\ d \in Casts
  BY JavaAssumption, CastFacts DEF CastStarts
<1>2. PICK ms : ms = IF a \in Members THEN Members ELSE {}
  OBVIOUS
<1>3. PICK r : r = [step |-> "read", at |-> a, view |-> Neighbours(a), queue |-> <<>>,
                    seen |-> {a}, members |-> ms]
  OBVIOUS
<1>4. cast' = [cast EXCEPT ![d] = r] /\ cast'[d] = r
  BY <1>1, <1>2, <1>3 DEF CastStarts, JNTypes
<1> HIDE DEF d
<1>5. /\ r.step = "read" /\ r.at = a /\ r.members = ms /\ r.view = Neighbours(a)
      /\ r.seen \ Elems(r.queue) = {a}
  BY <1>3 DEF Elems
<1>6. Linked' = Linked /\ LinksTypeOK
  BY <1>1 DEF Linked, JNTypes
<1>7. \E k \in 0 .. N : Intends(r, k)'
  <2>1. CASE a \notin Members
    <3>1. 0 .. 0-1 = {} /\ 0 \in 0 .. N /\ ms = {}
      BY <1>2, <2>1, NAssumption
    <3>2. Intends(r, 0)'
      BY <1>5, <3>1 DEF Intends
    <3>3. QED
      BY <3>1, <3>2
  <2>2. CASE a \in Members
    <3>1. PICK k \in 0 .. N : Linked = 0 .. k-1
      BY DEF JShape, ShapeAt
    <3>2. Members \subseteq Linked
      BY DEF Members, Linked
    <3>3. a \in 0 .. k-1 /\ r.members \subseteq 0 .. k-1
      BY <1>2, <1>5, <2>2, <3>1, <3>2
    <3>4. ASSUME NEW i \in 0 .. k-1, NEW m \in 0 .. k-1, m = i + 1 \/ i = m + 1, i = a
          PROVE  m \in Neighbours(a)
      BY <1>6, <3>1, <3>4, NeighboursSeen
    <3>5. Intends(r, k)'
      BY <1>5, <1>6, <3>1, <3>3, <3>4 DEF Intends
    <3>6. QED
      BY <3>5
  <2>3. QED
    BY <2>1, <2>2
<1>8. jobs'[a][j] > 0
  <2>1. jobs'[a][j] = jobs[a][j] + 1 /\ jobs[a][j] \in 0 .. 2
    BY <1>1, ListChange DEF d, JobCounts
  <2>2. QED
    BY <2>1
<1>9. QED
  BY <1>1, <1>4, <1>5, <1>7, <1>8 DEF JobSpreads, Has, d

\* It reads the edges of its node.
LEMMA SpreadReads ==
  ASSUME CountInv, JShape, [JNNext]_jnvars, NEW j \in Job, JobSpreads(j),
         CastReads(<<"new", j>>)
  PROVE  JobSpreads(j)'
<1> USE DEF CountInv, JInv
<1> DEFINE d == <<"new", j>>
           a == cast[d].at
<1>1. d \in Casts
  BY CastFacts
<1>2. PICK r :
           /\ cast[d].step = "read" /\ a \in Node /\ UNCHANGED <<links, pc>>
           /\ Neighbours(a) \cap cast[d].view \subseteq r.seen
           /\ cast' = [cast EXCEPT ![d] = r]
           /\ r.step = "search" /\ r.at = a /\ r.members = cast[d].members
           /\ a \in r.seen /\ Elems(r.queue) = r.seen \ {a}
  BY <1>1, ReadQueue
<1>3. cast'[d] = r /\ Linked' = Linked /\ LinksTypeOK
      /\ cast[d].seen \ Elems(cast[d].queue) = {a}
  BY <1>1, <1>2 DEF JNTypes, Linked, CastQueues, Elems
<1>4. r.seen \ Elems(r.queue) = {a}
  BY <1>2
<1>5. \E k \in 0 .. N : Spreads(r, k)'
  <2>1. PICK k \in 0 .. N : Intends(cast[d], k)
    BY <1>2 DEF JobSpreads
  <2>2. /\ r.members \subseteq 0 .. k-1 /\ 0 .. k-1 \subseteq Linked
        /\ (r.members # {} => a \in 0 .. k-1)
    BY <1>2, <2>1 DEF Intends
  <2>3. ASSUME NEW i \in 0 .. k-1, NEW m \in 0 .. k-1, m = i + 1 \/ i = m + 1, i = a
        PROVE  m \in r.seen
    <3>1. m \in Neighbours(a)
      BY <1>3, <2>2, <2>3, NeighboursSeen
    <3>2. m \in cast[d].view
      BY <2>1, <2>3 DEF Intends
    <3>3. QED
      BY <1>2, <3>1, <3>2
  <2> HIDE DEF d, a
  <2>4. Spreads(r, k)'
    BY <1>2, <1>3, <1>4, <2>2, <2>3 DEF Spreads
  <2>5. QED
    BY <2>4
<1>6. ASSUME cast'[<<"kill", j>>].step = "idle"  PROVE Has({a}, j)'
  <2>1. /\ cast[<<"kill", j>>].step = "idle"
        /\ \A n \in Node : jobs[n][j] > 0 => jobs'[n][j] > 0
    BY <1>6, JobStays
  <2>2. Has({a}, j)
    BY <1>2, <1>3, <2>1 DEF JobSpreads
  <2>3. QED
    BY <1>2, <2>1, <2>2 DEF Has
<1>7. QED
  BY <1>2, <1>3, <1>4, <1>5, <1>6 DEF JobSpreads

LEMMA SpreadFails ==
  ASSUME CountInv, NEW j \in Job, CastFails(<<"new", j>>)
  PROVE  JobSpreads(j)'
<1>1. PICK r : cast' = [cast EXCEPT ![<<"new", j>>] = r] /\ r.step = "failed"
  BY CastFacts, FailFacts DEF CountInv
<1>2. cast'[<<"new", j>>].step = "failed"
  BY <1>1, CastFacts DEF CountInv, JInv, JNTypes
<1>3. QED
  BY <1>2 DEF JobSpreads

\* It goes on to the next node of its queue.
LEMMA SpreadVisits ==
  ASSUME CountInv, JShape, [JNNext]_jnvars, NEW j \in Job, JobSpreads(j),
         CastVisits(<<"new", j>>)
  PROVE  JobSpreads(j)'
<1> USE DEF CountInv, JInv
<1> DEFINE d == <<"new", j>>
<1>1. d \in Casts /\ d[1] = "new" /\ d[2] = j
  BY CastFacts
<1>2. PICK t \in Node, E \in SUBSET Node : \E r :
           /\ cast[d].step = "search" /\ t \in Elems(cast[d].queue)
           /\ UNCHANGED <<links, bootstrap, locks, pc, loc>>
           /\ cast' = [cast EXCEPT ![d] = r]
           /\ r.step = "search" /\ r.at = cast[d].at /\ r.members = cast[d].members
           /\ r.queue \in Seq(Node) /\ r.seen \in SUBSET Node /\ OneEach(r.queue)
           /\ r.seen = cast[d].seen \cup E
           /\ Elems(r.queue) = (Elems(cast[d].queue) \ {t}) \cup (E \ cast[d].seen)
           /\ E = Neighbours(t) /\ jobs' = ListAfter(d, t)
  BY <1>1, VisitFacts
<1>3. PICK r :
           /\ cast[d].step = "search" /\ t \in Elems(cast[d].queue)
           /\ UNCHANGED <<links, pc>>
           /\ cast' = [cast EXCEPT ![d] = r]
           /\ r.step = "search" /\ r.at = cast[d].at /\ r.members = cast[d].members
           /\ r.seen = cast[d].seen \cup E
           /\ Elems(r.queue) = (Elems(cast[d].queue) \ {t}) \cup (E \ cast[d].seen)
           /\ E = Neighbours(t) /\ jobs' = ListAfter(d, t)
  BY <1>2
<1>4. cast'[d] = r /\ Linked' = Linked /\ LinksTypeOK
      /\ Elems(cast[d].queue) \subseteq cast[d].seen
  BY <1>1, <1>3 DEF JNTypes, Linked, CastQueues
<1> DEFINE old == cast[d].seen \ Elems(cast[d].queue)
           new == r.seen \ Elems(r.queue)
<1>5. new = old \cup {t}
  BY <1>3, <1>4
<1>6. \E k \in 0 .. N : Spreads(r, k)'
  <2>1. PICK k \in 0 .. N : Spreads(cast[d], k)
    BY <1>3 DEF JobSpreads
  <2> HIDE DEF d
  <2>2. r.at \in new /\ r.members \subseteq 0 .. k-1 /\ 0 .. k-1 \subseteq Linked
        /\ (r.members # {} => r.at \in 0 .. k-1)
    BY <1>3, <1>5, <2>1 DEF Spreads
  <2>3. ASSUME NEW i \in 0 .. k-1, NEW m \in 0 .. k-1, m = i + 1 \/ i = m + 1, i \in new
        PROVE  m \in r.seen
    <3>1. CASE i = t
      <4>1. m \in Neighbours(t)
        BY <1>4, <2>2, <2>3, <3>1, NeighboursSeen
      <4>2. QED
        BY <1>3, <4>1
    <3>2. CASE i # t
      <4>1. i \in old
        BY <1>5, <2>3, <3>2
      <4>2. m \in cast[d].seen
        BY <2>1, <2>3, <4>1 DEF Spreads
      <4>3. QED
        BY <1>3, <4>2
    <3>3. QED
      BY <3>1, <3>2
  <2>4. Spreads(r, k)'
    BY <1>4, <2>2, <2>3 DEF Spreads
  <2>5. QED
    BY <2>4
<1>7. ASSUME cast'[<<"kill", j>>].step = "idle"  PROVE Has(new, j)'
  <2>1. /\ cast[<<"kill", j>>].step = "idle"
        /\ \A n \in Node : jobs[n][j] > 0 => jobs'[n][j] > 0
    BY <1>7, JobStays
  <2>2. Has(old, j)
    BY <1>3, <2>1 DEF JobSpreads
  <2>3. jobs'[t][j] > 0
    <3>1. jobs'[t][j] = jobs[t][j] + 1 /\ jobs[t][j] \in 0 .. 2
      BY <1>1, <1>3, ListChange DEF JobCounts
    <3>2. QED
      BY <3>1
  <2> HIDE DEF old, new, d
  <2>4. QED
    BY <1>5, <2>1, <2>2, <2>3 DEF Has
<1>8. QED
  BY <1>3, <1>4, <1>6, <1>7 DEF JobSpreads

\* When its queue is empty, it has seen all of 0 .. k-1.
LEMMA AllSeen ==
  ASSUME NEW k \in Nat, NEW S, NEW a \in 0 .. k-1, a \in S,
         \A i, m \in 0 .. k-1 : (m = i + 1 \/ i = m + 1) /\ i \in S => m \in S
  PROVE  0 .. k-1 \subseteq S
<1>1. 0 \in S
  <2> DEFINE T == S \cap (0 .. k-1)
  <2>1. T \in SUBSET Nat /\ T # {}
    OBVIOUS
  <2>2. PICK x \in T : \A y \in T : x <= y
    BY <2>1, Smallest
  <2>3. ASSUME x # 0  PROVE FALSE
    <3>1. x - 1 \in 0 .. k-1 /\ x \in 0 .. k-1 /\ x = x - 1 + 1 /\ x \in S
      BY <2>2, <2>3
    <3>2. x - 1 \in T
      BY <3>1
    <3>3. x <= x - 1
      BY <2>2, <3>2
    <3>4. QED
      BY <3>1, <3>3
  <2>4. QED
    BY <2>2, <2>3
<1>2. ASSUME (0 .. k-1) \ S # {}  PROVE FALSE
  <2> DEFINE T == (0 .. k-1) \ S
  <2>1. T \in SUBSET Nat /\ T # {}
    BY <1>2
  <2>2. PICK x \in T : \A y \in T : x <= y
    BY <2>1, Smallest
  <2>3. x # 0 /\ x - 1 \in 0 .. k-1 /\ x \in 0 .. k-1 /\ x = x - 1 + 1 /\ ~(x <= x - 1)
    BY <1>1, <2>2
  <2>4. x - 1 \in S
    BY <2>2, <2>3
  <2>5. x \in S
    BY <2>3, <2>4
  <2>6. QED
    BY <2>2, <2>5
<1>3. QED
  BY <1>2

LEMMA SpreadEnds ==
  ASSUME CountInv, [JNNext]_jnvars, NEW j \in Job, JobSpreads(j), CastEnds(<<"new", j>>)
  PROVE  JobSpreads(j)'
<1> USE DEF CountInv, JInv
<1> DEFINE d == <<"new", j>>
<1>1. d \in Casts
  BY CastFacts
<1>2. PICK r : r = [cast[d] EXCEPT !.step = "done", !.at = None, !.seen = {}]
  OBVIOUS
<1>3. IsCast(cast[d])
  BY <1>1 DEF JNTypes
<1>4. /\ cast' = [cast EXCEPT ![d] = r] /\ jobs' = jobs
      /\ cast[d].queue = <<>> /\ cast[d].step = "search"
      /\ r.step = "done" /\ r.members = cast[d].members
  BY <1>2, <1>3 DEF CastEnds, JNTypes, IsCast
<1>5. cast'[d] = r /\ Elems(cast[d].queue) = {}
  BY <1>1, <1>4 DEF JNTypes, Elems
<1>6. PICK k \in 0 .. N : Spreads(cast[d], k)
  BY <1>4 DEF JobSpreads
<1>7. k \in Nat
  BY NAssumption
<1>8. r.members \subseteq cast[d].seen \ Elems(cast[d].queue)
  <2>1. CASE r.members # {}
    <3> DEFINE S == cast[d].seen
    <3>1. /\ cast[d].at \in 0 .. k-1 /\ cast[d].at \in S
          /\ \A i, m \in 0 .. k-1 : (m = i + 1 \/ i = m + 1) /\ i \in S => m \in S
      BY <1>4, <1>5, <1>6, <2>1 DEF Spreads
    <3> HIDE DEF S
    <3>2. 0 .. k-1 \subseteq S
      BY <1>7, <3>1, AllSeen
    <3>3. QED
      BY <1>4, <1>5, <1>6, <3>2 DEF Spreads, S
  <2>2. QED
    BY <2>1
<1>9. ASSUME cast'[<<"kill", j>>].step = "idle"  PROVE Has(r.members, j)'
  <2>1. cast[<<"kill", j>>].step = "idle"
    BY <1>9, JobStays
  <2>2. Has(cast[d].seen \ Elems(cast[d].queue), j)
    BY <1>4, <2>1 DEF JobSpreads
  <2>3. QED
    BY <1>4, <1>8, <2>2 DEF Has
<1>10. QED
  BY <1>4, <1>5, <1>9 DEF JobSpreads

LEMMA SpreadNext ==
  ASSUME CountInv, JShape, [JNNext]_jnvars, NEW j \in Job, JobSpreads(j)
  PROVE  JobSpreads(j)'
<1> USE DEF CountInv, JInv
<1> DEFINE d == <<"new", j>>
<1>1. CASE cast'[d] = cast[d]
  BY <1>1, SpreadKept
<1>2. CASE cast'[d] # cast[d]
  <2>1. PICK c \in Casts : CastStep(c) \/ \E a \in Entry : CastStarts(c, a)
    <3>1. ASSUME NEW n \in Node, Start(n) \/ JoinerStep(n) \/ Data(n)  PROVE cast' = cast
      BY <3>1 DEF Start, JoinerStep, AskEdges, AskInfo, AdoptBelow, AskAdopt, AskSetNext,
         AskSetPrev, LockJobs, FetchJobs, Release, Data
    <3>2. UNCHANGED jnvars => cast' = cast
      BY DEF jnvars
    <3>3. QED
      BY <1>2, <3>1, <3>2 DEF JNNext
  <2>2. c = d
    <3>1. ASSUME c # d  PROVE FALSE
      <4>1. cast'[d] = cast[d]
        BY <2>1, <3>1, CastFacts DEF JNTypes, CastStep, CastReads, CastFails, CastVisits,
           CastEnds, CastStarts
      <4>2. QED
        BY <1>2, <4>1
    <3>2. QED
      BY <3>1
  <2>3. JNNext
    BY <2>1 DEF JNNext
  <2>4. QED
    BY <2>1, <2>2, <2>3, SpreadStarts, SpreadReads, SpreadFails, SpreadVisits, SpreadEnds
       DEF CastStep
<1>3. QED
  BY <1>1, <1>2

\* As long as no unlinked node has been asked for data: a job that newJob of a
\* member has answered is at every node that was a member when it was asked, whatever
\* joined meanwhile, until somebody kills it (JobsResource.java:60-103).
THEOREM JobReachesMembers == JNSpec => []MembersGetJob
<1> DEFINE All == \A j \in Job : JobSpreads(j)
           Safely == Undisturbed => All
<1>1. JNInit => Safely
  <2>1. SUFFICES ASSUME JNInit, NEW j \in Job  PROVE JobSpreads(j)
    OBVIOUS
  <2>2. cast[<<"new", j>>].step = "idle"
    BY <2>1, CastFacts DEF JNInit
  <2>3. QED
    BY <2>2 DEF JobSpreads
<1>2. CountInv /\ JShape /\ All /\ [JNNext]_jnvars => All'
  BY SpreadNext
<1>3. All => MembersGetJob
  BY DEF JobSpreads, Has, MembersGetJob
<1> HIDE DEF All
<1>4. (Undisturbed => CountInv) /\ (Undisturbed => JShape) /\ Safely /\ [JNNext]_jnvars
        => Safely'
  BY <1>2, StaysEarly DEF Undisturbed
<1>5. Safely => MembersGetJob
  BY <1>3 DEF MembersGetJob
<1> HIDE DEF Safely
<1>6. QED
  BY <1>1, <1>4, <1>5, JavaCounts, JavaShape, PTL DEF JNSpec

=============================================================================
