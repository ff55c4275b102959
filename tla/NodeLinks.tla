------------------------------ MODULE NodeLinks ------------------------------
(***************************************************************************)
(* The links of the C++ nodes (cpp/node.hpp) and the handlers that read    *)
(* and write them (cpp/node.cpp, namespace Handlers::network).             *)
(*                                                                         *)
(* A node keeps an edge to its parent, to its neighbours on the ring of    *)
(* its level (prev, next) and to its children.  An edge carries the uuid,  *)
(* address and type of its end; the type is fixed by the variable that     *)
(* holds the edge and the address by the uuid, so an edge is a node here.  *)
(* A node is named by the uuid the bootstrap hands it at its first hello.  *)
(***************************************************************************)
EXTENDS Integers, Sequences, FiniteSets

CONSTANT N    \* how many nodes are ever started

ASSUME NAssumption == N \in Nat \ {0}

Node == 0 .. N-1

None == -1    \* an edge that does not exist(): empty ip and port

MaybeNode == Node \cup {None}

VARIABLES
  e_parent,     \* edge to the parent, None at the top level
  e_prev,       \* edge to the previous node on the ring of the level
  e_next,       \* edge to the next node on the ring of the level
  e_children    \* edges to the children, oldest first

links == <<e_parent, e_prev, e_next, e_children>>

LinksTypeOK ==
  /\ e_parent   \in [Node -> MaybeNode]
  /\ e_prev     \in [Node -> MaybeNode]
  /\ e_next     \in [Node -> MaybeNode]
  /\ e_children \in [Node -> Seq(Node)]

LinksInit ==
  /\ e_parent   = [n \in Node |-> None]
  /\ e_prev     = [n \in Node |-> None]
  /\ e_next     = [n \in Node |-> None]
  /\ e_children = [n \in Node |-> <<>>]

-----------------------------------------------------------------------------
(***************************************************************************)
(* The set_edge handler, once per type of edge: node t replaces its edge   *)
(* by one to m.  The old edge, which the handler returns, is read by the   *)
(* caller in the same step.                                                *)
(***************************************************************************)
SetParent(t, m) ==
  /\ e_parent' = [e_parent EXCEPT ![t] = m]
  /\ UNCHANGED <<e_prev, e_next, e_children>>

SetPrev(t, m) ==
  /\ e_prev' = [e_prev EXCEPT ![t] = m]
  /\ UNCHANGED <<e_parent, e_next, e_children>>

SetNext(t, m) ==
  /\ e_next' = [e_next EXCEPT ![t] = m]
  /\ UNCHANGED <<e_parent, e_prev, e_children>>

(***************************************************************************)
(* The adopt handler.  The answer depends on how many children t has: with *)
(* two it sends a caller that may be redirected to the next node of its    *)
(* ring; the fifth child makes it cut its children to two and answer       *)
(* create_level with the four old ones; otherwise the child is added.      *)
(***************************************************************************)
\* Mutant: the full parent never passes a child on.
RedirectsNever(t, canRedirect) == FALSE

Redirects(t, canRedirect) == Len(e_children[t]) = 2 /\ canRedirect

\* Mutant: a level is opened one child too early.
CreatesLevelAtThree(t) == Len(e_children[t]) = 3

CreatesLevel(t) == Len(e_children[t]) = 4

\* Mutant: the handler does not cut its children when it opens a level.
AdoptedByUncut(t, child, canRedirect) ==
  IF Redirects(t, canRedirect) \/ CreatesLevel(t) THEN e_children[t]
  ELSE Append(e_children[t], child)

AdoptedBy(t, child, canRedirect) ==
  IF Redirects(t, canRedirect) THEN e_children[t]
  ELSE IF CreatesLevel(t) THEN SubSeq(e_children[t], 1, 2)
  ELSE Append(e_children[t], child)

Adopt(t, child, canRedirect) ==
  e_children' = [e_children EXCEPT ![t] = AdoptedBy(t, child, canRedirect)]

\* The elements of s that are not in S, in their order (SelectSeq, as a function
\* that can be reasoned about).
Without(s, S) ==
  LET rest[i \in 0 .. Len(s)] ==
        IF i = 0 THEN <<>>
        ELSE IF s[i] \in S THEN rest[i-1] ELSE Append(rest[i-1], s[i])
  IN  rest[Len(s)]

\* Mutants: edges that do not exist are returned too; children are left out.
AllEdgesUnchecked(t) == e_children[t] \o <<e_parent[t], e_next[t], e_prev[t]>>

AllEdgesUpwards(t) ==
  Without(<<e_parent[t], e_next[t], e_prev[t]>>, {None})

\* What the edges and reset handlers return: every edge that exists, in the
\* order of add_all_edges (children, parent, next, prev).
AllEdges(t) ==
  Without(e_children[t] \o <<e_parent[t], e_next[t], e_prev[t]>>, {None})

Children(t) == {e_children[t][i] : i \in DOMAIN e_children[t]}

\* Mutant: the parent is not searched.
NeighboursBelow(t) == (Children(t) \cup {e_next[t], e_prev[t]}) \ {None}

Neighbours(t) == (Children(t) \cup {e_parent[t], e_next[t], e_prev[t]}) \ {None}

=============================================================================
