------------------------------ MODULE Topology -------------------------------
(***************************************************************************)
(* What the links of a set M of nodes look like when nobody is changing    *)
(* them: a tree of levels, each level a doubly linked ring.  The code      *)
(* relies on this shape (join() walks it, failover() and the broadcasts    *)
(* of the jobs search it breadth first along all edges) and states it      *)
(* nowhere.                                                                *)
(***************************************************************************)
EXTENDS NodeLinks

\* The node reached from n after k edges of the functional link f.
Follow(f, n) ==
  LET walk[k \in 0 .. N] ==
        IF k = 0 THEN n
        ELSE LET m == walk[k-1] IN IF m = None THEN None ELSE f[m]
  IN  walk

\* The nodes on the way along f from n, n included.
Path(f, n) == LET walk == Follow(f, n) IN {walk[k] : k \in 0 .. N} \ {None}

Ring(n)      == Path(e_next, n)
Ancestors(n) == Path(e_parent, n) \ {n}

\* Every chain of parents ends: no cycle within N steps.
Rooted(n) == Follow(e_parent, n)[N] = None

Level(n) == Cardinality(Ancestors(n))

\* The nodes a breadth first search from n along all edges visits.
Reached(n) ==
  LET layer[k \in 0 .. N] ==
        IF k = 0 THEN {n}
        ELSE LET S == layer[k-1] IN S \cup UNION {Neighbours(m) : m \in S}
  IN  layer[N]

-----------------------------------------------------------------------------
\* next and prev are inverse, and the ring of a node is its whole level.
RingsOf(M) ==
  \A n \in M :
    /\ e_next[n] \in M /\ e_prev[e_next[n]] = n
    /\ e_prev[n] \in M /\ e_next[e_prev[n]] = n
    /\ Ring(n) = {m \in M : Level(m) = Level(n)}

\* Children and parents agree, and no node has a child twice or more than four.
TreeOf(M) ==
  \A n \in M :
    /\ Rooted(n)
    /\ Len(e_children[n]) = Cardinality(Children(n))
    /\ Len(e_children[n]) <= 4
    /\ Children(n) = {m \in M : e_parent[m] = n}

\* The top ring has at most three nodes, and a level has nodes below it only
\* when each of its nodes has at least two children or the lower level is the
\* last one.
BalancedOf(M) ==
  /\ Cardinality({n \in M : e_parent[n] = None}) <= 3
  /\ \A n, m \in M : Level(m) > Level(n) + 1 => Len(e_children[n]) >= 2

\* A search from any node finds all.
ConnectedOf(M) == \A n \in M : M \subseteq Reached(n)

=============================================================================
