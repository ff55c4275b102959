------------------------------ MODULE Bootstrap ------------------------------
(***************************************************************************)
(* The bootstrap server (cpp/bs.cpp).  Its HTTP server has the default     *)
(* pool of one thread, so each handler is one atomic step.                 *)
(*                                                                         *)
(* The uuids it gives to nodes that say hello again after a reset are      *)
(* discarded by the node (node_info.uuid is set once), so only those of    *)
(* first hellos are counted.                                               *)
(***************************************************************************)
EXTENDS NodeLinks

VARIABLES
  last,         \* the node that said hello last, None when there is none
  can_reset,    \* no node is resetting the network
  uuid          \* the uuid for the next node

bootstrap == <<last, can_reset, uuid>>

BootstrapTypeOK ==
  /\ last      \in MaybeNode
  /\ can_reset \in BOOLEAN
  /\ uuid      \in 0 .. N

BootstrapInit ==
  /\ last      = None
  /\ can_reset = TRUE
  /\ uuid      = 0

\* POST /api/hello from n: the reply is the value of last before the step.
Hello(n, isNew) ==
  /\ last' = n
  /\ uuid' = IF isNew THEN uuid + 1 ELSE uuid
  /\ UNCHANGED can_reset

\* Mutants: the bootstrap keeps the last node of the old network; it does not
\* lock the reset.
ResetKeepsLast ==
  /\ can_reset' = FALSE
  /\ UNCHANGED <<last, uuid>>

ResetUnlocked ==
  /\ last' = IF can_reset THEN None ELSE last
  /\ UNCHANGED <<can_reset, uuid>>

\* GET /api/reset: the reply is the value of can_reset before the step.
Reset ==
  /\ last'      = IF can_reset THEN None ELSE last
  /\ can_reset' = FALSE
  /\ UNCHANGED uuid

\* GET /api/reset_done
ResetDone ==
  /\ can_reset' = TRUE
  /\ UNCHANGED <<last, uuid>>

=============================================================================
