------------------------------ MODULE JoinQueue ------------------------------
(***************************************************************************)
(* What the join protocol promises to the nodes that start: they are let   *)
(* into the network one at a time, in the order in which they said hello,  *)
(* and each of them is let in.                                             *)
(***************************************************************************)
EXTENDS Integers

CONSTANT N

VARIABLES
  arrived,   \* how many nodes have said hello
  members    \* the nodes that are in the network and answer requests

queue == <<arrived, members>>

Init == arrived = 0 /\ members = {}

Arrive ==
  /\ arrived < N
  /\ arrived' = arrived + 1
  /\ UNCHANGED members

\* The first of those waiting enters.
Enter ==
  \E n \in 0 .. arrived-1 :
    /\ members = 0 .. n-1
    /\ members' = 0 .. n
    /\ UNCHANGED arrived

Next == Arrive \/ Enter

Spec == Init /\ [][Next]_queue

FairSpec == Spec /\ WF_queue(Enter)

=============================================================================
