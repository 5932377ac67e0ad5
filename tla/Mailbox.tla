------------------------------ MODULE Mailbox ------------------------------
(***************************************************************************)
(* What every hand-over from a camera to its consumer promises: the        *)
(* consumer is given frames that have been offered, each newer than the    *)
(* one before; frames in between may be lost, and it need not be the       *)
(* newest one.                                                             *)
(***************************************************************************)
EXTENDS Integers

VARIABLES
  offered,  \* the newest frame the producer has completed; 0: none
  taken     \* the newest frame the consumer has been given; 0: none

vars == << offered, taken >>

Init == offered = 0 /\ taken = 0

Offer ==
  /\ offered' \in Nat /\ offered' > offered
  /\ UNCHANGED taken

Take ==
  /\ taken' \in taken + 1 .. offered
  /\ UNCHANGED offered

Next == Offer \/ Take

Spec == Init /\ [][Next]_vars
=============================================================================
