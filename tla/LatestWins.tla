----------------------------- MODULE LatestWins -----------------------------
(***************************************************************************)
(* What IMT promises the consumer of frames, whatever the network does:    *)
(* the frame on show is only replaced by a newer one, and after a lost     *)
(* keyframe has been reported nothing is shown before that keyframe or a   *)
(* newer one has turned up.                                                *)
(***************************************************************************)
EXTENDS Integers

VARIABLES
  shown,     \* sequence number and kind of the frame on show; seq = -1: none
  awaited    \* the lost keyframe that is waited for; -1: none

vars == << shown, awaited >>

Init ==
  /\ shown = [seq |-> -1, keyframe |-> FALSE]
  /\ awaited = -1

(* A frame may be shown if it is newer; if a keyframe is awaited it must be *)
(* a keyframe at least as new, and the wait is over.                        *)
Show ==
  /\ shown'.seq > shown.seq
  /\ awaited # -1 => shown'.keyframe /\ shown'.seq >= awaited
  /\ awaited' = -1

(* A keyframe newer than the frame on show was lost. *)
Await ==
  /\ awaited = -1
  /\ awaited' > shown.seq
  /\ UNCHANGED shown

(* A newer keyframe has begun to arrive, or the wait is switched off. *)
Release ==
  /\ awaited' = -1
  /\ UNCHANGED shown

Next == Show \/ Await \/ Release

Spec == Init /\ [][Next]_vars
=============================================================================
