-------------------------- MODULE AdaptiveControl --------------------------
(***************************************************************************)
(* mps_stereo_x264_sender.c: the main loop's hand-over of a frame to the   *)
(* two eye workers and the controller that, after both are done, turns the *)
(* slower eye's work into a CRF for both encoders (mps_x264_set_crf).  A   *)
(* CRF counts half steps, for the base may lie between two whole ones.     *)
(***************************************************************************)
EXTENDS ImtPaceLaw

CONSTANTS
  BaseCrf, MaxCrf,  \* base_crf and maximum_crf, in half steps
  Interval,         \* update_interval
  Works             \* times an eye may need for a frame

(* What the constants have to be. *)
AdaptiveAssumption ==
  /\ BaseCrf \in 0 .. 102 /\ MaxCrf \in BaseCrf .. 102
  /\ Interval \in Nat \ {0}
  /\ Works \subseteq Nat \ {0}

VARIABLES
  pc,       \* of the main loop
  busy,     \* per eye: whether its worker is inside mps_x264_encode
  work,     \* per eye: last_work_ns
  crf,      \* per eye: what its encoder encodes with
  control,  \* integ, rate, current_crf, frames, enabled
  next_crf,
  refused   \* history: how many reconfigurations of the last update failed

vars == << pc, busy, work, crf, control, next_crf, refused >>

-----------------------------------------------------------------------------
Eyes == {"left", "right"}

Init ==
  /\ pc = "submit_left"
  /\ busy = [e \in Eyes |-> FALSE]
  /\ work = [e \in Eyes |-> 0]
  /\ crf = [e \in Eyes |-> BaseCrf]
  /\ control = [integ |-> 0, rate |-> One, current |-> BaseCrf, frames |-> 0, enabled |-> TRUE]
  /\ next_crf = BaseCrf
  /\ refused = 0

Submit(e, at, next) ==
  /\ pc = at
  /\ busy' = [busy EXCEPT ![e] = TRUE]
  /\ pc' = next
  /\ UNCHANGED << work, crf, control, next_crf, refused >>

(* A frame that cannot be encoded leaves last_work_ns as it was. *)
Encode(e) ==
  /\ busy[e]
  /\ busy' = [busy EXCEPT ![e] = FALSE]
  /\ \/ \E w \in Works : work' = [work EXCEPT ![e] = w]
     \/ UNCHANGED work
  /\ UNCHANGED << pc, crf, control, next_crf, refused >>

WaitFor(e, at, next) ==
  /\ pc = at
  /\ ~busy[e]
  /\ pc' = next
  /\ UNCHANGED << busy, work, crf, control, next_crf, refused >>

-----------------------------------------------------------------------------
(* adaptive_control_update *)

(* Defect: the faster eye counts. *)
FasterWork == IF work["left"] < work["right"] THEN work["left"] ELSE work["right"]

SlowerWork == IF work["left"] > work["right"] THEN work["left"] ELSE work["right"]

Slow(rate) == rate < (One * 9) \div 10
Fast(rate) == rate > (One * 11) \div 10

Step(rate) ==
  Clamp(control.current
          + (IF Slow(rate) /\ control.current < MaxCrf THEN 2
             ELSE IF Fast(rate) /\ control.current > BaseCrf THEN -2 ELSE 0),
        BaseCrf, MaxCrf)

Skip ==
  /\ pc = "adapt"
  /\ ~control.enabled \/ SlowerWork = 0
  /\ pc' = "submit_left"
  /\ UNCHANGED << busy, work, crf, control, next_crf, refused >>

Adapt ==
  /\ pc = "adapt"
  /\ control.enabled /\ SlowerWork # 0
  /\ LET error == Error(SlowerWork)
         integ == Accumulate(control.integ, error)
         rate == RateFor(integ, error)
         due == control.frames + 1 >= Interval
     IN  /\ control' = [control EXCEPT !.integ = integ, !.rate = rate,
                          !.frames = IF due THEN 0 ELSE @ + 1]
         /\ next_crf' = IF due THEN Step(rate) ELSE control.current
  /\ pc' = IF next_crf' = control.current THEN "submit_left" ELSE "set_left"
  /\ refused' = 0
  /\ UNCHANGED << busy, work, crf >>

Disable == control' = [control EXCEPT !.enabled = FALSE]

(* mps_x264_set_crf, which x264 may refuse *)
SetLeft ==
  /\ pc = "set_left"
  /\ \/ /\ crf' = [crf EXCEPT !["left"] = next_crf]
        /\ pc' = "set_right"
        /\ UNCHANGED << control, refused >>
     \/ /\ Disable
        /\ refused' = 1
        /\ pc' = "submit_left"
        /\ UNCHANGED crf
  /\ UNCHANGED << busy, work, next_crf >>

SetRight ==
  /\ pc = "set_right"
  /\ \/ /\ crf' = [crf EXCEPT !["right"] = next_crf]
        /\ control' = [control EXCEPT !.current = next_crf]
        /\ pc' = "submit_left"
        /\ UNCHANGED refused
     \/ /\ refused' = 1
        /\ pc' = "set_back"
        /\ UNCHANGED << crf, control >>
  /\ UNCHANGED << busy, work, next_crf >>

SetBack ==
  /\ pc = "set_back"
  /\ \/ crf' = [crf EXCEPT !["left"] = control.current] /\ UNCHANGED refused
     \/ refused' = 2 /\ UNCHANGED crf
  /\ Disable
  /\ pc' = "submit_left"
  /\ UNCHANGED << busy, work, next_crf >>

Main ==
  \/ Submit("left", "submit_left", "submit_right")
  \/ Submit("right", "submit_right", "wait_left")
  \/ WaitFor("left", "wait_left", "wait_right")
  \/ WaitFor("right", "wait_right", "adapt")
  \/ Skip \/ Adapt \/ SetLeft \/ SetRight \/ SetBack

Next == Main \/ \E e \in Eyes : Encode(e)

(* Frames keep coming and an encoder returns. *)
Fairness == WF_vars(Main) /\ \A e \in Eyes : WF_vars(Encode(e))

Spec == Init /\ [][Next]_vars /\ Fairness

-----------------------------------------------------------------------------
(* The shape of the state; the CRF keeps its limits. *)
TypeOK ==
  /\ pc \in {"submit_left", "submit_right", "wait_left", "wait_right", "adapt",
             "set_left", "set_right", "set_back"}
  /\ busy \in [Eyes -> BOOLEAN]
  /\ work \in [Eyes -> Works \cup {0}]
  /\ crf \in [Eyes -> BaseCrf .. MaxCrf]
  /\ control.integ \in IntegMin .. IntegMax /\ control.rate \in RateMin .. RateMax
  /\ control.current \in BaseCrf .. MaxCrf /\ control.frames \in 0 .. Interval - 1
  /\ next_crf \in BaseCrf .. MaxCrf
  /\ refused \in 0 .. 2

(* "Call only while no thread is inside mps_x264_encode for this context"   *)
(* (mps_x264_encoder.h:39): no encoder is reconfigured while it encodes.   *)
NotWhileEncoding ==
  [][\A e \in Eyes : crf'[e] # crf[e] => ~busy[e]]_vars

(* Between two frames both eyes encode with the same CRF, the one the      *)
(* controller believes in, unless the right eye and then the left one have *)
(* refused; after any refusal the controller keeps its hands off.          *)
EyesAgree ==
  pc \notin {"set_right", "set_back"} =>
    /\ refused < 2 => \A e \in Eyes : crf[e] = control.current
    /\ refused > 0 => ~control.enabled

Overload == \E e \in Eyes : work[e] \in {w \in Works : 10 * Target <= 9 * w}
Ease == \A e \in Eyes : work[e] \in {w \in Works : 11 * w <= 10 * Target}

(* "A local processing-budget controller raises CRF gradually (up to 30) if *)
(* the slower eye cannot meet the frame budget" (README.md:81): whatever   *)
(* the eyes needed before, a lasting overload brings the limit.            *)
OverloadRaises ==
  <>[]Overload => <>[](control.current = MaxCrf \/ ~control.enabled)

(* ... and when the overload is over the quality comes back. *)
QualityReturns ==
  <>[]Ease => <>[](control.current = BaseCrf \/ ~control.enabled)
=============================================================================
