------------------------------ MODULE ImtPace ------------------------------
(***************************************************************************)
(* imt_pace.c: the controller as a state machine, driven by any sequence of *)
(* samples and idle calls (Next), or by a plant (PlantStep).               *)
(***************************************************************************)
EXTENDS ImtPaceLaw

CONSTANTS
  Latencies,  \* latencies that are measured
  Steps,      \* by how much one idle call moves the rate
  Bases       \* latencies at rate 1.0 of the plants

(* What the constants have to be. *)
PaceAssumption ==
  Latencies \subseteq Nat /\ Steps \subseteq Nat /\ Bases \subseteq Nat

VARIABLES
  integ, rate,
  base  \* the plant the controller runs against; 0: anything may be measured

vars == << integ, rate, base >>

-----------------------------------------------------------------------------
Init == integ = 0 /\ rate = One /\ base = 0

Update(latency) ==
  /\ integ' = Accumulate(integ, Error(latency))
  /\ rate' = RateFor(integ', Error(latency))
  /\ UNCHANGED base

Idle(step) ==
  /\ rate' = ClampRate(One + Gap(rate, step))
  /\ integ' = Refit(Gap(rate, step))
  /\ UNCHANGED base

Next == (\E latency \in Latencies : Update(latency)) \/ (\E step \in Steps : Idle(step))

Spec == Init /\ [][Next]_vars

(* A plant whose latency is proportional to the rate, fed back at once. *)
PlantInit ==
  /\ integ \in {IntegMin, 0, IntegMax}
  /\ rate = ClampRate(One + Shifted(Ki * integ))
  /\ base \in Bases

PlantStep == \E latency \in {(base * rate) \div One} : Update(latency)

-----------------------------------------------------------------------------
(* The shape of the state; in particular the integrator keeps its bounds    *)
(* also when an idle call has set it from the rate.                        *)
TypeOK ==
  /\ integ \in IntegMin .. IntegMax
  /\ rate \in RateMin .. RateMax
  /\ base \in Bases \cup {0}

(* "Anti-windup: ki*integ alone must not push r outside [0.1, 2.0]"        *)
(* (imt_pace.c:36).                                                        *)
AntiWindup == One + Shifted(Ki * integ) \in RateMin .. RateMax

(* However long an overload has lasted, the rate is back at 1.0 after as   *)
(* many good samples as it takes to undo a full integrator.                *)
UnwindsInTime ==
  \A latency \in Latencies :
    LET error == Error(latency)
        run[n \in 0 .. (-IntegMin) + 1] == IF n = 0 THEN integ ELSE Accumulate(run[n - 1], error)
    IN  error > 0 => RateFor(run[((-IntegMin) \div error) + 1], error) >= One

(* "Keep the integrator consistent with the decayed rate so that the next  *)
(* feedback sample resumes smoothly (r = 1 + ki*integ at e = 0)"           *)
(* (imt_pace.c:112): to within one unit, in spite of both roundings.       *)
ResumesSmoothly ==
  [][\A step \in Steps :
      base = 0 /\ Idle(step) => RateFor(integ', 0) - rate' \in -1 .. 1]_vars

(* An idle call moves the rate towards 1.0, never past it, and never by     *)
(* more than its step: "moves r linearly toward 1.0 by 0.1 (10%) per        *)
(* second" (imt.h:377), which is what the test of the decay bounds          *)
(* (imt_tests.c:1080).                                                     *)
IdleApproaches ==
  [][\A step \in Steps :
       base = 0 /\ Idle(step) =>
         /\ rate >= One => rate' \in One .. rate /\ rate - rate' <= step
         /\ rate <= One => rate' \in rate .. One /\ rate' - rate <= step]_vars

(* "converges to the analytic fixed point r* = T/base within +/-5 % and    *)
(* stays there" (imt_tests.c:1073), from an integrator at rest and from    *)
(* one wound up to either end (PlantInit).                                 *)
Band(b) == {r \in RateMin .. RateMax : 100 * r * b \in 95 * Target * One .. 105 * Target * One}
InBand == \E b \in Bases : base = b /\ rate \in Band(b)
Converges == <>[]InBand

=============================================================================
