---------------------------- MODULE ImtPaceLaw ----------------------------
(***************************************************************************)
(* imt_pace.c: the arithmetic of the PI controller that turns measured     *)
(* latencies into a rate.  Rates, errors and the integrator are fixed-point *)
(* numbers; One stands for 1.0 (2^16 in the code, less here).  The clamps   *)
(* that keep the code's intermediate results within 64 bits change none of *)
(* them and are left out.                                                  *)
(***************************************************************************)
EXTENDS Integers

CONSTANTS
  One,                \* IMT_PACE_Q16_ONE
  Kp, Ki,             \* gains
  RateMin, RateMax,
  Target              \* target latency

(* What the constants have to be. *)
LawAssumption ==
  /\ One \in Nat /\ Kp \in Nat /\ Ki \in Nat /\ RateMin \in Nat /\ RateMax \in Nat
  /\ 0 < Ki /\ Ki <= One
  /\ RateMin <= One /\ One <= RateMax
  /\ Target \in Nat \ {0}

(* Division in C rounds towards 0, a shift to the right rounds down. *)
Quotient(a, b) == IF a >= 0 THEN a \div b ELSE -((-a) \div b)

Shifted(a) == a \div One

Clamp(x, low, high) == IF x < low THEN low ELSE IF x > high THEN high ELSE x

ClampRate(r) == Clamp(r, RateMin, RateMax)

IntegMax == ((RateMax - One) * One) \div Ki
IntegMin == -(((One - RateMin) * One) \div Ki)

Error(latency) == Clamp(Quotient((Target - latency) * One, Target), -8 * One, One)

Accumulate(i, error) == Clamp(i + error, IntegMin, IntegMax)

(* Defect: the integrator is left out of the rate. *)
RateOfSample(i, error) == ClampRate(One + Shifted(Kp * error))

RateFor(i, error) == ClampRate(One + Shifted(Kp * error) + Shifted(Ki * i))

(* Defect: half of the gap is left, however long the step. *)
Halved(rate, step) == Quotient(rate - One, 2)

Gap(rate, step) ==
  LET gap == rate - One
  IN  IF gap > 0 THEN (IF gap > step THEN gap - step ELSE 0)
      ELSE IF gap < -step THEN gap + step ELSE 0

Refit(gap) == Quotient(gap * One, Ki)
=============================================================================
