----------------------------- MODULE ClockSync -----------------------------
(***************************************************************************)
(* mp_clock_sync.c: the estimate of a remote clock's offset, delay, jitter *)
(* and drift from two-way time samples.  The remote clock runs theta ahead *)
(* of the local one; delays vary, samples may be handed over late.         *)
(***************************************************************************)
EXTENDS Integers

CONSTANTS
  Ahead, Behind,  \* by how much the remote clock may be ahead or behind
  Delays,         \* delays of a message
  Newer, Older,   \* by how much a sample may be newer or older than the last
  Times,          \* times of frames
  Scale,          \* 1000000000, the unit of drift_ppb
  DriftMax,       \* 1000000
  Modulus         \* 2^64: unsigned arithmetic wraps

(* What the constants have to be. *)
ClockAssumption ==
  /\ Ahead \subseteq Nat /\ Behind \subseteq Nat
  /\ Delays \subseteq Nat /\ Delays # {} /\ \E d \in Delays : \A o \in Delays : o <= d
  /\ Times \subseteq Nat
  /\ Scale \in Nat /\ DriftMax \in Nat /\ Modulus \in Nat \ {0}
  /\ Newer \subseteq Nat /\ Older \subseteq Nat \ {0}
  /\ \A elapsed \in Older : 2 * elapsed <= Modulus   \* 292 years

VARIABLES
  theta,  \* of the remote clock, chosen once
  sync,   \* remote_to_local offset, one_way_delay, jitter, drift, count (to 2)
  given   \* history of the last sample: were its delays even, was it older

vars == << theta, sync, given >>

-----------------------------------------------------------------------------
Quotient(a, b) == IF a >= 0 THEN a \div b ELSE -((-a) \div b)
Clamp(x, low, high) == IF x < low THEN low ELSE IF x > high THEN high ELSE x
Abs(x) == IF x < 0 THEN -x ELSE x

Ewma(old, new) == (old * 7 + new) \div 8

Init ==
  /\ theta \in Ahead \cup {-b : b \in Behind}
  /\ sync = [offset |-> 0, delay |-> 0, jitter |-> 0, drift |-> 0, count |-> 0]
  /\ given = [even |-> FALSE, old |-> FALSE]

Locked == sync.count > 0

(* What the four timestamps of a sample say. *)
Target(there, back) == -Quotient((theta + there) + (theta - back), 2)
Delay(there, back) == (there + back) \div 2

Smoothed(there, back) == sync.offset + Quotient(Target(there, back) - sync.offset, 8)

(* Defect: elapsed time is signed. *)
SignedDrift(offset, elapsed) ==
  LET sample == Quotient((offset - sync.offset) * Scale, elapsed)
  IN  IF elapsed = 0 THEN sync.drift
      ELSE Clamp(Quotient(sync.drift * 7 + sample, 8), -DriftMax, DriftMax)

Drift(offset, elapsed) ==
  LET unsigned == elapsed % Modulus
      size == ((Abs(offset - sync.offset) * Scale) % Modulus) \div unsigned
      sample == IF offset < sync.offset THEN -size ELSE size
  IN  IF unsigned = 0 THEN sync.drift
      ELSE Clamp(Quotient(sync.drift * 7 + sample, 8), -DriftMax, DriftMax)

(* mp_clock_sync_update_ptp; a sample whose times contradict each other is *)
(* refused before anything is changed.                                     *)
FirstSample(there, back) ==
  /\ ~Locked
  /\ sync' = [offset |-> Target(there, back), delay |-> Delay(there, back),
              jitter |-> 0, drift |-> 0, count |-> 1]

LaterSample(there, back, elapsed) ==
  /\ Locked
  /\ LET offset == Smoothed(there, back)
     IN  sync' = [offset |-> offset,
                  delay |-> Ewma(sync.delay, Delay(there, back)),
                  jitter |-> Ewma(sync.jitter, Abs(Target(there, back) - sync.offset)),
                  drift |-> Drift(offset, elapsed),
                  count |-> 2]

Sample(elapsed) ==
  /\ \E there, back \in Delays :
       /\ FirstSample(there, back) \/ LaterSample(there, back, elapsed)
       /\ given' = [even |-> there = back, old |-> elapsed < 0]
  /\ UNCHANGED theta

Next == (\E elapsed \in Newer : Sample(elapsed)) \/ (\E elapsed \in Older : Sample(-elapsed))

(* Samples keep coming, now and then one that is newer than the last. *)
Spec == Init /\ [][Next]_vars /\ WF_vars(Next)

-----------------------------------------------------------------------------
Corrected(offset, time) == IF time + offset < 0 THEN 0 ELSE time + offset

(* Defect: the correction is added in both directions. *)
AddedBack(time) == IF Locked THEN Corrected(sync.offset, time) ELSE time

RemoteToLocal(time) == IF Locked THEN Corrected(sync.offset, time) ELSE time
LocalToRemote(time) == IF Locked THEN Corrected(-sync.offset, time) ELSE time

IsUsable(max_delay, max_jitter) ==
  /\ sync.count >= 2
  /\ max_delay > 0 => sync.delay <= max_delay
  /\ max_jitter > 0 => sync.jitter <= max_jitter

-----------------------------------------------------------------------------
MaxDelay == CHOOSE d \in Delays : \A o \in Delays : o <= d
MinDelay == CHOOSE d \in Delays : \A o \in Delays : o >= d

(* By how much one sample can be wrong: half the difference of its delays. *)
Asymmetry == (MaxDelay - MinDelay + 1) \div 2

(* The shape of the state. *)
TypeOK ==
  /\ sync.drift \in -DriftMax .. DriftMax
  /\ sync.jitter \in 0 .. 2 * Asymmetry + 1
  /\ sync.count \in 0 .. 2

(* However the samples vary and are rounded, the estimate never leaves the *)
(* range of what single samples say.                                       *)
WithinTheSamples ==
  Locked => /\ Abs(sync.offset + theta) <= Asymmetry
            /\ sync.delay \in MinDelay .. MaxDelay

(* A sample that is older than the one before it makes the elapsed time     *)
(* wrap to almost 2^64: it lessens the drift and cannot turn it over.      *)
OldSampleCalms ==
  [][Locked /\ given'.old => sync'.drift \in 0 .. sync.drift \/ sync'.drift \in sync.drift .. 0]_vars

(* Two frames of the remote camera that are further apart than the step an *)
(* update may take keep their order, though one is corrected before it and *)
(* the other after.                                                        *)
FramesKeepOrder ==
  [][Locked => \A time \in Times :
       RemoteToLocal(time) <= RemoteToLocal(time + (2 * Asymmetry + 8) \div 8)']_vars

(* A local time that comes of a remote one is mapped back to it, unless it *)
(* was cut off at 0.                                                       *)
MapsBack ==
  \A time \in Times : RemoteToLocal(time) > 0 => LocalToRemote(RemoteToLocal(time)) = time

(* When delays become the same both ways the estimate settles within the   *)
(* 7 units that the division by 8 cannot see, and is usable.               *)
Settled == Abs(sync.offset + theta) <= 7 /\ IsUsable(0, 8)
Settles == <>[](given.even) => <>[]Settled
=============================================================================
