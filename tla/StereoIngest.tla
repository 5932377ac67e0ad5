---------------------------- MODULE StereoIngest ----------------------------
(***************************************************************************)
(* mp_preprocess.c with mp_stereo_sync.c, mp_sync_monitor.c and mp_stats.c: *)
(* two eyes' frames are paired by their times, the pairs are watched by    *)
(* the monitor, masked and packed.  The adapter that feeds frames is not   *)
(* there yet (edge_camera/README.md:5): it is taken to fetch a new frame   *)
(* for every side the result says is used up.                              *)
(***************************************************************************)
EXTENDS Integers, Sequences

CONSTANTS
  Period,        \* target_frame_period_ns
  MaxError,      \* max_frame_period_error_ns
  PairSkew,      \* max_stereo_skew_ns
  MaxSkew,       \* max_pair_skew_ns of the monitor
  Warmup,        \* warmup_pairs
  DegradeAfter,  \* degrade_after_bad_pairs
  Jitter,        \* by how much a frame may be late
  MaxLost,       \* bound: frames of an eye lost in a row
  Horizon        \* bound: frame slots

(* What the constants have to be. *)
IngestAssumption ==
  /\ Period \in Nat \ {0} /\ MaxError \in 0 .. Period - 1
  /\ PairSkew \in Nat /\ MaxSkew \in Nat
  /\ Warmup \in Nat \ {0} /\ DegradeAfter \in Nat \ {0}
  /\ Jitter \in 0 .. Period - 1 /\ MaxLost \in Nat /\ Horizon \in Nat \ {0}

VARIABLES
  ts,        \* per eye: corrected timestamp of the frame at hand
  monitor,   \* state, last, good, bad, and accepted and rejected pairs
  stats,     \* dropped_frames, masked_frames
  sbs,       \* timestamp of the packed frame
  seen       \* history: pairs delivered and failed, the time between the last two
             \* delivered, regular pairs in a row, rejections in a row, and per eye
             \* the frame last dropped

vars == << ts, monitor, stats, sbs, seen >>

-----------------------------------------------------------------------------
Eyes == {"left", "right"}
Other(e) == IF e = "left" THEN "right" ELSE "left"

AbsDiff(a, b) == IF a >= b THEN a - b ELSE b - a

Init ==
  /\ ts \in [Eyes -> {Period, Period + Jitter}]
  /\ monitor = [state |-> "WARMING", last |-> 0, good |-> 0, bad |-> 0, accepted |-> 0, rejected |-> 0]
  /\ stats = [dropped |-> 0, masked |-> 0]
  /\ sbs = 0
  /\ seen = [delivered |-> 0, failed |-> 0, unfit |-> 0, between |-> Period, regular |-> 1, refused |-> 0,
             dropped |-> [e \in Eyes |-> 0]]

(* The adapter: the next frame of each eye in es, some frames later, with  *)
(* or without delay.                                                       *)
Fetch(es) ==
  /\ \A e \in es : ts[e] < Period * Horizon
  /\ \E lost \in 0 .. MaxLost, late \in [Eyes -> {0, Jitter}] :
       ts' = [e \in Eyes |-> IF e \in es THEN (ts[e] \div Period + 1 + lost) * Period + late[e] ELSE ts[e]]

(* A pair in step with the one before it. *)
Regular == \A e \in Eyes : ts'[e] = ts[e] + Period

-----------------------------------------------------------------------------
(* mp_stereo_sync_pair_corrected *)

Skew == AbsDiff(ts["left"], ts["right"])
PairTime == IF ts["left"] > ts["right"] THEN ts["left"] ELSE ts["right"]

OlderSide == IF ts["left"] < ts["right"] THEN "left" ELSE "right"

DropOlder ==
  /\ Skew > PairSkew
  /\ stats' = [stats EXCEPT !.dropped = @ + 1]
  /\ Fetch({OlderSide})
  /\ seen' = [seen EXCEPT !.dropped[OlderSide] = ts[OlderSide], !.regular = 0, !.unfit = @ + 1]
  /\ UNCHANGED << monitor, sbs >>

(* Frames of different shape, or without data, are no pair at all. *)
Reject ==
  /\ stats' = [stats EXCEPT !.dropped = @ + 1]
  /\ Fetch(Eyes)
  /\ seen' = [seen EXCEPT !.regular = 0, !.unfit = @ + 1]
  /\ UNCHANGED << monitor, sbs >>

-----------------------------------------------------------------------------
(* mp_sync_monitor_observe_pair *)

(* Defect: only late pairs are bad. *)
LateOnly == PairTime - monitor.last - Period

PeriodError == AbsDiff(AbsDiff(PairTime, monitor.last), Period)

Good == Skew <= MaxSkew /\ (monitor.last = 0 \/ PeriodError <= MaxError)

Accepted ==
  [monitor EXCEPT !.accepted = @ + 1, !.good = @ + 1, !.bad = 0, !.last = PairTime,
     !.state = IF monitor.good + 1 >= Warmup THEN "LOCKED"
               ELSE IF @ = "UNLOCKED" THEN "WARMING" ELSE @]

Rejected ==
  [monitor EXCEPT !.rejected = @ + 1, !.bad = @ + 1, !.good = 0,
     !.state = IF monitor.bad + 1 >= DegradeAfter
               THEN IF monitor.accepted > 0 THEN "DEGRADED" ELSE "UNLOCKED" ELSE @]

-----------------------------------------------------------------------------
(* mp_preprocess_stereo_to_sbs_nv12 for a pair that fits *)

Refuse ==
  /\ Skew <= PairSkew /\ ~Good
  /\ monitor' = Rejected
  /\ stats' = [stats EXCEPT !.dropped = @ + 1]
  /\ Fetch(Eyes)
  /\ seen' = [seen EXCEPT !.refused = @ + 1, !.regular = IF Regular THEN @ + 1 ELSE 0]
  /\ UNCHANGED sbs

(* Masking or packing may fail after the monitor has taken the pair; a     *)
(* failure before both eyes are masked counts no mask.                     *)
Fail ==
  /\ Skew <= PairSkew /\ Good
  /\ monitor' = Accepted
  /\ \/ UNCHANGED stats
     \/ stats' = [stats EXCEPT !.masked = @ + 2]
  /\ Fetch(Eyes)
  /\ seen' = [seen EXCEPT !.failed = @ + 1, !.refused = 0, !.regular = IF Regular THEN @ + 1 ELSE 0]
  /\ UNCHANGED sbs

Deliver ==
  /\ Skew <= PairSkew /\ Good
  /\ monitor' = Accepted
  /\ stats' = [stats EXCEPT !.masked = @ + 2]
  /\ sbs' = PairTime
  /\ Fetch(Eyes)
  /\ seen' = [seen EXCEPT !.delivered = @ + 1, !.refused = 0, !.regular = IF Regular THEN @ + 1 ELSE 0,
                !.between = IF monitor.last = 0 THEN Period ELSE PairTime - monitor.last]

Next == DropOlder \/ Reject \/ Refuse \/ Fail \/ Deliver

Spec == Init /\ [][Next]_vars

-----------------------------------------------------------------------------
(* The shape of the state. *)
TypeOK ==
  /\ ts \in [Eyes -> 1 .. Period * (Horizon + MaxLost + 2)]
  /\ monitor.state \in {"UNLOCKED", "WARMING", "LOCKED", "DEGRADED"}
  /\ monitor.good <= monitor.accepted /\ monitor.bad <= monitor.rejected
  /\ stats.dropped \in Nat /\ stats.masked \in Nat
  /\ sbs <= monitor.last

(* "decides whether to accept a stereo pair or drop the older side"        *)
(* (edge_camera/README.md:35): a frame is only dropped when no frame of    *)
(* the other eye, now or later, could still be its partner.                *)
OnlyHopelessAreDropped ==
  \A e \in Eyes : seen.dropped[e] # 0 => ts[Other(e)] > seen.dropped[e] + PairSkew

(* What is delivered comes at the camera's rate: neither sooner nor later  *)
(* than the tolerance after the pair accepted before it.                   *)
DeliveredSteadily == AbsDiff(seen.between, Period) <= MaxError

(* Every pair is delivered, counted as dropped, or has failed; the monitor *)
(* has accepted what was not dropped and rejected what was refused.        *)
CountsAddUp ==
  /\ stats.dropped = seen.unfit + monitor.rejected
  /\ monitor.accepted = seen.delivered + seen.failed
  /\ stats.masked \in 2 * seen.delivered .. 2 * monitor.accepted

(* The monitor never says LOCKED of a stream of which it has just refused  *)
(* DegradeAfter pairs in a row, nor before it has accepted Warmup pairs.   *)
LockIsEarned ==
  monitor.state = "LOCKED" => seen.refused < DegradeAfter /\ monitor.accepted >= Warmup

(* "Tracks whether accepted stereo pairs remain stable over time"          *)
(* (edge_camera/README.md:38): a stream that has been regular for longer   *)
(* than it takes to warm up, is locked.                                    *)
RegularIsLocked ==
  seen.regular > Warmup + DegradeAfter => monitor.state = "LOCKED"
=============================================================================
