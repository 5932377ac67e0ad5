---------------------------- MODULE LatencyGate ----------------------------
(***************************************************************************)
(* mps_latency_gate.c: how many frames, and how old ones, an encoder is    *)
(* given.  A gate counts the frames pushed and emitted and tags each       *)
(* number that is pushed with its capture time.  Its counts of refused     *)
(* frames are only logged and left out.  Times are ticks from 1; the       *)
(* sanity limit on ages (10 s) is out of their range.                      *)
(***************************************************************************)
EXTENDS Integers

CONSTANTS
  MaxPending,  \* max_pending_frames; 0: any number
  MaxAge,      \* max_frame_age_ns, in ticks; 0: any age
  Tracked      \* entries in the ring of tags

ASSUME GateAssumption == MaxPending \in Nat /\ MaxAge \in Nat /\ Tracked \in Nat \ {0}

NoTag == [sequence |-> 0, stamp |-> 0, valid |-> FALSE]

Gate ==
  [pushed : Nat, emitted : Nat,
   tags : [0 .. Tracked - 1 -> [sequence : Nat, stamp : Nat, valid : BOOLEAN]]]

EmptyGate ==
  [pushed |-> 0, emitted |-> 0,
   tags |-> [i \in 0 .. Tracked - 1 |-> NoTag]]

Pending(gate) == IF gate.pushed < gate.emitted THEN 0 ELSE gate.pushed - gate.emitted

Full(gate) == MaxPending > 0 /\ Pending(gate) >= MaxPending

TooOld(stamp, now) == stamp # 0 /\ MaxAge # 0 /\ now - stamp > MaxAge

Accepts(gate, stamp, now) == ~Full(gate) /\ ~TooOld(stamp, now)

MarkPushed(gate, sequence, stamp) ==
  [gate EXCEPT !.pushed = @ + 1,
               !.tags[sequence % Tracked] = [sequence |-> sequence, stamp |-> stamp, valid |-> TRUE]]

Tagged(gate, sequence) ==
  LET tag == gate.tags[sequence % Tracked]
  IN  tag.valid /\ tag.sequence = sequence /\ tag.stamp # 0

(* Defect: a frame whose tag is found does not count as emitted. *)
MarkEmittedIfUntagged(gate, sequence) ==
  IF Tagged(gate, sequence)
  THEN [gate EXCEPT !.tags[sequence % Tracked].valid = FALSE]
  ELSE [gate EXCEPT !.emitted = IF @ < gate.pushed THEN @ + 1 ELSE @]

MarkEmitted(gate, sequence) ==
  [gate EXCEPT !.emitted = IF @ < gate.pushed THEN @ + 1 ELSE @,
               !.tags[sequence % Tracked].valid = @ /\ ~Tagged(gate, sequence)]

EmittedStamp(gate, sequence, fallback) ==
  IF Tagged(gate, sequence) THEN gate.tags[sequence % Tracked].stamp ELSE fallback
=============================================================================
