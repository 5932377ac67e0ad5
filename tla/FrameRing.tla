----------------------------- MODULE FrameRing -----------------------------
(***************************************************************************)
(* mp_frame_ring.c: one writer and one reader without a lock between them. *)
(* A step is one access to an atomic of the ring, or part of copying a     *)
(* frame.  A frame is its sequence number; Torn is what a slot holds while *)
(* it is being overwritten.                                                *)
(*                                                                         *)
(* The odd version is stored with release order, which keeps what comes    *)
(* before it in place, not what follows: on ARM the stores of the copy may *)
(* become visible first.  What does stay in order is the copy before the   *)
(* even version (the fence), that before write_sequence, and the load of   *)
(* read_sequence (acquire) after it and before the next copy.              *)
(***************************************************************************)
EXTENDS Integers

CONSTANTS
  Capacity,  \* slots
  MaxWrites  \* bound: frames written

ASSUME RingAssumption ==
  /\ Capacity \in Nat \ {0}
  /\ MaxWrites \in Nat

VARIABLES
  slots,          \* version and data of each slot
  write_sequence,
  read_sequence,
  dropped_frames,
  writer,         \* pc; whether the odd version, and how much of the copy, is visible; what it read
  reader,         \* pc, sequence, version_before, the two halves of its copy
  got             \* history: the last frame the reader returned, its number and its data

vars == << slots, write_sequence, read_sequence, dropped_frames, writer, reader, got >>

-----------------------------------------------------------------------------
Torn == -1
Indices == 0 .. Capacity - 1

Init ==
  /\ slots = [i \in Indices |-> [version |-> 0, data |-> Torn]]
  /\ write_sequence = 0
  /\ read_sequence = 0
  /\ dropped_frames = 0
  /\ writer = [pc |-> "idle", marked |-> FALSE, copied |-> "no", seen |-> 0]
  /\ reader = [pc |-> "idle", sequence |-> 0, before |-> 0, first |-> Torn, second |-> Torn]
  /\ got = [sequence |-> 0, data |-> 0]

-----------------------------------------------------------------------------
(* mp_frame_ring_write_latest: what becomes visible of it, in order *)

Writing == write_sequence + 1

SlotOf(sequence) == sequence % Capacity

BeginWrite ==
  /\ writer.pc = "idle"
  /\ write_sequence < MaxWrites
  /\ writer' = [writer EXCEPT !.pc = "fill", !.marked = FALSE, !.copied = "no"]
  /\ UNCHANGED << slots, write_sequence, read_sequence, dropped_frames, reader, got >>

MarkOdd ==
  /\ writer.pc = "fill" /\ ~writer.marked
  /\ slots' = [slots EXCEPT ![SlotOf(Writing)].version = 2 * Writing - 1]
  /\ writer' = [writer EXCEPT !.marked = TRUE]
  /\ UNCHANGED << write_sequence, read_sequence, dropped_frames, reader, got >>

BeginCopy ==
  /\ writer.pc = "fill" /\ writer.copied = "no"
  /\ slots' = [slots EXCEPT ![SlotOf(Writing)].data = Torn]
  /\ writer' = [writer EXCEPT !.copied = "partly"]
  /\ UNCHANGED << write_sequence, read_sequence, dropped_frames, reader, got >>

EndCopy ==
  /\ writer.pc = "fill" /\ writer.copied = "partly"
  /\ slots' = [slots EXCEPT ![SlotOf(Writing)].data = Writing]
  /\ writer' = [writer EXCEPT !.copied = "all"]
  /\ UNCHANGED << write_sequence, read_sequence, dropped_frames, reader, got >>

(* Defect: the version is left odd. *)
MarkOddAgain ==
  /\ writer.pc = "fill" /\ writer.marked /\ writer.copied = "all"
  /\ writer' = [writer EXCEPT !.pc = "publish"]
  /\ UNCHANGED << slots, write_sequence, read_sequence, dropped_frames, reader, got >>

(* The release fence: everything before it is visible first. *)
MarkEven ==
  /\ writer.pc = "fill" /\ writer.marked /\ writer.copied = "all"
  /\ slots' = [slots EXCEPT ![SlotOf(Writing)].version = 2 * Writing]
  /\ writer' = [writer EXCEPT !.pc = "publish"]
  /\ UNCHANGED << write_sequence, read_sequence, dropped_frames, reader, got >>

PublishWrite ==
  /\ writer.pc = "publish"
  /\ write_sequence' = Writing
  /\ writer' = [writer EXCEPT !.pc = "lag"]
  /\ UNCHANGED << slots, read_sequence, dropped_frames, reader, got >>

LoadReadSequence ==
  /\ writer.pc = "lag"
  /\ writer' = [writer EXCEPT !.pc = "drop", !.seen = read_sequence]
  /\ UNCHANGED << slots, write_sequence, read_sequence, dropped_frames, reader, got >>

MinimumReadSequence == IF write_sequence > Capacity THEN write_sequence - Capacity ELSE 0

CountDropped ==
  /\ writer.pc = "drop"
  /\ IF writer.seen < MinimumReadSequence
     THEN /\ dropped_frames' = dropped_frames + MinimumReadSequence - writer.seen
          /\ read_sequence' = MinimumReadSequence
     ELSE UNCHANGED << dropped_frames, read_sequence >>
  /\ writer' = [writer EXCEPT !.pc = "idle"]
  /\ UNCHANGED << slots, write_sequence, reader, got >>

Writer ==
  \/ BeginWrite \/ MarkOdd \/ BeginCopy \/ EndCopy \/ MarkEven
  \/ PublishWrite \/ LoadReadSequence \/ CountDropped

-----------------------------------------------------------------------------
(* mp_frame_ring_read_latest *)

LoadWriteSequence ==
  /\ reader.pc = "idle"
  /\ write_sequence # 0
  /\ reader' = [reader EXCEPT !.pc = "before", !.sequence = write_sequence]
  /\ UNCHANGED << slots, write_sequence, read_sequence, dropped_frames, writer, got >>

(* Defect: any even version will do. *)
AnyEven(version) == version % 2 = 0

Acceptable(version) == version % 2 = 0 /\ version = 2 * reader.sequence

LoadBefore ==
  /\ reader.pc = "before"
  /\ LET version == slots[SlotOf(reader.sequence)].version
     IN  reader' = IF Acceptable(version)
                   THEN [reader EXCEPT !.pc = "first", !.before = version]
                   ELSE [reader EXCEPT !.pc = "idle"]
  /\ UNCHANGED << slots, write_sequence, read_sequence, dropped_frames, writer, got >>

CopyFirst ==
  /\ reader.pc = "first"
  /\ reader' = [reader EXCEPT !.pc = "second", !.first = slots[SlotOf(reader.sequence)].data]
  /\ UNCHANGED << slots, write_sequence, read_sequence, dropped_frames, writer, got >>

CopySecond ==
  /\ reader.pc = "second"
  /\ reader' = [reader EXCEPT !.pc = "after", !.second = slots[SlotOf(reader.sequence)].data]
  /\ UNCHANGED << slots, write_sequence, read_sequence, dropped_frames, writer, got >>

LoadAfter ==
  /\ reader.pc = "after"
  /\ reader' = [reader EXCEPT !.pc =
       IF slots[SlotOf(reader.sequence)].version = reader.before THEN "done" ELSE "idle"]
  /\ UNCHANGED << slots, write_sequence, read_sequence, dropped_frames, writer, got >>

ReturnFrame ==
  /\ reader.pc = "done"
  /\ got' = [sequence |-> reader.sequence,
             data |-> IF reader.first = reader.second THEN reader.first ELSE Torn]
  /\ read_sequence' = reader.sequence
  /\ reader' = [reader EXCEPT !.pc = "idle"]
  /\ UNCHANGED << slots, write_sequence, dropped_frames, writer >>

Reader ==
  \/ LoadWriteSequence \/ LoadBefore \/ CopyFirst \/ CopySecond \/ LoadAfter \/ ReturnFrame

Next == Writer \/ Reader

(* The encoder polls the ring; the writer may stop at any time between two *)
(* frames, but not in the middle of one.                                   *)
Fairness == WF_vars(Reader) /\ WF_vars(Writer /\ writer.pc # "idle")

Spec == Init /\ [][Next]_vars /\ Fairness

-----------------------------------------------------------------------------
Frame == -1 .. MaxWrites

(* The shape of the state. *)
TypeOK ==
  /\ slots \in [Indices -> [version : 0 .. 2 * MaxWrites, data : Frame]]
  /\ write_sequence \in 0 .. MaxWrites
  /\ read_sequence \in 0 .. MaxWrites
  /\ dropped_frames \in Nat
  /\ writer \in [pc : {"idle", "fill", "publish", "lag", "drop"}, marked : BOOLEAN,
                 copied : {"no", "partly", "all"}, seen : 0 .. MaxWrites]
  /\ reader \in [pc : {"idle", "before", "first", "second", "after", "done"},
                 sequence : 0 .. MaxWrites, before : 0 .. 2 * MaxWrites,
                 first : Frame, second : Frame]
  /\ got \in [sequence : 0 .. MaxWrites, data : Frame]

(* What the version check promises: what the reader is about to return is   *)
(* the frame whose number it stores as read, unless the writer has lapped  *)
(* it, that is, has come round to the same slot: then it may have got some *)
(* of the frame that is written there, but no later one.                   *)
WholeUnlessLapped ==
  LET own == reader.sequence
      lapped == write_sequence + 1 >= own + Capacity
  IN  reader.pc = "done" =>
        \A half \in {reader.first, reader.second} :
          half = own \/ (lapped /\ half \in {Torn, own + Capacity})

(* What the reader may rely on.                                            *)
RingIsSafe == TypeOK /\ WholeUnlessLapped

(* "It uses C11 atomics and a seqlock-style version check"                  *)
(* (native/edge_camera/README.md:50): no frame the reader returns is torn.  *)
NoTornRead == got.data # Torn

(* Both sides store read_sequence without regard to each other: the reader *)
(* may put it back behind frames the writer has counted as dropped.  Still *)
(* no frame is counted more than twice.                                    *)
CountedTwiceAtMost == dropped_frames <= 2 * MinimumReadSequence

(* The ring is a Mailbox: what the reader gets has been published, and is  *)
(* never older than what it got before.                                    *)
Box == INSTANCE Mailbox WITH offered <- write_sequence, taken <- got.sequence
HandsOverLatest == Box!Spec

(* Once the writer pauses, the reader gets the newest frame. *)
NewestIsRead ==
  \A n \in 1 .. MaxWrites : write_sequence = n ~> got.sequence >= n \/ write_sequence > n

(* What the ring delivers, and that the frames it loses are counted.        *)
RingDelivers == []CountedTwiceAtMost /\ HandsOverLatest /\ NewestIsRead
=============================================================================
