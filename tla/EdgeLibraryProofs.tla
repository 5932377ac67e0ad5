------------------------- MODULE EdgeLibraryProofs -------------------------
(***************************************************************************)
(* For every number of slots and of frames written, and however early the  *)
(* stores of a copy become visible: the reader returns the frame it is     *)
(* after, whole unless the writer has come round to its slot; the ring is  *)
(* a mailbox, and no lost frame is counted thrice.  For every delay and    *)
(* order of samples the clock's estimate keeps to what the samples say;    *)
(* for every rate, tolerance, delay and loss the frames of two eyes are    *)
(* paired, judged and counted as they should be.                           *)
(*                                                                         *)
(* A version that is twice a frame's number says that the slot holds that  *)
(* frame, except that the copy of the next frame of the slot may be ahead  *)
(* of its odd version.  A reader that finds the version again after its    *)
(* copy knows that no later frame than that has touched the slot: the      *)
(* writer only ever stores odd versions and versions of frames newer than  *)
(* any the reader may be after.                                            *)
(***************************************************************************)
EXTENDS MCEdgeLibrary, WellFoundedInduction, TLAPS

-----------------------------------------------------------------------------
SlotType == [version : 0 .. 2 * MaxWrites, data : Frame]
WriterPC == {"idle", "fill", "publish", "lag", "drop"}
Copied == {"no", "partly", "all"}
WriterType == [pc : WriterPC, marked : BOOLEAN, copied : Copied, seen : 0 .. MaxWrites]
ReaderPC == {"idle", "before", "first", "second", "after", "done"}
ReaderType == [pc : ReaderPC, sequence : 0 .. MaxWrites, before : 0 .. 2 * MaxWrites,
               first : Frame, second : Frame]

GotType == [sequence : 0 .. MaxWrites, data : Frame]

(* What the writer has made of its slot. *)
WriterInv ==
  /\ writer.pc \in {"fill", "publish"} => write_sequence < MaxWrites
  /\ writer.pc = "fill" =>
       /\ writer.marked => slots[SlotOf(Writing)].version = 2 * Writing - 1
       /\ writer.copied = "all" => slots[SlotOf(Writing)].data = Writing
  /\ writer.pc = "publish" => slots[SlotOf(Writing)].version = 2 * Writing

(* What a reader may find of frame s when n are written: the frame, or     *)
(* something of the next frame of its slot once that has been begun.       *)
Partial(s, d, n) == d = s \/ (n + 1 >= s + Capacity /\ d \in {Torn, s + Capacity})

(* An even version is that of the newest frame of its slot that is         *)
(* complete, and a promise of what the slot holds.                         *)
Newest(i, s, n, pc) ==
  /\ SlotOf(s) = i
  /\ s + Capacity >= n + 1 /\ s <= n + 1
  /\ s = n + 1 => pc = "publish"

DataInv ==
  \A i \in Indices : \A s \in 1 .. MaxWrites :
    slots[i].version = 2 * s =>
      Newest(i, s, write_sequence, writer.pc) /\ Partial(s, slots[i].data, write_sequence)

(* The reader's copy is as good as that while the version stays the same.  *)
Unchanged == slots[SlotOf(reader.sequence)].version = 2 * reader.sequence

ReaderInv ==
  /\ got.sequence \in 0 .. write_sequence
  /\ reader.pc # "idle" => reader.sequence \in 1 .. write_sequence /\ got.sequence <= reader.sequence
  /\ reader.pc \in {"first", "second", "after"} => reader.before = 2 * reader.sequence
  /\ reader.pc \in {"second", "after"} /\ Unchanged =>
       Partial(reader.sequence, reader.first, write_sequence)
  /\ reader.pc = "after" /\ Unchanged => Partial(reader.sequence, reader.second, write_sequence)
  /\ reader.pc = "done" =>
       /\ Partial(reader.sequence, reader.first, write_sequence)
       /\ Partial(reader.sequence, reader.second, write_sequence)

IInv == TypeOK /\ WriterInv /\ DataInv /\ ReaderInv

-----------------------------------------------------------------------------
(* What TypeOK says, folded.                                               *)
LEMMA FoldedTypes ==
  TypeOK <=> /\ slots \in [Indices -> SlotType]
             /\ write_sequence \in 0 .. MaxWrites /\ read_sequence \in 0 .. MaxWrites
             /\ dropped_frames \in Nat /\ writer \in WriterType /\ reader \in ReaderType
             /\ got \in GotType
  BY DEF TypeOK, SlotType, WriterType, WriterPC, Copied, ReaderType, ReaderPC, GotType

(* The fields as numbers.                                                  *)
LEMMA Fields ==
  ASSUME TypeOK
  PROVE  /\ MaxWrites \in Nat /\ write_sequence \in 0 .. MaxWrites /\ write_sequence \in Nat
         /\ read_sequence \in 0 .. MaxWrites /\ dropped_frames \in Nat
         /\ writer \in WriterType /\ reader \in ReaderType /\ slots \in [Indices -> SlotType]
         /\ writer.pc \in WriterPC /\ writer.copied \in Copied /\ writer.seen \in 0 .. MaxWrites
         /\ reader.pc \in ReaderPC /\ reader.sequence \in 0 .. MaxWrites
         /\ reader.first \in Frame /\ reader.second \in Frame /\ got \in GotType
<1>1. /\ writer \in WriterType /\ reader \in ReaderType /\ slots \in [Indices -> SlotType]
      /\ write_sequence \in 0 .. MaxWrites /\ read_sequence \in 0 .. MaxWrites
      /\ dropped_frames \in Nat /\ got \in GotType /\ MaxWrites \in Nat
  BY FoldedTypes, RingAssumption
<1>2. writer.pc \in WriterPC /\ writer.copied \in Copied /\ writer.seen \in 0 .. MaxWrites
  BY <1>1 DEF WriterType
<1>3. /\ reader.pc \in ReaderPC /\ reader.sequence \in 0 .. MaxWrites
      /\ reader.first \in Frame /\ reader.second \in Frame
  BY <1>1 DEF ReaderType
<1>4. write_sequence \in Nat
  BY <1>1, SMT
<1> QED
  BY <1>1, <1>2, <1>3, <1>4

(* Every frame has a slot.                                                 *)
LEMMA SlotOfIsIndex ==
  ASSUME NEW n \in Nat
  PROVE  SlotOf(n) \in Indices
<1>1. Capacity \in Nat /\ Capacity > 0
  BY RingAssumption, SMT
<1>2. (n % Capacity) \in 0 .. Capacity - 1
  BY <1>1, SMT
<1> QED
  BY <1>2 DEF SlotOf, Indices

(* A new version leaves the data and the other slots alone.                *)
LEMMA Versioned ==
  ASSUME slots \in [Indices -> SlotType], NEW i \in Indices, NEW v \in 0 .. 2 * MaxWrites,
         slots' = [slots EXCEPT ![i].version = v]
  PROVE  /\ slots' \in [Indices -> SlotType]
         /\ slots'[i].version = v /\ slots'[i].data = slots[i].data
         /\ \A j \in Indices : j # i => slots'[j] = slots[j]
<1> DEFINE y == [slots[i] EXCEPT !.version = v]
<1>1. slots' = [slots EXCEPT ![i] = y] /\ slots[i] \in SlotType
  OBVIOUS
<1>2. y \in SlotType /\ y.version = v /\ y.data = slots[i].data
  BY <1>1, SMT DEF SlotType
<1> HIDE DEF y
<1>3. slots' \in [Indices -> SlotType] /\ slots'[i] = y
  BY <1>1, <1>2
<1>4. \A j \in Indices : j # i => slots'[j] = slots[j]
  BY <1>1
<1> QED
  BY <1>2, <1>3, <1>4

(* New data leaves the version and the other slots alone.                  *)
LEMMA Filled ==
  ASSUME slots \in [Indices -> SlotType], NEW i \in Indices, NEW d \in Frame,
         slots' = [slots EXCEPT ![i].data = d]
  PROVE  /\ slots' \in [Indices -> SlotType]
         /\ slots'[i].data = d /\ slots'[i].version = slots[i].version
         /\ \A j \in Indices : j # i => slots'[j] = slots[j]
<1> DEFINE y == [slots[i] EXCEPT !.data = d]
<1>1. slots' = [slots EXCEPT ![i] = y] /\ slots[i] \in SlotType
  OBVIOUS
<1>2. y \in SlotType /\ y.data = d /\ y.version = slots[i].version
  BY <1>1, SMT DEF SlotType
<1> HIDE DEF y
<1>3. slots' \in [Indices -> SlotType] /\ slots'[i] = y
  BY <1>1, <1>2
<1>4. \A j \in Indices : j # i => slots'[j] = slots[j]
  BY <1>1
<1> QED
  BY <1>2, <1>3, <1>4

(* The writer goes on to something else.                                   *)
LEMMA WriterMoved ==
  ASSUME writer \in WriterType, NEW p \in WriterPC, writer' = [writer EXCEPT !.pc = p]
  PROVE  writer' \in WriterType /\ writer'.pc = p
  BY SMT DEF WriterType

(* The reader goes on to something else.                                   *)
LEMMA ReaderMoved ==
  ASSUME reader \in ReaderType, NEW p \in ReaderPC, reader' = [reader EXCEPT !.pc = p]
  PROVE  /\ reader' \in ReaderType /\ reader'.pc = p /\ reader'.sequence = reader.sequence
         /\ reader'.before = reader.before
         /\ reader'.first = reader.first /\ reader'.second = reader.second
  BY SMT DEF ReaderType

(* Frames of one slot are at least the capacity apart.                     *)
LEMMA SameSlot ==
  ASSUME NEW s \in Nat, NEW n \in Nat, s < n, SlotOf(s) = SlotOf(n)
  PROVE  s + Capacity <= n
<1>1. Capacity \in Nat /\ Capacity > 0
  BY RingAssumption, SMT
<1> DEFINE p == s \div Capacity
           q == n \div Capacity
           r == s % Capacity
<1>2. s = Capacity * p + r /\ p \in Int
  <2>1. s = Capacity * (s \div Capacity) + (s % Capacity)
    BY <1>1, SMT
  <2>2. s \div Capacity \in Int
    BY <1>1, SMT
  <2> QED
    BY <2>1, <2>2
<1>3. n = Capacity * q + r /\ q \in Int
  <2>1. n = Capacity * (n \div Capacity) + (n % Capacity)
    BY <1>1, SMT
  <2>2. n \div Capacity \in Int
    BY <1>1, SMT
  <2>3. n % Capacity = s % Capacity
    BY DEF SlotOf
  <2> QED
    BY <2>1, <2>2, <2>3
<1>4. r \in Int
  BY <1>1, SMT
<1> HIDE DEF p, q, r
<1>5. q >= p + 1
  <2> SUFFICES ASSUME q <= p PROVE FALSE
    BY <1>2, <1>3
  <2>1. Capacity * q <= Capacity * p
    BY <1>1, <1>2, <1>3, SMT
  <2> QED
    BY <1>1, <1>2, <1>3, <1>4, <2>1, SMT
<1>6. Capacity * q >= Capacity * (p + 1)
  BY <1>1, <1>2, <1>3, <1>5, SMT
<1>7. Capacity * (p + 1) = Capacity * p + Capacity
  BY <1>1, <1>2, SMT
<1> QED
  BY <1>1, <1>2, <1>3, <1>4, <1>6, <1>7, SMT

(* The slot of a frame is next used for the one a capacity later.          *)
LEMMA NextOfSlot ==
  ASSUME NEW s \in Nat
  PROVE  SlotOf(s + Capacity) = SlotOf(s)
<1>1. Capacity \in Nat /\ Capacity > 0
  BY RingAssumption, SMT
<1> DEFINE p == s \div Capacity
           r == s % Capacity
<1>2. s = Capacity * p + r
  BY <1>1, SMT
<1>3. p \in Int /\ r \in Int /\ r >= 0 /\ r < Capacity
  <2>1. s \div Capacity \in Int
    BY <1>1, SMT
  <2>2. (s % Capacity) \in 0 .. Capacity - 1
    BY <1>1, SMT
  <2> QED
    BY <1>1, <2>1, <2>2
<1>4. SlotOf(s) = r
  BY DEF SlotOf
<1> HIDE DEF p, r
<1>5. s + Capacity = Capacity * (p + 1) + r /\ p + 1 \in Int
  BY <1>1, <1>2, <1>3, SMT
<1>6. \A x \in Int : (Capacity * x + r) % Capacity = r
  BY <1>1, <1>3, SMT
<1> QED
  BY <1>4, <1>5, <1>6 DEF SlotOf

(* What a step of the writer in a slot leaves of the reader's promise.     *)
LEMMA ReaderKept ==
  ASSUME IInv, reader' = reader, got' = got, write_sequence' = write_sequence,
         Unchanged' => Unchanged \/ reader.pc = "idle"
  PROVE  ReaderInv'
<1>1. /\ got'.sequence \in 0 .. write_sequence'
      /\ reader.pc # "idle" => reader.sequence \in 1 .. write_sequence /\ got.sequence <= reader.sequence
  BY DEF IInv, ReaderInv
<1> QED
  BY <1>1 DEF IInv, ReaderInv

-----------------------------------------------------------------------------
(* The writer begins a frame.                                              *)
LEMMA BeginWriteStep ==
  ASSUME IInv, BeginWrite
  PROVE  IInv'
<1>1. TypeOK
  BY DEF IInv
<1>2. writer.pc = "idle" /\ write_sequence < MaxWrites
  BY DEF BeginWrite
<1>3. /\ writer' \in WriterType /\ writer'.pc = "fill" /\ writer'.copied = "no"
      /\ ~writer'.marked
  <2> DEFINE z1 == [writer EXCEPT !.pc = "fill"]
  <2>1. writer \in WriterType
    BY <1>1, Fields
  <2>2. z1 \in WriterType
    BY <2>1, SMT DEF WriterType, WriterPC
  <2>3. writer' = [z1 EXCEPT !.marked = FALSE, !.copied = "no"]
    BY DEF BeginWrite
  <2> HIDE DEF z1
  <2> DEFINE z2 == [z1 EXCEPT !.marked = FALSE]
  <2>4. z2 \in WriterType
    <3>1. \A b \in BOOLEAN : [z1 EXCEPT !.marked = b] \in WriterType
      BY <2>2, SMT DEF WriterType
    <3> QED
      BY <3>1, Zenon
  <2>5. writer' = [z2 EXCEPT !.copied = "no"]
    BY <2>3
  <2>6. ~z2.marked
    BY <2>2, Zenon DEF WriterType
  <2> HIDE DEF z2
  <2>7. writer' \in WriterType /\ writer'.copied = "no"
    BY <2>4, <2>5, SMT DEF WriterType, Copied
  <2>8. ~writer'.marked
    BY <2>4, <2>5, <2>6, Zenon DEF WriterType
  <2>9. writer'.pc = "fill"
    BY <2>1, SMT DEF BeginWrite, WriterType
  <2> QED
    BY <2>7, <2>8, <2>9
<1>4. /\ slots' = slots /\ write_sequence' = write_sequence
      /\ read_sequence' = read_sequence /\ dropped_frames' = dropped_frames
      /\ reader' = reader /\ got' = got
  BY DEF BeginWrite
<1>5. TypeOK'
  <2>1. /\ slots' \in [Indices -> SlotType]
        /\ write_sequence' \in 0 .. MaxWrites /\ read_sequence' \in 0 .. MaxWrites
        /\ dropped_frames' \in Nat /\ writer' \in WriterType /\ reader' \in ReaderType
        /\ got' \in GotType
    BY <1>1, <1>2, <1>3, <1>4, Fields
  <2> QED
    BY <2>1 DEF TypeOK, SlotType, WriterType, WriterPC, Copied, ReaderType, ReaderPC, GotType
<1>6. WriterInv'
  BY <1>1, <1>2, <1>3, <1>4, Fields DEF IInv, WriterInv, Writing, SlotOf
<1>7. DataInv'
  BY <1>1, <1>2, <1>3, <1>4, Fields DEF IInv, DataInv, Newest, Partial, SlotOf
<1>8. ReaderInv'
  BY <1>1, <1>2, <1>3, <1>4, Fields DEF IInv, ReaderInv, Unchanged, Partial, SlotOf
<1> QED
  BY <1>5, <1>6, <1>7, <1>8 DEF IInv

(* The odd version becomes visible.                                        *)
LEMMA MarkOddStep ==
  ASSUME IInv, MarkOdd
  PROVE  IInv'
<1>1. TypeOK
  BY DEF IInv
<1>2. /\ writer.pc = "fill" /\ write_sequence \in Nat /\ write_sequence < MaxWrites
      /\ SlotOf(Writing) \in Indices /\ MaxWrites \in Nat
  <2>1. writer.pc = "fill" /\ write_sequence < MaxWrites
    BY DEF MarkOdd, IInv, WriterInv
  <2>2. Writing \in Nat
    BY <1>1, Fields, SMT DEF Writing
  <2> QED
    BY <1>1, <2>1, <2>2, Fields, SlotOfIsIndex
<1>3. /\ slots' \in [Indices -> SlotType]
      /\ slots'[SlotOf(Writing)].version = 2 * write_sequence + 1
      /\ slots'[SlotOf(Writing)].data = slots[SlotOf(Writing)].data
      /\ \A j \in Indices : j # SlotOf(Writing) => slots'[j] = slots[j]
  <2> DEFINE v == 2 * Writing - 1
             i == SlotOf(Writing)
  <2>1. v \in 0 .. 2 * MaxWrites /\ v = 2 * write_sequence + 1
    BY <1>2, SMT DEF Writing
  <2>2. slots \in [Indices -> SlotType] /\ slots' = [slots EXCEPT ![i].version = v]
    BY <1>1, Fields DEF MarkOdd
  <2>3. i \in Indices
    BY <1>2
  <2> HIDE DEF v, i
  <2>4. /\ slots' \in [Indices -> SlotType]
        /\ slots'[i].version = v /\ slots'[i].data = slots[i].data
        /\ \A j \in Indices : j # i => slots'[j] = slots[j]
    BY <2>1, <2>2, <2>3, Versioned
  <2> QED
    BY <2>1, <2>4 DEF i
<1>4. /\ writer' \in WriterType /\ writer'.pc = "fill" /\ writer'.copied = writer.copied
      /\ writer'.marked
  <2>1. writer \in WriterType /\ writer' = [writer EXCEPT !.marked = TRUE]
    BY <1>1, Fields DEF MarkOdd
  <2>2. writer' \in WriterType
    <3>1. \A b \in BOOLEAN : [writer EXCEPT !.marked = b] \in WriterType
      BY <2>1, SMT DEF WriterType
    <3> QED
      BY <2>1, <3>1, Zenon
  <2>3. writer'.pc = writer.pc /\ writer'.copied = writer.copied
    BY <2>1, SMT DEF WriterType
  <2>4. writer'.marked
    BY <2>1, Zenon DEF WriterType
  <2> QED
    BY <1>2, <2>2, <2>3, <2>4
<1>5. ~writer.marked
  BY DEF MarkOdd
<1>6. /\ write_sequence' = write_sequence /\ read_sequence' = read_sequence
      /\ dropped_frames' = dropped_frames /\ reader' = reader /\ got' = got
  BY DEF MarkOdd
<1>7. TypeOK'
  <2>1. /\ slots' \in [Indices -> SlotType]
        /\ write_sequence' \in 0 .. MaxWrites /\ read_sequence' \in 0 .. MaxWrites
        /\ dropped_frames' \in Nat /\ writer' \in WriterType /\ reader' \in ReaderType
        /\ got' \in GotType
    BY <1>1, <1>2, <1>3, <1>4, <1>5, <1>6, Fields
  <2> QED
    BY <2>1 DEF TypeOK, SlotType, WriterType, WriterPC, Copied, ReaderType, ReaderPC, GotType
<1>8. WriterInv'
  <2>1. slots'[SlotOf(Writing')].version = 2 * Writing' - 1
    BY <1>2, <1>3, <1>6 DEF Writing
  <2>2. writer.copied = "all" => slots'[SlotOf(Writing')].data = Writing'
    BY <1>2, <1>3, <1>6 DEF IInv, WriterInv, Writing
  <2> QED
    BY <1>2, <1>4, <1>6, <2>1, <2>2 DEF WriterInv
<1>9. DataInv'
  <2> SUFFICES ASSUME NEW i \in Indices, NEW s \in 1 .. MaxWrites, slots'[i].version = 2 * s
               PROVE  /\ Newest(i, s, write_sequence', writer'.pc)
                      /\ Partial(s, slots'[i].data, write_sequence')
    BY DEF DataInv
  <2>1. CASE i = SlotOf(Writing)
    <3>1. 2 * s = 2 * write_sequence + 1
      BY <1>3, <2>1
    <3> QED
      BY <1>2, <3>1, SMT
  <2>2. CASE i # SlotOf(Writing)
    <3>1. slots'[i] = slots[i]
      BY <1>1, <1>2, <1>3, <1>4, <1>5, <1>6, <2>2
    <3>2. Newest(i, s, write_sequence, writer.pc) /\ Partial(s, slots[i].data, write_sequence)
      BY <3>1 DEF IInv, DataInv
    <3> QED
      BY <1>2, <1>4, <1>6, <3>1, <3>2 DEF Newest, Partial, SlotOf
  <2> QED
    BY <2>1, <2>2
<1>10. ReaderInv'
  <2>1. /\ got' = got /\ write_sequence' = write_sequence /\ reader' = reader
    BY <1>1, <1>2, <1>3, <1>4, <1>5, <1>6
  <2>2. Unchanged' => Unchanged \/ reader.pc = "idle"
    <3>1. SlotOf(reader.sequence) \in Indices /\ reader.sequence \in Nat
      BY <1>1, Fields, SlotOfIsIndex
    <3>2. CASE SlotOf(reader.sequence) # SlotOf(Writing)
      <4>1. slots'[SlotOf(reader.sequence)] = slots[SlotOf(reader.sequence)]
        BY <1>1, <1>2, <1>3, <1>4, <1>5, <1>6, <3>1, <3>2
      <4> QED
        BY <2>1, <4>1 DEF Unchanged, SlotOf
    <3>3. CASE SlotOf(reader.sequence) = SlotOf(Writing)
      <4>1. Unchanged' => 2 * reader.sequence = 2 * write_sequence + 1
        BY <1>3, <2>1, <3>3 DEF Unchanged, SlotOf
      <4> QED
        BY <1>2, <3>1, <4>1, SMT
    <3> QED
      BY <3>2, <3>3
  <2> QED
    BY <2>1, <2>2, ReaderKept
<1> QED
  BY <1>7, <1>8, <1>9, <1>10 DEF IInv

(* The first bytes of the copy become visible, after the odd version.      *)
LEMMA BeginCopyStep ==
  ASSUME IInv, BeginCopy
  PROVE  IInv'
<1>1. TypeOK
  BY DEF IInv
<1>2. /\ writer.pc = "fill" /\ write_sequence \in Nat /\ write_sequence < MaxWrites
      /\ Writing = write_sequence + 1 /\ Writing \in Nat
      /\ SlotOf(Writing) \in Indices /\ MaxWrites \in Nat
  <2>1. writer.pc = "fill" /\ write_sequence < MaxWrites
    BY DEF BeginCopy, IInv, WriterInv
  <2>2. Writing \in Nat /\ Writing = write_sequence + 1
    BY <1>1, Fields, SMT DEF Writing
  <2> QED
    BY <1>1, <2>1, <2>2, Fields, SlotOfIsIndex
<1>3. /\ slots' \in [Indices -> SlotType]
      /\ slots'[SlotOf(Writing)].data = Torn
      /\ \A j \in Indices : slots'[j].version = slots[j].version
      /\ \A j \in Indices : j # SlotOf(Writing) => slots'[j] = slots[j]
  <2> DEFINE i == SlotOf(Writing)
  <2>1. Torn \in Frame
    BY <1>2, SMT DEF Frame, Torn
  <2>2. slots \in [Indices -> SlotType] /\ slots' = [slots EXCEPT ![i].data = Torn]
    BY <1>1, Fields DEF BeginCopy
  <2>3. i \in Indices
    BY <1>2
  <2> HIDE DEF i
  <2>4. /\ slots' \in [Indices -> SlotType]
        /\ slots'[i].data = Torn /\ slots'[i].version = slots[i].version
        /\ \A j \in Indices : j # i => slots'[j] = slots[j]
    BY <2>1, <2>2, <2>3, Filled
  <2> QED
    BY <2>4 DEF i
<1>4. /\ writer' \in WriterType /\ writer'.pc = "fill" /\ writer'.copied = "partly"
      /\ writer'.marked = writer.marked
  <2>1. writer \in WriterType /\ writer' = [writer EXCEPT !.copied = "partly"]
    BY <1>1, Fields DEF BeginCopy
  <2>2. writer' \in WriterType /\ writer'.copied = "partly" /\ writer'.pc = writer.pc
    BY <2>1, SMT DEF WriterType, Copied
  <2>3. writer'.marked = writer.marked
    BY <2>1, Zenon DEF WriterType
  <2> QED
    BY <1>2, <2>2, <2>3
<1>5. SlotOf(Writing') = SlotOf(Writing) /\ Writing' = Writing
  BY DEF BeginCopy, SlotOf, Writing
<1>6. /\ write_sequence' = write_sequence /\ read_sequence' = read_sequence
      /\ dropped_frames' = dropped_frames /\ reader' = reader /\ got' = got
  BY DEF BeginCopy
<1>7. TypeOK'
  <2>1. /\ slots' \in [Indices -> SlotType]
        /\ write_sequence' \in 0 .. MaxWrites /\ read_sequence' \in 0 .. MaxWrites
        /\ dropped_frames' \in Nat /\ writer' \in WriterType /\ reader' \in ReaderType
        /\ got' \in GotType
    BY <1>1, <1>3, <1>4, <1>6, Fields
  <2> QED
    BY <2>1 DEF TypeOK, SlotType, WriterType, WriterPC, Copied, ReaderType, ReaderPC, GotType
<1>8. WriterInv'
  <2>1. writer.marked => slots'[SlotOf(Writing)].version = 2 * Writing - 1
    BY <1>2, <1>3 DEF IInv, WriterInv
  <2> QED
    BY <1>2, <1>3, <1>4, <1>5, <1>6, <2>1 DEF WriterInv
<1>9. DataInv'
  <2> SUFFICES ASSUME NEW i \in Indices, NEW s \in 1 .. MaxWrites, slots'[i].version = 2 * s
               PROVE  /\ Newest(i, s, write_sequence', writer'.pc)
                      /\ Partial(s, slots'[i].data, write_sequence')
    BY DEF DataInv
  <2>1. CASE i = SlotOf(Writing)
    <3>1. /\ Newest(i, s, write_sequence, writer.pc) /\ SlotOf(s) = SlotOf(Writing)
          /\ s # Writing /\ s \in Nat
      BY <1>2, <1>3, <2>1 DEF IInv, DataInv, Newest
    <3>2. s < Writing /\ Writing <= s + Capacity /\ Capacity \in Nat
      BY <1>2, <3>1, RingAssumption DEF Newest
    <3>3. s + Capacity <= Writing
      BY <1>2, <3>1, <3>2, SameSlot
    <3>4. slots'[i].data \in {Torn, s + Capacity}
      BY <1>2, <1>3, <2>1, <3>2, <3>3
    <3> QED
      BY <1>2, <1>4, <1>6, <3>1, <3>3, <3>4 DEF Newest, Partial, SlotOf
  <2>2. CASE i # SlotOf(Writing)
    <3>1. slots'[i] = slots[i]
      BY <1>1, <1>2, <1>3, <1>4, <1>5, <1>6, <2>2
    <3>2. Newest(i, s, write_sequence, writer.pc) /\ Partial(s, slots[i].data, write_sequence)
      BY <3>1 DEF IInv, DataInv
    <3> QED
      BY <1>2, <1>4, <1>6, <3>1, <3>2 DEF Newest, Partial, SlotOf
  <2> QED
    BY <2>1, <2>2
<1>10. ReaderInv'
  <2>1. SlotOf(reader.sequence) \in Indices
    BY <1>1, Fields, SlotOfIsIndex
  <2>2. Unchanged' <=> Unchanged
    BY <1>3, <1>6, <2>1 DEF Unchanged, SlotOf
  <2> QED
    BY <1>6, <2>2, ReaderKept
<1> QED
  BY <1>7, <1>8, <1>9, <1>10 DEF IInv

(* The rest of the copy becomes visible.                                   *)
LEMMA EndCopyStep ==
  ASSUME IInv, EndCopy
  PROVE  IInv'
<1>1. TypeOK
  BY DEF IInv
<1>2. /\ writer.pc = "fill" /\ write_sequence \in Nat /\ write_sequence < MaxWrites
      /\ Writing = write_sequence + 1 /\ Writing \in Nat
      /\ SlotOf(Writing) \in Indices /\ MaxWrites \in Nat
  <2>1. writer.pc = "fill" /\ write_sequence < MaxWrites
    BY DEF EndCopy, IInv, WriterInv
  <2>2. Writing \in Nat /\ Writing = write_sequence + 1
    BY <1>1, Fields, SMT DEF Writing
  <2> QED
    BY <1>1, <2>1, <2>2, Fields, SlotOfIsIndex
<1>3. /\ slots' \in [Indices -> SlotType]
      /\ slots'[SlotOf(Writing)].data = Writing
      /\ \A j \in Indices : slots'[j].version = slots[j].version
      /\ \A j \in Indices : j # SlotOf(Writing) => slots'[j] = slots[j]
  <2> DEFINE i == SlotOf(Writing)
  <2>1. Writing \in Frame
    BY <1>2, SMT DEF Frame, Torn
  <2>2. slots \in [Indices -> SlotType] /\ slots' = [slots EXCEPT ![i].data = Writing]
    BY <1>1, Fields DEF EndCopy
  <2>3. i \in Indices
    BY <1>2
  <2> HIDE DEF i
  <2>4. /\ slots' \in [Indices -> SlotType]
        /\ slots'[i].data = Writing /\ slots'[i].version = slots[i].version
        /\ \A j \in Indices : j # i => slots'[j] = slots[j]
    BY <2>1, <2>2, <2>3, Filled
  <2> QED
    BY <2>4 DEF i
<1>4. /\ writer' \in WriterType /\ writer'.pc = "fill" /\ writer'.copied = "all"
      /\ writer'.marked = writer.marked
  <2>1. writer \in WriterType /\ writer' = [writer EXCEPT !.copied = "all"]
    BY <1>1, Fields DEF EndCopy
  <2>2. writer' \in WriterType /\ writer'.copied = "all" /\ writer'.pc = writer.pc
    BY <2>1, SMT DEF WriterType, Copied
  <2>3. writer'.marked = writer.marked
    BY <2>1, Zenon DEF WriterType
  <2> QED
    BY <1>2, <2>2, <2>3
<1>5. SlotOf(Writing') = SlotOf(Writing) /\ Writing' = Writing
  BY DEF EndCopy, SlotOf, Writing
<1>6. /\ write_sequence' = write_sequence /\ read_sequence' = read_sequence
      /\ dropped_frames' = dropped_frames /\ reader' = reader /\ got' = got
  BY DEF EndCopy
<1>7. TypeOK'
  <2>1. /\ slots' \in [Indices -> SlotType]
        /\ write_sequence' \in 0 .. MaxWrites /\ read_sequence' \in 0 .. MaxWrites
        /\ dropped_frames' \in Nat /\ writer' \in WriterType /\ reader' \in ReaderType
        /\ got' \in GotType
    BY <1>1, <1>3, <1>4, <1>6, Fields
  <2> QED
    BY <2>1 DEF TypeOK, SlotType, WriterType, WriterPC, Copied, ReaderType, ReaderPC, GotType
<1>8. WriterInv'
  <2>1. writer.marked => slots'[SlotOf(Writing)].version = 2 * Writing - 1
    BY <1>2, <1>3 DEF IInv, WriterInv
  <2> QED
    BY <1>2, <1>3, <1>4, <1>5, <1>6, <2>1 DEF WriterInv
<1>9. DataInv'
  <2> SUFFICES ASSUME NEW i \in Indices, NEW s \in 1 .. MaxWrites, slots'[i].version = 2 * s
               PROVE  /\ Newest(i, s, write_sequence', writer'.pc)
                      /\ Partial(s, slots'[i].data, write_sequence')
    BY DEF DataInv
  <2>1. CASE i = SlotOf(Writing)
    <3>1. /\ Newest(i, s, write_sequence, writer.pc) /\ SlotOf(s) = SlotOf(Writing)
          /\ s # Writing /\ s \in Nat
      BY <1>2, <1>3, <2>1 DEF IInv, DataInv, Newest
    <3>2. s < Writing /\ Writing <= s + Capacity /\ Capacity \in Nat
      BY <1>2, <3>1, RingAssumption DEF Newest
    <3>3. s + Capacity <= Writing
      BY <1>2, <3>1, <3>2, SameSlot
    <3>4. slots'[i].data \in {Torn, s + Capacity}
      BY <1>2, <1>3, <2>1, <3>2, <3>3
    <3> QED
      BY <1>2, <1>4, <1>6, <3>1, <3>3, <3>4 DEF Newest, Partial, SlotOf
  <2>2. CASE i # SlotOf(Writing)
    <3>1. slots'[i] = slots[i]
      BY <1>1, <1>2, <1>3, <1>4, <1>5, <1>6, <2>2
    <3>2. Newest(i, s, write_sequence, writer.pc) /\ Partial(s, slots[i].data, write_sequence)
      BY <3>1 DEF IInv, DataInv
    <3> QED
      BY <1>2, <1>4, <1>6, <3>1, <3>2 DEF Newest, Partial, SlotOf
  <2> QED
    BY <2>1, <2>2
<1>10. ReaderInv'
  <2>1. SlotOf(reader.sequence) \in Indices
    BY <1>1, Fields, SlotOfIsIndex
  <2>2. Unchanged' <=> Unchanged
    BY <1>3, <1>6, <2>1 DEF Unchanged, SlotOf
  <2> QED
    BY <1>6, <2>2, ReaderKept
<1> QED
  BY <1>7, <1>8, <1>9, <1>10 DEF IInv

(* The even version becomes visible, after all of the copy.                *)
LEMMA MarkEvenStep ==
  ASSUME IInv, MarkEven
  PROVE  IInv'
<1>1. TypeOK
  BY DEF IInv
<1>2. /\ writer.pc = "fill" /\ write_sequence \in Nat /\ write_sequence < MaxWrites
      /\ SlotOf(Writing) \in Indices /\ MaxWrites \in Nat
  <2>1. writer.pc = "fill" /\ write_sequence < MaxWrites
    BY DEF MarkEven, IInv, WriterInv
  <2>2. Writing \in Nat
    BY <1>1, Fields, SMT DEF Writing
  <2> QED
    BY <1>1, <2>1, <2>2, Fields, SlotOfIsIndex
<1>3. slots[SlotOf(Writing)].data = Writing
  BY <1>2 DEF MarkEven, IInv, WriterInv
<1>4. /\ slots' \in [Indices -> SlotType]
      /\ slots'[SlotOf(Writing)].version = 2 * (write_sequence + 1)
      /\ slots'[SlotOf(Writing)].data = write_sequence + 1
      /\ \A j \in Indices : j # SlotOf(Writing) => slots'[j] = slots[j]
  <2> DEFINE v == 2 * Writing
             i == SlotOf(Writing)
  <2>1. v \in 0 .. 2 * MaxWrites /\ v = 2 * (write_sequence + 1) /\ Writing = write_sequence + 1
    BY <1>2, SMT DEF Writing
  <2>2. slots \in [Indices -> SlotType] /\ slots' = [slots EXCEPT ![i].version = v]
    BY <1>1, Fields DEF MarkEven
  <2>3. i \in Indices /\ slots[i].data = Writing
    BY <1>2, <1>3
  <2> HIDE DEF v, i
  <2>4. /\ slots' \in [Indices -> SlotType]
        /\ slots'[i].version = v /\ slots'[i].data = slots[i].data
        /\ \A j \in Indices : j # i => slots'[j] = slots[j]
    BY <2>1, <2>2, <2>3, Versioned
  <2> QED
    BY <2>1, <2>3, <2>4 DEF i
<1>5. writer' \in WriterType /\ writer'.pc = "publish"
  <2>1. writer \in WriterType /\ "publish" \in WriterPC /\ writer' = [writer EXCEPT !.pc = "publish"]
    BY <1>1, Fields DEF MarkEven, WriterPC
  <2> QED
    BY <2>1, WriterMoved
<1>6. /\ write_sequence' = write_sequence /\ read_sequence' = read_sequence
      /\ dropped_frames' = dropped_frames /\ reader' = reader /\ got' = got
  BY DEF MarkEven
<1>7. TypeOK'
  <2>1. /\ slots' \in [Indices -> SlotType]
        /\ write_sequence' \in 0 .. MaxWrites /\ read_sequence' \in 0 .. MaxWrites
        /\ dropped_frames' \in Nat /\ writer' \in WriterType /\ reader' \in ReaderType
        /\ got' \in GotType
    BY <1>1, <1>2, <1>3, <1>4, <1>5, <1>6, Fields
  <2> QED
    BY <2>1 DEF TypeOK, SlotType, WriterType, WriterPC, Copied, ReaderType, ReaderPC, GotType
<1>8. WriterInv'
  <2>1. slots'[SlotOf(Writing')].version = 2 * Writing'
    BY <1>2, <1>4, <1>6 DEF Writing
  <2> QED
    BY <1>2, <1>5, <1>6, <2>1 DEF WriterInv
<1>9. DataInv'
  <2> SUFFICES ASSUME NEW i \in Indices, NEW s \in 1 .. MaxWrites, slots'[i].version = 2 * s
               PROVE  /\ Newest(i, s, write_sequence', writer'.pc)
                      /\ Partial(s, slots'[i].data, write_sequence')
    BY DEF DataInv
  <2>1. CASE i = SlotOf(Writing)
    <3>1. 2 * s = 2 * (write_sequence + 1) /\ slots'[i].data = write_sequence + 1
      BY <1>4, <2>1
    <3>2. s = write_sequence + 1 /\ slots'[i].data = s
      BY <1>2, <3>1, SMT
    <3>3. i = SlotOf(s) /\ s + Capacity >= write_sequence + 1
      BY <1>2, <2>1, <3>2, RingAssumption DEF Writing
    <3> QED
      BY <1>2, <1>5, <1>6, <3>2, <3>3 DEF Newest, Partial, SlotOf
  <2>2. CASE i # SlotOf(Writing)
    <3>1. slots'[i] = slots[i]
      BY <1>1, <1>2, <1>3, <1>4, <1>5, <1>6, <2>2
    <3>2. Newest(i, s, write_sequence, writer.pc) /\ Partial(s, slots[i].data, write_sequence)
      BY <3>1 DEF IInv, DataInv
    <3> QED
      BY <1>2, <1>5, <1>6, <3>1, <3>2 DEF Newest, Partial, SlotOf
  <2> QED
    BY <2>1, <2>2
<1>10. ReaderInv'
  <2>1. /\ got' = got /\ write_sequence' = write_sequence /\ reader' = reader
    BY <1>1, <1>2, <1>3, <1>4, <1>5, <1>6
  <2>2. Unchanged' => Unchanged \/ reader.pc = "idle"
    <3>1. SlotOf(reader.sequence) \in Indices /\ reader.sequence \in Nat
      BY <1>1, Fields, SlotOfIsIndex
    <3>2. CASE SlotOf(reader.sequence) # SlotOf(Writing)
      <4>1. slots'[SlotOf(reader.sequence)] = slots[SlotOf(reader.sequence)]
        BY <1>1, <1>2, <1>3, <1>4, <1>5, <1>6, <3>1, <3>2
      <4> QED
        BY <2>1, <4>1 DEF Unchanged, SlotOf
    <3>3. CASE SlotOf(reader.sequence) = SlotOf(Writing)
      <4>1. Unchanged' => 2 * reader.sequence = 2 * (write_sequence + 1)
        BY <1>4, <2>1, <3>3 DEF Unchanged, SlotOf
      <4>2. reader.pc # "idle" => reader.sequence <= write_sequence
        BY <1>2 DEF IInv, ReaderInv
      <4> QED
        BY <1>2, <3>1, <4>1, <4>2, SMT
    <3> QED
      BY <3>2, <3>3
  <2> QED
    BY <2>1, <2>2, ReaderKept
<1> QED
  BY <1>7, <1>8, <1>9, <1>10 DEF IInv

(* The frame is published.                                                 *)
LEMMA PublishWriteStep ==
  ASSUME IInv, PublishWrite
  PROVE  IInv'
<1>1. TypeOK
  BY DEF IInv
<1>2. /\ write_sequence' = write_sequence + 1 /\ write_sequence < MaxWrites
      /\ write_sequence \in Nat /\ MaxWrites \in Nat
  BY <1>1, Fields DEF PublishWrite, Writing, IInv, WriterInv
<1>3. writer' \in WriterType /\ writer'.pc = "lag"
  <2>1. writer \in WriterType /\ "lag" \in WriterPC /\ writer' = [writer EXCEPT !.pc = "lag"]
    BY <1>1, Fields DEF PublishWrite, WriterPC
  <2> QED
    BY <2>1, WriterMoved
<1>4. /\ slots' = slots /\ read_sequence' = read_sequence
      /\ dropped_frames' = dropped_frames /\ reader' = reader /\ got' = got
  BY DEF PublishWrite
<1>5. TypeOK'
  <2>1. /\ slots' \in [Indices -> SlotType]
        /\ write_sequence' \in 0 .. MaxWrites /\ read_sequence' \in 0 .. MaxWrites
        /\ dropped_frames' \in Nat /\ writer' \in WriterType /\ reader' \in ReaderType
        /\ got' \in GotType
    BY <1>1, <1>2, <1>3, <1>4, Fields
  <2> QED
    BY <2>1 DEF TypeOK, SlotType, WriterType, WriterPC, Copied, ReaderType, ReaderPC, GotType
<1>6. WriterInv'
  BY <1>1, <1>2, <1>3, <1>4, Fields DEF IInv, WriterInv, Writing, SlotOf
<1>7. DataInv'
  <2> SUFFICES ASSUME NEW i \in Indices, NEW s \in 1 .. MaxWrites, slots'[i].version = 2 * s
               PROVE  /\ Newest(i, s, write_sequence', writer'.pc)
                      /\ Partial(s, slots'[i].data, write_sequence')
    BY DEF DataInv
  <2>1. /\ Newest(i, s, write_sequence, writer.pc) /\ Partial(s, slots[i].data, write_sequence)
        /\ s \in Nat /\ Capacity \in Nat
    BY <1>4, RingAssumption DEF IInv, DataInv
  <2>2. s + Capacity # write_sequence + 1
    <3> SUFFICES ASSUME s + Capacity = write_sequence + 1 PROVE FALSE
      OBVIOUS
    <3>1. SlotOf(Writing) = i
      BY <2>1, NextOfSlot DEF Writing, Newest
    <3>2. slots[i].version = 2 * (write_sequence + 1)
      BY <3>1 DEF PublishWrite, IInv, WriterInv, Writing
    <3>3. 2 * s = 2 * (write_sequence + 1)
      BY <1>4, <3>2
    <3> QED
      BY <1>2, <2>1, <3>3, RingAssumption
  <2>3. Newest(i, s, write_sequence', writer'.pc)
    BY <1>2, <1>3, <2>1, <2>2 DEF Newest, SlotOf
  <2>4. Partial(s, slots[i].data, write_sequence')
    BY <1>2, <1>4, <2>1 DEF Partial
  <2> QED
    BY <1>4, <2>3, <2>4
<1>8. ReaderInv'
  <2>1. Unchanged' <=> Unchanged
    BY <1>4 DEF Unchanged, SlotOf
  <2>2. got'.sequence \in 0 .. write_sequence'
    BY <1>2, <1>4 DEF IInv, ReaderInv
  <2>3. reader'.pc # "idle" => reader'.sequence \in 1 .. write_sequence' /\ got'.sequence <= reader'.sequence
    BY <1>2, <1>4 DEF IInv, ReaderInv
  <2>4. \A d \in {reader.first, reader.second} :
          reader.pc # "idle" /\ Partial(reader.sequence, d, write_sequence)
            => Partial(reader'.sequence, d, write_sequence')
    <3>1. Capacity \in Nat /\ reader.sequence \in Nat
      BY <1>1, Fields, RingAssumption
    <3> QED
      BY <1>2, <1>4, <3>1 DEF Partial
  <2> QED
    BY <1>4, <2>1, <2>2, <2>3, <2>4 DEF IInv, ReaderInv, Partial
<1> QED
  BY <1>5, <1>6, <1>7, <1>8 DEF IInv

(* The writer looks how far the reader is.                                 *)
LEMMA LoadReadSequenceStep ==
  ASSUME IInv, LoadReadSequence
  PROVE  IInv'
<1>1. TypeOK
  BY DEF IInv
<1>2. writer' \in WriterType /\ writer'.pc = "drop"
  <2> DEFINE n == read_sequence
             z1 == [writer EXCEPT !.pc = "drop"]
  <2>1. writer \in WriterType /\ n \in 0 .. MaxWrites
    BY <1>1, Fields
  <2>2. writer' = [z1 EXCEPT !.seen = n]
    BY DEF LoadReadSequence
  <2> HIDE DEF n
  <2>3. z1 \in WriterType /\ z1.pc = "drop"
    BY <2>1, SMT DEF WriterType, WriterPC
  <2> HIDE DEF z1
  <2> QED
    BY <2>1, <2>2, <2>3, SMT DEF WriterType
<1>3. /\ slots' = slots /\ write_sequence' = write_sequence
      /\ read_sequence' = read_sequence /\ dropped_frames' = dropped_frames
      /\ reader' = reader /\ got' = got /\ writer.pc = "lag"
  BY DEF LoadReadSequence
<1>4. TypeOK'
  <2>1. /\ slots' \in [Indices -> SlotType]
        /\ write_sequence' \in 0 .. MaxWrites /\ read_sequence' \in 0 .. MaxWrites
        /\ dropped_frames' \in Nat /\ writer' \in WriterType /\ reader' \in ReaderType
        /\ got' \in GotType
    BY <1>1, <1>2, <1>3, Fields
  <2> QED
    BY <2>1 DEF TypeOK, SlotType, WriterType, WriterPC, Copied, ReaderType, ReaderPC, GotType
<1>5. WriterInv'
  BY <1>1, <1>2, <1>3, Fields DEF IInv, WriterInv, Writing, SlotOf
<1>6. DataInv'
  BY <1>1, <1>2, <1>3, Fields DEF IInv, DataInv, Newest, Partial, SlotOf
<1>7. ReaderInv'
  BY <1>1, <1>2, <1>3, Fields DEF IInv, ReaderInv, Unchanged, Partial, SlotOf
<1> QED
  BY <1>4, <1>5, <1>6, <1>7 DEF IInv

(* It counts what the reader has missed.                                   *)
LEMMA CountDroppedStep ==
  ASSUME IInv, CountDropped
  PROVE  IInv'
<1>1. TypeOK
  BY DEF IInv
<1>2. writer' \in WriterType /\ writer'.pc = "idle"
  <2>1. writer \in WriterType /\ "idle" \in WriterPC /\ writer' = [writer EXCEPT !.pc = "idle"]
    BY <1>1, Fields DEF CountDropped, WriterPC
  <2> QED
    BY <2>1, WriterMoved
<1>3. dropped_frames' \in Nat /\ read_sequence' \in 0 .. MaxWrites
  <2>1. /\ write_sequence \in 0 .. MaxWrites /\ read_sequence \in 0 .. MaxWrites
        /\ dropped_frames \in Nat /\ writer.seen \in 0 .. MaxWrites /\ MaxWrites \in Nat
    BY <1>1, Fields
  <2>2. MinimumReadSequence \in 0 .. MaxWrites
    BY <2>1, RingAssumption, SMT DEF MinimumReadSequence
  <2>3. CASE writer.seen < MinimumReadSequence
    <3>1. /\ dropped_frames' = dropped_frames + MinimumReadSequence - writer.seen
          /\ read_sequence' = MinimumReadSequence
      BY <2>3 DEF CountDropped
    <3> QED
      BY <2>1, <2>2, <2>3, <3>1
  <2>4. CASE ~(writer.seen < MinimumReadSequence)
    <3>1. dropped_frames' = dropped_frames /\ read_sequence' = read_sequence
      BY <2>4 DEF CountDropped
    <3> QED
      BY <2>1, <3>1
  <2> QED
    BY <2>3, <2>4
<1>4. /\ slots' = slots /\ write_sequence' = write_sequence
      /\ reader' = reader /\ got' = got /\ writer.pc = "drop"
  BY DEF CountDropped
<1>5. TypeOK'
  <2>1. /\ slots' \in [Indices -> SlotType]
        /\ write_sequence' \in 0 .. MaxWrites /\ read_sequence' \in 0 .. MaxWrites
        /\ dropped_frames' \in Nat /\ writer' \in WriterType /\ reader' \in ReaderType
        /\ got' \in GotType
    BY <1>1, <1>2, <1>3, <1>4, Fields
  <2> QED
    BY <2>1 DEF TypeOK, SlotType, WriterType, WriterPC, Copied, ReaderType, ReaderPC, GotType
<1>6. WriterInv'
  BY <1>1, <1>2, <1>3, <1>4, Fields DEF IInv, WriterInv, Writing, SlotOf
<1>7. DataInv'
  BY <1>1, <1>2, <1>3, <1>4, Fields DEF IInv, DataInv, Newest, Partial, SlotOf
<1>8. ReaderInv'
  BY <1>1, <1>2, <1>3, <1>4, Fields DEF IInv, ReaderInv, Unchanged, Partial, SlotOf
<1> QED
  BY <1>5, <1>6, <1>7, <1>8 DEF IInv

(* The reader looks for the newest frame.                                  *)
LEMMA LoadWriteSequenceStep ==
  ASSUME IInv, LoadWriteSequence
  PROVE  IInv'
<1>1. TypeOK
  BY DEF IInv
<1>2. /\ write_sequence \in 1 .. MaxWrites /\ got.sequence \in 0 .. write_sequence
  BY <1>1, Fields DEF LoadWriteSequence, IInv, ReaderInv
<1>3. /\ reader' \in ReaderType /\ reader'.pc = "before" /\ reader'.sequence = write_sequence
  <2> DEFINE n == write_sequence
             z1 == [reader EXCEPT !.pc = "before"]
  <2>1. reader \in ReaderType /\ n \in 0 .. MaxWrites
    BY <1>1, Fields
  <2>2. reader' = [z1 EXCEPT !.sequence = n]
    BY DEF LoadWriteSequence
  <2> HIDE DEF n
  <2>3. z1 \in ReaderType /\ z1.pc = "before"
    BY <2>1, SMT DEF ReaderType, ReaderPC
  <2> HIDE DEF z1
  <2>4. reader' \in ReaderType /\ reader'.pc = "before" /\ reader'.sequence = n
    BY <2>1, <2>2, <2>3, SMT DEF ReaderType
  <2> QED
    BY <2>4 DEF n
<1>4. /\ slots' = slots /\ write_sequence' = write_sequence
      /\ read_sequence' = read_sequence /\ dropped_frames' = dropped_frames
      /\ writer' = writer /\ got' = got
  BY DEF LoadWriteSequence
<1>5. TypeOK'
  <2>1. /\ slots' \in [Indices -> SlotType]
        /\ write_sequence' \in 0 .. MaxWrites /\ read_sequence' \in 0 .. MaxWrites
        /\ dropped_frames' \in Nat /\ writer' \in WriterType /\ reader' \in ReaderType
        /\ got' \in GotType
    BY <1>1, <1>2, <1>3, <1>4, Fields
  <2> QED
    BY <2>1 DEF TypeOK, SlotType, WriterType, WriterPC, Copied, ReaderType, ReaderPC, GotType
<1>6. WriterInv'
  BY <1>1, <1>2, <1>3, <1>4, Fields DEF IInv, WriterInv, Writing, SlotOf
<1>7. DataInv'
  BY <1>1, <1>2, <1>3, <1>4, Fields DEF IInv, DataInv, Newest, Partial, SlotOf
<1>8. ReaderInv'
  BY <1>1, <1>2, <1>3, <1>4, Fields DEF IInv, ReaderInv, Unchanged, Partial, SlotOf
<1> QED
  BY <1>5, <1>6, <1>7, <1>8 DEF IInv

(* It finds its slot's version acceptable, or gives up.                    *)
LEMMA LoadBeforeStep ==
  ASSUME IInv, LoadBefore
  PROVE  IInv'
<1>1. TypeOK
  BY DEF IInv
<1>2. reader.pc = "before"
  BY DEF LoadBefore
<1>3. /\ reader' \in ReaderType /\ reader'.sequence = reader.sequence
      /\ \/ reader'.pc = "idle"
         \/ reader'.pc = "first" /\ reader'.before = 2 * reader.sequence
  <2> DEFINE n == slots[SlotOf(reader.sequence)].version
  <2>1. reader \in ReaderType /\ n \in 0 .. 2 * MaxWrites
    <3>1. SlotOf(reader.sequence) \in Indices /\ slots \in [Indices -> SlotType]
      BY <1>1, Fields, SlotOfIsIndex
    <3>2. slots[SlotOf(reader.sequence)] \in SlotType
      BY <3>1
    <3> QED
      BY <1>1, <3>2, Fields DEF SlotType
  <2>2. CASE Acceptable(n)
    <3> DEFINE z1 == [reader EXCEPT !.pc = "first"]
    <3>1. reader' = [z1 EXCEPT !.before = n] /\ n = 2 * reader.sequence
      BY <2>2 DEF LoadBefore, Acceptable
    <3> HIDE DEF n
    <3>2. z1 \in ReaderType /\ z1.pc = "first" /\ z1.sequence = reader.sequence
      BY <2>1, SMT DEF ReaderType, ReaderPC
    <3> HIDE DEF z1
    <3>3. reader' = [z1 EXCEPT !.before = n]
      BY <3>1
    <3>4. reader' \in ReaderType /\ reader'.pc = "first" /\ reader'.before = n
          /\ reader'.sequence = reader.sequence
      BY <2>1, <3>2, <3>3, SMT DEF ReaderType
    <3>5. n = 2 * reader.sequence
      BY <3>1
    <3> QED
      BY <3>4, <3>5
  <2>3. CASE ~Acceptable(n)
    <3>1. reader' = [reader EXCEPT !.pc = "idle"] /\ "idle" \in ReaderPC
      BY <2>3 DEF LoadBefore, ReaderPC
    <3>2. reader' \in ReaderType /\ reader'.pc = "idle" /\ reader'.sequence = reader.sequence
      BY <2>1, <3>1, ReaderMoved
    <3> QED
      BY <3>2
  <2> QED
    BY <2>2, <2>3
<1>4. /\ slots' = slots /\ write_sequence' = write_sequence
      /\ read_sequence' = read_sequence /\ dropped_frames' = dropped_frames
      /\ writer' = writer /\ got' = got
  BY DEF LoadBefore
<1>5. TypeOK'
  <2>1. /\ slots' \in [Indices -> SlotType]
        /\ write_sequence' \in 0 .. MaxWrites /\ read_sequence' \in 0 .. MaxWrites
        /\ dropped_frames' \in Nat /\ writer' \in WriterType /\ reader' \in ReaderType
        /\ got' \in GotType
    BY <1>1, <1>2, <1>3, <1>4, Fields
  <2> QED
    BY <2>1 DEF TypeOK, SlotType, WriterType, WriterPC, Copied, ReaderType, ReaderPC, GotType
<1>6. WriterInv'
  BY <1>1, <1>2, <1>3, <1>4, Fields DEF IInv, WriterInv, Writing, SlotOf
<1>7. DataInv'
  BY <1>1, <1>2, <1>3, <1>4, Fields DEF IInv, DataInv, Newest, Partial, SlotOf
<1>8. ReaderInv'
  BY <1>1, <1>2, <1>3, <1>4, Fields DEF IInv, ReaderInv, Unchanged, Partial, SlotOf
<1> QED
  BY <1>5, <1>6, <1>7, <1>8 DEF IInv

(* It copies the first half.                                               *)
LEMMA CopyFirstStep ==
  ASSUME IInv, CopyFirst
  PROVE  IInv'
<1>1. TypeOK
  BY DEF IInv
<1>2. reader.pc = "first" /\ reader.sequence \in 1 .. MaxWrites
  <2>1. reader.pc = "first"
    BY DEF CopyFirst
  <2>2. reader.sequence \in 1 .. write_sequence
    BY <2>1 DEF IInv, ReaderInv
  <2>3. write_sequence \in 0 .. MaxWrites /\ MaxWrites \in Nat
    BY <1>1, Fields
  <2>4. reader.sequence \in 1 .. MaxWrites
    BY <2>2, <2>3
  <2> QED
    BY <2>1, <2>4
<1>3. SlotOf(reader.sequence) \in Indices
  BY <1>2, SlotOfIsIndex
<1>4. /\ reader' \in ReaderType /\ reader'.pc = "second" /\ reader'.sequence = reader.sequence
      /\ reader'.before = reader.before
      /\ reader'.first = slots[SlotOf(reader.sequence)].data
  <2> DEFINE d == slots[SlotOf(reader.sequence)].data
             z1 == [reader EXCEPT !.pc = "second"]
  <2>1. reader \in ReaderType /\ d \in Frame
    <3>1. slots[SlotOf(reader.sequence)] \in SlotType
      BY <1>1, <1>3, Fields
    <3> QED
      BY <1>1, <3>1, Fields DEF SlotType
  <2>2. reader' = [z1 EXCEPT !.first = d]
    BY DEF CopyFirst
  <2> HIDE DEF d
  <2>3. z1 \in ReaderType /\ z1.pc = "second" /\ z1.sequence = reader.sequence
        /\ z1.before = reader.before /\ z1.first = reader.first
    BY <2>1, SMT DEF ReaderType, ReaderPC
  <2> HIDE DEF z1
  <2>4. /\ reader' \in ReaderType /\ reader'.pc = "second" /\ reader'.sequence = z1.sequence
        /\ reader'.before = z1.before /\ reader'.first = d
    BY <2>1, <2>2, <2>3, SMT DEF ReaderType
  <2> QED
    BY <2>3, <2>4 DEF d
<1>5. Unchanged => Partial(reader.sequence, slots[SlotOf(reader.sequence)].data, write_sequence)
  BY <1>2, <1>3 DEF Unchanged, IInv, DataInv
<1>6. /\ slots' = slots /\ write_sequence' = write_sequence
      /\ read_sequence' = read_sequence /\ dropped_frames' = dropped_frames
      /\ writer' = writer /\ got' = got
  BY DEF CopyFirst
<1>7. TypeOK'
  <2>1. /\ slots' \in [Indices -> SlotType]
        /\ write_sequence' \in 0 .. MaxWrites /\ read_sequence' \in 0 .. MaxWrites
        /\ dropped_frames' \in Nat /\ writer' \in WriterType /\ reader' \in ReaderType
        /\ got' \in GotType
    BY <1>1, <1>2, <1>3, <1>4, <1>5, <1>6, Fields
  <2> QED
    BY <2>1 DEF TypeOK, SlotType, WriterType, WriterPC, Copied, ReaderType, ReaderPC, GotType
<1>8. WriterInv'
  BY <1>1, <1>2, <1>3, <1>4, <1>5, <1>6, Fields DEF IInv, WriterInv, Writing, SlotOf
<1>9. DataInv'
  BY <1>1, <1>2, <1>3, <1>4, <1>5, <1>6, Fields DEF IInv, DataInv, Newest, Partial, SlotOf
<1>10. ReaderInv'
  <2>1. Unchanged' <=> Unchanged
    BY <1>4, <1>6 DEF Unchanged, SlotOf
  <2>2. /\ got.sequence \in 0 .. write_sequence /\ reader.sequence \in 1 .. write_sequence
        /\ got.sequence <= reader.sequence /\ reader.before = 2 * reader.sequence
        /\ reader.pc # "idle"
    BY <1>2 DEF IInv, ReaderInv
  <2> QED
    BY <1>4, <1>5, <1>6, <2>1, <2>2 DEF ReaderInv, Partial
<1> QED
  BY <1>7, <1>8, <1>9, <1>10 DEF IInv

(* It copies the second half.                                              *)
LEMMA CopySecondStep ==
  ASSUME IInv, CopySecond
  PROVE  IInv'
<1>1. TypeOK
  BY DEF IInv
<1>2. reader.pc = "second" /\ reader.sequence \in 1 .. MaxWrites
  <2>1. reader.pc = "second"
    BY DEF CopySecond
  <2>2. reader.sequence \in 1 .. write_sequence
    BY <2>1 DEF IInv, ReaderInv
  <2>3. write_sequence \in 0 .. MaxWrites /\ MaxWrites \in Nat
    BY <1>1, Fields
  <2>4. reader.sequence \in 1 .. MaxWrites
    BY <2>2, <2>3
  <2> QED
    BY <2>1, <2>4
<1>3. SlotOf(reader.sequence) \in Indices
  BY <1>2, SlotOfIsIndex
<1>4. /\ reader' \in ReaderType /\ reader'.pc = "after" /\ reader'.sequence = reader.sequence
      /\ reader'.before = reader.before /\ reader'.first = reader.first
      /\ reader'.second = slots[SlotOf(reader.sequence)].data
  <2> DEFINE d == slots[SlotOf(reader.sequence)].data
             z1 == [reader EXCEPT !.pc = "after"]
  <2>1. reader \in ReaderType /\ d \in Frame
    <3>1. slots[SlotOf(reader.sequence)] \in SlotType
      BY <1>1, <1>3, Fields
    <3> QED
      BY <1>1, <3>1, Fields DEF SlotType
  <2>2. reader' = [z1 EXCEPT !.second = d]
    BY DEF CopySecond
  <2> HIDE DEF d
  <2>3. z1 \in ReaderType /\ z1.pc = "after" /\ z1.sequence = reader.sequence
        /\ z1.before = reader.before /\ z1.first = reader.first
    BY <2>1, SMT DEF ReaderType, ReaderPC
  <2> HIDE DEF z1
  <2>4. /\ reader' \in ReaderType /\ reader'.pc = "after" /\ reader'.sequence = z1.sequence
        /\ reader'.before = z1.before /\ reader'.second = d /\ reader'.first = z1.first
    BY <2>1, <2>2, <2>3, SMT DEF ReaderType
  <2> QED
    BY <2>3, <2>4 DEF d
<1>5. Unchanged => Partial(reader.sequence, slots[SlotOf(reader.sequence)].data, write_sequence)
  BY <1>2, <1>3 DEF Unchanged, IInv, DataInv
<1>6. /\ slots' = slots /\ write_sequence' = write_sequence
      /\ read_sequence' = read_sequence /\ dropped_frames' = dropped_frames
      /\ writer' = writer /\ got' = got
  BY DEF CopySecond
<1>7. TypeOK'
  <2>1. /\ slots' \in [Indices -> SlotType]
        /\ write_sequence' \in 0 .. MaxWrites /\ read_sequence' \in 0 .. MaxWrites
        /\ dropped_frames' \in Nat /\ writer' \in WriterType /\ reader' \in ReaderType
        /\ got' \in GotType
    BY <1>1, <1>2, <1>3, <1>4, <1>5, <1>6, Fields
  <2> QED
    BY <2>1 DEF TypeOK, SlotType, WriterType, WriterPC, Copied, ReaderType, ReaderPC, GotType
<1>8. WriterInv'
  BY <1>1, <1>2, <1>3, <1>4, <1>5, <1>6, Fields DEF IInv, WriterInv, Writing, SlotOf
<1>9. DataInv'
  BY <1>1, <1>2, <1>3, <1>4, <1>5, <1>6, Fields DEF IInv, DataInv, Newest, Partial, SlotOf
<1>10. ReaderInv'
  <2>1. Unchanged' <=> Unchanged
    BY <1>4, <1>6 DEF Unchanged, SlotOf
  <2>2. /\ got.sequence \in 0 .. write_sequence /\ reader.sequence \in 1 .. write_sequence
        /\ got.sequence <= reader.sequence /\ reader.before = 2 * reader.sequence
        /\ Unchanged => Partial(reader.sequence, reader.first, write_sequence)
    BY <1>2 DEF IInv, ReaderInv
  <2> QED
    BY <1>4, <1>5, <1>6, <2>1, <2>2 DEF ReaderInv, Partial
<1> QED
  BY <1>7, <1>8, <1>9, <1>10 DEF IInv

(* It accepts its copy if the version is still the same.                   *)
LEMMA LoadAfterStep ==
  ASSUME IInv, LoadAfter
  PROVE  IInv'
<1>1. TypeOK
  BY DEF IInv
<1>2. reader.pc = "after" /\ reader.before = 2 * reader.sequence
  <2>1. reader.pc = "after"
    BY DEF LoadAfter
  <2> QED
    BY <2>1 DEF IInv, ReaderInv
<1>3. /\ reader' \in ReaderType /\ reader'.sequence = reader.sequence
      /\ reader'.first = reader.first /\ reader'.second = reader.second
      /\ \/ reader'.pc = "idle"
         \/ reader'.pc = "done" /\ Unchanged
  <2>1. reader \in ReaderType /\ "idle" \in ReaderPC /\ "done" \in ReaderPC
    BY <1>1, Fields DEF ReaderPC
  <2>2. CASE Unchanged
    <3>1. reader' = [reader EXCEPT !.pc = "done"]
      BY <1>2, <2>2 DEF LoadAfter, Unchanged
    <3>2. /\ reader' \in ReaderType /\ reader'.pc = "done" /\ reader'.sequence = reader.sequence
          /\ reader'.first = reader.first /\ reader'.second = reader.second
      BY <2>1, <3>1, ReaderMoved
    <3> QED
      BY <2>2, <3>2
  <2>3. CASE ~Unchanged
    <3>1. reader' = [reader EXCEPT !.pc = "idle"]
      BY <1>2, <2>3 DEF LoadAfter, Unchanged
    <3>2. /\ reader' \in ReaderType /\ reader'.pc = "idle" /\ reader'.sequence = reader.sequence
          /\ reader'.first = reader.first /\ reader'.second = reader.second
      BY <2>1, <3>1, ReaderMoved
    <3> QED
      BY <3>2
  <2> QED
    BY <2>2, <2>3
<1>4. /\ slots' = slots /\ write_sequence' = write_sequence
      /\ read_sequence' = read_sequence /\ dropped_frames' = dropped_frames
      /\ writer' = writer /\ got' = got
  BY DEF LoadAfter
<1>5. TypeOK'
  <2>1. /\ slots' \in [Indices -> SlotType]
        /\ write_sequence' \in 0 .. MaxWrites /\ read_sequence' \in 0 .. MaxWrites
        /\ dropped_frames' \in Nat /\ writer' \in WriterType /\ reader' \in ReaderType
        /\ got' \in GotType
    BY <1>1, <1>2, <1>3, <1>4, Fields
  <2> QED
    BY <2>1 DEF TypeOK, SlotType, WriterType, WriterPC, Copied, ReaderType, ReaderPC, GotType
<1>6. WriterInv'
  BY <1>1, <1>2, <1>3, <1>4, Fields DEF IInv, WriterInv, Writing, SlotOf
<1>7. DataInv'
  BY <1>1, <1>2, <1>3, <1>4, Fields DEF IInv, DataInv, Newest, Partial, SlotOf
<1>8. ReaderInv'
  <2>1. /\ got.sequence \in 0 .. write_sequence /\ reader.sequence \in 1 .. write_sequence
        /\ got.sequence <= reader.sequence
        /\ Unchanged => /\ Partial(reader.sequence, reader.first, write_sequence)
                        /\ Partial(reader.sequence, reader.second, write_sequence)
    BY <1>2 DEF IInv, ReaderInv
  <2> QED
    BY <1>3, <1>4, <2>1 DEF ReaderInv, Partial
<1> QED
  BY <1>5, <1>6, <1>7, <1>8 DEF IInv

(* It returns the frame.                                                   *)
LEMMA ReturnFrameStep ==
  ASSUME IInv, ReturnFrame
  PROVE  IInv'
<1>1. TypeOK
  BY DEF IInv
<1>2. /\ reader.pc = "done" /\ reader.sequence \in 1 .. write_sequence
      /\ reader.sequence \in 0 .. MaxWrites
  <2>1. reader.pc = "done"
    BY DEF ReturnFrame
  <2> QED
    BY <1>1, <2>1, Fields DEF IInv, ReaderInv
<1>3. got'.sequence = reader.sequence /\ got' \in GotType /\ read_sequence' \in 0 .. MaxWrites
  <2> DEFINE d == IF reader.first = reader.second THEN reader.first ELSE Torn
  <2>1. got' = [sequence |-> reader.sequence, data |-> d] /\ read_sequence' = reader.sequence
    BY <1>2 DEF ReturnFrame
  <2>2. d \in Frame
    BY <1>1, Fields, RingAssumption DEF Frame, Torn
  <2> HIDE DEF d
  <2> QED
    BY <1>2, <2>1, <2>2 DEF GotType
<1>4. reader' \in ReaderType /\ reader'.pc = "idle"
  <2>1. reader \in ReaderType /\ "idle" \in ReaderPC /\ reader' = [reader EXCEPT !.pc = "idle"]
    BY <1>1, Fields DEF ReturnFrame, ReaderPC
  <2> QED
    BY <2>1, ReaderMoved
<1>5. /\ slots' = slots /\ write_sequence' = write_sequence
      /\ dropped_frames' = dropped_frames /\ writer' = writer
  BY DEF ReturnFrame
<1>6. TypeOK'
  <2>1. /\ slots' \in [Indices -> SlotType]
        /\ write_sequence' \in 0 .. MaxWrites /\ read_sequence' \in 0 .. MaxWrites
        /\ dropped_frames' \in Nat /\ writer' \in WriterType /\ reader' \in ReaderType
        /\ got' \in GotType
    BY <1>1, <1>2, <1>3, <1>4, <1>5, Fields
  <2> QED
    BY <2>1 DEF TypeOK, SlotType, WriterType, WriterPC, Copied, ReaderType, ReaderPC, GotType
<1>7. WriterInv'
  BY <1>1, <1>2, <1>3, <1>4, <1>5, Fields DEF IInv, WriterInv, Writing, SlotOf
<1>8. DataInv'
  BY <1>1, <1>2, <1>3, <1>4, <1>5, Fields DEF IInv, DataInv, Newest, Partial, SlotOf
<1>9. ReaderInv'
  BY <1>1, <1>2, <1>3, <1>4, <1>5, Fields DEF IInv, ReaderInv, Unchanged, Partial, SlotOf
<1> QED
  BY <1>6, <1>7, <1>8, <1>9 DEF IInv

-----------------------------------------------------------------------------
(* It holds in the beginning, and every step keeps it.                     *)
LEMMA InitIInv == Init => IInv
<1> SUFFICES ASSUME Init PROVE IInv
  OBVIOUS
<1>1. /\ slots = [i \in Indices |-> [version |-> 0, data |-> Torn]]
      /\ write_sequence = 0 /\ read_sequence = 0 /\ dropped_frames = 0
      /\ got = [sequence |-> 0, data |-> 0]
      /\ writer = [pc |-> "idle", marked |-> FALSE, copied |-> "no", seen |-> 0]
      /\ reader = [pc |-> "idle", sequence |-> 0, before |-> 0, first |-> Torn, second |-> Torn]
  BY DEF Init
<1>2. /\ 0 \in 0 .. MaxWrites /\ 0 \in 0 .. 2 * MaxWrites /\ 0 \in Frame /\ Torn \in Frame
  BY RingAssumption, SMT DEF Frame, Torn
<1>3. writer \in WriterType /\ reader \in ReaderType
  BY <1>1, <1>2 DEF WriterType, WriterPC, Copied, ReaderType, ReaderPC, GotType
<1>4. slots \in [Indices -> SlotType]
  BY <1>1, <1>2 DEF SlotType
<1>5. TypeOK
  <2>1. got \in GotType
    BY <1>1, <1>2 DEF GotType
  <2> QED
    BY <1>1, <1>2, <1>3, <1>4, <2>1, FoldedTypes
<1>6. writer.pc = "idle" /\ reader.pc = "idle"
  BY <1>1
<1>7. WriterInv /\ ReaderInv
  BY <1>1, <1>6 DEF WriterInv, ReaderInv
<1>8. DataInv
  <2> SUFFICES ASSUME NEW i \in Indices, NEW s \in 1 .. MaxWrites, slots[i].version = 2 * s
               PROVE  FALSE
    BY DEF DataInv
  <2>1. slots[i].version = 0
    BY <1>1
  <2> QED
    BY <2>1, RingAssumption, SMT
<1> QED
  BY <1>5, <1>7, <1>8 DEF IInv

(* What changes nothing keeps it.                                          *)
LEMMA StutterIInv ==
  ASSUME IInv, UNCHANGED vars
  PROVE  IInv'
<1>1. /\ slots' = slots /\ write_sequence' = write_sequence /\ read_sequence' = read_sequence
      /\ dropped_frames' = dropped_frames /\ writer' = writer /\ reader' = reader /\ got' = got
  BY DEF vars
<1>2. TypeOK' /\ DataInv'
  BY <1>1 DEF IInv, TypeOK, DataInv, Newest, Partial, SlotOf
<1>3. WriterInv' /\ ReaderInv'
  BY <1>1 DEF IInv, WriterInv, ReaderInv, Writing, SlotOf, Unchanged, Partial
<1> QED
  BY <1>2, <1>3 DEF IInv

(* Every step keeps it.                                                    *)
LEMMA NextIInv == IInv /\ [Next]_vars => IInv'
<1> SUFFICES ASSUME IInv, [Next]_vars PROVE IInv'
  OBVIOUS
<1>1. CASE Writer
  <2>1. CASE BeginWrite
    BY <2>1, BeginWriteStep
  <2>2. CASE MarkOdd
    BY <2>2, MarkOddStep
  <2>3. CASE BeginCopy
    BY <2>3, BeginCopyStep
  <2>4. CASE EndCopy
    BY <2>4, EndCopyStep
  <2>5. CASE MarkEven
    BY <2>5, MarkEvenStep
  <2>6. CASE PublishWrite
    BY <2>6, PublishWriteStep
  <2>7. CASE LoadReadSequence
    BY <2>7, LoadReadSequenceStep
  <2>8. CASE CountDropped
    BY <2>8, CountDroppedStep
  <2> QED
    BY <1>1, <2>1, <2>2, <2>3, <2>4, <2>5, <2>6, <2>7, <2>8 DEF Writer
<1>2. CASE Reader
  <2>1. CASE LoadWriteSequence
    BY <2>1, LoadWriteSequenceStep
  <2>2. CASE LoadBefore
    BY <2>2, LoadBeforeStep
  <2>3. CASE CopyFirst
    BY <2>3, CopyFirstStep
  <2>4. CASE CopySecond
    BY <2>4, CopySecondStep
  <2>5. CASE LoadAfter
    BY <2>5, LoadAfterStep
  <2>6. CASE ReturnFrame
    BY <2>6, ReturnFrameStep
  <2> QED
    BY <1>2, <2>1, <2>2, <2>3, <2>4, <2>5, <2>6 DEF Reader
<1>3. CASE UNCHANGED vars
  BY <1>3, StutterIInv
<1> QED
  BY <1>1, <1>2, <1>3 DEF Next

(* The inductive invariant holds in every reachable state.                 *)
THEOREM Inductive == Spec => []IInv
  BY InitIInv, NextIInv, PTL DEF Spec

(* The state keeps its shape.                                              *)
THEOREM TypeCorrect == Spec => []TypeOK
<1>1. IInv => TypeOK
  BY DEF IInv
<1> QED
  BY <1>1, Inductive, PTL

(* What the reader is about to return is the frame whose number it stores  *)
(* as read, or partly the next frame of that slot, and never anything of a *)
(* later one, or of another slot's, however early the stores of a copy     *)
(* become visible.                                                         *)
THEOREM WholeOrLapped == Spec => []WholeUnlessLapped
<1>1. IInv => WholeUnlessLapped
  BY DEF IInv, ReaderInv, WholeUnlessLapped, Partial
<1> QED
  BY <1>1, Inductive, PTL

-----------------------------------------------------------------------------
(* Counting.  The reader may put read_sequence back, but only to a frame   *)
(* it is after, and that is newer than what was counted when it loaded its *)
(* number: what has been counted never exceeds what either side may still  *)
(* count from.                                                             *)

CountingInv ==
  /\ dropped_frames <= 2 * MinimumReadSequence
  /\ dropped_frames <= MinimumReadSequence + read_sequence
  /\ writer.pc = "drop" => dropped_frames <= MinimumReadSequence + writer.seen
  /\ reader.pc # "idle" =>
       /\ dropped_frames <= reader.sequence + MinimumReadSequence
       /\ dropped_frames <= reader.sequence + read_sequence
       /\ writer.pc = "drop" => dropped_frames <= reader.sequence + writer.seen

(* The least frame that is not given up is one of those written.           *)
LEMMA MinimumIsWritten ==
  ASSUME TypeOK
  PROVE  MinimumReadSequence \in 0 .. write_sequence /\ MinimumReadSequence \in Nat
<1>1. write_sequence \in Nat /\ Capacity \in Nat
  BY Fields, RingAssumption
<1> QED
  BY <1>1 DEF MinimumReadSequence

(* Every step keeps the count within its bounds.                           *)
LEMMA CountingNext ==
  ASSUME IInv, IInv', CountingInv, [Next]_vars
  PROVE  CountingInv'
<1> DEFINE m == MinimumReadSequence
<1>1. /\ TypeOK /\ TypeOK' /\ m \in Nat /\ m \in 0 .. write_sequence /\ write_sequence \in Nat
      /\ read_sequence \in Nat /\ dropped_frames \in Nat /\ writer.seen \in Nat
      /\ reader.sequence \in Nat /\ writer \in WriterType /\ reader \in ReaderType
  BY Fields, MinimumIsWritten DEF IInv
<1>2. /\ dropped_frames <= 2 * m /\ dropped_frames <= m + read_sequence
      /\ writer.pc = "drop" => dropped_frames <= m + writer.seen
      /\ reader.pc # "idle" =>
           /\ dropped_frames <= reader.sequence + m
           /\ dropped_frames <= reader.sequence + read_sequence
           /\ writer.pc = "drop" => dropped_frames <= reader.sequence + writer.seen
  BY DEF CountingInv
<1>3. CASE PublishWrite
  <2>1. /\ write_sequence' = write_sequence + 1 /\ read_sequence' = read_sequence
        /\ dropped_frames' = dropped_frames /\ reader' = reader
        /\ writer' = [writer EXCEPT !.pc = "lag"]
    BY <1>3 DEF PublishWrite, Writing
  <2>2. writer'.pc = "lag"
    BY <1>1, <2>1 DEF WriterType
  <2>3. m' >= m /\ m' \in Nat
    <3>1. Capacity \in Nat
      BY RingAssumption
    <3> QED
      BY <1>1, <2>1, <3>1 DEF MinimumReadSequence
  <2> HIDE DEF m
  <2>4. /\ dropped_frames' <= 2 * m' /\ dropped_frames' <= m' + read_sequence'
        /\ reader'.pc # "idle" => /\ dropped_frames' <= reader'.sequence + m'
                                  /\ dropped_frames' <= reader'.sequence + read_sequence'
    BY <1>1, <1>2, <2>1, <2>3
  <2> QED
    BY <2>2, <2>4 DEF CountingInv, m, MinimumReadSequence
<1>4. CASE LoadReadSequence
  <2>1. /\ write_sequence' = write_sequence /\ read_sequence' = read_sequence
        /\ dropped_frames' = dropped_frames /\ reader' = reader
        /\ writer' = [writer EXCEPT !.pc = "drop", !.seen = read_sequence]
    BY <1>4 DEF LoadReadSequence
  <2>2. writer'.seen = read_sequence
    BY <1>1, <2>1 DEF WriterType
  <2> QED
    BY <1>1, <1>2, <2>1, <2>2 DEF CountingInv, MinimumReadSequence
<1>5. CASE CountDropped
  <2>1. /\ write_sequence' = write_sequence /\ reader' = reader /\ writer.pc = "drop"
        /\ writer' = [writer EXCEPT !.pc = "idle"]
        /\ \/ /\ writer.seen < m /\ dropped_frames' = dropped_frames + m - writer.seen
              /\ read_sequence' = m
           \/ dropped_frames' = dropped_frames /\ read_sequence' = read_sequence
    BY <1>5 DEF CountDropped
  <2>2. writer'.pc = "idle" /\ m' = m
    BY <1>1, <2>1 DEF WriterType, MinimumReadSequence
  <2> HIDE DEF m
  <2>3. /\ dropped_frames' <= 2 * m /\ dropped_frames' <= m + read_sequence'
        /\ reader.pc # "idle" => /\ dropped_frames' <= reader.sequence + m
                                 /\ dropped_frames' <= reader.sequence + read_sequence'
    BY <1>1, <1>2, <2>1
  <2> QED
    BY <2>1, <2>2, <2>3 DEF CountingInv, m, MinimumReadSequence
<1>6. CASE LoadWriteSequence
  <2>1. /\ write_sequence' = write_sequence /\ read_sequence' = read_sequence
        /\ dropped_frames' = dropped_frames /\ writer' = writer
        /\ reader' = [reader EXCEPT !.pc = "before", !.sequence = write_sequence]
    BY <1>6 DEF LoadWriteSequence
  <2>2. reader'.sequence = write_sequence /\ m' = m
    BY <1>1, <2>1 DEF ReaderType, MinimumReadSequence
  <2> HIDE DEF m
  <2>3. /\ dropped_frames <= write_sequence + m /\ dropped_frames <= write_sequence + read_sequence
        /\ writer.pc = "drop" => dropped_frames <= write_sequence + writer.seen
    BY <1>1, <1>2
  <2> QED
    BY <1>2, <2>1, <2>2, <2>3 DEF CountingInv, m, MinimumReadSequence
<1>7. CASE ReturnFrame
  <2>1. /\ write_sequence' = write_sequence /\ read_sequence' = reader.sequence
        /\ dropped_frames' = dropped_frames /\ writer' = writer
        /\ reader' = [reader EXCEPT !.pc = "idle"] /\ reader.pc = "done"
    BY <1>7 DEF ReturnFrame
  <2>2. reader'.pc = "idle" /\ m' = m
    BY <1>1, <2>1 DEF ReaderType, MinimumReadSequence
  <2>3. dropped_frames <= m + reader.sequence
    BY <1>1, <1>2, <2>1
  <2> QED
    BY <1>2, <2>1, <2>2, <2>3 DEF CountingInv, MinimumReadSequence
<1>8. CASE LoadBefore \/ CopyFirst \/ CopySecond \/ LoadAfter
  <2>1. /\ write_sequence' = write_sequence /\ read_sequence' = read_sequence
        /\ dropped_frames' = dropped_frames /\ writer' = writer /\ reader.pc # "idle"
    BY <1>8 DEF LoadBefore, CopyFirst, CopySecond, LoadAfter
  <2>2. reader'.sequence = reader.sequence
    BY <1>1, <1>8 DEF LoadBefore, CopyFirst, CopySecond, LoadAfter, ReaderType
  <2> QED
    BY <1>2, <2>1, <2>2 DEF CountingInv, MinimumReadSequence
<1>9. CASE BeginWrite \/ MarkOdd \/ BeginCopy \/ EndCopy \/ MarkEven
  <2>1. /\ write_sequence' = write_sequence /\ read_sequence' = read_sequence
        /\ dropped_frames' = dropped_frames /\ reader' = reader
    BY <1>9 DEF BeginWrite, MarkOdd, BeginCopy, EndCopy, MarkEven
  <2>2. writer'.pc # "drop"
    BY <1>1, <1>9 DEF BeginWrite, MarkOdd, BeginCopy, EndCopy, MarkEven, WriterType
  <2> QED
    BY <1>2, <2>1, <2>2 DEF CountingInv, MinimumReadSequence
<1>10. CASE UNCHANGED vars
  BY <1>2, <1>10 DEF vars, CountingInv, MinimumReadSequence
<1> QED
  BY <1>3, <1>4, <1>5, <1>6, <1>7, <1>8, <1>9, <1>10 DEF Next, Writer, Reader

(* No frame is counted as dropped more than twice, though both sides store *)
(* the number the count is taken from.                                     *)
THEOREM CountedAtMostTwice == Spec => []CountedTwiceAtMost
<1>1. Init => CountingInv
  <2> SUFFICES ASSUME Init PROVE CountingInv
    OBVIOUS
  <2>1. IInv
    BY InitIInv
  <2>2. MinimumReadSequence \in Nat
    BY <2>1, MinimumIsWritten DEF IInv
  <2>3. /\ dropped_frames = 0 /\ read_sequence = 0 /\ writer.pc = "idle" /\ reader.pc = "idle"
    BY DEF Init
  <2> QED
    BY <2>2, <2>3 DEF CountingInv
<1>2. IInv /\ IInv' /\ CountingInv /\ [Next]_vars => CountingInv'
  BY CountingNext
<1>3. CountingInv => CountedTwiceAtMost
  BY DEF CountingInv, CountedTwiceAtMost
<1> QED
  BY <1>1, <1>2, <1>3, Inductive, PTL DEF Spec

-----------------------------------------------------------------------------
(* Publishing offers, returning takes or repeats, and the rest stutters.   *)
LEMMA StepIsAMailboxStep ==
  ASSUME IInv, [Next]_vars
  PROVE  [Box!Next]_(Box!vars)
<1>1. /\ got.sequence \in 0 .. write_sequence /\ write_sequence \in Nat
  BY Fields DEF IInv, ReaderInv
<1>2. CASE PublishWrite
  <2>1. write_sequence' = write_sequence + 1 /\ got' = got
    BY <1>2 DEF PublishWrite, Writing
  <2>2. write_sequence' \in Nat /\ write_sequence' > write_sequence
    BY <1>1, <2>1, SMT
  <2> QED
    BY <2>1, <2>2 DEF Box!Next, Box!Offer, Box!vars
<1>3. CASE ReturnFrame
  <2>1. /\ reader.sequence \in 1 .. write_sequence /\ got.sequence <= reader.sequence
    BY <1>3 DEF ReturnFrame, IInv, ReaderInv
  <2>2. got'.sequence = reader.sequence /\ write_sequence' = write_sequence
    BY <1>3, <2>1 DEF ReturnFrame
  <2>3. CASE got'.sequence = got.sequence
    BY <2>2, <2>3 DEF Box!vars
  <2>4. CASE got'.sequence # got.sequence
    <3>1. got'.sequence \in got.sequence + 1 .. write_sequence
      BY <1>1, <2>1, <2>2, <2>4
    <3> QED
      BY <2>2, <3>1 DEF Box!Next, Box!Take, Box!vars
  <2> QED
    BY <2>3, <2>4
<1>4. CASE ~PublishWrite /\ ~ReturnFrame
  <2>1. write_sequence' = write_sequence /\ got' = got
    BY <1>4 DEF Next, Writer, Reader, BeginWrite, MarkOdd, BeginCopy, EndCopy, MarkEven,
       LoadReadSequence, CountDropped, LoadWriteSequence, LoadBefore, CopyFirst, CopySecond,
       LoadAfter, vars
  <2> QED
    BY <2>1 DEF Box!vars
<1> QED
  BY <1>2, <1>3, <1>4

(* The ring implements a mailbox: what the reader gets has been published, *)
(* and is never older than what it got before.                             *)
THEOREM ImplementsMailbox == Spec => HandsOverLatest
<1>1. Init => Box!Init
  BY DEF Init, Box!Init
<1> QED
  BY <1>1, Inductive, StepIsAMailboxStep, PTL DEF Spec, HandsOverLatest, Box!Spec

-----------------------------------------------------------------------------
(* What the reader may rely on.                                            *)
THEOREM Safe == Spec => []RingIsSafe
<1>1. TypeOK /\ WholeUnlessLapped => RingIsSafe
  BY DEF RingIsSafe
<1> QED
  BY <1>1, TypeCorrect, WholeOrLapped, PTL

-----------------------------------------------------------------------------
(* ClockSync.  Every sample says of the offset what is off by at most half *)
(* the difference of its delays, and an update moves the estimate an       *)
(* eighth of the way there: it stays in the range of what samples say.     *)

ClockSample == [offset : Int, delay : Int, jitter : Int, drift : Int, count : Int]
Given == [even : BOOLEAN, old : BOOLEAN]

ClockInv ==
  /\ theta \in Int /\ sync \in ClockSample
  /\ Clock!TypeOK /\ Clock!WithinTheSamples

(* A set of numbers has a least one.                                       *)
LEMMA LeastExists ==
  ASSUME NEW S, S \subseteq Nat, S # {}
  PROVE  \E d \in S : \A o \in S : o >= d
<1> DEFINE R == {e \in Nat \X Nat : e[1] < e[2]}
<1>1. R = OpToRel(<, Nat)
  BY DEF OpToRel
<1>2. IsWellFoundedOn(R, Nat)
  BY <1>1, NatLessThanWellFounded
<1>3. PICK x \in S : \A y \in S : << y, x >> \notin R
  <2> HIDE DEF R
  <2> QED
    BY <1>2, WFMin, Zenon
<1>4. \A y \in S : y >= x
  <2> TAKE y \in S
  <2>1. x \in Nat /\ y \in Nat /\ << y, x >> \notin R
    BY <1>3
  <2> QED
    BY <2>1
<1> QED
  BY <1>3, <1>4

(* What the assumption says of the clock's constants.                      *)
LEMMA ClockConstants ==
  /\ Ahead \subseteq Nat /\ Behind \subseteq Nat /\ Delays \subseteq Nat
  /\ Newer \subseteq Nat /\ Older \subseteq Nat \ {0} /\ Times \subseteq Nat
  /\ Scale \in Nat /\ DriftMax \in Nat /\ Modulus \in Nat \ {0}
  /\ \A e \in Older : 2 * e <= Modulus
<1>1. Clock!ClockAssumption
  BY PartsAssumption
<1> QED
  BY <1>1 DEF Clock!ClockAssumption

(* The least and the greatest delay are.                                   *)
LEMMA DelayRange ==
  /\ Clock!MinDelay \in Nat /\ Clock!MaxDelay \in Nat /\ Clock!MinDelay <= Clock!MaxDelay
  /\ \A d \in Delays : d \in Nat /\ Clock!MinDelay <= d /\ d <= Clock!MaxDelay
<1>1. /\ Delays \subseteq Nat /\ Delays # {} /\ \E d \in Delays : \A o \in Delays : o <= d
  BY PartsAssumption DEF Clock!ClockAssumption
<1>2. Clock!MaxDelay \in Delays /\ \A o \in Delays : o <= Clock!MaxDelay
  BY <1>1 DEF Clock!MaxDelay
<1>3. \E d \in Delays : \A o \in Delays : o >= d
  BY <1>1, LeastExists
<1>4. Clock!MinDelay \in Delays /\ \A o \in Delays : o >= Clock!MinDelay
  BY <1>3 DEF Clock!MinDelay
<1>5. Clock!MinDelay \in Nat /\ Clock!MaxDelay \in Nat
  BY <1>1, <1>2, <1>4
<1>6. \A d \in Delays : d \in Nat /\ Clock!MinDelay <= d /\ d <= Clock!MaxDelay
  BY <1>1, <1>2, <1>4, <1>5
<1>7. Clock!MinDelay <= Clock!MaxDelay
  BY <1>2, <1>6
<1> QED
  BY <1>5, <1>6, <1>7

(* Division that rounds towards zero, by 2.                                *)
LEMMA HalfIsNear ==
  ASSUME NEW a \in Int
  PROVE  Clock!Quotient(a, 2) \in Int /\ 2 * Clock!Quotient(a, 2) \in a - 1 .. a + 1
  BY SMT DEF Clock!Quotient

(* Division that rounds towards zero, by 8.                                *)
LEMMA EighthIsBetween ==
  ASSUME NEW a \in Int
  PROVE  /\ Clock!Quotient(a, 8) \in Int
         /\ a >= 0 => 0 <= 8 * Clock!Quotient(a, 8) /\ 8 * Clock!Quotient(a, 8) <= a
         /\ a <= 0 => a <= 8 * Clock!Quotient(a, 8) /\ 8 * Clock!Quotient(a, 8) <= 0
  BY SMT DEF Clock!Quotient

(* How far from the truth a sample can be.                                 *)
LEMMA TargetIsNear ==
  ASSUME theta \in Int, NEW there \in Delays, NEW back \in Delays
  PROVE  /\ Clock!Asymmetry \in Nat /\ Clock!Target(there, back) \in Int
         /\ Clock!Target(there, back) + theta \in -Clock!Asymmetry .. Clock!Asymmetry
         /\ Clock!Delay(there, back) \in Clock!MinDelay .. Clock!MaxDelay
<1> DEFINE n == Clock!MinDelay
           m == Clock!MaxDelay
           a == (theta + there) + (theta - back)
<1>1. /\ n \in Nat /\ m \in Nat /\ n <= m /\ there \in Nat /\ back \in Nat
      /\ n <= there /\ there <= m /\ n <= back /\ back <= m
  BY DelayRange
<1>2. Clock!Asymmetry = (m - n + 1) \div 2
  BY DEF Clock!Asymmetry
<1>3. a \in Int /\ a = 2 * theta + there - back
  BY <1>1, SMT
<1>4. /\ Clock!Target(there, back) = -Clock!Quotient(a, 2)
      /\ Clock!Delay(there, back) = (there + back) \div 2
  BY DEF Clock!Target, Clock!Delay
<1> HIDE DEF n, m, a
<1>5. Clock!Quotient(a, 2) \in Int /\ 2 * Clock!Quotient(a, 2) \in a - 1 .. a + 1
  BY <1>3, HalfIsNear
<1>6. Clock!Asymmetry \in Nat
  BY <1>1, <1>2, SMT
<1>7. -Clock!Quotient(a, 2) + theta \in -Clock!Asymmetry .. Clock!Asymmetry
  BY <1>1, <1>2, <1>3, <1>5, SMT
<1>8. (there + back) \div 2 \in n .. m
  BY <1>1, SMT
<1> QED
  BY <1>4, <1>5, <1>6, <1>7, <1>8 DEF n, m

(* What is cut off stays below the bounds.                                 *)
LEMMA ClampIsBetween ==
  ASSUME NEW x \in Int, NEW b \in Nat
  PROVE  Clock!Clamp(x, -b, b) \in -b .. b
  BY SMT DEF Clock!Clamp

(* Whatever the elapsed time, the drift is within its bounds.              *)
LEMMA DriftIsBounded ==
  ASSUME ClockInv, NEW offset \in Int, NEW elapsed \in Int
  PROVE  Clock!Drift(offset, elapsed) \in -DriftMax .. DriftMax
<1> DEFINE u == elapsed % Modulus
           x == Clock!Abs(offset - sync.offset) * Scale
           size == (x % Modulus) \div u
           sample == IF offset < sync.offset THEN -size ELSE size
           z == sync.drift * 7 + sample
<1>1. Modulus \in Nat \ {0} /\ Scale \in Nat /\ DriftMax \in Nat
  BY ClockConstants
<1>2. /\ sync.offset \in Int /\ sync.drift \in -DriftMax .. DriftMax
  BY DEF ClockInv, ClockSample, Clock!TypeOK
<1>3. u \in Nat
  BY <1>1, SMT
<1>4. x \in Int
  <2>1. Clock!Abs(offset - sync.offset) \in Int
    BY <1>2, SMT DEF Clock!Abs
  <2> QED
    BY <1>1, <2>1
<1>5. Clock!Drift(offset, elapsed) =
        IF u = 0 THEN sync.drift ELSE Clock!Clamp(Clock!Quotient(z, 8), -DriftMax, DriftMax)
  BY DEF Clock!Drift
<1>6. CASE u = 0
  BY <1>2, <1>5, <1>6
<1>7. CASE u # 0
  <2> HIDE DEF x, u
  <2>1. x % Modulus \in Nat
    BY <1>1, <1>4, SMT
  <2>2. size \in Int
    BY <1>3, <1>7, <2>1, SMT
  <2> HIDE DEF size
  <2>3. sample \in Int
    BY <2>2
  <2> HIDE DEF sample
  <2>4. z \in Int
    BY <1>1, <1>2, <2>3, SMT
  <2> HIDE DEF z
  <2>5. Clock!Quotient(z, 8) \in Int
    BY <2>4, EighthIsBetween
  <2> QED
    BY <1>1, <1>5, <1>7, <2>5, ClampIsBetween
<1> QED
  BY <1>6, <1>7

(* A first sample.                                                         *)
LEMMA FirstSampleStep ==
  ASSUME ClockInv, NEW there \in Delays, NEW back \in Delays,
         Clock!FirstSample(there, back), theta' = theta
  PROVE  ClockInv'
<1> DEFINE t == Clock!Target(there, back)
           d == Clock!Delay(there, back)
           A == Clock!Asymmetry
<1>1. theta \in Int /\ DriftMax \in Nat
  BY ClockConstants DEF ClockInv
<1>2. /\ A \in Nat /\ t \in Int /\ t + theta \in -A .. A
      /\ d \in Clock!MinDelay .. Clock!MaxDelay
      /\ Clock!MinDelay \in Nat /\ Clock!MaxDelay \in Nat
  BY <1>1, TargetIsNear, DelayRange
<1>3. sync' = [offset |-> t, delay |-> d, jitter |-> 0, drift |-> 0, count |-> 1]
  BY DEF Clock!FirstSample
<1> HIDE DEF t, d, A
<1>4. /\ sync'.offset = t /\ sync'.delay = d /\ sync'.jitter = 0 /\ sync'.drift = 0
      /\ sync'.count = 1 /\ sync' \in ClockSample
  BY <1>2, <1>3 DEF ClockSample
<1>5. sync'.jitter \in 0 .. 2 * A + 1 /\ sync'.drift \in -DriftMax .. DriftMax
  BY <1>1, <1>2, <1>4
<1>6. Clock!Abs(t + theta) <= A
  BY <1>1, <1>2, SMT DEF Clock!Abs
<1>7. Clock!TypeOK'
  BY <1>4, <1>5 DEF Clock!TypeOK, A, Clock!Asymmetry, Clock!MinDelay, Clock!MaxDelay
<1>8. Clock!WithinTheSamples'
  BY <1>2, <1>4, <1>6 DEF Clock!WithinTheSamples, A, Clock!Asymmetry, Clock!MinDelay,
     Clock!MaxDelay, Clock!Abs
<1> QED
  BY <1>1, <1>4, <1>7, <1>8 DEF ClockInv

(* A step of an eighth towards a target leaves the range of neither.       *)
LEMMA SmoothedIsBetween ==
  ASSUME ClockInv, sync.count > 0, NEW there \in Delays, NEW back \in Delays
  PROVE  /\ Clock!Smoothed(there, back) \in Int
         /\ Clock!Smoothed(there, back) + theta \in -Clock!Asymmetry .. Clock!Asymmetry
         /\ Clock!Abs(Clock!Target(there, back) - sync.offset) \in 0 .. 2 * Clock!Asymmetry
         /\ 8 * (Clock!Smoothed(there, back) - sync.offset) \in
              -(2 * Clock!Asymmetry) .. 2 * Clock!Asymmetry
<1> DEFINE t == Clock!Target(there, back)
           A == Clock!Asymmetry
           q == Clock!Quotient(t - sync.offset, 8)
<1>1. theta \in Int /\ sync.offset \in Int
  BY DEF ClockInv, ClockSample
<1>2. A \in Nat /\ t \in Int /\ t + theta \in -A .. A
  BY <1>1, TargetIsNear
<1>3. Clock!Abs(sync.offset + theta) <= A
  BY DEF ClockInv, Clock!WithinTheSamples, Clock!Locked
<1>4. sync.offset + theta \in -A .. A
  <2> HIDE DEF A
  <2> QED
    BY <1>1, <1>2, <1>3, SMT DEF Clock!Abs
<1>5. /\ q \in Int
      /\ t - sync.offset >= 0 => 0 <= 8 * q /\ 8 * q <= t - sync.offset
      /\ t - sync.offset <= 0 => t - sync.offset <= 8 * q /\ 8 * q <= 0
  <2> HIDE DEF t
  <2>1. t - sync.offset \in Int
    BY <1>1, <1>2
  <2> QED
    BY <2>1, EighthIsBetween
<1>6. Clock!Smoothed(there, back) = sync.offset + q
  BY DEF Clock!Smoothed
<1> HIDE DEF t, A, q
<1>7. sync.offset + q \in Int /\ sync.offset + q + theta \in -A .. A
  BY <1>1, <1>2, <1>4, <1>5, SMT
<1>8. Clock!Abs(t - sync.offset) \in 0 .. 2 * A
  BY <1>1, <1>2, <1>4, SMT DEF Clock!Abs
<1>9. 8 * ((sync.offset + q) - sync.offset) \in -(2 * A) .. 2 * A
  BY <1>1, <1>2, <1>4, <1>5, SMT
<1> QED
  BY <1>6, <1>7, <1>8, <1>9 DEF t, A

(* A smoothed value lies between the old and the new one.                  *)
LEMMA EwmaIsBetween ==
  ASSUME NEW low \in Int, NEW high \in Int, NEW old \in Int, NEW new \in Int,
         old \in low .. high, new \in low .. high
  PROVE  Clock!Ewma(old, new) \in low .. high
  BY SMT DEF Clock!Ewma

(* A sample after the first.                                               *)
LEMMA LaterSampleStep ==
  ASSUME ClockInv, NEW there \in Delays, NEW back \in Delays, NEW elapsed \in Int,
         Clock!LaterSample(there, back, elapsed), theta' = theta
  PROVE  ClockInv'
<1> DEFINE o == Clock!Smoothed(there, back)
           d == Clock!Ewma(sync.delay, Clock!Delay(there, back))
           j == Clock!Ewma(sync.jitter, Clock!Abs(Clock!Target(there, back) - sync.offset))
           r == Clock!Drift(o, elapsed)
           A == Clock!Asymmetry
<1>1. sync.count > 0 /\ sync' = [offset |-> o, delay |-> d, jitter |-> j, drift |-> r, count |-> 2]
  BY DEF Clock!LaterSample, Clock!Locked
<1>2. theta \in Int /\ sync.jitter \in 0 .. 2 * A + 1
  BY DEF ClockInv, Clock!TypeOK
<1>3. /\ A \in Nat /\ Clock!MinDelay \in Nat /\ Clock!MaxDelay \in Nat
      /\ Clock!Delay(there, back) \in Clock!MinDelay .. Clock!MaxDelay
  BY <1>2, TargetIsNear, DelayRange
<1>4. /\ o \in Int /\ o + theta \in -A .. A
      /\ Clock!Abs(Clock!Target(there, back) - sync.offset) \in 0 .. 2 * A
  BY <1>1, SmoothedIsBetween
<1>5. d \in Clock!MinDelay .. Clock!MaxDelay
  <2>1. sync.delay \in Clock!MinDelay .. Clock!MaxDelay
    BY <1>1 DEF ClockInv, Clock!WithinTheSamples, Clock!Locked
  <2> DEFINE x == Clock!Delay(there, back)
  <2>2. /\ x \in Clock!MinDelay .. Clock!MaxDelay /\ x \in Int /\ sync.delay \in Int
        /\ Clock!MinDelay \in Int /\ Clock!MaxDelay \in Int
    BY <1>3, <2>1
  <2> HIDE DEF x
  <2>3. Clock!Ewma(sync.delay, x) \in Clock!MinDelay .. Clock!MaxDelay
    BY <2>1, <2>2, EwmaIsBetween
  <2> QED
    BY <2>3 DEF x
<1>6. j \in 0 .. 2 * A + 1
  <2> DEFINE x == Clock!Abs(Clock!Target(there, back) - sync.offset)
             b == 2 * A + 1
  <2>1. /\ x \in 0 .. b /\ b \in Int /\ sync.jitter \in 0 .. b
        /\ x \in Int /\ sync.jitter \in Int /\ 0 \in Int
    <3> HIDE DEF A
    <3> QED
      BY <1>2, <1>3, <1>4
  <2> HIDE DEF x, b
  <2>2. Clock!Ewma(sync.jitter, x) \in 0 .. b
    BY <2>1, EwmaIsBetween
  <2> QED
    BY <2>2 DEF x, b
<1>7. r \in -DriftMax .. DriftMax
  <2> HIDE DEF o
  <2> QED
    BY <1>4, DriftIsBounded
<1>8. DriftMax \in Nat
  BY ClockConstants
<1> HIDE DEF o, d, j, r, A
<1>9. /\ sync'.offset = o /\ sync'.delay = d /\ sync'.jitter = j /\ sync'.drift = r
      /\ sync'.count = 2 /\ sync' \in ClockSample
  <2>1. d \in Int /\ j \in Int /\ r \in Int
    BY <1>3, <1>5, <1>6, <1>7, <1>8
  <2> QED
    BY <1>1, <1>4, <2>1 DEF ClockSample
<1>10. Clock!Abs(o + theta) <= A
  BY <1>2, <1>3, <1>4, SMT DEF Clock!Abs
<1>11. Clock!TypeOK'
  BY <1>6, <1>7, <1>9 DEF Clock!TypeOK, A, Clock!Asymmetry, Clock!MinDelay, Clock!MaxDelay
<1>12. Clock!WithinTheSamples'
  BY <1>5, <1>9, <1>10 DEF Clock!WithinTheSamples, A, Clock!Asymmetry, Clock!MinDelay,
     Clock!MaxDelay, Clock!Abs
<1> QED
  BY <1>2, <1>9, <1>11, <1>12 DEF ClockInv

(* At the start nothing is known.                                          *)
LEMMA ClockInit == Clock!Init => ClockInv
<1> SUFFICES ASSUME Clock!Init PROVE ClockInv
  OBVIOUS
<1>1. /\ sync = [offset |-> 0, delay |-> 0, jitter |-> 0, drift |-> 0, count |-> 0]
      /\ theta \in Ahead \cup {-b : b \in Behind}
  BY DEF Clock!Init
<1>2. Ahead \subseteq Nat /\ Behind \subseteq Nat /\ DriftMax \in Nat
  BY ClockConstants
<1>3. theta \in Int
  BY <1>1, <1>2
<1>4. /\ sync \in ClockSample /\ sync.count = 0 /\ sync.drift = 0 /\ sync.jitter = 0
  BY <1>1 DEF ClockSample
<1>5. Clock!Asymmetry \in Nat
  <2>1. Clock!MinDelay \in Nat /\ Clock!MaxDelay \in Nat /\ Clock!MinDelay <= Clock!MaxDelay
    BY DelayRange
  <2> QED
    BY <2>1, SMT DEF Clock!Asymmetry
<1>6. 0 \in 0 .. 2 * Clock!Asymmetry + 1 /\ 0 \in -DriftMax .. DriftMax
  BY <1>2, <1>5
<1>7. Clock!TypeOK
  BY <1>4, <1>6 DEF Clock!TypeOK
<1>8. Clock!WithinTheSamples
  BY <1>4 DEF Clock!WithinTheSamples, Clock!Locked
<1> QED
  BY <1>3, <1>4, <1>7, <1>8 DEF ClockInv

(* The elapsed time of a step of the clock.                                *)
LEMMA ClockStepSamples ==
  ASSUME Clock!Next
  PROVE  \E elapsed \in Int : Clock!Sample(elapsed) /\ (elapsed < 0 => -elapsed \in Older)
<1>1. Newer \subseteq Nat /\ Older \subseteq Nat \ {0}
  BY ClockConstants
<1>2. CASE \E elapsed \in Newer : Clock!Sample(elapsed)
  <2>1. PICK e \in Newer : Clock!Sample(e)
    BY <1>2
  <2>2. e \in Int /\ ~(e < 0)
    BY <1>1
  <2> QED
    BY <2>1, <2>2
<1>3. CASE \E elapsed \in Older : Clock!Sample(-elapsed)
  <2>1. PICK e \in Older : Clock!Sample(-e)
    BY <1>3
  <2>2. -e \in Int /\ -(-e) = e
    BY <1>1
  <2> QED
    BY <2>1, <2>2
<1> QED
  BY <1>2, <1>3 DEF Clock!Next

(* Every step of the clock keeps the estimate in its range.                *)
LEMMA ClockNext == ClockInv /\ [Clock!Next]_clockVars => ClockInv'
<1> SUFFICES ASSUME ClockInv, [Clock!Next]_clockVars PROVE ClockInv'
  OBVIOUS
<1>1. CASE Clock!Next
  <2>1. PICK elapsed \in Int : Clock!Sample(elapsed)
    BY <1>1, ClockStepSamples
  <2>2. PICK there \in Delays, back \in Delays :
          Clock!FirstSample(there, back) \/ Clock!LaterSample(there, back, elapsed)
    BY <2>1 DEF Clock!Sample
  <2>3. theta' = theta
    BY <2>1 DEF Clock!Sample
  <2> QED
    BY <2>2, <2>3, FirstSampleStep, LaterSampleStep
<1>2. CASE UNCHANGED clockVars
  <2>1. theta' = theta /\ sync' = sync
    BY <1>2 DEF clockVars
  <2> QED
    BY <2>1 DEF ClockInv, Clock!TypeOK, Clock!WithinTheSamples, Clock!Locked, Clock!Asymmetry,
       Clock!MinDelay, Clock!MaxDelay, Clock!Abs
<1> QED
  BY <1>1, <1>2

(* What comes of a remote time is mapped back to it.                       *)
LEMMA InvMapsBack == ClockInv => Clock!MapsBack
<1> SUFFICES ASSUME ClockInv, NEW time \in Times, Clock!RemoteToLocal(time) > 0
             PROVE  Clock!LocalToRemote(Clock!RemoteToLocal(time)) = time
  BY DEF Clock!MapsBack
<1>1. time \in Nat
  BY ClockConstants
<1>2. sync.offset \in Int
  BY DEF ClockInv, ClockSample
<1>3. CASE Clock!Locked
  <2>1. /\ Clock!RemoteToLocal(time) = Clock!Corrected(sync.offset, time)
        /\ \A x : Clock!LocalToRemote(x) = Clock!Corrected(-sync.offset, x)
    BY <1>3 DEF Clock!RemoteToLocal, Clock!LocalToRemote
  <2>2. Clock!Corrected(sync.offset, time) = time + sync.offset
    BY <1>1, <1>2, <2>1 DEF Clock!Corrected
  <2>3. Clock!Corrected(-sync.offset, time + sync.offset) = time
    BY <1>1, <1>2, SMT DEF Clock!Corrected
  <2> QED
    BY <2>1, <2>2, <2>3
<1>4. CASE ~Clock!Locked
  BY <1>4 DEF Clock!RemoteToLocal, Clock!LocalToRemote
<1> QED
  BY <1>3, <1>4

(* An elapsed time that is negative wraps to almost the modulus.           *)
LEMMA WrapsToAlmostModulus ==
  ASSUME NEW m \in Nat, NEW e \in Nat, e > 0, e < m
  PROVE  (-e) % m = m - e
  BY SMT

(* What is less than twice a number holds it at most once.                 *)
LEMMA AtMostOnce ==
  ASSUME NEW y \in Nat, NEW u \in Nat, u > 0, y < 2 * u
  PROVE  y \div u \in {0, 1}
  BY SMT

(* A sample of at most one unit lets the drift go towards zero, and no     *)
(* further.                                                                *)
LEMMA SmallSampleCalms ==
  ASSUME NEW s \in {-1, 0, 1}, NEW d \in Int, NEW b \in Nat, d \in -b .. b
  PROVE  LET c == Clock!Clamp(Clock!Quotient(d * 7 + s, 8), -b, b)
         IN  c \in 0 .. d \/ c \in d .. 0
  BY SMT DEF Clock!Clamp, Clock!Quotient

(* A sample older than the last calms the drift.                           *)
LEMMA OldDriftCalms ==
  ASSUME ClockInv, NEW offset \in Int, NEW e \in Older
  PROVE  Clock!Drift(offset, -e) \in 0 .. sync.drift \/ Clock!Drift(offset, -e) \in sync.drift .. 0
<1> DEFINE x == Clock!Abs(offset - sync.offset) * Scale
           y == x % Modulus
           u == Modulus - e
           size == y \div u
           sample == IF offset < sync.offset THEN -size ELSE size
<1>1. /\ Modulus \in Nat /\ e \in Nat /\ e > 0 /\ 2 * e <= Modulus /\ Scale \in Nat
      /\ DriftMax \in Nat
  BY ClockConstants
<1>2. sync.offset \in Int /\ sync.drift \in -DriftMax .. DriftMax /\ sync.drift \in Int
  BY <1>1 DEF ClockInv, ClockSample, Clock!TypeOK
<1>3. x \in Int
  <2>1. Clock!Abs(offset - sync.offset) \in Int
    BY <1>2, SMT DEF Clock!Abs
  <2> QED
    BY <1>1, <2>1
<1>4. (-e) % Modulus = u /\ u \in Nat /\ u > 0
  <2>1. e < Modulus /\ u \in Nat /\ u > 0
    BY <1>1
  <2> QED
    BY <1>1, <2>1, WrapsToAlmostModulus
<1>5. Clock!Drift(offset, -e) = Clock!Clamp(Clock!Quotient(sync.drift * 7 + sample, 8), -DriftMax, DriftMax)
  BY <1>4 DEF Clock!Drift
<1>6. y \in Nat /\ y < Modulus
  <2> HIDE DEF x
  <2> QED
    BY <1>1, <1>3, SMT
<1>7. size \in {0, 1}
  <2>1. y < 2 * u
    <3> HIDE DEF y
    <3> QED
      BY <1>1, <1>6
  <2> HIDE DEF y, u
  <2> QED
    BY <1>4, <1>6, <2>1, AtMostOnce
<1> HIDE DEF size
<1>8. sample \in {-1, 0, 1}
  BY <1>7
<1> HIDE DEF sample
<1> QED
  BY <1>1, <1>2, <1>5, <1>8, SmallSampleCalms

(* Of every step of the clock: a late sample does no harm.                 *)
LEMMA ClockCalms ==
  ASSUME ClockInv, Clock!Next, Clock!Locked, given'.old
  PROVE  sync'.drift \in 0 .. sync.drift \/ sync'.drift \in sync.drift .. 0
<1>1. PICK elapsed \in Int : Clock!Sample(elapsed) /\ (elapsed < 0 => -elapsed \in Older)
  BY ClockStepSamples
<1>2. PICK there \in Delays, back \in Delays :
        /\ Clock!FirstSample(there, back) \/ Clock!LaterSample(there, back, elapsed)
        /\ given' = [even |-> there = back, old |-> elapsed < 0]
  BY <1>1 DEF Clock!Sample
<1>3. Clock!LaterSample(there, back, elapsed)
  BY <1>2 DEF Clock!FirstSample
<1>4. elapsed < 0
  BY <1>2
<1>5. -elapsed \in Older /\ -(-elapsed) = elapsed
  BY <1>1, <1>4
<1> DEFINE o == Clock!Smoothed(there, back)
<1>6. sync'.drift = Clock!Drift(o, elapsed)
  BY <1>3 DEF Clock!LaterSample
<1>7. o \in Int
  BY SmoothedIsBetween DEF Clock!Locked
<1> HIDE DEF o
<1>8. Clock!Drift(o, -(-elapsed)) \in 0 .. sync.drift \/ Clock!Drift(o, -(-elapsed)) \in sync.drift .. 0
  BY <1>5, <1>7, OldDriftCalms
<1> QED
  BY <1>5, <1>6, <1>8

(* Of every step of the clock: two frames that are further apart than an   *)
(* update moves the estimate keep their order.                             *)
LEMMA ClockKeepsOrder ==
  ASSUME ClockInv, Clock!Next, Clock!Locked, NEW time \in Times
  PROVE  Clock!RemoteToLocal(time) <= Clock!RemoteToLocal(time + (2 * Clock!Asymmetry + 8) \div 8)'
<1> DEFINE A == Clock!Asymmetry
           c == (2 * A + 8) \div 8
<1>1. PICK elapsed \in Int : Clock!Sample(elapsed)
  BY ClockStepSamples
<1>2. PICK there \in Delays, back \in Delays :
        Clock!FirstSample(there, back) \/ Clock!LaterSample(there, back, elapsed)
  BY <1>1 DEF Clock!Sample
<1>3. Clock!LaterSample(there, back, elapsed)
  BY <1>2 DEF Clock!FirstSample
<1>4. sync'.offset = Clock!Smoothed(there, back) /\ sync'.count = 2
  BY <1>3 DEF Clock!LaterSample
<1>5. /\ sync'.offset \in Int /\ sync.offset \in Int /\ time \in Nat /\ A \in Nat
      /\ 8 * (sync'.offset - sync.offset) \in -(2 * A) .. 2 * A
  <2>1. theta \in Int /\ sync.offset \in Int
    BY DEF ClockInv, ClockSample
  <2> QED
    BY <1>4, <2>1, SmoothedIsBetween, TargetIsNear, ClockConstants DEF Clock!Locked
<1>6. /\ Clock!RemoteToLocal(time) = Clock!Corrected(sync.offset, time)
      /\ Clock!RemoteToLocal(time + (2 * Clock!Asymmetry + 8) \div 8)' =
           Clock!Corrected(sync'.offset, time + c)
  <2>1. Clock!Locked'
    BY <1>4 DEF Clock!Locked
  <2> QED
    BY <2>1 DEF Clock!RemoteToLocal, Clock!Locked, Clock!Corrected, Clock!Asymmetry,
       Clock!MinDelay, Clock!MaxDelay
<1> HIDE DEF A
<1>7. c \in Int /\ 8 * c >= 2 * A + 1
  BY <1>5, SMT
<1> HIDE DEF c
<1>8. Clock!Corrected(sync.offset, time) <= Clock!Corrected(sync'.offset, time + c)
  BY <1>5, <1>7, SMT DEF Clock!Corrected
<1> QED
  BY <1>6, <1>8

-----------------------------------------------------------------------------
(* A behaviour that plays one part leaves the others as they were.         *)

allVars == << part, vars, clockVars, ingestVars >>

(* A step is one of the clock, or leaves the clock alone.                  *)
LEMMA PlaysClock == [MCNext]_allVars => [Clock!Next]_clockVars
<1>1. ASSUME MCNext PROVE [Clock!Next]_clockVars
  BY <1>1 DEF MCNext
<1>2. ASSUME UNCHANGED allVars PROVE UNCHANGED clockVars
  BY <1>2 DEF allVars
<1> QED
  BY <1>1, <1>2

(* In every reachable state the estimate is in its range.                  *)
THEOREM ClockInvariant == MCSpec => []ClockInv
<1>1. MCInit => ClockInv
  BY ClockInit DEF MCInit
<1>2. ClockInv /\ [MCNext]_allVars => ClockInv'
  BY PlaysClock, ClockNext
<1> QED
  BY <1>1, <1>2, PTL DEF MCSpec, allVars

(* The run's property of the clock, for all delays, offsets and orders of  *)
(* samples.                                                                *)
THEOREM ClockRight == MCSpec => []ClockIsRight
<1>1. ClockInv => ClockIsRight
  BY InvMapsBack DEF ClockInv, ClockIsRight
<1> QED
  BY <1>1, ClockInvariant, PTL

(* A sample older than the one before it never makes the drift worse.      *)
THEOREM LateSamplesCalm == MCSpec => Clock!OldSampleCalms
<1>1. ClockInv /\ [MCNext]_allVars =>
        [Clock!Locked /\ given'.old =>
           sync'.drift \in 0 .. sync.drift \/ sync'.drift \in sync.drift .. 0]_(Clock!vars)
  <2> SUFFICES ASSUME ClockInv, [MCNext]_allVars, Clock!vars' # Clock!vars, Clock!Locked, given'.old
               PROVE  sync'.drift \in 0 .. sync.drift \/ sync'.drift \in sync.drift .. 0
    BY Zenon
  <2>1. Clock!Next
    BY PlaysClock DEF clockVars, Clock!vars
  <2> QED
    BY <2>1, ClockCalms
<1> QED
  BY <1>1, ClockInvariant, PTL DEF MCSpec, allVars, Clock!OldSampleCalms

(* Frames far enough apart stay in order across an update.                 *)
THEOREM OrderIsKept == MCSpec => Clock!FramesKeepOrder
<1>1. ClockInv /\ [MCNext]_allVars =>
        [Clock!Locked => \A time \in Times :
           Clock!RemoteToLocal(time) <=
             Clock!RemoteToLocal(time + (2 * Clock!Asymmetry + 8) \div 8)']_(Clock!vars)
  <2> SUFFICES ASSUME ClockInv, [MCNext]_allVars, Clock!vars' # Clock!vars, Clock!Locked,
                      NEW time \in Times
               PROVE  Clock!RemoteToLocal(time) <=
                        Clock!RemoteToLocal(time + (2 * Clock!Asymmetry + 8) \div 8)'
    BY Zenon
  <2>1. Clock!Next
    BY PlaysClock DEF clockVars, Clock!vars
  <2> QED
    BY <2>1, ClockKeepsOrder
<1> QED
  BY <1>1, ClockInvariant, PTL DEF MCSpec, allVars, Clock!FramesKeepOrder

-----------------------------------------------------------------------------
(* StereoIngest.  Time goes on: what the monitor has seen last lies before *)
(* the pair at hand, so that the unsigned difference is the time between   *)
(* the two.                                                                *)

Sides == {"left", "right"}
MonitorState == {"UNLOCKED", "WARMING", "LOCKED", "DEGRADED"}
Monitor == [state : MonitorState, last : Nat, good : Nat, bad : Nat, accepted : Nat, rejected : Nat]
Counters == [dropped : Nat, masked : Nat]
Seen == [delivered : Nat, failed : Nat, unfit : Nat, between : Int, regular : Nat, refused : Nat,
         dropped : [Sides -> Nat]]

LastSlot == Period * (Horizon + MaxLost + 2)

TimeInv ==
  /\ ts \in [Sides -> Nat]
  /\ \A e \in Sides : ts[e] \in 1 .. LastSlot
  /\ monitor.last < ts["left"] \/ monitor.last < ts["right"]
  /\ sbs <= monitor.last

HopelessInv ==
  \A e \in Sides : seen.dropped[e] # 0 => ts[Ingest!Other(e)] > seen.dropped[e] + PairSkew

CountInv ==
  /\ stats.dropped = seen.unfit + monitor.rejected
  /\ monitor.accepted = seen.delivered + seen.failed
  /\ 2 * seen.delivered <= stats.masked /\ stats.masked <= 2 * monitor.accepted

MonitorInv ==
  /\ monitor.good <= monitor.accepted /\ monitor.bad <= monitor.rejected
  /\ seen.refused = monitor.bad
  /\ monitor.state = "LOCKED" => monitor.bad < DegradeAfter /\ monitor.accepted >= Warmup

IngestInv ==
  /\ monitor \in Monitor /\ stats \in Counters /\ sbs \in Nat /\ seen \in Seen
  /\ TimeInv /\ HopelessInv /\ CountInv /\ MonitorInv
  /\ Ingest!DeliveredSteadily

(* What the assumption says of the constants.                              *)
LEMMA IngestConstants ==
  /\ Period \in Nat \ {0} /\ MaxError \in 0 .. Period - 1
  /\ PairSkew \in Nat /\ MaxSkew \in Nat /\ Warmup \in Nat \ {0} /\ DegradeAfter \in Nat \ {0}
  /\ Jitter \in 0 .. Period - 1 /\ MaxLost \in Nat /\ Horizon \in Nat \ {0}
<1>1. Ingest!IngestAssumption
  BY PartsAssumption
<1> QED
  BY <1>1 DEF Ingest!IngestAssumption

(* The next frame is of a later slot, however late the last one was.       *)
LEMMA NextSlotIsLater ==
  ASSUME NEW p \in Nat \ {0}, NEW h \in Nat, NEW m \in Nat, NEW t \in Nat, t < p * h,
         NEW lost \in 0 .. m, NEW late \in 0 .. p - 1
  PROVE  (t \div p + 1 + lost) * p + late \in t + 1 .. p * (h + m + 2)
<1> DEFINE q == t \div p
<1>1. q \in Nat /\ q * p <= t /\ t < q * p + p
  BY SMT
<1> HIDE DEF q
<1>2. q < h
  <2>1. q * p < p * h
    BY <1>1
  <2>2. ASSUME h <= q PROVE FALSE
    <3>1. h * p <= q * p
      BY <1>1, <2>2, SMT
    <3> QED
      BY <1>1, <2>1, <3>1, SMT
  <2> QED
    BY <1>1, <2>2
<1>3. (q + 1 + lost) * p = q * p + p + lost * p
  BY <1>1, SMT
<1>4. 0 <= lost * p
  BY SMT
<1>5. (q + 1 + lost) * p + late > t
  BY <1>1, <1>3, <1>4, SMT
<1>6. q + 1 + lost <= h + m
  BY <1>1, <1>2, SMT
<1>7. (q + 1 + lost) * p <= (h + m) * p
  BY <1>1, <1>6, SMT
<1>8. p * (h + m + 2) = (h + m) * p + 2 * p
  BY SMT
<1>9. (q + 1 + lost) * p + late \in Int /\ p * (h + m + 2) \in Int
  BY <1>1
<1>10. (q + 1 + lost) * p + late <= p * (h + m + 2)
  <2> DEFINE x == (q + 1 + lost) * p
             y == (h + m) * p
             z == p * (h + m + 2)
  <2>1. x \in Int /\ y \in Int /\ z \in Int
    BY <1>1
  <2>2. x <= y /\ z = y + 2 * p
    BY <1>7, <1>8
  <2> HIDE DEF x, y, z
  <2>3. x + late <= z
    BY <2>1, <2>2, SMT
  <2> QED
    BY <2>3 DEF x, z
<1>11. (q + 1 + lost) * p + late \in t + 1 .. p * (h + m + 2)
  <2> DEFINE x == (q + 1 + lost) * p + late
             z == p * (h + m + 2)
  <2>1. x \in Int /\ z \in Int /\ x > t /\ x <= z
    BY <1>5, <1>9, <1>10
  <2> HIDE DEF x, z
  <2>2. x \in t + 1 .. z
    BY <2>1
  <2> QED
    BY <2>2 DEF x, z
<1> QED
  BY <1>11 DEF q

(* What is fetched is newer, what is not fetched is the same.              *)
LEMMA FetchIsNewer ==
  ASSUME TimeInv, NEW es \in SUBSET Sides, Ingest!Fetch(es)
  PROVE  /\ ts' \in [Sides -> Nat]
         /\ \A e \in Sides : ts'[e] \in 1 .. LastSlot
         /\ \A e \in es : ts'[e] > ts[e]
         /\ \A e \in Sides \ es : ts'[e] = ts[e]
<1>1. PICK lost \in 0 .. MaxLost, late \in [Sides -> {0, Jitter}] :
        ts' = [e \in Sides |-> IF e \in es THEN (ts[e] \div Period + 1 + lost) * Period + late[e]
                               ELSE ts[e]]
  BY DEF Ingest!Fetch, Ingest!Eyes, Sides
<1>2. \A e \in es : ts[e] < Period * Horizon
  BY DEF Ingest!Fetch
<1>3. ts \in [Sides -> Nat] /\ \A e \in Sides : ts[e] \in 1 .. LastSlot
  BY DEF TimeInv
<1>4. \A e \in es : ts'[e] \in ts[e] + 1 .. LastSlot
  <2> TAKE e \in es
  <2>1. /\ Period \in Nat \ {0} /\ Horizon \in Nat /\ MaxLost \in Nat /\ ts[e] \in Nat
        /\ ts[e] < Period * Horizon /\ late[e] \in 0 .. Period - 1
    BY <1>2, <1>3, IngestConstants
  <2>2. (ts[e] \div Period + 1 + lost) * Period + late[e] \in ts[e] + 1 .. LastSlot
    BY <2>1, NextSlotIsLater DEF LastSlot
  <2> QED
    BY <1>1, <2>2
<1>5. \A e \in Sides \ es : ts'[e] = ts[e]
  BY <1>1
<1>6. LastSlot \in Int
  BY IngestConstants DEF LastSlot
<1>7. \A e \in es : ts'[e] > ts[e] /\ ts'[e] \in 1 .. LastSlot
  BY <1>3, <1>4, <1>6
<1>8. \A e \in Sides : ts'[e] \in 1 .. LastSlot
  BY <1>3, <1>5, <1>7
<1>9. ts' \in [Sides -> Nat]
  <2>1. \A e \in Sides : ts'[e] \in Nat
    BY <1>6, <1>8
  <2>2. ts' = [e \in Sides |-> ts'[e]]
    BY <1>1
  <2> QED
    BY <2>1, <2>2
<1> QED
  BY <1>5, <1>7, <1>8, <1>9

(* No frame that a dropped one waited for comes back.                      *)
LEMMA HopelessStays ==
  ASSUME IngestInv, NEW es \in SUBSET Sides, Ingest!Fetch(es), seen'.dropped = seen.dropped
  PROVE  HopelessInv'
<1>1. /\ \A e \in Sides : ts'[e] \in Nat /\ ts[e] \in Nat /\ ts'[e] >= ts[e]
  BY FetchIsNewer DEF IngestInv, TimeInv
<1>2. \A e \in Sides : Ingest!Other(e) \in Sides /\ seen.dropped[e] \in Nat
  BY DEF IngestInv, Seen, Ingest!Other, Sides
<1>3. PairSkew \in Nat
  BY IngestConstants
<1> SUFFICES ASSUME NEW e \in Sides, seen.dropped[e] # 0
             PROVE  ts'[Ingest!Other(e)] > seen.dropped[e] + PairSkew
  BY DEF HopelessInv, Ingest!Other
<1>4. ts[Ingest!Other(e)] > seen.dropped[e] + PairSkew
  BY DEF IngestInv, HopelessInv
<1> QED
  BY <1>1, <1>2, <1>3, <1>4

(* A pair's time is that of its later frame.                               *)
LEMMA PairOfTimes ==
  ASSUME TimeInv, monitor \in Monitor
  PROVE  /\ ts["left"] \in Nat /\ ts["right"] \in Nat /\ monitor.last \in Nat
         /\ Ingest!PairTime \in Nat /\ Ingest!PairTime > monitor.last
         /\ Ingest!PairTime = ts["left"] \/ Ingest!PairTime = ts["right"]
         /\ ts["left"] <= Ingest!PairTime /\ ts["right"] <= Ingest!PairTime
<1>1. ts["left"] \in Nat /\ ts["right"] \in Nat /\ monitor.last \in Nat
  BY DEF TimeInv, Sides, Monitor
<1>2. monitor.last < ts["left"] \/ monitor.last < ts["right"]
  BY DEF TimeInv
<1> QED
  BY <1>1, <1>2, SMT DEF Ingest!PairTime

(* When both frames are replaced the next pair is later.                   *)
LEMMA BothAreNewer ==
  ASSUME TimeInv, monitor \in Monitor, Ingest!Fetch(Ingest!Eyes),
         monitor'.last \in {monitor.last, Ingest!PairTime}, sbs \in Nat, sbs' <= monitor'.last
  PROVE  TimeInv'
<1>1. /\ ts' \in [Sides -> Nat] /\ \A e \in Sides : ts'[e] \in 1 .. LastSlot
      /\ \A e \in Sides : ts'[e] > ts[e]
  BY FetchIsNewer DEF Ingest!Eyes, Sides
<1>2. /\ ts'["left"] \in Nat /\ ts'["right"] \in Nat
      /\ ts'["left"] > ts["left"] /\ ts'["right"] > ts["right"]
  BY <1>1 DEF Sides
<1>3. monitor'.last < ts'["left"] \/ monitor'.last < ts'["right"]
  <2>1. /\ ts["left"] \in Nat /\ ts["right"] \in Nat /\ monitor.last \in Nat
        /\ Ingest!PairTime > monitor.last
        /\ Ingest!PairTime = ts["left"] \/ Ingest!PairTime = ts["right"]
    BY PairOfTimes
  <2> QED
    BY <1>2, <2>1
<1> QED
  BY <1>1, <1>3 DEF TimeInv, LastSlot

(* The older frame of a pair that does not fit is replaced.                *)
LEMMA DropOlderStep ==
  ASSUME IngestInv, Ingest!DropOlder
  PROVE  IngestInv'
<1> DEFINE s == Ingest!OlderSide
           o == Ingest!Other(s)
<1>1. /\ monitor' = monitor /\ sbs' = sbs /\ stats' = [stats EXCEPT !.dropped = @ + 1]
      /\ Ingest!Fetch({s}) /\ Ingest!Skew > PairSkew
      /\ seen' = [seen EXCEPT !.dropped[s] = ts[s], !.regular = 0, !.unfit = @ + 1]
  BY DEF Ingest!DropOlder
<1>2. /\ TimeInv /\ monitor \in Monitor /\ stats \in Counters /\ seen \in Seen /\ sbs \in Nat
      /\ ts["left"] \in Nat /\ ts["right"] \in Nat /\ PairSkew \in Nat
  BY PairOfTimes, IngestConstants DEF IngestInv
<1>3. s \in Sides /\ o \in Sides /\ o # s /\ \A e \in Sides : e = s \/ e = o
  BY DEF Ingest!OlderSide, Ingest!Other, Sides
<1>4. ts[o] > ts[s] + PairSkew
  <2>1. Ingest!Skew = Ingest!AbsDiff(ts["left"], ts["right"])
    BY DEF Ingest!Skew
  <2>2. CASE ts["left"] < ts["right"]
    <3>1. s = "left" /\ o = "right"
      BY <2>2 DEF Ingest!OlderSide, Ingest!Other
    <3> HIDE DEF s, o
    <3> QED
      BY <1>1, <1>2, <2>1, <2>2, <3>1 DEF Ingest!AbsDiff
  <2>3. CASE ~(ts["left"] < ts["right"])
    <3>1. s = "right" /\ o = "left"
      BY <2>3 DEF Ingest!OlderSide, Ingest!Other
    <3> HIDE DEF s, o
    <3> QED
      BY <1>1, <1>2, <2>1, <2>3, <3>1 DEF Ingest!AbsDiff
  <2> QED
    BY <2>2, <2>3
<1> HIDE DEF s
<1>5. /\ ts' \in [Sides -> Nat] /\ \A e \in Sides : ts'[e] \in 1 .. LastSlot
      /\ ts'[s] > ts[s] /\ ts'[o] = ts[o]
  <2>1. {s} \in SUBSET Sides /\ s \in {s} /\ o \in Sides \ {s}
    BY <1>3
  <2> HIDE DEF o
  <2> QED
    BY <1>1, <1>2, <2>1, FetchIsNewer
<1>6. \A e \in Sides : ts'[e] >= ts[e] /\ ts'[e] \in Nat /\ ts[e] \in Nat
  <2>1. \A e \in Sides : ts'[e] \in Nat /\ ts[e] \in Nat
    BY <1>2, <1>5 DEF TimeInv
  <2>2. ts'[s] >= ts[s] /\ ts'[o] >= ts[o]
    BY <1>3, <1>5, <2>1
  <2> QED
    BY <1>3, <2>1, <2>2
<1>7. /\ seen' \in Seen
      /\ seen'.delivered = seen.delivered /\ seen'.failed = seen.failed
      /\ seen'.unfit = seen.unfit + 1 /\ seen'.between = seen.between
      /\ seen'.refused = seen.refused
      /\ seen'.dropped = [seen.dropped EXCEPT ![s] = ts[s]]
  <2>1. ts[s] \in Nat /\ s \in Sides /\ seen.unfit \in Nat
    BY <1>2, <1>3, <1>6 DEF Seen
  <2> DEFINE d == [seen.dropped EXCEPT ![s] = ts[s]]
  <2>2. d \in [Sides -> Nat]
    BY <1>2, <2>1 DEF Seen
  <2>3. seen' = [seen EXCEPT !.dropped = d, !.regular = 0, !.unfit = seen.unfit + 1]
    BY <1>1
  <2> HIDE DEF d
  <2>4. /\ seen'.delivered = seen.delivered /\ seen'.failed = seen.failed
        /\ seen'.unfit = seen.unfit + 1 /\ seen'.between = seen.between
        /\ seen'.refused = seen.refused /\ seen'.dropped = d
    BY <1>2, <2>3 DEF Seen
  <2> DEFINE u == seen.unfit + 1
  <2>5. u \in Nat /\ 0 \in Nat /\ seen' = [seen EXCEPT !.dropped = d, !.regular = 0, !.unfit = u]
    BY <2>1, <2>3
  <2> HIDE DEF u
  <2>6. seen' \in Seen
    BY <1>2, <2>2, <2>5, Zenon DEF Seen
  <2> QED
    BY <2>4, <2>6 DEF d
<1>8. stats' \in Counters /\ stats'.dropped = stats.dropped + 1 /\ stats'.masked = stats.masked
  BY <1>1, <1>2 DEF Counters
<1>9. TimeInv'
  <2>1. monitor'.last < ts'["left"] \/ monitor'.last < ts'["right"]
    <3>1. ts'["left"] >= ts["left"] /\ ts'["right"] >= ts["right"]
          /\ ts'["left"] \in Nat /\ ts'["right"] \in Nat /\ monitor.last \in Nat
      BY <1>2, <1>6 DEF Sides, Monitor
    <3> QED
      BY <1>1, <1>2, <3>1 DEF TimeInv
  <2> QED
    BY <1>1, <1>2, <1>5, <2>1 DEF TimeInv, LastSlot
<1>10. HopelessInv'
  <2> SUFFICES ASSUME NEW e \in Sides, seen'.dropped[e] # 0
               PROVE  ts'[Ingest!Other(e)] > seen'.dropped[e] + PairSkew
    BY DEF HopelessInv, Ingest!Other
  <2>1. CASE e = s
    <3>1. seen'.dropped[e] = ts[s] /\ ts'[Ingest!Other(e)] = ts[o]
      BY <1>2, <1>3, <1>5, <1>7, <2>1 DEF Seen
    <3> QED
      BY <1>4, <3>1
  <2>2. CASE e # s
    <3>1. seen'.dropped[e] = seen.dropped[e] /\ seen.dropped[e] \in Nat
      BY <1>2, <1>7, <2>2 DEF Seen
    <3>2. ts[Ingest!Other(e)] > seen.dropped[e] + PairSkew
      BY <3>1 DEF IngestInv, HopelessInv
    <3>3. Ingest!Other(e) \in Sides
      BY DEF Ingest!Other, Sides
    <3> QED
      BY <1>2, <1>6, <3>1, <3>2, <3>3
  <2> QED
    BY <2>1, <2>2
<1>11. CountInv'
  <2>1. monitor.rejected \in Nat /\ seen.unfit \in Nat
    BY <1>2 DEF Monitor, Seen
  <2> QED
    BY <1>1, <1>7, <1>8, <2>1 DEF IngestInv, CountInv
<1>12. MonitorInv' /\ Ingest!DeliveredSteadily'
  BY <1>1, <1>7 DEF IngestInv, MonitorInv, Ingest!DeliveredSteadily, Ingest!AbsDiff
<1>13. monitor' \in Monitor /\ sbs' \in Nat
  BY <1>1, <1>2
<1> QED
  BY <1>7, <1>8, <1>9, <1>10, <1>11, <1>12, <1>13 DEF IngestInv

(* Frames that are no pair at all are replaced.                            *)
LEMMA RejectStep ==
  ASSUME IngestInv, Ingest!Reject
  PROVE  IngestInv'
<1>1. /\ monitor' = monitor /\ sbs' = sbs /\ stats' = [stats EXCEPT !.dropped = @ + 1]
      /\ Ingest!Fetch(Ingest!Eyes) /\ seen' = [seen EXCEPT !.regular = 0, !.unfit = @ + 1]
  BY DEF Ingest!Reject
<1>2. TimeInv /\ monitor \in Monitor /\ stats \in Counters /\ seen \in Seen /\ sbs \in Nat
  BY DEF IngestInv
<1>3. /\ seen' \in Seen
      /\ seen'.delivered = seen.delivered /\ seen'.failed = seen.failed
      /\ seen'.unfit = seen.unfit + 1 /\ seen'.between = seen.between
      /\ seen'.refused = seen.refused /\ seen'.dropped = seen.dropped
  <2>1. /\ seen'.delivered = seen.delivered /\ seen'.failed = seen.failed
        /\ seen'.unfit = seen.unfit + 1 /\ seen'.between = seen.between
        /\ seen'.refused = seen.refused /\ seen'.dropped = seen.dropped
    BY <1>1, <1>2 DEF Seen
  <2> DEFINE u == seen.unfit + 1
  <2>2. u \in Nat /\ 0 \in Nat /\ seen' = [seen EXCEPT !.regular = 0, !.unfit = u]
    BY <1>1, <1>2 DEF Seen
  <2> HIDE DEF u
  <2>3. seen' \in Seen
    BY <1>2, <2>2, Zenon DEF Seen
  <2> QED
    BY <2>1, <2>3
<1>4. stats' \in Counters /\ stats'.dropped = stats.dropped + 1 /\ stats'.masked = stats.masked
  BY <1>1, <1>2 DEF Counters
<1>5. TimeInv'
  <2>1. sbs' <= monitor'.last /\ monitor'.last \in {monitor.last, Ingest!PairTime}
    BY <1>1, <1>2 DEF TimeInv
  <2> QED
    BY <1>1, <1>2, <2>1, BothAreNewer
<1>6. HopelessInv'
  <2>1. Ingest!Eyes \in SUBSET Sides
    BY DEF Ingest!Eyes, Sides
  <2> QED
    BY <1>1, <1>3, <2>1, HopelessStays
<1>7. CountInv'
  <2>1. monitor.rejected \in Nat /\ seen.unfit \in Nat
    BY <1>2 DEF Monitor, Seen
  <2> QED
    BY <1>1, <1>3, <1>4, <2>1 DEF IngestInv, CountInv
<1>8. MonitorInv' /\ Ingest!DeliveredSteadily'
  BY <1>1, <1>3 DEF IngestInv, MonitorInv, Ingest!DeliveredSteadily, Ingest!AbsDiff
<1>9. monitor' \in Monitor /\ sbs' \in Nat
  BY <1>1, <1>2
<1> QED
  BY <1>3, <1>4, <1>5, <1>6, <1>7, <1>8, <1>9 DEF IngestInv

(* The monitor accepts a pair.                                             *)
LEMMA AcceptedMonitor ==
  ASSUME IngestInv, monitor' = Ingest!Accepted
  PROVE  /\ monitor' \in Monitor /\ monitor'.last = Ingest!PairTime
         /\ monitor'.accepted = monitor.accepted + 1 /\ monitor'.rejected = monitor.rejected
         /\ monitor'.good = monitor.good + 1 /\ monitor'.bad = 0
         /\ monitor'.state = "LOCKED" =>
              monitor.good + 1 >= Warmup \/ monitor.state = "LOCKED"
<1> DEFINE st == IF monitor.good + 1 >= Warmup THEN "LOCKED"
                 ELSE IF monitor.state = "UNLOCKED" THEN "WARMING" ELSE monitor.state
           t == Ingest!PairTime
<1>1. monitor \in Monitor /\ t \in Nat
  BY PairOfTimes DEF IngestInv
<1>2. st \in MonitorState /\ (st = "LOCKED" => monitor.good + 1 >= Warmup \/ monitor.state = "LOCKED")
  BY <1>1 DEF Monitor, MonitorState
<1>3. monitor' = [monitor EXCEPT !.accepted = @ + 1, !.good = @ + 1, !.bad = 0, !.last = t, !.state = st]
  BY DEF Ingest!Accepted
<1> DEFINE a == monitor.accepted + 1
           g == monitor.good + 1
<1>6. a \in Nat /\ g \in Nat /\ 0 \in Nat
  BY <1>1 DEF Monitor
<1>7. monitor' = [monitor EXCEPT !.accepted = a, !.good = g, !.bad = 0, !.last = t, !.state = st]
  BY <1>3, Zenon
<1> HIDE DEF st, t
<1>4. /\ monitor'.last = t /\ monitor'.accepted = monitor.accepted + 1
      /\ monitor'.rejected = monitor.rejected /\ monitor'.good = monitor.good + 1
      /\ monitor'.bad = 0 /\ monitor'.state = st
  BY <1>1, <1>3 DEF Monitor
<1> HIDE DEF a, g
<1>5. monitor' \in Monitor
  BY <1>1, <1>2, <1>6, <1>7, Zenon DEF Monitor
<1> QED
  BY <1>2, <1>4, <1>5 DEF t

(* The monitor rejects a pair.                                             *)
LEMMA RejectedMonitor ==
  ASSUME IngestInv, monitor' = Ingest!Rejected
  PROVE  /\ monitor' \in Monitor /\ monitor'.last = monitor.last
         /\ monitor'.accepted = monitor.accepted /\ monitor'.rejected = monitor.rejected + 1
         /\ monitor'.good = 0 /\ monitor'.bad = monitor.bad + 1
         /\ monitor'.state = "LOCKED" =>
              monitor.bad + 1 < DegradeAfter /\ monitor.state = "LOCKED"
<1> DEFINE st == IF monitor.bad + 1 >= DegradeAfter
                 THEN IF monitor.accepted > 0 THEN "DEGRADED" ELSE "UNLOCKED" ELSE monitor.state
<1>1. monitor \in Monitor /\ DegradeAfter \in Nat
  BY IngestConstants DEF IngestInv
<1>2. st \in MonitorState /\ (st = "LOCKED" => monitor.bad + 1 < DegradeAfter /\ monitor.state = "LOCKED")
  BY <1>1 DEF Monitor, MonitorState
<1>3. monitor' = [monitor EXCEPT !.rejected = @ + 1, !.bad = @ + 1, !.good = 0, !.state = st]
  BY DEF Ingest!Rejected
<1> DEFINE r == monitor.rejected + 1
           b == monitor.bad + 1
<1>6. r \in Nat /\ b \in Nat /\ 0 \in Nat
  BY <1>1 DEF Monitor
<1>7. monitor' = [monitor EXCEPT !.rejected = r, !.bad = b, !.good = 0, !.state = st]
  BY <1>3, Zenon
<1> HIDE DEF st
<1>4. /\ monitor'.last = monitor.last /\ monitor'.accepted = monitor.accepted
      /\ monitor'.rejected = monitor.rejected + 1 /\ monitor'.good = 0
      /\ monitor'.bad = monitor.bad + 1 /\ monitor'.state = st
  BY <1>1, <1>3 DEF Monitor
<1> HIDE DEF r, b
<1>5. monitor' \in Monitor
  BY <1>1, <1>2, <1>6, <1>7, Zenon DEF Monitor
<1> QED
  BY <1>2, <1>4, <1>5

(* The number of regular pairs goes on, or starts again.                   *)
LEMMA RegularCounted ==
  ASSUME seen \in Seen
  PROVE  (IF Ingest!Regular THEN seen.regular + 1 ELSE 0) \in Nat
  BY DEF Seen

(* The pair is refused by the monitor.                                     *)
LEMMA RefuseStep ==
  ASSUME IngestInv, Ingest!Refuse
  PROVE  IngestInv'
<1> DEFINE g == IF Ingest!Regular THEN seen.regular + 1 ELSE 0
           n == seen.refused + 1
<1>1. /\ monitor' = Ingest!Rejected /\ sbs' = sbs /\ stats' = [stats EXCEPT !.dropped = @ + 1]
      /\ Ingest!Fetch(Ingest!Eyes) /\ seen' = [seen EXCEPT !.refused = n, !.regular = g]
  BY DEF Ingest!Refuse
<1>2. TimeInv /\ monitor \in Monitor /\ stats \in Counters /\ seen \in Seen /\ sbs \in Nat
  BY DEF IngestInv
<1>3. /\ monitor' \in Monitor /\ monitor'.last = monitor.last
      /\ monitor'.accepted = monitor.accepted /\ monitor'.rejected = monitor.rejected + 1
      /\ monitor'.good = 0 /\ monitor'.bad = monitor.bad + 1
      /\ monitor'.state = "LOCKED" => monitor.bad + 1 < DegradeAfter /\ monitor.state = "LOCKED"
  BY <1>1, RejectedMonitor
<1>4. g \in Nat /\ n \in Nat
  BY <1>2, RegularCounted DEF Seen
<1> HIDE DEF g, n
<1>5. /\ seen' \in Seen
      /\ seen'.delivered = seen.delivered /\ seen'.failed = seen.failed
      /\ seen'.unfit = seen.unfit /\ seen'.between = seen.between
      /\ seen'.refused = n /\ seen'.dropped = seen.dropped
  <2>1. seen' \in Seen
    BY <1>1, <1>2, <1>4, Zenon DEF Seen
  <2> QED
    BY <1>1, <1>2, <2>1 DEF Seen
<1>6. stats' \in Counters /\ stats'.dropped = stats.dropped + 1 /\ stats'.masked = stats.masked
  BY <1>1, <1>2 DEF Counters
<1>7. TimeInv'
  <2>1. sbs' <= monitor'.last /\ monitor'.last \in {monitor.last, Ingest!PairTime}
    BY <1>1, <1>2, <1>3 DEF TimeInv
  <2> QED
    BY <1>1, <1>2, <2>1, BothAreNewer
<1>8. HopelessInv'
  <2>1. Ingest!Eyes \in SUBSET Sides
    BY DEF Ingest!Eyes, Sides
  <2> QED
    BY <1>1, <1>5, <2>1, HopelessStays
<1>9. CountInv'
  <2>1. monitor.rejected \in Nat /\ seen.unfit \in Nat
    BY <1>2 DEF Monitor, Seen
  <2> QED
    BY <1>3, <1>5, <1>6, <2>1 DEF IngestInv, CountInv
<1>10. MonitorInv'
  <2>1. /\ monitor.good \in Nat /\ monitor.bad \in Nat /\ monitor.accepted \in Nat
        /\ monitor.rejected \in Nat /\ n = monitor.bad + 1 /\ monitor.bad <= monitor.rejected
        /\ monitor.state = "LOCKED" => monitor.accepted >= Warmup
    BY <1>2 DEF Monitor, IngestInv, MonitorInv, n
  <2> QED
    BY <1>3, <1>5, <2>1 DEF MonitorInv
<1>11. Ingest!DeliveredSteadily'
  BY <1>5 DEF IngestInv, Ingest!DeliveredSteadily, Ingest!AbsDiff
<1>12. sbs' \in Nat
  BY <1>1, <1>2
<1> QED
  BY <1>3, <1>5, <1>6, <1>7, <1>8, <1>9, <1>10, <1>11, <1>12 DEF IngestInv

(* What an accepted pair does to the monitor's invariant.                  *)
LEMMA AcceptedInv ==
  ASSUME IngestInv, monitor' = Ingest!Accepted, seen'.refused = 0
  PROVE  MonitorInv'
<1>1. /\ monitor'.accepted = monitor.accepted + 1 /\ monitor'.rejected = monitor.rejected
      /\ monitor'.good = monitor.good + 1 /\ monitor'.bad = 0
      /\ monitor'.state = "LOCKED" => monitor.good + 1 >= Warmup \/ monitor.state = "LOCKED"
  BY AcceptedMonitor
<1>2. /\ monitor.good \in Nat /\ monitor.bad \in Nat /\ monitor.accepted \in Nat
      /\ monitor.rejected \in Nat /\ monitor.good <= monitor.accepted
      /\ monitor.state = "LOCKED" => monitor.accepted >= Warmup
  BY DEF Monitor, IngestInv, MonitorInv
<1>3. Warmup \in Nat \ {0} /\ DegradeAfter \in Nat \ {0}
  BY IngestConstants
<1>4. monitor'.state = "LOCKED" => monitor'.bad < DegradeAfter /\ monitor'.accepted >= Warmup
  BY <1>1, <1>2, <1>3
<1> QED
  BY <1>1, <1>2, <1>4 DEF MonitorInv

(* The pair is accepted, and then masking or packing fails.                *)
LEMMA FailStep ==
  ASSUME IngestInv, Ingest!Fail
  PROVE  IngestInv'
<1> DEFINE g == IF Ingest!Regular THEN seen.regular + 1 ELSE 0
           n == seen.failed + 1
<1>1. /\ monitor' = Ingest!Accepted /\ sbs' = sbs
      /\ UNCHANGED stats \/ stats' = [stats EXCEPT !.masked = @ + 2]
      /\ Ingest!Fetch(Ingest!Eyes)
      /\ seen' = [seen EXCEPT !.failed = n, !.refused = 0, !.regular = g]
  BY DEF Ingest!Fail
<1>2. TimeInv /\ monitor \in Monitor /\ stats \in Counters /\ seen \in Seen /\ sbs \in Nat
  BY DEF IngestInv
<1>3. /\ monitor' \in Monitor /\ monitor'.last = Ingest!PairTime
      /\ monitor'.accepted = monitor.accepted + 1 /\ monitor'.rejected = monitor.rejected
  BY <1>1, AcceptedMonitor
<1>4. g \in Nat /\ n \in Nat /\ 0 \in Nat
  BY <1>2, RegularCounted DEF Seen
<1> HIDE DEF g, n
<1>5. /\ seen' \in Seen
      /\ seen'.delivered = seen.delivered /\ seen'.failed = n
      /\ seen'.unfit = seen.unfit /\ seen'.between = seen.between
      /\ seen'.refused = 0 /\ seen'.dropped = seen.dropped
  <2>1. seen' \in Seen
    BY <1>1, <1>2, <1>4, Zenon DEF Seen
  <2> QED
    BY <1>1, <1>2, <2>1 DEF Seen
<1>6. /\ stats' \in Counters /\ stats'.dropped = stats.dropped
      /\ stats'.masked \in {stats.masked, stats.masked + 2}
  BY <1>1, <1>2 DEF Counters
<1>7. TimeInv'
  <2>1. sbs' <= monitor'.last /\ monitor'.last \in {monitor.last, Ingest!PairTime}
    <3>1. sbs <= monitor.last /\ monitor.last \in Nat /\ Ingest!PairTime \in Nat
          /\ Ingest!PairTime > monitor.last
      BY <1>2, PairOfTimes DEF TimeInv
    <3> QED
      BY <1>1, <1>2, <1>3, <3>1
  <2> QED
    BY <1>1, <1>2, <2>1, BothAreNewer
<1>8. HopelessInv'
  <2>1. Ingest!Eyes \in SUBSET Sides
    BY DEF Ingest!Eyes, Sides
  <2> QED
    BY <1>1, <1>5, <2>1, HopelessStays
<1>9. CountInv'
  <2>1. /\ monitor.rejected \in Nat /\ monitor.accepted \in Nat /\ seen.delivered \in Nat
        /\ seen.failed \in Nat /\ n = seen.failed + 1 /\ stats.masked \in Nat
    BY <1>2 DEF Monitor, Seen, Counters, n
  <2>2. CountInv
    BY DEF IngestInv
  <2> QED
    BY <1>3, <1>5, <1>6, <2>1, <2>2 DEF CountInv
<1>10. MonitorInv'
  BY <1>1, <1>5, AcceptedInv
<1>11. Ingest!DeliveredSteadily'
  BY <1>5 DEF IngestInv, Ingest!DeliveredSteadily, Ingest!AbsDiff
<1>12. sbs' \in Nat
  BY <1>1, <1>2
<1> QED
  BY <1>3, <1>5, <1>6, <1>7, <1>8, <1>9, <1>10, <1>11, <1>12 DEF IngestInv

(* The pair is accepted, masked, packed and handed on.                     *)
LEMMA DeliverStep ==
  ASSUME IngestInv, Ingest!Deliver
  PROVE  IngestInv'
<1> DEFINE g == IF Ingest!Regular THEN seen.regular + 1 ELSE 0
           n == seen.delivered + 1
           b == IF monitor.last = 0 THEN Period ELSE Ingest!PairTime - monitor.last
<1>1. /\ monitor' = Ingest!Accepted /\ sbs' = Ingest!PairTime
      /\ stats' = [stats EXCEPT !.masked = @ + 2] /\ Ingest!Fetch(Ingest!Eyes) /\ Ingest!Good
      /\ seen' = [seen EXCEPT !.delivered = n, !.refused = 0, !.regular = g, !.between = b]
  BY DEF Ingest!Deliver
<1>2. TimeInv /\ monitor \in Monitor /\ stats \in Counters /\ seen \in Seen /\ sbs \in Nat
  BY DEF IngestInv
<1>3. /\ monitor' \in Monitor /\ monitor'.last = Ingest!PairTime
      /\ monitor'.accepted = monitor.accepted + 1 /\ monitor'.rejected = monitor.rejected
  BY <1>1, AcceptedMonitor
<1>4. /\ Ingest!PairTime \in Nat /\ monitor.last \in Nat /\ Ingest!PairTime > monitor.last
      /\ Period \in Nat /\ MaxError \in Nat
  BY <1>2, PairOfTimes, IngestConstants
<1>5. g \in Nat /\ n \in Nat /\ 0 \in Nat /\ b \in Int
  BY <1>2, <1>4, RegularCounted DEF Seen
<1>6. Ingest!AbsDiff(b, Period) <= MaxError
  <2>1. CASE monitor.last = 0
    BY <1>4, <2>1 DEF Ingest!AbsDiff
  <2>2. CASE monitor.last # 0
    <3>1. Ingest!AbsDiff(Ingest!AbsDiff(Ingest!PairTime, monitor.last), Period) <= MaxError
      BY <1>1, <2>2 DEF Ingest!Good, Ingest!PeriodError
    <3>2. Ingest!AbsDiff(Ingest!PairTime, monitor.last) = b
      BY <1>4, <2>2 DEF Ingest!AbsDiff
    <3> QED
      BY <3>1, <3>2
  <2> QED
    BY <2>1, <2>2
<1> HIDE DEF g, n, b
<1>7. /\ seen' \in Seen
      /\ seen'.delivered = n /\ seen'.failed = seen.failed
      /\ seen'.unfit = seen.unfit /\ seen'.between = b
      /\ seen'.refused = 0 /\ seen'.dropped = seen.dropped
  <2>1. seen' \in Seen
    BY <1>1, <1>2, <1>5, Zenon DEF Seen
  <2> QED
    BY <1>1, <1>2, <2>1 DEF Seen
<1>8. stats' \in Counters /\ stats'.dropped = stats.dropped /\ stats'.masked = stats.masked + 2
  BY <1>1, <1>2 DEF Counters
<1>9. TimeInv'
  <2>1. sbs' <= monitor'.last /\ monitor'.last \in {monitor.last, Ingest!PairTime}
    BY <1>1, <1>3, <1>4
  <2> QED
    BY <1>1, <1>2, <2>1, BothAreNewer
<1>10. HopelessInv'
  <2>1. Ingest!Eyes \in SUBSET Sides
    BY DEF Ingest!Eyes, Sides
  <2> QED
    BY <1>1, <1>7, <2>1, HopelessStays
<1>11. CountInv'
  <2>1. /\ monitor.rejected \in Nat /\ monitor.accepted \in Nat /\ seen.delivered \in Nat
        /\ seen.failed \in Nat /\ n = seen.delivered + 1 /\ stats.masked \in Nat
    BY <1>2 DEF Monitor, Seen, Counters, n
  <2>2. CountInv
    BY DEF IngestInv
  <2> QED
    BY <1>3, <1>7, <1>8, <2>1, <2>2 DEF CountInv
<1>12. MonitorInv'
  BY <1>1, <1>7, AcceptedInv
<1>13. Ingest!DeliveredSteadily'
  BY <1>6, <1>7 DEF Ingest!DeliveredSteadily, Ingest!AbsDiff
<1>14. sbs' \in Nat
  BY <1>1, <1>4
<1> QED
  BY <1>3, <1>7, <1>8, <1>9, <1>10, <1>11, <1>12, <1>13, <1>14 DEF IngestInv

(* At the start there is a first frame of each eye.                        *)
LEMMA IngestInit == Ingest!Init => IngestInv
<1> SUFFICES ASSUME Ingest!Init PROVE IngestInv
  OBVIOUS
<1>1. /\ ts \in [Sides -> {Period, Period + Jitter}]
      /\ monitor = [state |-> "WARMING", last |-> 0, good |-> 0, bad |-> 0, accepted |-> 0, rejected |-> 0]
      /\ stats = [dropped |-> 0, masked |-> 0] /\ sbs = 0
      /\ seen = [delivered |-> 0, failed |-> 0, unfit |-> 0, between |-> Period, regular |-> 1,
                 refused |-> 0, dropped |-> [e \in Sides |-> 0]]
  BY DEF Ingest!Init, Ingest!Eyes, Sides
<1>2. /\ Period \in Nat \ {0} /\ Jitter \in 0 .. Period - 1 /\ MaxError \in 0 .. Period - 1
      /\ MaxLost \in Nat /\ Horizon \in Nat
  BY IngestConstants
<1>3. Period \in 1 .. LastSlot /\ Period + Jitter \in 1 .. LastSlot
  <2> DEFINE x == Period * (Horizon + MaxLost)
  <2>1. LastSlot = x + 2 * Period /\ x \in Nat
    BY <1>2, SMT DEF LastSlot
  <2> HIDE DEF x
  <2> QED
    BY <1>2, <2>1
<1>4. monitor \in Monitor /\ stats \in Counters /\ sbs \in Nat
  BY <1>1 DEF Monitor, MonitorState, Counters
<1>5. seen \in Seen
  <2> DEFINE d == [e \in Sides |-> 0]
  <2>1. d \in [Sides -> Nat] /\ Period \in Int
    BY <1>2
  <2> HIDE DEF d
  <2> QED
    BY <1>1, <2>1 DEF Seen, d
<1>6. TimeInv
  <2>1. ts \in [Sides -> Nat] /\ \A e \in Sides : ts[e] \in 1 .. LastSlot
    BY <1>1, <1>2, <1>3
  <2>2. ts["left"] \in 1 .. LastSlot
    BY <2>1 DEF Sides
  <2> QED
    BY <1>1, <2>1, <2>2 DEF TimeInv
<1>7. HopelessInv
  BY <1>1 DEF HopelessInv
<1>8. CountInv /\ MonitorInv
  BY <1>1 DEF CountInv, MonitorInv
<1>9. Ingest!DeliveredSteadily
  BY <1>1, <1>2 DEF Ingest!DeliveredSteadily, Ingest!AbsDiff
<1> QED
  BY <1>4, <1>5, <1>6, <1>7, <1>8, <1>9 DEF IngestInv

(* Every step of the pairing keeps all that.                               *)
LEMMA IngestNext == IngestInv /\ [Ingest!Next]_ingestVars => IngestInv'
<1> SUFFICES ASSUME IngestInv, [Ingest!Next]_ingestVars PROVE IngestInv'
  OBVIOUS
<1>1. CASE Ingest!Next
  BY <1>1, DropOlderStep, RejectStep, RefuseStep, FailStep, DeliverStep DEF Ingest!Next
<1>2. CASE UNCHANGED ingestVars
  <2>1. ts' = ts /\ monitor' = monitor /\ stats' = stats /\ sbs' = sbs /\ seen' = seen
    BY <1>2 DEF ingestVars
  <2> QED
    BY <2>1 DEF IngestInv, TimeInv, HopelessInv, CountInv, MonitorInv, LastSlot,
       Ingest!DeliveredSteadily, Ingest!AbsDiff, Ingest!Other
<1> QED
  BY <1>1, <1>2

(* It is what the run checks.                                              *)
LEMMA IngestIsJudged == IngestInv => PairsAreJudged
<1> SUFFICES ASSUME IngestInv PROVE PairsAreJudged
  OBVIOUS
<1>1. TimeInv /\ monitor \in Monitor /\ stats \in Counters /\ seen \in Seen
  BY DEF IngestInv
<1>2. Ingest!TypeOK
  <2>1. ts \in [Ingest!Eyes -> 1 .. Period * (Horizon + MaxLost + 2)]
    BY <1>1 DEF TimeInv, LastSlot, Ingest!Eyes, Sides
  <2>2. monitor.state \in {"UNLOCKED", "WARMING", "LOCKED", "DEGRADED"}
    BY <1>1 DEF Monitor, MonitorState
  <2>3. stats.dropped \in Nat /\ stats.masked \in Nat
    BY <1>1 DEF Counters
  <2> QED
    BY <1>1, <2>1, <2>2, <2>3 DEF Ingest!TypeOK, IngestInv, TimeInv, MonitorInv
<1>3. Ingest!OnlyHopelessAreDropped
  BY DEF Ingest!OnlyHopelessAreDropped, IngestInv, HopelessInv, Ingest!Eyes, Sides
<1>4. Ingest!CountsAddUp
  <2>1. monitor.accepted \in Nat /\ seen.delivered \in Nat /\ stats.masked \in Nat
    BY <1>1 DEF Monitor, Seen, Counters
  <2> QED
    BY <2>1 DEF Ingest!CountsAddUp, IngestInv, CountInv
<1>5. Ingest!LockIsEarned
  BY DEF Ingest!LockIsEarned, IngestInv, MonitorInv
<1> QED
  BY <1>2, <1>3, <1>4, <1>5 DEF PairsAreJudged, IngestInv

(* A step is one of the pairing, or leaves it alone.                       *)
LEMMA PlaysIngest == [MCNext]_allVars => [Ingest!Next]_ingestVars
<1>1. ASSUME MCNext PROVE [Ingest!Next]_ingestVars
  BY <1>1 DEF MCNext
<1>2. ASSUME UNCHANGED allVars PROVE UNCHANGED ingestVars
  BY <1>2 DEF allVars
<1> QED
  BY <1>1, <1>2

(* The run's property of the pairing, for every camera rate, tolerance,    *)
(* delay and loss: what is dropped, delivered, counted and called locked.  *)
THEOREM PairsJudged == MCSpec => []PairsAreJudged
<1>1. MCInit => IngestInv
  BY IngestInit DEF MCInit
<1>2. IngestInv /\ [MCNext]_allVars => IngestInv'
  BY PlaysIngest, IngestNext
<1> QED
  BY <1>1, <1>2, IngestIsJudged, PTL DEF MCSpec, allVars
=============================================================================
