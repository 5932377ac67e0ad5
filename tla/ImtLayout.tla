------------------------------ MODULE ImtLayout ------------------------------
(***************************************************************************)
(* How one encoded frame becomes IMT datagrams: fixed-size chunks, FEC     *)
(* groups whose size follows the weight of their first chunk, one XOR      *)
(* parity per group.  Pure operators, shared by the packetizer, by the     *)
(* assembler and by the compositions.                                      *)
(*                                                                         *)
(* A byte is an element of the group (SUBSET Token, symmetric difference): *)
(* the byte at offset o of frame f is the singleton {<<f, o>>}, zero is    *)
(* the empty set, and XOR is exact for every content at once.              *)
(***************************************************************************)
EXTENDS Integers, FiniteSets, Sequences, SequencesExt

CONSTANT MaxPayload   \* largest payload of a datagram, in bytes (1200 by default)

ASSUME MaxPayloadAssumption == MaxPayload \in Nat \ {0}

(* fec_index of a parity datagram. *)
ParityIndex == 255

(* Weights given as NULL: every group takes the default size. *)
Uniform == << >>

ChunkCount(size) == (size + MaxPayload - 1) \div MaxPayload

(* Every chunk but the last is full, so its size follows from the frame    *)
(* size alone; sender and receiver compute it independently.               *)
ChunkSize(size, index) ==
  LET remaining == size - index * MaxPayload
  IN  IF remaining > MaxPayload THEN MaxPayload ELSE remaining

(* Defect: the heaviest chunks get a group each. *)
FecGroupSizeOfOne(weight) ==
  CASE weight >= 192 -> 1
    [] weight >= 128 /\ weight < 192 -> 4
    [] weight >= 64 /\ weight < 128 -> 8
    [] OTHER -> 16

FecGroupSize(weight) ==
  CASE weight >= 192 -> 2
    [] weight >= 128 /\ weight < 192 -> 4
    [] weight >= 64 /\ weight < 128 -> 8
    [] OTHER -> 16

(* A frame is [seq, size, keyframe, weights, content]; weights[c + 1] is   *)
(* the normalized weight of chunk c, or weights = Uniform.  content names  *)
(* the bytes: two transmissions of one encoded frame share it.             *)
WantedGroupSize(frame, chunk) ==
  IF frame.weights = Uniform THEN 8 ELSE FecGroupSize(frame.weights[chunk + 1])

GroupSize(frame, chunk) ==
  LET left == ChunkCount(frame.size) - chunk
  IN  IF WantedGroupSize(frame, chunk) > left THEN left ELSE WantedGroupSize(frame, chunk)

-----------------------------------------------------------------------------
(* XOR of the bytes f[i]: the tokens that occur an odd number of times.    *)
XorBytes(f) ==
  {t \in UNION {f[i] : i \in DOMAIN f} :
      Cardinality({i \in DOMAIN f : t \in f[i]}) % 2 = 1}

(* A payload read past its end yields the zero byte (zero extension). *)
ByteAt(payload, j) == IF j <= Len(payload) THEN payload[j] ELSE {}

ChunkBytes(frame, chunk) ==
  [j \in 1 .. ChunkSize(frame.size, chunk) |->
      {<<frame.content, chunk * MaxPayload + j>>}]

ParityBytes(frame, base, count) ==
  [j \in 1 .. ChunkSize(frame.size, base) |->
      XorBytes([i \in base .. base + count - 1 |-> ByteAt(ChunkBytes(frame, i), j)])]

-----------------------------------------------------------------------------
Slice(frame, group, base, count, i) ==
  [type |-> "SLICE", seq |-> frame.seq, keyframe |-> frame.keyframe,
   size |-> frame.size, chunks |-> ChunkCount(frame.size), chunk |-> base + i,
   group |-> group, groupSize |-> count, index |-> i,
   payload |-> ChunkBytes(frame, base + i)]

ParityOf(frame, group, base, count, parity) ==
  [type |-> "PARITY", seq |-> frame.seq, keyframe |-> frame.keyframe,
   size |-> frame.size, chunks |-> ChunkCount(frame.size), chunk |-> base,
   group |-> group, groupSize |-> count, index |-> ParityIndex,
   payload |-> parity]

(* Reference definition of a transmission: GroupBase(frame)[g] is the first *)
(* chunk of group g, ChunkCount when the frame has fewer groups.            *)
GroupBase(frame) ==
  LET n == ChunkCount(frame.size)
      base[g \in 0 .. n] ==
        IF g = 0 THEN 0
        ELSE IF base[g - 1] = n THEN n
        ELSE base[g - 1] + GroupSize(frame, base[g - 1])
  IN  base

Groups(frame) ==
  LET base == GroupBase(frame)
  IN  {g \in DOMAIN base : base[g] < ChunkCount(frame.size)}

GroupDatagrams(frame, g) ==
  LET base  == GroupBase(frame)[g]
      count == GroupSize(frame, base)
  IN  [i \in 1 .. count + 1 |->
         IF i <= count THEN Slice(frame, g, base, count, i - 1)
         ELSE ParityOf(frame, g, base, count, ParityBytes(frame, base, count))]

FrameLayout(frame) ==
  FlattenSeq([g \in 1 .. Cardinality(Groups(frame)) |-> GroupDatagrams(frame, g - 1)])

FrameDatagrams(frame) == Range(FrameLayout(frame))

-----------------------------------------------------------------------------
(* What a receiver checks of a datagram by itself: it has a place in its   *)
(* group, its group has a place in its frame, its payload has the size the *)
(* frame size implies.                                                     *)
BaseIndex(d) == IF d.type = "PARITY" THEN d.chunk ELSE d.chunk - d.index

Placed(d) ==
  /\ d.type = "PARITY" => d.index = ParityIndex
  /\ d.type = "SLICE" =>
       /\ d.chunk < d.chunks
       /\ d.index # ParityIndex
       /\ d.index < d.groupSize
       /\ d.index <= d.chunk
  /\ d.groupSize # 0
  /\ BaseIndex(d) + d.groupSize <= d.chunks
  /\ Len(d.payload) = ChunkSize(d.size, d.chunk)
=============================================================================
