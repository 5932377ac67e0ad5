--------------------------- MODULE DatagramsProofs ---------------------------
(***************************************************************************)
(* Proofs about what is put on the wire, for all values of the constants.  *)
(*                                                                         *)
(* ImtPacketizer: whatever the sender puts on the wire is well placed for  *)
(* a receiver, the batch neither overflows nor survives its frame, and     *)
(* what goes out is the layout that the reference definition of ImtLayout  *)
(* gives the frame.  MpqSender: packet numbers have no gaps, an end means  *)
(* a whole frame, and any single loss can be repaired.  EyeStream: its     *)
(* proofs, for the behaviours of this module that play it.                 *)
(*                                                                         *)
(* AP lends its lemmas about layouts: they say nothing of the receiver's   *)
(* state, which anything may stand for here.                               *)
(***************************************************************************)
EXTENDS MCDatagrams, TLAPS, SequenceTheorems, FiniteSetTheorems

AP == INSTANCE ImtAssemblerProofs
  WITH MaxFrameSize <- 1, MapCapacity <- 1, Datagrams <- {}, Token <- {},
       latest <- wire, active <- frame, received <- {}, chunksReceived <- index,
       groups <- << >>, staging <- parity, retryEnabled <- FALSE, retryPending <- FALSE,
       retrySeq <- 0, incomplete <- frame, map <- batch,
       LastOld <- 0, LastNew <- 0, RestartSizes <- {}, traffic <- part, network <- wire,
       SentOnce <- {}, SentAgain <- {}, SentWithMaps <- {}, Maps <- {},
       process <- 1, seq <- 0, calm <- FALSE, encoded <- {}

SP == INSTANCE EyeStreamProofs WITH pc <- eye_pc

(* While emitting, the groups already closed hold two chunks or more each. *)
GroupsArePairs == pc = "emit" => 2 * group <= chunk

IInv ==
  /\ PacketTypeOK
  /\ GroupsArePairs
  /\ BatchIsBounded
  /\ WireFits

-----------------------------------------------------------------------------
(* What a division leaves over is less than the divisor.                   *)
LEMMA Division ==
  ASSUME NEW a \in Nat, NEW p \in Nat, p > 0
  PROVE  /\ a \div p \in Nat
         /\ p * (a \div p) <= a
         /\ a < p * (a \div p) + p
<1>1. a \div p \in Int /\ a \div p >= 0
  BY SMT
<1>2. p * (a \div p) <= a
  BY SMT
<1>3. a < p * (a \div p) + p
  BY SMT
<1> QED
  BY <1>1, <1>2, <1>3, SMT

(* The chunk count is the number of payloads that cover the frame.         *)
LEMMA ChunkCountBounds ==
  ASSUME NEW size \in Nat
  PROVE  /\ ChunkCount(size) \in Nat
         /\ size > 0 => ChunkCount(size) > 0
         /\ size > 0 => (ChunkCount(size) - 1) * MaxPayload < size
<1> DEFINE q == ChunkCount(size)
<1>1. MaxPayload \in Nat /\ MaxPayload > 0
  BY MaxPayloadAssumption
<1>2. /\ q \in Nat
      /\ MaxPayload * q <= size + MaxPayload - 1
      /\ size + MaxPayload - 1 < MaxPayload * q + MaxPayload
  <2>1. size + MaxPayload - 1 \in Nat
    BY <1>1, SMT
  <2> QED
    BY <1>1, <2>1, Division DEF ChunkCount
<1> HIDE DEF q
<1>3. ASSUME size > 0, q = 0 PROVE FALSE
  <2>1. MaxPayload * q = 0
    BY <1>1, <1>3, SMT
  <2> QED
    BY <1>1, <1>2, <1>3, <2>1, SMT
<1>4. size > 0 => (q - 1) * MaxPayload < size
  <2>1. (q - 1) * MaxPayload = MaxPayload * q - MaxPayload /\ MaxPayload * q \in Int
    BY <1>1, <1>2, SMT
  <2> QED
    BY <1>1, <1>2, <2>1, SMT
<1> USE DEF q
<1> QED
  BY <1>2, <1>3, <1>4

(* Every chunk of a frame has at least one byte.                           *)
LEMMA ChunkSizePositive ==
  ASSUME NEW size \in Nat, size > 0, NEW c \in Nat, c < ChunkCount(size)
  PROVE  ChunkSize(size, c) \in Nat /\ ChunkSize(size, c) > 0
<1> DEFINE n == ChunkCount(size)
<1>1. MaxPayload \in Nat /\ MaxPayload > 0
  BY MaxPayloadAssumption
<1>2. n \in Nat /\ c <= n - 1 /\ (n - 1) * MaxPayload < size
  <2>1. n \in Nat /\ c < n /\ (n - 1) * MaxPayload < size
    BY ChunkCountBounds
  <2> HIDE DEF n
  <2> QED
    BY <2>1
<1>3. c * MaxPayload <= (n - 1) * MaxPayload
  <2> HIDE DEF n
  <2> QED
    BY <1>1, <1>2, SMT
<1>4. c * MaxPayload \in Int /\ (n - 1) * MaxPayload \in Int
  <2> HIDE DEF n
  <2> QED
    BY <1>1, <1>2, SMT
<1>5. size - c * MaxPayload > 0
  <2> HIDE DEF n
  <2> QED
    BY <1>2, <1>3, <1>4, SMT
<1> QED
  BY <1>1, <1>4, <1>5, SMT DEF ChunkSize

(* A group is never empty, never leaves the frame, and only the last one   *)
(* may hold a single chunk.                                                *)
LEMMA GroupSizeBounds ==
  ASSUME NEW f \in Frames, Sendable(f), NEW c \in Nat, c < ChunkCount(f.size)
  PROVE  /\ GroupSize(f, c) \in 1 .. 16
         /\ c + GroupSize(f, c) <= ChunkCount(f.size)
         /\ GroupSize(f, c) >= 2 \/ c + GroupSize(f, c) = ChunkCount(f.size)
<1>1. ChunkCount(f.size) \in Nat
  BY FramesAssumption, ChunkCountBounds
<1>2. WantedGroupSize(f, c) \in {2, 4, 8, 16}
  <2>1. CASE f.weights = Uniform
    BY <2>1 DEF WantedGroupSize
  <2>2. CASE f.weights # Uniform
    <3>1. c + 1 \in 1 .. Len(f.weights) /\ f.weights \in Seq(0 .. 255)
      BY <1>1, <2>2, FramesAssumption DEF Sendable
    <3>2. f.weights[c + 1] \in 0 .. 255
      BY <3>1, ElementOfSeq
    <3>3. \A w \in 0 .. 255 : FecGroupSize(w) \in {2, 4, 8, 16}
      BY SMT DEF FecGroupSize
    <3> QED
      BY <2>2, <3>2, <3>3 DEF WantedGroupSize
  <2> QED
    BY <2>1, <2>2
<1> QED
  BY <1>1, <1>2, SMT DEF GroupSize

-----------------------------------------------------------------------------
(* The bytes of a chunk.                                                   *)
LEMMA ChunkBytesType ==
  ASSUME NEW f \in Frames, f.size > 0, NEW c \in Nat, c < ChunkCount(f.size)
  PROVE  ChunkBytes(f, c) \in PacketPayload /\ Len(ChunkBytes(f, c)) = ChunkSize(f.size, c)
<1> DEFINE n == ChunkSize(f.size, c)
<1>1. n \in Nat
  BY ChunkSizePositive, FramesAssumption
<1>2. \A j \in 1 .. n : <<f.content, c * MaxPayload + j>> \in PacketToken
  <2>1. \A j \in 1 .. n : c * MaxPayload + j \in Nat
    <3>1. c * MaxPayload \in Nat
      BY MaxPayloadAssumption, SMT
    <3> HIDE DEF n
    <3> QED
      BY <1>1, <3>1
  <2> QED
    BY <2>1 DEF PacketToken
<1>3. ChunkBytes(f, c) \in [1 .. n -> SUBSET PacketToken]
  BY <1>2 DEF ChunkBytes
<1> HIDE DEF n
<1>4. ChunkBytes(f, c) \in PacketPayload /\ Len(ChunkBytes(f, c)) = n
  BY <1>1, <1>3 DEF PacketPayload
<1> QED
  BY <1>4 DEF n

(* XOR makes no bytes the frames do not have.                              *)
LEMMA XorType ==
  ASSUME NEW f, \A i \in DOMAIN f : f[i] \subseteq PacketToken
  PROVE  XorBytes(f) \subseteq PacketToken
BY DEF XorBytes

(* A parity buffer keeps its length whatever is added to it.               *)
LEMMA AccumulateType ==
  ASSUME parity \in PacketPayload, NEW added \in PacketPayload
  PROVE  Accumulate(added) \in PacketPayload /\ Len(Accumulate(added)) = Len(parity)
<1>1. \A p \in PacketPayload, j \in Nat : j > 0 => ByteAt(p, j) \subseteq PacketToken
  BY DEF ByteAt, PacketPayload
<1>2. DOMAIN parity = 1 .. Len(parity) /\ Len(parity) \in Nat
  BY DEF PacketPayload
<1>3. ASSUME NEW j \in 1 .. Len(parity)
      PROVE  XorBytes(<< parity[j], ByteAt(added, j) >>) \subseteq PacketToken
  <2>1. parity[j] \subseteq PacketToken
    BY <1>3, ElementOfSeq DEF PacketPayload
  <2>2. ByteAt(added, j) \subseteq PacketToken
    BY <1>1, <1>2, <1>3
  <2>3. \A i \in DOMAIN << parity[j], ByteAt(added, j) >> :
           << parity[j], ByteAt(added, j) >>[i] \subseteq PacketToken
    BY <2>1, <2>2
  <2> QED
    BY <2>3, XorType
<1>4. Accumulate(added) \in [1 .. Len(parity) -> SUBSET PacketToken]
  BY <1>2, <1>3 DEF Accumulate
<1> QED
  BY <1>2, <1>4 DEF PacketPayload

(* A fresh parity buffer is as long as its group's first chunk.            *)
LEMMA ZerosType ==
  ASSUME NEW f \in Frames, f.size > 0, NEW c \in Nat, c < ChunkCount(f.size)
  PROVE  Zeros(f, c) \in PacketPayload /\ Len(Zeros(f, c)) = ChunkSize(f.size, c)
<1> DEFINE n == ChunkSize(f.size, c)
<1>1. n \in Nat
  BY ChunkSizePositive, FramesAssumption
<1>2. Zeros(f, c) \in [1 .. n -> SUBSET PacketToken]
  BY DEF Zeros
<1> HIDE DEF n
<1>3. Zeros(f, c) \in PacketPayload /\ Len(Zeros(f, c)) = n
  BY <1>1, <1>2 DEF PacketPayload
<1> QED
  BY <1>3 DEF n

-----------------------------------------------------------------------------
(* The datagram about to be emitted is well placed.                        *)
LEMMA Position ==
  ASSUME IInv, pc = "emit"
  PROVE  /\ frame \in Frames /\ Sendable(frame) /\ frame.size > 0 /\ frame.size \in Nat
         /\ chunk \in Nat /\ chunk < Chunks /\ Chunks \in Nat
         /\ Chunks = ChunkCount(frame.size)
         /\ group \in Nat /\ 2 * group <= chunk
         /\ group < (Chunks + 1) \div 2
         /\ GroupSize(frame, chunk) \in 1 .. 16
         /\ chunk + GroupSize(frame, chunk) <= Chunks
         /\ GroupSize(frame, chunk) >= 2 \/ chunk + GroupSize(frame, chunk) = Chunks
         /\ parity \in PacketPayload /\ Len(parity) = ChunkSize(frame.size, chunk)
         /\ index \in Nat /\ index <= GroupSize(frame, chunk)
<1>1. /\ frame \in Frames /\ Sendable(frame)
      /\ chunk \in Nat /\ chunk < Chunks /\ group \in Nat /\ 2 * group <= chunk
      /\ parity \in PacketPayload /\ Len(parity) = ChunkSize(frame.size, chunk)
      /\ index \in Nat /\ index <= GroupSize(frame, chunk)
  BY DEF IInv, PacketTypeOK, GroupsArePairs
<1>2. frame.size \in Nat /\ frame.size > 0
  BY <1>1, FramesAssumption DEF Sendable
<1>3. Chunks \in Nat /\ Chunks = ChunkCount(frame.size)
  BY <1>2, ChunkCountBounds DEF Chunks
<1>4. /\ GroupSize(frame, chunk) \in 1 .. 16
      /\ chunk + GroupSize(frame, chunk) <= Chunks
      /\ GroupSize(frame, chunk) >= 2 \/ chunk + GroupSize(frame, chunk) = Chunks
  BY <1>1, <1>3, GroupSizeBounds
<1>5. group < (Chunks + 1) \div 2
  BY <1>1, <1>3, SMT
<1> QED
  BY <1>1, <1>2, <1>3, <1>4, <1>5

(* A slice datagram stays within the payload limit.                        *)
LEMMA SliceFits ==
  ASSUME IInv, pc = "emit", index < GroupSize(frame, chunk)
  PROVE  /\ CurrentSlice \in Datagram /\ Fits(CurrentSlice)
         /\ CurrentSlice.payload \in PacketPayload
<1> DEFINE c == chunk + index
           n == GroupSize(frame, chunk)
<1>1. /\ c \in Nat /\ c < Chunks /\ n \in 1 .. 16 /\ index \in 0 .. 15 /\ index < n
      /\ c - index = chunk
  <2>1. /\ chunk \in Nat /\ Chunks \in Nat /\ index \in Nat /\ index < n
        /\ n \in 1 .. 16 /\ chunk + n <= Chunks
    BY Position
  <2> HIDE DEF n
  <2> QED
    BY <2>1
<1>2. ChunkBytes(frame, c) \in PacketPayload
      /\ Len(ChunkBytes(frame, c)) = ChunkSize(frame.size, c)
  BY <1>1, Position, ChunkBytesType
<1>3. frame.seq \in Nat /\ frame.keyframe \in BOOLEAN
  BY Position, FramesAssumption
<1>4. CurrentSlice =
        [type |-> "SLICE", seq |-> frame.seq, keyframe |-> frame.keyframe,
         size |-> frame.size, chunks |-> Chunks, chunk |-> c, group |-> group,
         groupSize |-> n, index |-> index, payload |-> ChunkBytes(frame, c)]
  BY DEF CurrentSlice, Slice, Chunks
<1> HIDE DEF c, n
<1>5. CurrentSlice \in Datagram
  BY <1>1, <1>2, <1>3, <1>4, Position DEF Datagram
<1>6. Placed(CurrentSlice)
  <2>1. BaseIndex(CurrentSlice) + CurrentSlice.groupSize <= CurrentSlice.chunks
    BY <1>1, <1>4, Position DEF BaseIndex, n
  <2>2. Len(CurrentSlice.payload) = ChunkSize(CurrentSlice.size, CurrentSlice.chunk)
    BY <1>2, <1>4
  <2>3. /\ CurrentSlice.chunk < CurrentSlice.chunks
        /\ CurrentSlice.index # ParityIndex
        /\ CurrentSlice.index < CurrentSlice.groupSize
        /\ CurrentSlice.index <= CurrentSlice.chunk
        /\ CurrentSlice.groupSize # 0
    <3>1. index <= c /\ index # 255 /\ n # 0
      <4>1. chunk \in Nat /\ index \in Nat
        BY Position
      <4> QED
        BY <1>1, <4>1 DEF c
    <3> QED
      BY <1>1, <1>4, <3>1 DEF ParityIndex
  <2>4. CurrentSlice.type = "SLICE"
    BY <1>4
  <2> QED
    BY <2>1, <2>2, <2>3, <2>4 DEF Placed
<1>7. Fits(CurrentSlice)
  BY <1>4, <1>6, Position DEF Fits
<1> QED
  BY <1>2, <1>4, <1>5, <1>7

(* A parity datagram stays within the payload limit.                       *)
LEMMA ParityFits ==
  ASSUME IInv, pc = "emit"
  PROVE  CurrentParity \in Datagram /\ Fits(CurrentParity)
<1> DEFINE n == GroupSize(frame, chunk)
<1>1. frame.seq \in Nat /\ frame.keyframe \in BOOLEAN
  BY Position, FramesAssumption
<1> DEFINE k == ParityIndex
<1>2. CurrentParity =
        [type |-> "PARITY", seq |-> frame.seq, keyframe |-> frame.keyframe,
         size |-> frame.size, chunks |-> Chunks, chunk |-> chunk, group |-> group,
         groupSize |-> n, index |-> k, payload |-> parity]
  BY DEF CurrentParity, ParityOf, Chunks
<1>3. n \in 1 .. 16 /\ chunk + n <= Chunks /\ k \in Nat /\ k = ParityIndex
  BY Position DEF ParityIndex
<1> HIDE DEF n, k
<1>4. CurrentParity \in Datagram
  <2>1. /\ frame.size \in Nat /\ Chunks \in Nat /\ chunk \in Nat /\ group \in Nat
        /\ n \in Nat /\ k \in Nat /\ parity \in PacketPayload
    BY <1>3, Position
  <2> QED
    BY <1>1, <1>2, <2>1 DEF Datagram
<1>5. Placed(CurrentParity)
  BY <1>2, <1>3, Position DEF Placed, BaseIndex
<1>6. Fits(CurrentParity)
  BY <1>2, <1>5, Position DEF Fits
<1> QED
  BY <1>4, <1>6

-----------------------------------------------------------------------------
(* Handing a prefix of a good batch to the kernel, or keeping it.          *)
LEMMA TransmitKeeps ==
  ASSUME IInv, NEW b \in Seq(Datagram), \A i \in DOMAIN b : Fits(b[i]),
         NEW n \in 0 .. Len(b), Transmit(b, n)
  PROVE  /\ wire' \in Seq(Datagram) /\ batch' = << >> /\ batch' \in Seq(Datagram)
         /\ WireFits' /\ Len(batch') = 0
<1>1. SubSeq(b, 1, n) \in Seq(Datagram) /\ Len(SubSeq(b, 1, n)) = n
      /\ \A i \in 1 .. n : SubSeq(b, 1, n)[i] = b[i]
  BY SubSeqProperties
<1>2. wire \in Seq(Datagram) /\ \A i \in DOMAIN wire : Fits(wire[i])
  BY DEF IInv, PacketTypeOK, WireFits
<1>3. wire' \in Seq(Datagram) /\ batch' = << >>
  BY <1>1, <1>2, ConcatProperties DEF Transmit
<1>4. \A i \in DOMAIN wire' : Fits(wire'[i])
  <2> DEFINE s == SubSeq(b, 1, n)
  <2>1. wire' = wire \o s
    BY DEF Transmit
  <2>2. \A i \in 1 .. n : Fits(s[i])
    BY <1>1
  <2>3. s \in Seq(Datagram) /\ Len(s) = n
    BY <1>1
  <2> HIDE DEF s
  <2>4. /\ Len(wire') = Len(wire) + n
        /\ \A i \in 1 .. Len(wire) + n :
             wire'[i] = IF i <= Len(wire) THEN wire[i] ELSE s[i - Len(wire)]
    BY <1>2, <2>1, <2>3, ConcatProperties
  <2>5. ASSUME NEW i \in 1 .. Len(wire) + n PROVE Fits(wire'[i])
    <3>1. CASE i <= Len(wire)
      BY <1>2, <2>4, <2>5, <3>1
    <3>2. CASE ~(i <= Len(wire))
      <4>1. i - Len(wire) \in 1 .. n
        BY <1>2, <2>5, <3>2
      <4> QED
        BY <2>2, <2>4, <2>5, <3>2, <4>1
    <3> QED
      BY <3>1, <3>2
  <2>6. DOMAIN wire' = 1 .. Len(wire) + n
    BY <1>3, <2>4
  <2> QED
    BY <2>5, <2>6
<1>5. \A i \in DOMAIN batch' : Fits(batch'[i])
  BY <1>3
<1> QED
  BY <1>3, <1>4, <1>5 DEF WireFits

(* A datagram that fits extends a batch of datagrams that fit.             *)
LEMMA AppendKeeps ==
  ASSUME IInv, NEW d \in Datagram, Fits(d)
  PROVE  /\ Append(batch, d) \in Seq(Datagram)
         /\ Len(Append(batch, d)) = Len(batch) + 1
         /\ \A i \in DOMAIN Append(batch, d) : Fits(Append(batch, d)[i])
<1>1. batch \in Seq(Datagram) /\ \A i \in DOMAIN batch : Fits(batch[i])
  BY DEF IInv, PacketTypeOK, WireFits
<1> QED
  BY <1>1

(* A datagram is batched, or the batch it fills goes out: within the       *)
(* limits.                                                                 *)
LEMMA EmittedKeeps ==
  ASSUME IInv, NEW d \in Datagram, Fits(d), Emitted(d)
  PROVE  /\ wire' \in Seq(Datagram) /\ batch' \in Seq(Datagram)
         /\ WireFits' /\ Len(batch') < BatchSize
<1> DEFINE b == Append(batch, d)
<1>1. b \in Seq(Datagram) /\ \A i \in DOMAIN b : Fits(b[i])
  BY AppendKeeps
<1>2. CASE Len(b) < BatchSize /\ batch' = b /\ UNCHANGED wire
  <2> HIDE DEF b
  <2> QED
    BY <1>1, <1>2 DEF IInv, PacketTypeOK, WireFits
<1>3. CASE Len(b) >= BatchSize /\ Transmit(b, Len(b))
  <2>1. Len(b) \in 0 .. Len(b)
    BY <1>1
  <2> HIDE DEF b
  <2> QED
    BY <1>1, <1>3, <2>1, TransmitKeeps, SenderAssumption
<1> QED
  BY <1>2, <1>3 DEF Emitted

-----------------------------------------------------------------------------
(* Before the first frame there is nothing in the batch.                   *)
LEMMA InitIInv == PacketizeInit => IInv
<1> SUFFICES ASSUME PacketizeInit PROVE IInv
  OBVIOUS
<1>1. << >> \in PacketPayload /\ << >> \in Seq(Datagram) /\ Len(<< >>) = 0
  BY DEF PacketPayload
<1> QED
  BY <1>1, SenderAssumption DEF PacketizeInit, IInv, PacketTypeOK, GroupsArePairs, BatchIsBounded, WireFits

(* Every step of the packetizer keeps the invariant.                       *)
LEMMA NextIInv == IInv /\ [PacketizeNext]_packetVars => IInv'
<1> SUFFICES ASSUME IInv, [PacketizeNext]_packetVars PROVE IInv'
  OBVIOUS
<1>1. << >> \in PacketPayload /\ << >> \in Seq(Datagram) /\ Len(<< >>) = 0 /\ 0 < BatchSize
  BY SenderAssumption DEF PacketPayload
<1>2. ASSUME NEW f \in Frames, Begin(f) PROVE IInv'
  <2>1. f.size \in Nat /\ f.size > 0
    BY <1>2, FramesAssumption DEF Begin, Sendable
  <2>2. ChunkCount(f.size) \in Nat /\ 0 < ChunkCount(f.size)
    BY <2>1, ChunkCountBounds
  <2>3. GroupSize(f, 0) \in 1 .. 16
    BY <1>2, <2>2, GroupSizeBounds DEF Begin
  <2>4. Zeros(f, 0) \in PacketPayload /\ Len(Zeros(f, 0)) = ChunkSize(f.size, 0)
    BY <2>1, <2>2, ZerosType
  <2>5. batch = << >> /\ batch' = << >> /\ wire' = << >>
    BY <1>2 DEF Begin, IInv, BatchIsBounded
  <2>6. PacketTypeOK'
    BY <1>1, <1>2, <2>2, <2>3, <2>4, <2>5 DEF Begin, PacketTypeOK, Chunks
  <2> QED
    BY <1>1, <1>2, <2>5, <2>6 DEF Begin, IInv, GroupsArePairs, BatchIsBounded, WireFits
<1>3. ASSUME NEW f \in Frames, Reject(f) PROVE IInv'
  BY <1>1, <1>3 DEF Reject, IInv, PacketTypeOK, GroupsArePairs, BatchIsBounded, WireFits
<1>4. CASE EmitSlice
  <2>1. /\ CurrentSlice \in Datagram /\ Fits(CurrentSlice)
        /\ CurrentSlice.payload \in PacketPayload
    BY <1>4, SliceFits DEF EmitSlice
  <2>2. /\ wire' \in Seq(Datagram) /\ batch' \in Seq(Datagram)
        /\ WireFits' /\ Len(batch') < BatchSize
    BY <1>4, <2>1, EmittedKeeps DEF EmitSlice
  <2>3. parity' \in PacketPayload /\ Len(parity') = Len(parity)
    BY <1>4, <2>1, Position, AccumulateType DEF EmitSlice
  <2>4. index' \in Nat /\ index' <= GroupSize(frame, chunk)
    <3>1. /\ index' = index + 1 /\ index < GroupSize(frame, chunk) /\ index \in Nat
          /\ GroupSize(frame, chunk) \in 1 .. 16
      BY <1>4, Position DEF EmitSlice
    <3> QED
      BY <3>1, SMT
  <2>5. PacketTypeOK'
    BY <1>4, <2>2, <2>3, <2>4 DEF EmitSlice, PacketTypeOK, IInv, Chunks
  <2> QED
    BY <1>4, <2>2, <2>5 DEF EmitSlice, IInv, GroupsArePairs, BatchIsBounded
<1>5. CASE EmitParity
  <2>1. /\ wire' \in Seq(Datagram) /\ batch' \in Seq(Datagram)
        /\ WireFits' /\ Len(batch') < BatchSize
    BY <1>5, ParityFits, EmittedKeeps DEF EmitParity
  <2>2. /\ frame' = frame /\ index' = 0 /\ group' = group + 1 /\ pc = "emit"
        /\ chunk' = chunk + GroupSize(frame, chunk) /\ result' = result
    BY <1>5 DEF EmitParity
  <2>3. chunk' \in Nat /\ group' \in Nat /\ chunk' <= Chunks
    <3>1. /\ chunk \in Nat /\ group \in Nat /\ GroupSize(frame, chunk) \in 1 .. 16
          /\ chunk + GroupSize(frame, chunk) <= Chunks
      BY <2>2, Position
    <3> QED
      BY <2>2, <3>1, SMT
  <2>4. CASE chunk' < Chunks
    <3>1. pc' = "emit" /\ parity' = Zeros(frame, chunk')
      BY <1>5, <2>2, <2>4 DEF EmitParity
    <3>2. parity' \in PacketPayload /\ Len(parity') = ChunkSize(frame.size, chunk')
      BY <2>2, <2>3, <2>4, <3>1, Position, ZerosType
    <3>3. GroupSize(frame, chunk') \in 1 .. 16
      BY <2>2, <2>3, <2>4, Position, GroupSizeBounds
    <3>4. 2 * group' <= chunk'
      <4>1. GroupSize(frame, chunk) >= 2
        BY <2>2, <2>3, <2>4, Position
      <4>2. /\ chunk \in Nat /\ group \in Nat /\ 2 * group <= chunk
            /\ GroupSize(frame, chunk) \in 1 .. 16
        BY <2>2, Position
      <4> QED
        BY <2>2, <4>1, <4>2, SMT
    <3>5. Sendable(frame') /\ Chunks' = Chunks
      BY <2>2, Position DEF Chunks
    <3>6. PacketTypeOK'
      <4>1. index' <= GroupSize(frame', chunk')
        BY <2>2, <3>3
      <4> QED
        BY <2>1, <2>2, <2>3, <2>4, <3>1, <3>2, <3>5, <4>1 DEF PacketTypeOK, IInv
    <3> QED
      BY <2>1, <3>1, <3>4, <3>6 DEF IInv, GroupsArePairs, BatchIsBounded
  <2>5. CASE ~(chunk' < Chunks)
    <3>1. pc' = "flush" /\ parity' = parity
      BY <1>5, <2>2, <2>5 DEF EmitParity
    <3> QED
      BY <2>1, <2>2, <2>3, <3>1 DEF IInv, PacketTypeOK, GroupsArePairs, BatchIsBounded
  <2> QED
    BY <2>4, <2>5
<1>6. CASE EmitFails
  <2> DEFINE d == IF index < GroupSize(frame, chunk) THEN CurrentSlice ELSE CurrentParity
             b == Append(batch, d)
  <2>1. d \in Datagram /\ Fits(d)
    BY <1>6, SliceFits, ParityFits DEF EmitFails
  <2>2. PICK n \in 0 .. Len(b) - 1 : Transmit(b, n)
    BY <1>6 DEF EmitFails
  <2>3. pc' = "idle" /\ result' = "failed" /\ UNCHANGED << frame, chunk, group, index, parity >>
    BY <1>6 DEF EmitFails
  <2> HIDE DEF d
  <2>4. b \in Seq(Datagram) /\ \A i \in DOMAIN b : Fits(b[i])
    BY <2>1, AppendKeeps
  <2>5. n \in 0 .. Len(b)
    BY <2>4
  <2> HIDE DEF b
  <2>6. /\ wire' \in Seq(Datagram) /\ batch' = << >> /\ batch' \in Seq(Datagram)
        /\ WireFits' /\ Len(batch') = 0
    BY <2>2, <2>4, <2>5, TransmitKeeps
  <2> QED
    BY <1>1, <2>3, <2>6 DEF IInv, PacketTypeOK, GroupsArePairs, BatchIsBounded
<1>7. CASE FinalFlush
  <2>1. PICK n \in 0 .. Len(batch) :
          Transmit(batch, n) /\ result' = IF n = Len(batch) THEN "ok" ELSE "failed"
    BY <1>7 DEF FinalFlush
  <2>2. pc' = "idle" /\ UNCHANGED << frame, chunk, group, index, parity >>
    BY <1>7 DEF FinalFlush
  <2>3. batch \in Seq(Datagram) /\ \A i \in DOMAIN batch : Fits(batch[i])
    BY DEF IInv, PacketTypeOK, WireFits
  <2>4. /\ wire' \in Seq(Datagram) /\ batch' = << >> /\ batch' \in Seq(Datagram)
        /\ WireFits' /\ Len(batch') = 0
    BY <2>1, <2>3, TransmitKeeps
  <2> QED
    BY <1>1, <2>1, <2>2, <2>4 DEF IInv, PacketTypeOK, GroupsArePairs, BatchIsBounded
<1>8. CASE UNCHANGED packetVars
  BY <1>8 DEF packetVars, IInv, PacketTypeOK, GroupsArePairs, BatchIsBounded, WireFits, Chunks
<1> QED
  BY <1>2, <1>3, <1>4, <1>5, <1>6, <1>7, <1>8 DEF PacketizeNext

(* The inductive invariant holds throughout.                               *)
THEOREM Invariant == PacketizeSpec => []IInv
BY InitIInv, NextIInv, PTL DEF PacketizeSpec

(* Type correctness, with the loop's position inside its frame.            *)
THEOREM TypeCorrect == PacketizeSpec => []PacketTypeOK
<1>1. IInv => PacketTypeOK
  BY DEF IInv
<1> QED
  BY <1>1, Invariant, PTL

(* Every datagram that goes out finds a place at the receiver, for every   *)
(* frame size, weighting and payload size.                                 *)
THEOREM AlwaysFits == PacketizeSpec => []WireFits
<1>1. IInv => WireFits
  BY DEF IInv
<1> QED
  BY <1>1, Invariant, PTL

(* The batch stays within its array and is empty between frames.           *)
THEOREM BatchBounded == PacketizeSpec => []BatchIsBounded
<1>1. IInv => BatchIsBounded
  BY DEF IInv
<1> QED
  BY <1>1, Invariant, PTL

(* All that is indexed or sent is in range.                                *)
THEOREM InRange == PacketizeSpec => []EverythingFits
<1>1. PacketTypeOK /\ BatchIsBounded /\ WireFits => EverythingFits
  BY DEF EverythingFits
<1> QED
  BY <1>1, TypeCorrect, BatchBounded, AlwaysFits, PTL

-----------------------------------------------------------------------------
(* The layout of a frame is the same in AP.                                *)
LEMMA SameLayout ==
  ASSUME NEW f
  PROVE  /\ \A n : AP!ChunkCount(n) = ChunkCount(n)
         /\ \A n, c : AP!ChunkSize(n, c) = ChunkSize(n, c)
         /\ \A c : AP!ChunkBytes(f, c) = ChunkBytes(f, c)
         /\ \A c : AP!GroupSize(f, c) = GroupSize(f, c)
         /\ AP!GroupBase(f) = GroupBase(f) /\ AP!Groups(f) = Groups(f)
<1>1. \A n : AP!ChunkCount(n) = ChunkCount(n)
  BY DEF AP!ChunkCount, ChunkCount
<1>2. \A n, c : AP!ChunkSize(n, c) = ChunkSize(n, c)
  BY DEF AP!ChunkSize, ChunkSize
<1>3. \A c : AP!ChunkBytes(f, c) = ChunkBytes(f, c)
  BY <1>2 DEF AP!ChunkBytes, ChunkBytes
<1>4. \A w : AP!FecGroupSize(w) = FecGroupSize(w)
  BY DEF AP!FecGroupSize, FecGroupSize
<1>5. \A c : AP!GroupSize(f, c) = GroupSize(f, c)
  BY <1>1, <1>4 DEF AP!GroupSize, GroupSize, AP!WantedGroupSize, WantedGroupSize,
    AP!Uniform, Uniform
<1>6. AP!GroupBase(f) = GroupBase(f)
  BY <1>1, <1>5 DEF AP!GroupBase, GroupBase
<1>7. AP!Groups(f) = Groups(f)
  BY <1>1, <1>6 DEF AP!Groups, Groups
<1> QED
  BY <1>1, <1>2, <1>3, <1>5, <1>6, <1>7

(* So are the XOR of bytes, and a row of sequences.                        *)
LEMMA SameXor ==
  /\ \A b : AP!XorBytes(b) = XorBytes(b)
  /\ \A p, j : AP!ByteAt(p, j) = ByteAt(p, j)
  /\ \A q : AP!FlattenSeq(q) = FlattenSeq(q)
  /\ \A S : AP!Cardinality(S) = Cardinality(S)
<1>1. \A S : AP!Cardinality(S) = Cardinality(S)
  BY DEF AP!Cardinality, Cardinality
<1>2. \A b : AP!XorBytes(b) = XorBytes(b)
  BY <1>1 DEF AP!XorBytes, XorBytes
<1>3. \A p, j : AP!ByteAt(p, j) = ByteAt(p, j)
  BY DEF AP!ByteAt, ByteAt
<1>4. \A q : AP!FlattenSeq(q) = FlattenSeq(q)
  BY DEF AP!FlattenSeq, FlattenSeq
<1> QED
  BY <1>1, <1>2, <1>3, <1>4

(* A frame that passes the checks can be laid out.                         *)
LEMMA CanBeLaidOut ==
  ASSUME NEW f \in Frames, Sendable(f)
  PROVE  AP!HandedOver(f)
<1>1. f.size \in Nat /\ f.size > 0 /\ f.weights \in Seq(0 .. 255)
  BY FramesAssumption DEF Sendable
<1>2. f.weights # << >> => Len(f.weights) >= AP!ChunkCount(f.size)
  BY SameLayout DEF Sendable, Uniform
<1> QED
  BY <1>1, <1>2 DEF AP!HandedOver, AP!Uniform

(* Groups follow each other through the frame, from its first chunk to its *)
(* last.                                                                   *)
LEMMA GroupsInARow ==
  ASSUME NEW f \in Frames, Sendable(f)
  PROVE  /\ Cardinality(Groups(f)) \in Nat /\ Cardinality(Groups(f)) > 0
         /\ Groups(f) = 0 .. Cardinality(Groups(f)) - 1
         /\ GroupBase(f)[0] = 0
         /\ \A g \in Groups(f) :
              /\ GroupBase(f)[g] \in 0 .. ChunkCount(f.size) - 1
              /\ GroupBase(f)[g + 1] = GroupBase(f)[g] + GroupSize(f, GroupBase(f)[g])
              /\ IF GroupBase(f)[g + 1] < ChunkCount(f.size)
                 THEN g + 1 \in Groups(f) ELSE Cardinality(Groups(f)) = g + 1
<1> USE MaxPayloadAssumption
<1> DEFINE n == ChunkCount(f.size)
           K == Cardinality(Groups(f))
<1>1. AP!HandedOver(f)
  BY CanBeLaidOut
<1>2. K \in Nat /\ K > 0 /\ Groups(f) = 0 .. K - 1
  BY <1>1, SameLayout, SameXor, AP!GroupsAreNumbered
<1>3. /\ DOMAIN GroupBase(f) = 0 .. n /\ GroupBase(f)[0] = 0
      /\ \A g \in 1 .. n : GroupBase(f)[g] = AP!NextBase(f, GroupBase(f)[g - 1])
  BY <1>1, SameLayout, AP!GroupBaseUnfolds
<1>4. \A g \in Groups(f) : GroupBase(f)[g] \in 0 .. n - 1 /\ g \in Nat /\ 2 * g <= GroupBase(f)[g]
  BY <1>1, SameLayout, AP!GroupFacts
<1>5. n \in Nat
  BY FramesAssumption, ChunkCountBounds
<1>6. Groups(f) = {g \in 0 .. n : GroupBase(f)[g] < n}
  BY <1>3 DEF Groups
<1> HIDE DEF n, K
<1>7. ASSUME NEW g \in Groups(f)
      PROVE  /\ GroupBase(f)[g + 1] = GroupBase(f)[g] + GroupSize(f, GroupBase(f)[g])
             /\ IF GroupBase(f)[g + 1] < n THEN g + 1 \in Groups(f) ELSE K = g + 1
  <2>1. g + 1 \in 1 .. n /\ (g + 1) - 1 = g /\ GroupBase(f)[g] # n
    BY <1>4, <1>5
  <2>2. GroupBase(f)[g + 1] = AP!NextBase(f, GroupBase(f)[g])
    BY <1>3, <2>1
  <2>3. GroupBase(f)[g + 1] = GroupBase(f)[g] + GroupSize(f, GroupBase(f)[g])
    BY <2>1, <2>2, SameLayout DEF AP!NextBase, n
  <2>4. GroupBase(f)[g + 1] < n => g + 1 \in Groups(f)
    BY <1>5, <1>6, <2>1
  <2>5. ~(GroupBase(f)[g + 1] < n) => K = g + 1
    BY <1>2, <1>6
  <2> QED
    BY <2>3, <2>4, <2>5
<1> QED
  BY <1>2, <1>3, <1>4, <1>7 DEF n, K

-----------------------------------------------------------------------------
(* A prefix, element by element.                                           *)
LEMMA PrefixIs ==
  ASSUME NEW S, NEW s \in Seq(S), NEW t \in Seq(S)
  PROVE  IsPrefix(s, t) <=> Len(s) <= Len(t) /\ \A i \in 1 .. Len(s) : s[i] = t[i]
<1>1. Len(s) \in Nat /\ Len(t) \in Nat /\ SubSeq(s, 1, Len(s)) = s
  OBVIOUS
<1>2. ASSUME Len(s) <= Len(t)
      PROVE  SubSeq(t, 1, Len(s)) = s <=> \A i \in 1 .. Len(s) : s[i] = t[i]
  <2>1. /\ SubSeq(t, 1, Len(s)) \in Seq(S) /\ Len(SubSeq(t, 1, Len(s))) = Len(s)
        /\ \A i \in 1 .. Len(s) : SubSeq(t, 1, Len(s))[i] = t[i]
    BY <1>1, <1>2
  <2> DEFINE u == SubSeq(t, 1, Len(s))
  <2> HIDE DEF u
  <2>2. (\A i \in 1 .. Len(s) : s[i] = t[i]) => u = s
    BY <2>1, SeqEqual DEF u
  <2>3. u = s => \A i \in 1 .. Len(s) : s[i] = t[i]
    BY <2>1 DEF u
  <2> QED
    BY <2>2, <2>3 DEF u
<1> QED
  BY <1>1, <1>2 DEF IsPrefix

(* A prefix of a prefix is one.                                            *)
LEMMA PrefixOfPrefix ==
  ASSUME NEW S, NEW s \in Seq(S), NEW t \in Seq(S), NEW u \in Seq(S),
         IsPrefix(s, t), IsPrefix(t, u)
  PROVE  IsPrefix(s, u) /\ Len(s) <= Len(t) /\ Len(t) <= Len(u)
<1>1. Len(s) \in Nat /\ Len(t) \in Nat /\ Len(u) \in Nat
  OBVIOUS
<1>2. /\ Len(s) <= Len(t) /\ \A i \in 1 .. Len(s) : s[i] = t[i]
      /\ Len(t) <= Len(u) /\ \A i \in 1 .. Len(t) : t[i] = u[i]
  BY PrefixIs
<1>3. Len(s) <= Len(u) /\ \A i \in 1 .. Len(s) : s[i] = u[i]
  BY <1>1, <1>2
<1> QED
  BY <1>2, <1>3, PrefixIs

(* A sequence followed by the beginning of another.                        *)
LEMMA PrefixOfRow ==
  ASSUME NEW S, NEW s \in Seq(S), NEW t \in Seq(S), NEW n \in 0 .. Len(t)
  PROVE  /\ s \o SubSeq(t, 1, n) \in Seq(S) /\ Len(s \o SubSeq(t, 1, n)) = Len(s) + n
         /\ IsPrefix(s \o SubSeq(t, 1, n), s \o t)
         /\ n = Len(t) => s \o SubSeq(t, 1, n) = s \o t
<1> DEFINE u == SubSeq(t, 1, n)
<1>1. Len(t) \in Nat /\ n \in Nat /\ n <= Len(t) /\ Len(s) \in Nat
  OBVIOUS
<1>2. u \in Seq(S) /\ Len(u) = n /\ \A i \in 1 .. n : u[i] = t[i]
  BY <1>1
<1>3. n = Len(t) => u = t
  BY <1>1
<1> HIDE DEF u
<1>4. /\ s \o u \in Seq(S) /\ Len(s \o u) = Len(s) + n
      /\ \A i \in 1 .. Len(s) + n : (s \o u)[i] = IF i <= Len(s) THEN s[i] ELSE u[i - Len(s)]
  BY <1>2, ConcatProperties
<1>5. /\ s \o t \in Seq(S) /\ Len(s \o t) = Len(s) + Len(t)
      /\ \A i \in 1 .. Len(s) + Len(t) : (s \o t)[i] = IF i <= Len(s) THEN s[i] ELSE t[i - Len(s)]
  BY ConcatProperties
<1>6. ASSUME NEW i \in 1 .. Len(s) + n PROVE (s \o u)[i] = (s \o t)[i]
  <2>1. i \in 1 .. Len(s) + Len(t) /\ (~(i <= Len(s)) => i - Len(s) \in 1 .. n)
    BY <1>1
  <2> QED
    BY <1>2, <1>4, <1>5, <2>1
<1>7. Len(s \o u) <= Len(s \o t)
  BY <1>1, <1>4, <1>5
<1>8. IsPrefix(s \o u, s \o t)
  BY <1>4, <1>5, <1>6, <1>7, PrefixIs
<1> QED
  BY <1>3, <1>4, <1>8 DEF u

(* ... and the next element of that other.                                 *)
LEMMA RowGoesOn ==
  ASSUME NEW S, NEW s \in Seq(S), NEW t \in Seq(S), NEW n \in Nat, n < Len(t)
  PROVE  Append(s \o SubSeq(t, 1, n), t[n + 1]) = s \o SubSeq(t, 1, n + 1)
<1>1. SubSeq(t, 1, n + 1) = Append(SubSeq(t, 1, n), t[n + 1]) /\ SubSeq(t, 1, n) \in Seq(S)
  <2>1. Len(t) \in Nat /\ n + 1 \in 1 .. Len(t)
    OBVIOUS
  <2>2. SubSeq(t, 1, n + 1) \in Seq(S) /\ Len(SubSeq(t, 1, n + 1)) = n + 1
        /\ \A i \in 1 .. n + 1 : SubSeq(t, 1, n + 1)[i] = t[i]
    BY <2>1
  <2>3. SubSeq(t, 1, n) \in Seq(S) /\ Len(SubSeq(t, 1, n)) = n
        /\ \A i \in 1 .. n : SubSeq(t, 1, n)[i] = t[i]
    BY <2>1
  <2> DEFINE a == SubSeq(t, 1, n)
             b == SubSeq(t, 1, n + 1)
  <2>4. t[n + 1] \in S
    BY <2>1, ElementOfSeq
  <2> HIDE DEF a, b
  <2>5. /\ Append(a, t[n + 1]) \in Seq(S) /\ Len(Append(a, t[n + 1])) = n + 1
        /\ \A i \in 1 .. n + 1 : Append(a, t[n + 1])[i] = IF i <= n THEN a[i] ELSE t[n + 1]
    BY <2>3, <2>4 DEF a
  <2>6. \A i \in 1 .. n + 1 : b[i] = Append(a, t[n + 1])[i]
    BY <2>2, <2>3, <2>5 DEF a, b
  <2>7. b = Append(a, t[n + 1])
    BY <2>2, <2>5, <2>6, SeqEqual DEF b
  <2> QED
    BY <2>3, <2>7 DEF a, b
<1> DEFINE a == SubSeq(t, 1, n)
           x == t[n + 1]
<1>2. x \in S
  BY ElementOfSeq
<1> HIDE DEF a, x
<1>3. Append(s \o a, x) = s \o Append(a, x)
  BY <1>1, <1>2, SMTT(20) DEF a
<1> QED
  BY <1>1, <1>3 DEF a, x

-----------------------------------------------------------------------------
(* The datagrams of a group, its slices and then its parity.               *)
LEMMA GroupDatagramsAre ==
  ASSUME NEW f \in Frames, Sendable(f), NEW g \in Groups(f),
         NEW base, base = GroupBase(f)[g], NEW count, count = GroupSize(f, base)
  PROVE  /\ GroupDatagrams(f, g) \in Seq(Datagram)
         /\ Len(GroupDatagrams(f, g)) = count + 1 /\ count \in Nat
         /\ \A i \in 0 .. count - 1 :
              GroupDatagrams(f, g)[i + 1] = Slice(f, g, base, count, i)
         /\ GroupDatagrams(f, g)[count + 1]
              = ParityOf(f, g, base, count, ParityBytes(f, base, count))
<1> DEFINE n == ChunkCount(f.size)
           k == ParityIndex
<1>1. /\ f.size \in Nat /\ f.size > 0 /\ f.seq \in Nat /\ f.keyframe \in BOOLEAN
      /\ n \in Nat
  BY FramesAssumption, ChunkCountBounds DEF Sendable
<1>2. base \in 0 .. n - 1 /\ g \in Nat
  BY GroupsInARow
<1>3. base \in Nat /\ base < n /\ count \in 1 .. 16 /\ base + count <= n
  BY <1>1, <1>2, GroupSizeBounds
<1>4. GroupDatagrams(f, g) =
        [i \in 1 .. count + 1 |->
           IF i <= count THEN Slice(f, g, base, count, i - 1)
           ELSE ParityOf(f, g, base, count, ParityBytes(f, base, count))]
  BY DEF GroupDatagrams
<1>5. ASSUME NEW i \in 0 .. count - 1 PROVE Slice(f, g, base, count, i) \in Datagram
  <2>1. base + i \in Nat /\ base + i < n /\ i \in Nat
    BY <1>1, <1>3
  <2>2. ChunkBytes(f, base + i) \in PacketPayload
    BY <1>1, <2>1, ChunkBytesType
  <2> HIDE DEF n
  <2> QED
    BY <1>1, <1>2, <1>3, <2>1, <2>2 DEF Slice, Datagram, n
<1>6. ParityOf(f, g, base, count, ParityBytes(f, base, count)) \in Datagram
  <2>1. AP!ParityBytes(f, base, count) \in Seq(SUBSET ({f.content} \X Nat))
    <3>1. /\ AP!HandedOver(f) /\ AP!ChunkCount(f.size) = n
          /\ base \in 0 .. n - 1 /\ count \in Nat /\ base + count <= n
      BY <1>2, <1>3, CanBeLaidOut, SameLayout
    <3> HIDE DEF n
    <3> QED
      BY <3>1, MaxPayloadAssumption, AP!ParityBytesFacts
  <2>2. AP!ParityBytes(f, base, count) = ParityBytes(f, base, count)
    BY SameLayout, SameXor DEF AP!ParityBytes, ParityBytes
  <2>3. Seq(SUBSET ({f.content} \X Nat)) \subseteq PacketPayload
    <3>1. SUBSET ({f.content} \X Nat) \subseteq SUBSET PacketToken
      BY DEF PacketToken
    <3> QED
      BY <3>1, SeqMonotonic DEF PacketPayload
  <2>4. ParityBytes(f, base, count) \in PacketPayload /\ k \in Nat
    BY <2>1, <2>2, <2>3 DEF ParityIndex
  <2> HIDE DEF n, k
  <2> QED
    BY <1>1, <1>2, <1>3, <2>4 DEF ParityOf, Datagram, n, k
<1>7. \A i \in 0 .. count - 1 : GroupDatagrams(f, g)[i + 1] = Slice(f, g, base, count, i)
  <2> TAKE i \in 0 .. count - 1
  <2>1. i + 1 \in 1 .. count + 1 /\ i + 1 <= count /\ (i + 1) - 1 = i
    BY <1>3
  <2> QED
    BY <1>4, <2>1
<1>8. GroupDatagrams(f, g)[count + 1] = ParityOf(f, g, base, count, ParityBytes(f, base, count))
  <2>1. count + 1 \in 1 .. count + 1 /\ ~(count + 1 <= count)
    BY <1>3
  <2> QED
    BY <1>4, <2>1
<1>9. GroupDatagrams(f, g) \in [1 .. count + 1 -> Datagram] /\ count + 1 \in Nat
  <2>1. ASSUME NEW i \in 1 .. count + 1 PROVE GroupDatagrams(f, g)[i] \in Datagram
    <3>1. CASE i <= count
      <4>1. i - 1 \in 0 .. count - 1 /\ (i - 1) + 1 = i
        BY <1>3, <3>1
      <4>2. GroupDatagrams(f, g)[(i - 1) + 1] = Slice(f, g, base, count, i - 1)
        BY <1>7, <4>1
      <4> QED
        BY <1>5, <4>1, <4>2
    <3>2. CASE ~(i <= count)
      BY <1>3, <1>6, <1>8, <3>2
    <3> QED
      BY <3>1, <3>2
  <2>2. DOMAIN GroupDatagrams(f, g) = 1 .. count + 1
    BY <1>4
  <2>3. GroupDatagrams(f, g) = [i \in 1 .. count + 1 |-> GroupDatagrams(f, g)[i]]
    BY <1>4
  <2> QED
    BY <1>3, <2>1, <2>3
<1>10. GroupDatagrams(f, g) \in Seq(Datagram) /\ Len(GroupDatagrams(f, g)) = count + 1
  <2> DEFINE D == GroupDatagrams(f, g)
  <2>1. D \in [1 .. count + 1 -> Datagram] /\ count + 1 \in Nat
    BY <1>9
  <2> HIDE DEF D
  <2> QED
    <3>1. D \in Seq(Datagram) /\ Len(D) = count + 1
      BY <2>1
    <3> QED
      BY <3>1 DEF D
<1> QED
  BY <1>3, <1>7, <1>8, <1>10

-----------------------------------------------------------------------------
(* The datagrams of the first g groups.                                    *)
Begun(f, g) ==
  IF g = 0 THEN << >> ELSE FlattenSeq([i \in 1 .. g |-> GroupDatagrams(f, i - 1)])

(* A layout grows group by group.                                          *)
LEMMA BegunGrows ==
  ASSUME NEW f \in Frames, Sendable(f)
  PROVE  /\ Begun(f, Cardinality(Groups(f))) = FrameLayout(f)
         /\ \A g \in 0 .. Cardinality(Groups(f)) : Begun(f, g) \in Seq(Datagram)
         /\ \A g \in Groups(f) : Begun(f, g + 1) = Begun(f, g) \o GroupDatagrams(f, g)
<1> DEFINE K == Cardinality(Groups(f))
           parts(g) == [i \in 1 .. g |-> GroupDatagrams(f, i - 1)]
<1>1. K \in Nat /\ K > 0 /\ Groups(f) = 0 .. K - 1
  BY GroupsInARow
<1>2. Begun(f, K) = FrameLayout(f)
  BY <1>1 DEF Begun, FrameLayout
<1> HIDE DEF K
<1>3. ASSUME NEW g \in 1 .. K PROVE AP!Parts(parts(g), g, Datagram)
  <2>1. ASSUME NEW i \in 1 .. g PROVE GroupDatagrams(f, i - 1) \in Seq(Datagram)
    <3>1. i - 1 \in Groups(f)
      BY <1>1
    <3> QED
      BY <3>1, GroupDatagramsAre
  <2>2. g \in Nat /\ g > 0
    BY <1>1
  <2> QED
    BY <2>1, <2>2 DEF AP!Parts
<1>4. ASSUME NEW g \in Groups(f) PROVE Begun(f, g + 1) = Begun(f, g) \o GroupDatagrams(f, g)
  <2>1. g \in Nat /\ g + 1 \in 1 .. K /\ GroupDatagrams(f, g) \in Seq(Datagram)
    BY <1>1, GroupDatagramsAre
  <2>2. Begun(f, g + 1) = FlattenSeq(parts(g + 1))
    BY <2>1 DEF Begun
  <2>3. AP!Parts(parts(g + 1), g + 1, Datagram)
    BY <1>3, <2>1
  <2>4. parts(g + 1)[g + 1] = GroupDatagrams(f, g)
    BY <2>1
  <2>5. CASE g = 0
    <3>1. PICK Fr : AP!Rows(Fr, parts(g + 1), g + 1)
      <4> HIDE DEF parts
      <4> QED
        BY <2>3, MaxPayloadAssumption, AP!FlattenUnfolds
    <3>2. FlattenSeq(parts(g + 1)) = parts(g + 1)[1]
      <4> HIDE DEF parts
      <4> QED
        BY <2>5, <3>1, SameXor DEF AP!Rows
    <3>3. Begun(f, g + 1) = GroupDatagrams(f, g) /\ Begun(f, g) = << >>
      BY <2>2, <2>4, <2>5, <3>2 DEF Begun
    <3>4. << >> \o GroupDatagrams(f, g) = GroupDatagrams(f, g)
      BY <2>1
    <3> QED
      BY <3>3, <3>4
  <2>6. CASE g > 0
    <3>1. g + 1 > 1 /\ (g + 1) - 1 = g
      BY <2>1, <2>6
    <3>2. FlattenSeq(parts(g + 1))
            = FlattenSeq([i \in 1 .. (g + 1) - 1 |-> parts(g + 1)[i]]) \o parts(g + 1)[g + 1]
      <4> HIDE DEF parts
      <4>1. AP!FlattenSeq(parts(g + 1))
              = AP!FlattenSeq([i \in 1 .. (g + 1) - 1 |-> parts(g + 1)[i]]) \o parts(g + 1)[g + 1]
        BY <2>3, <3>1, MaxPayloadAssumption, AP!FlattenGrows
      <4> QED
        BY <4>1, SameXor
    <3>3. [i \in 1 .. (g + 1) - 1 |-> parts(g + 1)[i]] = parts(g)
      BY <2>1, <3>1
    <3>4. Begun(f, g) = FlattenSeq(parts(g))
      BY <2>6 DEF Begun
    <3> QED
      BY <2>2, <2>4, <3>2, <3>3, <3>4
  <2> QED
    BY <2>1, <2>5, <2>6
<1>5. ASSUME NEW g \in 0 .. K PROVE Begun(f, g) \in Seq(Datagram)
  <2>1. CASE g = 0
    BY <2>1 DEF Begun
  <2>2. CASE g > 0
    <3>1. g \in 1 .. K /\ g # 0
      BY <1>1, <2>2
    <3>2. AP!Parts(parts(g), g, Datagram)
      BY <1>3, <3>1
    <3>3. FlattenSeq(parts(g)) \in Seq(Datagram)
      <4> HIDE DEF parts
      <4> QED
        BY <3>2, SameXor, MaxPayloadAssumption, AP!FlattenFacts
    <3> QED
      BY <3>1, <3>3 DEF Begun
  <2> QED
    BY <1>1, <2>1, <2>2
<1> QED
  BY <1>2, <1>4, <1>5 DEF K

(* What has been begun is the beginning of the frame's layout.             *)
LEMMA BegunIsPrefix ==
  ASSUME NEW f \in Frames, Sendable(f), NEW g \in 0 .. Cardinality(Groups(f))
  PROVE  IsPrefix(Begun(f, g), FrameLayout(f)) /\ FrameLayout(f) \in Seq(Datagram)
<1> DEFINE K == Cardinality(Groups(f))
           L == FrameLayout(f)
           T == {n \in Nat : n <= K => IsPrefix(Begun(f, K - n), L)}
<1>1. K \in Nat /\ K > 0 /\ Groups(f) = 0 .. K - 1
  BY GroupsInARow
<1>2. /\ Begun(f, K) = L /\ \A h \in 0 .. K : Begun(f, h) \in Seq(Datagram)
      /\ \A h \in 0 .. K - 1 : Begun(f, h + 1) = Begun(f, h) \o GroupDatagrams(f, h)
  BY <1>1, BegunGrows
<1>3. \A h \in 0 .. K - 1 : GroupDatagrams(f, h) \in Seq(Datagram)
  BY <1>1, GroupDatagramsAre
<1> HIDE DEF K, L
<1>4. L \in Seq(Datagram)
  BY <1>1, <1>2
<1>5. 0 \in T
  <2>1. IsPrefix(L, L)
    BY <1>4, PrefixIs
  <2> QED
    BY <1>1, <1>2, <2>1
<1>6. ASSUME NEW n \in Nat, n \in T PROVE n + 1 \in T
  <2>1. SUFFICES ASSUME n + 1 <= K PROVE IsPrefix(Begun(f, K - (n + 1)), L)
    OBVIOUS
  <2> DEFINE h == K - (n + 1)
  <2>2. h \in 0 .. K - 1 /\ h \in 0 .. K /\ h + 1 = K - n /\ h + 1 \in 0 .. K
    BY <1>1, <2>1
  <2> HIDE DEF h
  <2>3. IsPrefix(Begun(f, h + 1), L)
    BY <1>1, <1>6, <2>1, <2>2
  <2>4. /\ Begun(f, h) \in Seq(Datagram) /\ GroupDatagrams(f, h) \in Seq(Datagram)
        /\ Begun(f, h + 1) \in Seq(Datagram)
        /\ Begun(f, h + 1) = Begun(f, h) \o GroupDatagrams(f, h)
    BY <1>2, <1>3, <2>2
  <2>5. IsPrefix(Begun(f, h), Begun(f, h + 1))
    <3> DEFINE s == Begun(f, h)
               t == GroupDatagrams(f, h)
    <3>1. s \in Seq(Datagram) /\ t \in Seq(Datagram) /\ Begun(f, h + 1) = s \o t
      BY <2>4
    <3> HIDE DEF s, t
    <3>2. Len(s) <= Len(s \o t) /\ s \o t \in Seq(Datagram)
          /\ \A i \in 1 .. Len(s) : s[i] = (s \o t)[i]
      BY <3>1, ConcatProperties
    <3>3. IsPrefix(s, s \o t)
      BY <3>1, <3>2, PrefixIs
    <3> QED
      BY <3>1, <3>3 DEF s
  <2>6. IsPrefix(Begun(f, h), L)
    BY <1>4, <2>3, <2>4, <2>5, PrefixOfPrefix
  <2> QED
    BY <2>6 DEF h
<1>7. \A n \in Nat : n \in T
  <2> HIDE DEF T
  <2> QED
    BY <1>5, <1>6, MaxPayloadAssumption, AP!Induction
<1>8. g \in 0 .. K
  BY DEF K
<1>9. K - g \in Nat /\ K - g <= K /\ K - (K - g) = g
  BY <1>1, <1>8
<1>10. IsPrefix(Begun(f, g), L)
  <2>1. K - g \in T
    BY <1>7, <1>9
  <2> QED
    BY <1>9, <2>1
<1> QED
  BY <1>4, <1>10 DEF L

(* Within a group too.                                                     *)
LEMMA SentIsPrefix ==
  ASSUME NEW f \in Frames, Sendable(f), NEW g \in Groups(f),
         NEW n \in 0 .. Len(GroupDatagrams(f, g))
  PROVE  /\ Begun(f, g) \o SubSeq(GroupDatagrams(f, g), 1, n) \in Seq(Datagram)
         /\ FrameLayout(f) \in Seq(Datagram)
         /\ IsPrefix(Begun(f, g) \o SubSeq(GroupDatagrams(f, g), 1, n), FrameLayout(f))
<1> DEFINE s == Begun(f, g)
           t == GroupDatagrams(f, g)
<1>1. g \in 0 .. Cardinality(Groups(f)) /\ g + 1 \in 0 .. Cardinality(Groups(f))
  BY GroupsInARow
<1>2. /\ s \in Seq(Datagram) /\ t \in Seq(Datagram) /\ Begun(f, g + 1) = s \o t
      /\ Begun(f, g + 1) \in Seq(Datagram)
  BY <1>1, BegunGrows, GroupDatagramsAre
<1>3. IsPrefix(s \o t, FrameLayout(f)) /\ FrameLayout(f) \in Seq(Datagram)
  BY <1>1, <1>2, BegunIsPrefix
<1>4. n \in 0 .. Len(t)
  OBVIOUS
<1> HIDE DEF s, t
<1>5. s \o SubSeq(t, 1, n) \in Seq(Datagram) /\ IsPrefix(s \o SubSeq(t, 1, n), s \o t)
  BY <1>2, <1>4, PrefixOfRow
<1>6. IsPrefix(s \o SubSeq(t, 1, n), FrameLayout(f))
  BY <1>2, <1>3, <1>5, PrefixOfPrefix
<1> QED
  BY <1>3, <1>5, <1>6 DEF s, t

(* A parity buffer of zeros is the parity of no chunks.                    *)
LEMMA ParityBegins ==
  ASSUME NEW f, NEW c \in Nat
  PROVE  Zeros(f, c) = ParityBytes(f, c, 0)
<1> DEFINE none(j) == [i \in c .. c + 0 - 1 |-> ByteAt(ChunkBytes(f, i), j)]
<1>1. ASSUME NEW j PROVE XorBytes(none(j)) = {}
  <2>1. DOMAIN none(j) = {}
    OBVIOUS
  <2> HIDE DEF none
  <2> QED
    BY <2>1 DEF XorBytes
<1>2. ParityBytes(f, c, 0) = [j \in 1 .. ChunkSize(f.size, c) |-> XorBytes(none(j))]
  BY DEF ParityBytes
<1> HIDE DEF none
<1> QED
  BY <1>1, <1>2 DEF Zeros

(* Adding the next chunk to a group's parity gives the parity of one chunk *)
(* more.                                                                   *)
LEMMA ParityGrows ==
  ASSUME NEW f \in Frames, Sendable(f), NEW c \in Nat, NEW n \in Nat,
         c + n < ChunkCount(f.size)
  PROVE  ParityBytes(f, c, n + 1)
           = [j \in DOMAIN ParityBytes(f, c, n) |->
                XorBytes(<< ParityBytes(f, c, n)[j], ByteAt(ChunkBytes(f, c + n), j) >>)]
<1> DEFINE size == ChunkSize(f.size, c)
           chunks(k, j) == [i \in c .. c + k - 1 |-> ByteAt(ChunkBytes(f, i), j)]
<1>1. \A k \in Nat : ParityBytes(f, c, k) = [j \in 1 .. size |-> XorBytes(chunks(k, j))]
  BY DEF ParityBytes
<1>2. ASSUME NEW j \in 1 .. size
      PROVE  XorBytes(<< XorBytes(chunks(n, j)), ByteAt(ChunkBytes(f, c + n), j) >>)
               = XorBytes(chunks(n + 1, j))
  <2> DEFINE b == chunks(n + 1, j)
             S == c .. c + n - 1
             m == c + n
  <2>1. DOMAIN b = S \cup {m} /\ m \notin S
    OBVIOUS
  <2>2. b[m] = ByteAt(ChunkBytes(f, m), j) /\ [i \in S |-> b[i]] = chunks(n, j)
    OBVIOUS
  <2>3. AP!Disjoint(b)
    <3>1. /\ AP!HandedOver(f) /\ ChunkCount(f.size) \in Nat
          /\ AP!ChunkCount(f.size) = ChunkCount(f.size)
      BY CanBeLaidOut, SameLayout, FramesAssumption, ChunkCountBounds
    <3>2. /\ c \in 0 .. AP!ChunkCount(f.size) - 1 /\ n + 1 \in Nat
          /\ c + (n + 1) <= AP!ChunkCount(f.size)
      BY <3>1
    <3>3. size \in Nat
      BY <3>1, <3>2, ChunkSizePositive, FramesAssumption DEF Sendable
    <3>4. j \in Nat \ {0}
      <4> HIDE DEF size
      <4> QED
        BY <3>3
    <3>5. AP!Disjoint([i \in c .. c + (n + 1) - 1 |-> AP!ByteAt(AP!ChunkBytes(f, i), j)])
      BY <3>1, <3>2, <3>4, MaxPayloadAssumption, AP!BytesAreDisjoint
    <3>6. b = [i \in c .. c + (n + 1) - 1 |-> AP!ByteAt(AP!ChunkBytes(f, i), j)]
      BY SameXor, SameLayout
    <3> QED
      BY <3>5, <3>6
  <2> HIDE DEF b, S, m
  <2>4. AP!XorBytes(<< AP!XorBytes([i \in S |-> b[i]]), b[m] >>) = AP!XorBytes(b)
    BY <2>1, <2>3, MaxPayloadAssumption, AP!XorGrows
  <2>5. XorBytes(<< XorBytes([i \in S |-> b[i]]), b[m] >>) = XorBytes(b)
    BY <2>4, SameXor
  <2> HIDE DEF chunks
  <2> QED
    BY <2>2, <2>5 DEF b, m
<1> HIDE DEF chunks, size
<1>3. /\ ParityBytes(f, c, n) = [j \in 1 .. size |-> XorBytes(chunks(n, j))]
      /\ ParityBytes(f, c, n + 1) = [j \in 1 .. size |-> XorBytes(chunks(n + 1, j))]
  <2>1. n \in Nat /\ n + 1 \in Nat
    OBVIOUS
  <2> QED
    BY <1>1, <2>1
<1>4. DOMAIN ParityBytes(f, c, n) = 1 .. size
      /\ \A j \in 1 .. size : ParityBytes(f, c, n)[j] = XorBytes(chunks(n, j))
  BY <1>3
<1>5. ASSUME NEW j \in 1 .. size
      PROVE  XorBytes(<< ParityBytes(f, c, n)[j], ByteAt(ChunkBytes(f, c + n), j) >>)
               = XorBytes(chunks(n + 1, j))
  BY <1>2, <1>4
<1> QED
  BY <1>3, <1>4, <1>5

-----------------------------------------------------------------------------
(* Inside the loops everything sent or batched is what the layout begins   *)
(* with, and the parity is that of the chunks of the group sent so far;    *)
(* after them it is the whole layout.                                      *)
InTheGroup ==
  /\ group \in Groups(frame)
  /\ chunk = GroupBase(frame)[group]
  /\ parity = ParityBytes(frame, chunk, index)
  /\ wire \o batch = Begun(frame, group) \o SubSeq(GroupDatagrams(frame, group), 1, index)

LaidInv ==
  /\ pc = "emit" => InTheGroup
  /\ pc = "flush" => wire \o batch = FrameLayout(frame)
  /\ SentAsLaidOut

(* Handing over part of a batch leaves a prefix, and all of it only when   *)
(* nothing was refused.                                                    *)
LEMMA CutShort ==
  ASSUME NEW S, NEW s \in Seq(S), NEW b \in Seq(S), NEW t \in Seq(S),
         NEW n \in 0 .. Len(b), IsPrefix(s \o b, t)
  PROVE  /\ s \o SubSeq(b, 1, n) \in Seq(S) /\ IsPrefix(s \o SubSeq(b, 1, n), t)
         /\ n < Len(b) => Len(s \o SubSeq(b, 1, n)) < Len(t)
         /\ n = Len(b) => s \o SubSeq(b, 1, n) = s \o b
<1> DEFINE u == s \o SubSeq(b, 1, n)
           v == s \o b
<1>1. /\ u \in Seq(S) /\ Len(u) = Len(s) + n /\ IsPrefix(u, v)
      /\ n = Len(b) => u = v
  BY PrefixOfRow
<1>2. v \in Seq(S) /\ Len(v) = Len(s) + Len(b) /\ IsPrefix(v, t)
  BY ConcatProperties
<1> HIDE DEF u, v
<1>3. IsPrefix(u, t) /\ Len(v) <= Len(t)
  BY <1>1, <1>2, PrefixOfPrefix
<1>4. n < Len(b) => Len(u) < Len(t)
  <2>1. Len(s) \in Nat /\ Len(b) \in Nat /\ Len(t) \in Nat
    OBVIOUS
  <2> QED
    BY <1>1, <1>2, <1>3, <2>1
<1> QED
  BY <1>1, <1>3, <1>4 DEF u, v

(* A datagram that is batched, or goes out with its batch, follows all the *)
(* others.                                                                 *)
LEMMA EmittedFollows ==
  ASSUME IInv, NEW d \in Datagram, Emitted(d)
  PROVE  wire' \o batch' = Append(wire \o batch, d)
<1> DEFINE b == Append(batch, d)
<1>1. /\ wire \in Seq(Datagram) /\ batch \in Seq(Datagram) /\ b \in Seq(Datagram)
      /\ wire \o b = Append(wire \o batch, d)
  BY DEF IInv, PacketTypeOK
<1>2. CASE Len(b) < BatchSize /\ batch' = b /\ UNCHANGED wire
  BY <1>1, <1>2
<1>3. CASE Len(b) >= BatchSize /\ Transmit(b, Len(b))
  <2> HIDE DEF b
  <2>1. wire' = wire \o SubSeq(b, 1, Len(b)) /\ batch' = << >>
    BY <1>3 DEF Transmit
  <2>2. SubSeq(b, 1, Len(b)) = b /\ wire \o b \in Seq(Datagram)
    BY <1>1
  <2>3. (wire \o b) \o << >> = wire \o b
    BY <2>2
  <2> QED
    BY <1>1, <2>1, <2>2, <2>3
<1> QED
  BY <1>2, <1>3 DEF Emitted

(* The datagram about to be emitted is the next one of the layout.         *)
LEMMA NextIsLaidOut ==
  ASSUME IInv, LaidInv, pc = "emit", NEW d,
         d = IF index < GroupSize(frame, chunk) THEN CurrentSlice ELSE CurrentParity
  PROVE  /\ d \in Datagram
         /\ index + 1 \in 0 .. Len(GroupDatagrams(frame, group))
         /\ Append(wire \o batch, d)
              = Begun(frame, group) \o SubSeq(GroupDatagrams(frame, group), 1, index + 1)
<1> DEFINE count == GroupSize(frame, chunk)
           D == GroupDatagrams(frame, group)
           s == Begun(frame, group)
<1>1. /\ frame \in Frames /\ Sendable(frame) /\ index \in Nat /\ index <= count
      /\ count \in 1 .. 16
  BY Position
<1>2. InTheGroup
  BY DEF LaidInv
<1>3. /\ D \in Seq(Datagram) /\ Len(D) = count + 1
      /\ \A i \in 0 .. count - 1 : D[i + 1] = Slice(frame, group, chunk, count, i)
      /\ D[count + 1] = ParityOf(frame, group, chunk, count, ParityBytes(frame, chunk, count))
  BY <1>1, <1>2, GroupDatagramsAre DEF InTheGroup
<1>4. d = D[index + 1]
  <2>1. CASE index < count
    <3>1. index \in 0 .. count - 1
      BY <1>1, <2>1
    <3>2. D[index + 1] = Slice(frame, group, chunk, count, index)
      BY <1>3, <3>1
    <3> QED
      BY <2>1, <3>2 DEF CurrentSlice
  <2>2. CASE ~(index < count)
    <3>1. index = count
      BY <1>1, <2>2
    <3>2. D[index + 1] = ParityOf(frame, group, chunk, count, parity)
      BY <1>2, <1>3, <3>1 DEF InTheGroup
    <3> QED
      BY <2>2, <3>2 DEF CurrentParity
  <2> QED
    BY <2>1, <2>2
<1>5. s \in Seq(Datagram)
  <2>1. group \in 0 .. Cardinality(Groups(frame))
    BY <1>1, <1>2, GroupsInARow DEF InTheGroup
  <2> QED
    BY <1>1, <2>1, BegunGrows
<1>6. wire \o batch = s \o SubSeq(D, 1, index)
  BY <1>2 DEF InTheGroup
<1> HIDE DEF count, D, s
<1>7. index < Len(D) /\ index + 1 \in 0 .. Len(D) /\ index + 1 \in 1 .. Len(D)
  BY <1>1, <1>3
<1>8. d \in Datagram
  BY <1>3, <1>4, <1>7, ElementOfSeq
<1>9. Append(s \o SubSeq(D, 1, index), D[index + 1]) = s \o SubSeq(D, 1, index + 1)
  BY <1>1, <1>3, <1>5, <1>7, RowGoesOn
<1> QED
  BY <1>4, <1>6, <1>7, <1>8, <1>9 DEF D, s

(* Before the first frame nothing has been sent.                           *)
LEMMA InitLaid == PacketizeInit => LaidInv
BY DEF PacketizeInit, LaidInv, SentAsLaidOut, WireIsPrefix, SentMeansWhole

(* Every step goes on with the layout, or ends the frame as the result     *)
(* says.                                                                   *)
LEMMA NextLaid == IInv /\ LaidInv /\ [PacketizeNext]_packetVars => LaidInv'
<1> SUFFICES ASSUME IInv, LaidInv, [PacketizeNext]_packetVars PROVE LaidInv'
  OBVIOUS
<1>1. ASSUME NEW f \in Frames, Begin(f) PROVE LaidInv'
  <2>1. /\ Sendable(f) /\ pc' = "emit" /\ frame' = f /\ chunk' = 0 /\ group' = 0
        /\ index' = 0 /\ parity' = Zeros(f, 0) /\ wire' = << >> /\ batch' = << >>
    BY <1>1 DEF Begin, IInv, BatchIsBounded
  <2>2. 0 \in Groups(f) /\ GroupBase(f)[0] = 0
    BY <2>1, GroupsInARow
  <2>3. Zeros(f, 0) = ParityBytes(f, 0, 0)
    BY ParityBegins
  <2>4. GroupDatagrams(f, 0) \in Seq(Datagram)
    BY <2>1, <2>2, GroupDatagramsAre
  <2>5. << >> \o << >> = Begun(f, 0) \o SubSeq(GroupDatagrams(f, 0), 1, 0)
    <3>1. SubSeq(GroupDatagrams(f, 0), 1, 0) = << >>
      BY <2>4
    <3> QED
      BY <3>1 DEF Begun
  <2>6. InTheGroup'
    BY <2>1, <2>2, <2>3, <2>5 DEF InTheGroup
  <2>7. IsPrefix(<< >> \o << >>, FrameLayout(f))
    <3>1. 0 \in 0 .. Len(GroupDatagrams(f, 0))
      BY <2>4
    <3> QED
      BY <2>1, <2>2, <2>5, <3>1, SentIsPrefix
  <2> QED
    BY <2>1, <2>6, <2>7 DEF LaidInv, SentAsLaidOut, WireIsPrefix, SentMeansWhole
<1>2. ASSUME NEW f \in Frames, Reject(f) PROVE LaidInv'
  BY <1>2 DEF Reject, LaidInv, SentAsLaidOut, WireIsPrefix, SentMeansWhole
<1> DEFINE D == GroupDatagrams(frame, group)
           s == Begun(frame, group)
           count == GroupSize(frame, chunk)
<1>3. ASSUME pc = "emit"
      PROVE  /\ frame \in Frames /\ Sendable(frame) /\ group \in Groups(frame)
             /\ chunk = GroupBase(frame)[group] /\ chunk \in Nat
             /\ index \in Nat /\ count \in 1 .. 16 /\ chunk + count <= ChunkCount(frame.size)
             /\ ChunkCount(frame.size) \in Nat
             /\ parity = ParityBytes(frame, chunk, index)
  BY <1>3, Position DEF LaidInv, InTheGroup
<1>4. CASE EmitSlice
  <2>1. /\ pc = "emit" /\ pc' = pc /\ index < count /\ Emitted(CurrentSlice)
        /\ parity' = Accumulate(CurrentSlice.payload) /\ index' = index + 1
        /\ frame' = frame /\ chunk' = chunk /\ group' = group
    BY <1>4 DEF EmitSlice
  <2>2. wire' \o batch' = s \o SubSeq(D, 1, index + 1) /\ index + 1 \in 0 .. Len(D)
    <3>1. CurrentSlice = IF index < count THEN CurrentSlice ELSE CurrentParity
      BY <2>1
    <3>2. /\ CurrentSlice \in Datagram /\ index + 1 \in 0 .. Len(D)
          /\ Append(wire \o batch, CurrentSlice) = s \o SubSeq(D, 1, index + 1)
      BY <2>1, <3>1, NextIsLaidOut
    <3>3. wire' \o batch' = Append(wire \o batch, CurrentSlice)
      BY <2>1, <3>2, EmittedFollows
    <3> QED
      BY <3>2, <3>3
  <2>3. parity' = ParityBytes(frame, chunk, index + 1)
    <3>1. CurrentSlice.payload = ChunkBytes(frame, chunk + index)
      BY DEF CurrentSlice, Slice
    <3>2. chunk + index < ChunkCount(frame.size)
      BY <1>3, <2>1
    <3> QED
      BY <1>3, <2>1, <3>1, <3>2, ParityGrows DEF Accumulate
  <2>4. InTheGroup'
    BY <1>3, <2>1, <2>2, <2>3 DEF InTheGroup
  <2>5. IsPrefix(s \o SubSeq(D, 1, index + 1), FrameLayout(frame))
    BY <1>3, <2>1, <2>2, SentIsPrefix
  <2> QED
    BY <2>1, <2>2, <2>4, <2>5 DEF LaidInv, SentAsLaidOut, WireIsPrefix, SentMeansWhole
<1>5. CASE EmitParity
  <2>1. /\ pc = "emit" /\ index = count /\ Emitted(CurrentParity)
        /\ chunk' = chunk + count /\ group' = group + 1 /\ index' = 0
        /\ frame' = frame /\ result' = result
    BY <1>5 DEF EmitParity
  <2>2. /\ D \in Seq(Datagram) /\ Len(D) = count + 1
        /\ group + 1 \in 0 .. Cardinality(Groups(frame))
        /\ Begun(frame, group + 1) = s \o D /\ Begun(frame, group + 1) \in Seq(Datagram)
    <3>1. D \in Seq(Datagram) /\ Len(D) = count + 1
      BY <1>3, <2>1, GroupDatagramsAre
    <3>2. group + 1 \in 0 .. Cardinality(Groups(frame))
      BY <1>3, <2>1, GroupsInARow
    <3> QED
      BY <1>3, <2>1, <3>1, <3>2, BegunGrows
  <2>3. wire' \o batch' = Begun(frame, group + 1)
    <3>1. wire' \o batch' = s \o SubSeq(D, 1, count + 1)
      <4>1. CurrentParity = IF index < count THEN CurrentSlice ELSE CurrentParity
        BY <1>3, <2>1
      <4> QED
        BY <2>1, <4>1, EmittedFollows, NextIsLaidOut
    <3> HIDE DEF D
    <3>2. SubSeq(D, 1, count + 1) = D
      BY <2>2
    <3> QED
      BY <2>2, <3>1, <3>2
  <2>4. chunk' = GroupBase(frame)[group + 1]
    BY <1>3, <2>1, GroupsInARow
  <2>5. IsPrefix(wire' \o batch', FrameLayout(frame))
    BY <1>3, <2>1, <2>2, <2>3, BegunIsPrefix
  <2>6. CASE chunk' < Chunks
    <3>1. pc' = "emit" /\ parity' = Zeros(frame, chunk') /\ chunk' < ChunkCount(frame.size)
      BY <1>5, <2>6 DEF EmitParity, Chunks
    <3>2. group + 1 \in Groups(frame)
      BY <1>3, <2>1, <2>4, <3>1, GroupsInARow
    <3>3. parity' = ParityBytes(frame, chunk', 0)
      <4>1. chunk' \in Nat
        BY <1>3, <2>1
      <4> QED
        BY <3>1, <4>1, ParityBegins
    <3>4. Begun(frame, group + 1) \o SubSeq(GroupDatagrams(frame, group + 1), 1, 0)
            = Begun(frame, group + 1)
      <4>1. GroupDatagrams(frame, group + 1) \in Seq(Datagram)
        BY <1>3, <2>1, <3>2, GroupDatagramsAre
      <4>2. SubSeq(GroupDatagrams(frame, group + 1), 1, 0) = << >>
        BY <4>1
      <4> QED
        BY <2>2, <4>2
    <3>5. InTheGroup'
      BY <2>1, <2>3, <2>4, <3>2, <3>3, <3>4 DEF InTheGroup
    <3> QED
      BY <2>1, <2>5, <3>1, <3>5 DEF LaidInv, SentAsLaidOut, WireIsPrefix, SentMeansWhole
  <2>7. CASE ~(chunk' < Chunks)
    <3>1. pc' = "flush" /\ ~(chunk' < ChunkCount(frame.size))
      BY <1>5, <2>7 DEF EmitParity, Chunks
    <3>2. Cardinality(Groups(frame)) = group + 1
      BY <1>3, <2>1, <2>4, <3>1, GroupsInARow
    <3>3. wire' \o batch' = FrameLayout(frame)
      BY <1>3, <2>1, <2>3, <3>2, BegunGrows
    <3> QED
      BY <2>1, <2>5, <3>1, <3>3 DEF LaidInv, SentAsLaidOut, WireIsPrefix, SentMeansWhole
  <2> QED
    BY <2>6, <2>7
<1>6. CASE EmitFails
  <2> DEFINE d == IF index < count THEN CurrentSlice ELSE CurrentParity
             b == Append(batch, d)
             t == FrameLayout(frame)
  <2>1. pc = "emit" /\ pc' = "idle" /\ result' = "failed" /\ frame' = frame
    BY <1>6 DEF EmitFails
  <2>2. PICK n \in 0 .. Len(b) - 1 : Transmit(b, n)
    BY <1>6 DEF EmitFails
  <2>3. /\ d \in Datagram /\ index + 1 \in 0 .. Len(D)
        /\ Append(wire \o batch, d) = s \o SubSeq(D, 1, index + 1)
    <3>1. d = IF index < count THEN CurrentSlice ELSE CurrentParity
      OBVIOUS
    <3> HIDE DEF d
    <3> QED
      BY <2>1, <3>1, NextIsLaidOut
  <2>4. t \in Seq(Datagram) /\ IsPrefix(s \o SubSeq(D, 1, index + 1), t)
    BY <1>3, <2>1, <2>3, SentIsPrefix
  <2> HIDE DEF d, D, s, t
  <2>5. /\ wire \in Seq(Datagram) /\ batch \in Seq(Datagram) /\ b \in Seq(Datagram)
        /\ wire \o b = Append(wire \o batch, d)
    <3>1. wire \in Seq(Datagram) /\ batch \in Seq(Datagram)
      BY DEF IInv, PacketTypeOK
    <3>2. d \in Datagram
      BY <2>3
    <3> QED
      BY <3>1, <3>2
  <2>6. wire' = wire \o SubSeq(b, 1, n) /\ batch' = << >>
    BY <2>2 DEF Transmit
  <2> HIDE DEF b
  <2>7. n \in 0 .. Len(b)
    BY <2>5
  <2>8. IsPrefix(wire \o b, t)
    BY <2>3, <2>4, <2>5
  <2>9. wire' \in Seq(Datagram) /\ IsPrefix(wire', t) /\ wire' # t
    <3>0. wire \in Seq(Datagram) /\ b \in Seq(Datagram) /\ t \in Seq(Datagram)
      BY <2>4, <2>5
    <3>1. wire \o SubSeq(b, 1, n) \in Seq(Datagram)
      BY <3>0, <2>7, <2>8, CutShort
    <3>2. IsPrefix(wire \o SubSeq(b, 1, n), t)
      BY <3>0, <2>7, <2>8, CutShort
    <3>3. n < Len(b) => Len(wire \o SubSeq(b, 1, n)) < Len(t)
      BY <3>0, <2>7, <2>8, CutShort
    <3>4. n < Len(b) /\ Len(t) \in Nat
      BY <3>0
    <3>5. wire \o SubSeq(b, 1, n) # t
      BY <3>3, <3>4
    <3> QED
      BY <2>6, <3>1, <3>2, <3>5
  <2>10. wire' \o batch' = wire'
    BY <2>6, <2>9
  <2> QED
    BY <2>1, <2>9, <2>10 DEF LaidInv, SentAsLaidOut, WireIsPrefix, SentMeansWhole, t
<1>7. CASE FinalFlush
  <2> DEFINE t == FrameLayout(frame)
  <2>1. PICK n \in 0 .. Len(batch) :
          Transmit(batch, n) /\ result' = IF n = Len(batch) THEN "ok" ELSE "failed"
    BY <1>7 DEF FinalFlush
  <2>2. pc = "flush" /\ pc' = "idle" /\ frame' = frame
    BY <1>7 DEF FinalFlush
  <2>3. /\ wire \in Seq(Datagram) /\ batch \in Seq(Datagram) /\ wire \o batch = t
    BY <2>2 DEF IInv, PacketTypeOK, LaidInv
  <2>4. wire' = wire \o SubSeq(batch, 1, n) /\ batch' = << >>
    BY <2>1 DEF Transmit
  <2> HIDE DEF t
  <2>5. t \in Seq(Datagram) /\ IsPrefix(wire \o batch, t)
    <3>1. t \in Seq(Datagram)
      BY <2>3, ConcatProperties
    <3>2. IsPrefix(t, t)
      BY <3>1, PrefixIs
    <3> QED
      BY <2>3, <3>1, <3>2
  <2>6. /\ wire' \in Seq(Datagram) /\ IsPrefix(wire', t)
        /\ n < Len(batch) => wire' # t
        /\ n = Len(batch) => wire' = t
    <3>1. wire \o SubSeq(batch, 1, n) \in Seq(Datagram)
      BY <2>3, <2>5, CutShort
    <3>2. IsPrefix(wire \o SubSeq(batch, 1, n), t)
      BY <2>3, <2>5, CutShort
    <3>3. n < Len(batch) => Len(wire \o SubSeq(batch, 1, n)) < Len(t) /\ Len(t) \in Nat
      BY <2>3, <2>5, CutShort
    <3>4. n = Len(batch) => wire \o SubSeq(batch, 1, n) = wire \o batch
      BY <2>3, <2>5, CutShort
    <3> QED
      BY <2>3, <2>4, <3>1, <3>2, <3>3, <3>4
  <2>7. wire' \o batch' = wire'
    BY <2>4, <2>6
  <2>8. result' = "ok" <=> wire' = t
    <3>1. n = Len(batch) \/ n < Len(batch)
      BY <2>3
    <3> QED
      BY <2>1, <2>6, <3>1
  <2> QED
    BY <2>1, <2>2, <2>6, <2>7, <2>8 DEF LaidInv, SentAsLaidOut, WireIsPrefix, SentMeansWhole, t
<1>8. CASE UNCHANGED packetVars
  BY <1>8 DEF packetVars, LaidInv, InTheGroup, SentAsLaidOut, WireIsPrefix, SentMeansWhole
<1> QED
  BY <1>1, <1>2, <1>4, <1>5, <1>6, <1>7, <1>8 DEF PacketizeNext

(* What goes out is always the beginning of the frame's layout, whatever   *)
(* the kernel refuses, and a frame is reported sent exactly when all of it *)
(* went out.                                                               *)
THEOREM LaidOutAsDefined == PacketizeSpec => []SentAsLaidOut
<1>1. LaidInv => SentAsLaidOut
  BY DEF LaidInv
<1> QED
  BY <1>1, InitIInv, NextIInv, InitLaid, NextLaid, PTL DEF PacketizeSpec

-----------------------------------------------------------------------------
(* MpqSender. *)

(* The frames that are not refused.                                        *)
Accepted == {f \in [size : Sizes \ {0}, content : Nat, fec : BOOLEAN] : Mpq!Fits(f)}

(* Datagram c of frame f, as packet p.                                     *)
Piece(f, c, p) ==
  [packet |-> p, content |-> f.content, chunk |-> c, chunks |-> Mpq!PacketCount(f),
   size |-> f.size, end |-> c + 1 = Mpq!PacketCount(f),
   fec |-> f.fec, parity |-> c = Mpq!DataChunks(f),
   payload |-> IF c = Mpq!DataChunks(f) THEN Mpq!Parity(f) ELSE Mpq!ChunkBytes(f, c)]

Pieces == {Piece(f, c, p) : f \in Accepted, c \in Nat, p \in Nat}

(* The frame a datagram is of.                                             *)
FrameOf(d) == [size |-> d.size, content |-> d.content, fec |-> d.fec]

MpqShape ==
  /\ mpq_frame = Mpq!NoFrame \/ (mpq_frame \in Accepted /\ mpq_frame.content = number)
  /\ number \in 0 .. LastFrame
  /\ mpq_chunk \in Nat
  /\ mpq_frame = Mpq!NoFrame => mpq_chunk = 0
  /\ mpq_frame # Mpq!NoFrame => mpq_chunk < Mpq!PacketCount(mpq_frame)
  /\ mpq_wire \in Seq(Pieces)
  /\ writer = Len(mpq_wire) /\ packetsSent = Len(mpq_wire)
  /\ \A i \in DOMAIN mpq_wire :
       mpq_wire[i].packet = i - 1 /\ mpq_wire[i].content \in 1 .. number

(* The datagrams i - c .. i of w are chunks 0 .. c of frame f.             *)
Follow(w, f, i, c) ==
  c < i /\ \A k \in 0 .. c : FrameOf(w[i - c + k]) = f /\ w[i - c + k].chunk = k

(* A datagram comes right behind all the earlier ones of its frame ...     *)
InRuns ==
  \A i \in DOMAIN mpq_wire :
    LET d == mpq_wire[i]
    IN  d.chunk < d.chunks /\ Follow(mpq_wire, FrameOf(d), i, d.chunk)

(* ... and a number is given to one frame only.                            *)
OneRunEach ==
  \A i, k \in DOMAIN mpq_wire :
    mpq_wire[i].content = mpq_wire[k].content =>
      i - mpq_wire[i].chunk = k - mpq_wire[k].chunk

(* What has been sent of the frame at hand: all chunks before the next.    *)
RunAtHand ==
  mpq_frame # Mpq!NoFrame =>
    /\ mpq_chunk > 0 => Follow(mpq_wire, mpq_frame, Len(mpq_wire), mpq_chunk - 1)
    /\ \A i \in DOMAIN mpq_wire :
         mpq_wire[i].content = number =>
           i - mpq_wire[i].chunk = Len(mpq_wire) + 1 - mpq_chunk

Ends == {d \in Range(mpq_wire) : d.end}

EndsAreCounted ==
  /\ IsFiniteSet(Ends) /\ framesSent = Cardinality(Ends)
  /\ framesSent \in 0 .. number
  /\ mpq_frame # Mpq!NoFrame => framesSent < number

MpqInv == MpqShape /\ InRuns /\ OneRunEach /\ RunAtHand /\ EndsAreCounted

-----------------------------------------------------------------------------
LEMMA MpqConstants == MpqChunks \in Nat /\ MpqChunks > 0 /\ Sizes \subseteq Nat /\ LastFrame \in Nat
  BY PartsAssumption DEF Mpq!MpqAssumption

(* The number of datagrams of a frame.                                     *)
LEMMA PacketCounts ==
  ASSUME NEW f \in Accepted
  PROVE  /\ f.size \in Nat /\ f.size > 0 /\ f.content \in Nat
         /\ Mpq!DataChunks(f) \in Nat /\ Mpq!DataChunks(f) > 0
         /\ Mpq!DataChunks(f) = AP!ChunkCount(f.size)
         /\ Mpq!PacketCount(f) = IF f.fec THEN Mpq!DataChunks(f) + 1 ELSE Mpq!DataChunks(f)
         /\ Mpq!PacketCount(f) \in 1 .. MpqChunks
         /\ f # Mpq!NoFrame
<1> DEFINE n == Mpq!DataChunks(f)
<1>1. f.size \in Nat /\ f.size > 0 /\ f.content \in Nat
  <2>1. f \in [size : Sizes \ {0}, content : Nat, fec : BOOLEAN]
    BY DEF Accepted
  <2>2. f.size \in Sizes \ {0} /\ f.content \in Nat
    BY <2>1
  <2>3. f.size \in Nat
    BY <2>2, MpqConstants, Zenon
  <2> QED
    BY <2>2, <2>3
<1>2. n = AP!ChunkCount(f.size)
  BY DEF Mpq!DataChunks, Mpq!ChunkCount, AP!ChunkCount
<1>3. AP!ChunkCount(f.size) \in Nat /\ AP!ChunkCount(f.size) > 0
  BY <1>1, MaxPayloadAssumption, AP!ChunkCountFacts
<1>4. Mpq!PacketCount(f) = n + (IF f.fec THEN 1 ELSE 0)
  BY DEF Mpq!PacketCount
<1>5. Mpq!PacketCount(f) <= MpqChunks
  BY DEF Accepted, Mpq!Fits
<1>6. f # Mpq!NoFrame
  BY <1>1 DEF Mpq!NoFrame
<1> HIDE DEF n
<1>7. Mpq!PacketCount(f) = IF f.fec THEN n + 1 ELSE n
  BY <1>2, <1>3, <1>4
<1>8. Mpq!PacketCount(f) \in 1 .. MpqChunks
  BY <1>2, <1>3, <1>5, <1>7, MpqConstants
<1> QED
  BY <1>1, <1>2, <1>3, <1>6, <1>7, <1>8 DEF n

(* A datagram says which frame, which chunk and which packet it is.        *)
LEMMA PieceFacts ==
  ASSUME NEW d \in Pieces
  PROVE  /\ FrameOf(d) \in Accepted
         /\ d.chunk \in Nat /\ d.packet \in Nat
         /\ d = Piece(FrameOf(d), d.chunk, d.packet)
         /\ d.content = FrameOf(d).content /\ d.size = FrameOf(d).size /\ d.fec = FrameOf(d).fec
         /\ d.chunks = Mpq!PacketCount(FrameOf(d))
         /\ d.end <=> d.chunk + 1 = d.chunks
<1>1. PICK f \in Accepted, c \in Nat, p \in Nat : d = Piece(f, c, p)
  BY DEF Pieces
<1>2. f = [size |-> f.size, content |-> f.content, fec |-> f.fec]
  BY DEF Accepted
<1>3. d.size = f.size /\ d.content = f.content /\ d.fec = f.fec /\ d.chunk = c /\ d.packet = p
  BY <1>1 DEF Piece
<1>4. FrameOf(d) = f
  BY <1>2, <1>3 DEF FrameOf
<1>5. d.chunks = Mpq!PacketCount(f)
  BY <1>1 DEF Piece
<1>6. d.end <=> c + 1 = Mpq!PacketCount(f)
  BY <1>1, Zenon DEF Piece
<1> QED
  BY <1>1, <1>3, <1>4, <1>5, <1>6, Zenon

(* Counting in the module and in its instance is the same.                 *)
LEMMA MpqCardinality == \A S : Mpq!Cardinality(S) = Cardinality(S)
  BY Zenon DEF Mpq!Cardinality, Cardinality

-----------------------------------------------------------------------------
(* At the start nothing has been sent.                                     *)
LEMMA MpqInitially == Mpq!Init => MpqInv
<1> SUFFICES ASSUME Mpq!Init PROVE MpqInv
  OBVIOUS
<1>1. /\ mpq_frame = Mpq!NoFrame /\ mpq_chunk = 0 /\ writer = 0 /\ packetsSent = 0
      /\ framesSent = 0 /\ number = 0 /\ mpq_wire = << >>
  BY DEF Mpq!Init
<1>2. MpqShape
  BY <1>1, MpqConstants DEF MpqShape
<1>3. InRuns /\ OneRunEach /\ RunAtHand
  BY <1>1 DEF InRuns, OneRunEach, RunAtHand
<1>4. Ends = {}
  BY <1>1 DEF Ends, Range
<1>5. EndsAreCounted
  BY <1>1, <1>4, FS_EmptySet DEF EndsAreCounted
<1> QED
  BY <1>2, <1>3, <1>5 DEF MpqInv

(* A frame is begun, or refused: its number is new.                        *)
LEMMA BeginStep ==
  ASSUME MpqInv, Mpq!BeginFrame
  PROVE  MpqInv'
<1>1. /\ mpq_frame = Mpq!NoFrame /\ number < LastFrame /\ number' = number + 1
      /\ mpq_chunk' = 0
      /\ UNCHANGED << writer, packetsSent, framesSent, mpq_wire >>
  BY DEF Mpq!BeginFrame
<1>2. /\ number \in 0 .. LastFrame /\ number \in Nat /\ mpq_wire \in Seq(Pieces)
      /\ writer = Len(mpq_wire) /\ packetsSent = Len(mpq_wire)
      /\ \A i \in DOMAIN mpq_wire :
           mpq_wire[i].packet = i - 1 /\ mpq_wire[i].content \in 1 .. number
  BY MpqConstants DEF MpqInv, MpqShape
<1>3. mpq_frame' = Mpq!NoFrame \/ (mpq_frame' \in Accepted /\ mpq_frame'.content = number')
  <2>1. PICK size \in Sizes, fec \in BOOLEAN :
          LET f == [size |-> size, content |-> number + 1, fec |-> fec]
          IN  IF size # 0 /\ Mpq!Fits(f) THEN mpq_frame' = f ELSE UNCHANGED mpq_frame
    BY DEF Mpq!BeginFrame
  <2> DEFINE f == [size |-> size, content |-> number + 1, fec |-> fec]
  <2>2. CASE size # 0 /\ Mpq!Fits(f)
    <3>1. mpq_frame' = f
      BY <2>1, <2>2
    <3>2. size \in Sizes \ {0} /\ number + 1 \in Nat
      BY <1>2, <2>2
    <3>3. f \in [size : Sizes \ {0}, content : Nat, fec : BOOLEAN]
      BY <3>2, Zenon
    <3>4. f.content = number + 1
      OBVIOUS
    <3> QED
      BY <1>1, <2>2, <3>1, <3>3, <3>4, Zenon DEF Accepted
  <2>3. CASE ~(size # 0 /\ Mpq!Fits(f))
    BY <1>1, <2>1, <2>3, Zenon
  <2> QED
    BY <2>2, <2>3, Zenon
<1>4. mpq_frame' # Mpq!NoFrame => 0 < Mpq!PacketCount(mpq_frame')
  <2> SUFFICES ASSUME mpq_frame' # Mpq!NoFrame PROVE 0 < Mpq!PacketCount(mpq_frame')
    OBVIOUS
  <2>1. Mpq!PacketCount(mpq_frame') \in 1 .. MpqChunks
    BY <1>3, PacketCounts
  <2> QED
    BY <2>1, MpqConstants
<1>5. MpqShape'
  <2>1. \A i \in DOMAIN mpq_wire : mpq_wire[i].content \in 1 .. number'
    BY <1>1, <1>2
  <2>2. number' \in 0 .. LastFrame
    BY <1>1, <1>2, MpqConstants
  <2> QED
    BY <1>1, <1>2, <1>3, <1>4, <2>1, <2>2, Zenon DEF MpqShape
<1>6. InRuns' /\ OneRunEach'
  <2>1. mpq_wire' = mpq_wire /\ InRuns /\ OneRunEach
    BY <1>1 DEF MpqInv
  <2>2. InRuns'
    BY <2>1, ZenonT(40) DEF InRuns, Follow, FrameOf
  <2>3. OneRunEach'
    BY <2>1, ZenonT(40) DEF OneRunEach
  <2> QED
    BY <2>2, <2>3
<1>7. RunAtHand'
  <2>1. \A i \in DOMAIN mpq_wire : mpq_wire[i].content # number'
    BY <1>1, <1>2
  <2> QED
    BY <1>1, <2>1 DEF RunAtHand
<1>8. EndsAreCounted'
  <2>1. IsFiniteSet(Ends) /\ framesSent = Cardinality(Ends) /\ framesSent \in 0 .. number
    BY DEF MpqInv, EndsAreCounted
  <2>2. Ends' = Ends
    BY <1>1 DEF Ends
  <2>3. framesSent' \in 0 .. number' /\ framesSent' < number'
    BY <1>1, <1>2, <2>1
  <2> QED
    BY <1>1, <2>1, <2>2, <2>3, Zenon DEF EndsAreCounted
<1> QED
  BY <1>5, <1>6, <1>7, <1>8 DEF MpqInv

(* A frame that is given up leaves its first datagrams behind.             *)
LEMMA AbortStep ==
  ASSUME MpqInv, Mpq!AbortFrame
  PROVE  MpqInv'
<1>1. /\ mpq_frame' = Mpq!NoFrame /\ mpq_chunk' = 0
      /\ UNCHANGED << writer, packetsSent, framesSent, number, mpq_wire >>
  BY DEF Mpq!AbortFrame
<1>2. MpqShape'
  BY <1>1 DEF MpqInv, MpqShape
<1>3. InRuns' /\ OneRunEach'
  <2>1. mpq_wire' = mpq_wire /\ InRuns /\ OneRunEach
    BY <1>1 DEF MpqInv
  <2>2. InRuns'
    BY <2>1, ZenonT(40) DEF InRuns, Follow, FrameOf
  <2>3. OneRunEach'
    BY <2>1, ZenonT(40) DEF OneRunEach
  <2> QED
    BY <2>2, <2>3
<1>4. RunAtHand'
  BY <1>1 DEF RunAtHand
<1>5. EndsAreCounted'
  <2>1. Ends' = Ends
    BY <1>1 DEF Ends
  <2> QED
    BY <1>1, <2>1, Zenon DEF MpqInv, EndsAreCounted
<1> QED
  BY <1>2, <1>3, <1>4, <1>5 DEF MpqInv

(* The next datagram of the frame at hand joins its run.                   *)
LEMMA SendStep ==
  ASSUME MpqInv, Mpq!SendPacket
  PROVE  MpqInv'
<1> DEFINE n == Len(mpq_wire)
           c == mpq_chunk
           f == mpq_frame
           d == Piece(f, c, writer)
           total == Mpq!PacketCount(f)
           w == mpq_wire
           v == mpq_wire'
<1>1. /\ f # Mpq!NoFrame /\ v = Append(w, d)
      /\ writer' = writer + 1 /\ packetsSent' = packetsSent + 1 /\ UNCHANGED number
  BY DEF Mpq!SendPacket, Mpq!Datagram, Mpq!EndOfFrame, Mpq!Advance, Piece
<1>2. /\ f \in Accepted /\ f.content = number
      /\ number \in 0 .. LastFrame /\ number \in Nat /\ c \in Nat /\ c < total
      /\ w \in Seq(Pieces) /\ n \in Nat /\ writer = n /\ packetsSent = n
      /\ \A i \in DOMAIN w : w[i].packet = i - 1 /\ w[i].content \in 1 .. number
  BY <1>1, MpqConstants DEF MpqInv, MpqShape
<1>3. f.content \in Nat /\ total \in 1 .. MpqChunks /\ total \in Nat
  BY <1>2, PacketCounts, MpqConstants
<1>4. d \in Pieces
  BY <1>2 DEF Pieces
<1>5. /\ d.chunk = c /\ d.packet = n /\ d.content = number /\ d.chunks = total
      /\ FrameOf(d) = f
  <2>1. d.chunk = c /\ d.packet = n /\ d.content = number /\ d.chunks = total
    BY <1>2 DEF Piece
  <2>2. f = [size |-> f.size, content |-> f.content, fec |-> f.fec]
    BY <1>2 DEF Accepted
  <2>3. d.size = f.size /\ d.content = f.content /\ d.fec = f.fec
    BY DEF Piece
  <2> QED
    BY <2>1, <2>2, <2>3 DEF FrameOf
<1>6. d.end <=> c + 1 = total
  BY Zenon DEF Piece
<1>7. /\ v \in Seq(Pieces) /\ Len(v) = n + 1 /\ v[n + 1] = d
      /\ \A i \in 1 .. n : v[i] = w[i]
      /\ DOMAIN w = 1 .. n /\ DOMAIN v = 1 .. n + 1
  <2> HIDE DEF d
  <2> QED
    BY <1>1, <1>2, <1>4
<1>8. \/ f' = Mpq!NoFrame /\ c' = 0 /\ framesSent' = framesSent + 1 /\ c + 1 = total
      \/ f' = f /\ c' = c + 1 /\ framesSent' = framesSent /\ c + 1 # total
  <2>1. CASE c + 1 = total
    BY <2>1 DEF Mpq!SendPacket
  <2>2. CASE c + 1 # total
    BY <2>2 DEF Mpq!SendPacket
  <2> QED
    BY <2>1, <2>2
<1>9. /\ c > 0 => Follow(w, f, n, c - 1)
      /\ \A i \in DOMAIN w : w[i].content = number => i - w[i].chunk = n + 1 - c
  BY <1>1 DEF MpqInv, RunAtHand
<1>10. /\ n + 1 - c \in Nat /\ n + 1 - c > 0
       /\ \A k \in 0 .. c : n + 1 - c + k \in 1 .. n + 1
       /\ \A k \in 0 .. c : FrameOf(v[n + 1 - c + k]) = f /\ v[n + 1 - c + k].chunk = k
  <2>1. CASE c = 0
    <3>1. \A k \in 0 .. c : n + 1 - c + k = n + 1 /\ k = c
      BY <1>2, <2>1
    <3> HIDE DEF d, f, c, v, n
    <3> QED
      BY <1>2, <1>5, <1>7, <2>1, <3>1
  <2>2. CASE c > 0
    <3>1. /\ c - 1 < n
          /\ \A k \in 0 .. c - 1 :
               FrameOf(w[n - (c - 1) + k]) = f /\ w[n - (c - 1) + k].chunk = k
      BY <1>9, <2>2 DEF Follow
    <3> HIDE DEF d, f, c, v, n, w
    <3>2. \A k \in 0 .. c - 1 : n - (c - 1) + k = n + 1 - c + k /\ n + 1 - c + k \in 1 .. n
      BY <1>2, <3>1
    <3>3. \A k \in 0 .. c - 1 : FrameOf(v[n + 1 - c + k]) = f /\ v[n + 1 - c + k].chunk = k
      BY <1>7, <3>1, <3>2
    <3>4. n + 1 - c + c = n + 1
      BY <1>2
    <3>5. \A k \in 0 .. c : k \in 0 .. c - 1 \/ k = c
      BY <1>2
    <3>6. \A k \in 0 .. c : n + 1 - c + k \in 1 .. n + 1
      BY <1>2, <3>1
    <3>7. n + 1 - c \in Nat /\ n + 1 - c > 0
      BY <1>2, <3>1
    <3>8. FrameOf(v[n + 1 - c + c]) = f /\ v[n + 1 - c + c].chunk = c
      BY <3>4, <1>5, <1>7
    <3> QED
      BY <3>3, <3>5, <3>6, <3>7, <3>8
  <2> QED
    BY <1>2, <2>1, <2>2
<1>11. \A i \in 1 .. n : w[i].chunk \in Nat /\ w[i] \in Pieces
  BY <1>2, <1>7, PieceFacts
<1> HIDE DEF d, f, c, v, n, w, total
<1>12. MpqShape'
  <2>1. mpq_frame' = Mpq!NoFrame \/ (mpq_frame' \in Accepted /\ mpq_frame'.content = number')
    BY <1>1, <1>2, <1>8 DEF f
  <2>2. \A i \in DOMAIN v : v[i].packet = i - 1 /\ v[i].content \in 1 .. number
    <3>1. number \in 1 .. number
      <4>1. framesSent \in 0 .. number /\ framesSent < number
        BY <1>1, <1>2 DEF MpqInv, EndsAreCounted, f
      <4> QED
        BY <1>2, <4>1
    <3>2. \A i \in 1 .. n + 1 : i \in 1 .. n \/ i = n + 1
      BY <1>2
    <3>3. d.packet = (n + 1) - 1
      BY <1>2, <1>5
    <3> QED
      BY <1>2, <1>5, <1>7, <3>1, <3>2, <3>3
  <2>3. c' \in Nat
    BY <1>2, <1>8
  <2>4. f' = Mpq!NoFrame => c' = 0
    BY <1>1, <1>8
  <2>5. f' # Mpq!NoFrame => c' < Mpq!PacketCount(f')
    <3>1. c + 1 # total => c + 1 < total
      BY <1>2, <1>3
    <3> QED
      BY <1>8, <3>1 DEF total
  <2>6. writer' = Len(v) /\ packetsSent' = Len(v)
    BY <1>1, <1>2, <1>7
  <2> QED
    BY <1>1, <1>2, <1>7, <2>1, <2>2, <2>3, <2>4, <2>5, <2>6 DEF MpqShape, f, c, v
<1>13. InRuns'
  <2>1. ASSUME NEW i \in 1 .. n
        PROVE  v[i].chunk < v[i].chunks /\ Follow(v, FrameOf(v[i]), i, v[i].chunk)
    <3> DEFINE h == FrameOf(w[i])
               e == w[i].chunk
    <3>1. w[i].chunk < w[i].chunks /\ Follow(w, h, i, e)
      BY <1>7, <2>1 DEF MpqInv, InRuns, w
    <3>2. v[i] = w[i] /\ e \in Nat
      BY <1>7, <1>11
    <3> HIDE DEF h, e
    <3>3. e < i /\ \A k \in 0 .. e : FrameOf(w[i - e + k]) = h /\ w[i - e + k].chunk = k
      BY <3>1 DEF Follow
    <3>4. \A k \in 0 .. e : i - e + k \in 1 .. n
      BY <1>2, <3>2, <3>3
    <3>5. \A k \in 0 .. e : FrameOf(v[i - e + k]) = h /\ v[i - e + k].chunk = k
      BY <1>7, <3>3, <3>4
    <3>6. FrameOf(v[i]) = h /\ v[i].chunk = e /\ v[i].chunk < v[i].chunks
      BY <3>1, <3>2 DEF h, e
    <3> QED
      BY <3>3, <3>5, <3>6 DEF Follow
  <2>2. v[n + 1].chunk < v[n + 1].chunks /\ Follow(v, FrameOf(v[n + 1]), n + 1, v[n + 1].chunk)
    <3>1. FrameOf(v[n + 1]) = f /\ v[n + 1].chunk = c /\ v[n + 1].chunks = total
      BY <1>5, <1>7
    <3>2. c < n + 1
      BY <1>2, <1>10
    <3> QED
      BY <1>2, <1>10, <3>1, <3>2 DEF Follow
  <2>3. \A i \in 1 .. n + 1 : i \in 1 .. n \/ i = n + 1
    BY <1>2
  <2> QED
    BY <1>7, <2>1, <2>2, <2>3 DEF InRuns, v
<1>14. \A i \in 1 .. n + 1 : v[i].content = number => i - v[i].chunk = n + 1 - c
  <2>1. ASSUME NEW i \in 1 .. n, v[i].content = number PROVE i - v[i].chunk = n + 1 - c
    BY <1>7, <1>9, <2>1
  <2>2. (n + 1) - v[n + 1].chunk = n + 1 - c
    BY <1>2, <1>5, <1>7
  <2>3. \A i \in 1 .. n + 1 : i \in 1 .. n \/ i = n + 1
    BY <1>2
  <2> QED
    BY <2>1, <2>2, <2>3
<1>15. OneRunEach'
  <2>1. \A i, k \in 1 .. n :
          v[i].content = v[k].content => i - v[i].chunk = k - v[k].chunk
    BY <1>7 DEF MpqInv, OneRunEach, w
  <2>2. v[n + 1].content = number
    BY <1>5, <1>7
  <2>3. \A i \in 1 .. n + 1 : i \in 1 .. n \/ i = n + 1
    BY <1>2
  <2>4. ASSUME NEW i \in 1 .. n + 1, NEW k \in 1 .. n + 1, v[i].content = v[k].content
        PROVE  i - v[i].chunk = k - v[k].chunk
    <3>1. CASE i \in 1 .. n /\ k \in 1 .. n
      BY <2>1, <2>4, <3>1
    <3>2. CASE i = n + 1 \/ k = n + 1
      <4>1. v[i].content = number /\ v[k].content = number
        BY <2>2, <2>4, <3>2
      <4>2. i - v[i].chunk = n + 1 - c
        BY <1>14, <4>1
      <4>3. k - v[k].chunk = n + 1 - c
        BY <1>14, <4>1
      <4> QED
        BY <4>2, <4>3
    <3> QED
      BY <2>3, <3>1, <3>2
  <2> QED
    BY <1>7, <2>4 DEF OneRunEach, v
<1>16. RunAtHand'
  <2> SUFFICES ASSUME f' # Mpq!NoFrame
               PROVE  /\ c' > 0 => Follow(v, f, n + 1, c' - 1)
                      /\ \A i \in DOMAIN v : v[i].content = number => i - v[i].chunk = Len(v) + 1 - c'
    BY <1>1, <1>7, <1>8, Zenon DEF RunAtHand, f, c, v
  <2>1. f' = f /\ c' = c + 1
    BY <1>8
  <2>2. c' - 1 = c /\ Len(v) + 1 - c' = n + 1 - c
    BY <1>2, <1>7, <2>1
  <2>3. c < n + 1
    BY <1>2, <1>10
  <2>4. Follow(v, f, n + 1, c' - 1)
    BY <1>7, <1>10, <2>1, <2>2, <2>3 DEF Follow
  <2> QED
    BY <1>7, <1>14, <2>2, <2>4
<1>17. EndsAreCounted'
  <2>1. /\ IsFiniteSet(Ends) /\ framesSent = Cardinality(Ends)
        /\ framesSent \in 0 .. number /\ framesSent < number
    BY <1>1 DEF MpqInv, EndsAreCounted, f
  <2>2. Ends' = IF d.end THEN Ends \cup {d} ELSE Ends
    <3>1. Range(v) = Range(w) \cup {d}
      <4>1. \A i \in 1 .. n + 1 : i \in 1 .. n \/ i = n + 1
        BY <1>2
      <4>2. \A i \in 1 .. n : i \in 1 .. n + 1
        BY <1>2
      <4>3. n + 1 \in 1 .. n + 1
        BY <1>2
      <4> QED
        BY <1>7, <4>1, <4>2, <4>3 DEF Range
    <3> QED
      BY <3>1 DEF Ends, v, w
  <2>3. d \notin Ends
    <3>1. \A i \in 1 .. n : w[i].packet # n
      BY <1>2, <1>7
    <3> QED
      BY <1>5, <1>7, <3>1 DEF Ends, Range, w
  <2>4. CASE c + 1 = total
    <3>1. /\ f' = Mpq!NoFrame /\ framesSent' = framesSent + 1
      BY <1>8, <2>4
    <3>2. Ends' = Ends \cup {d}
      BY <1>6, <2>2, <2>4
    <3>3. IsFiniteSet(Ends \cup {d}) /\ Cardinality(Ends \cup {d}) = Cardinality(Ends) + 1
      BY <2>1, <2>3, FS_AddElement
    <3>4. framesSent + 1 \in 0 .. number
      BY <1>2, <2>1
    <3> QED
      BY <1>1, <2>1, <3>1, <3>2, <3>3, <3>4, Zenon DEF EndsAreCounted, f
  <2>5. CASE c + 1 # total
    <3>1. f' = f /\ framesSent' = framesSent
      BY <1>8, <2>5
    <3>2. Ends' = Ends
      BY <1>6, <2>2, <2>5
    <3> QED
      BY <1>1, <2>1, <3>1, <3>2, Zenon DEF EndsAreCounted, f
  <2> QED
    BY <2>4, <2>5
<1> QED
  BY <1>12, <1>13, <1>15, <1>16, <1>17 DEF MpqInv

(* Every step of the older transport keeps its invariant.                  *)
LEMMA MpqStep == MpqInv /\ [Mpq!Next]_mpqVars => MpqInv'
<1>1. MpqInv /\ UNCHANGED mpqVars => MpqInv'
  <2> SUFFICES ASSUME MpqInv, UNCHANGED mpqVars PROVE MpqInv'
    OBVIOUS
  <2>1. UNCHANGED << mpq_frame, mpq_chunk, writer, packetsSent, framesSent, number, mpq_wire >>
    BY DEF mpqVars
  <2>2. MpqShape'
    BY <2>1, Zenon DEF MpqInv, MpqShape
  <2>3. InRuns' /\ OneRunEach'
    BY <2>1, Zenon DEF MpqInv, InRuns, OneRunEach
  <2>4. RunAtHand'
    BY <2>1, Zenon DEF MpqInv, RunAtHand
  <2>5. EndsAreCounted'
    BY <2>1, Zenon DEF MpqInv, EndsAreCounted, Ends
  <2> QED
    BY <2>2, <2>3, <2>4, <2>5 DEF MpqInv
<1> QED
  BY <1>1, BeginStep, SendStep, AbortStep DEF Mpq!Next

(* What the datagrams of an ended frame are: its chunks in order, with the *)
(* parity, if there is one, at the end.                                    *)
LEMMA EndsAreWhole ==
  ASSUME MpqInv, NEW i \in DOMAIN mpq_wire, mpq_wire[i].end
  PROVE  /\ mpq_wire[i].chunk + 1 = mpq_wire[i].chunks /\ i >= mpq_wire[i].chunks
         /\ \A k \in 0 .. mpq_wire[i].chunks - 1 :
              LET d == mpq_wire[i - mpq_wire[i].chunks + 1 + k]
              IN  d.content = mpq_wire[i].content /\ d.chunk = k
<1> DEFINE e == mpq_wire[i]
           n == e.chunks
           w == mpq_wire
<1>1. e \in Pieces
  BY DEF MpqInv, MpqShape
<1>2. e.chunk \in Nat /\ e.chunk + 1 = n /\ i \in Nat
  <2>1. i \in Nat
    BY DEF MpqInv, MpqShape
  <2> QED
    BY <1>1, <2>1, PieceFacts
<1>3. Follow(w, FrameOf(e), i, e.chunk)
  BY DEF MpqInv, InRuns
<1> HIDE DEF e, w
<1>4. /\ e.chunk < i
      /\ \A k \in 0 .. e.chunk :
           FrameOf(w[i - e.chunk + k]) = FrameOf(e) /\ w[i - e.chunk + k].chunk = k
  BY <1>3 DEF Follow
<1>5. \A d : FrameOf(d) = FrameOf(e) => d.content = e.content
  BY DEF FrameOf
<1>6. ASSUME NEW k \in 0 .. n - 1
      PROVE  w[i - n + 1 + k].content = e.content /\ w[i - n + 1 + k].chunk = k
  <2>1. k \in 0 .. e.chunk /\ i - n + 1 + k = i - e.chunk + k
    BY <1>2
  <2> QED
    BY <1>4, <1>5, <2>1
<1>7. i >= n
  BY <1>2, <1>4
<1> QED
  BY <1>2, <1>6, <1>7 DEF e, w

(* The invariant says what the run checks.                                 *)
LEMMA MpqPromise == MpqInv => NumbersAreTrue
<1> SUFFICES ASSUME MpqInv PROVE NumbersAreTrue
  OBVIOUS
<1>1. /\ mpq_frame = Mpq!NoFrame \/ (mpq_frame \in Accepted /\ mpq_frame.content = number)
      /\ number \in 0 .. LastFrame /\ mpq_chunk \in Nat
      /\ mpq_frame = Mpq!NoFrame => mpq_chunk = 0
      /\ mpq_frame # Mpq!NoFrame => mpq_chunk < Mpq!PacketCount(mpq_frame)
      /\ mpq_wire \in Seq(Pieces)
      /\ writer = Len(mpq_wire) /\ packetsSent = Len(mpq_wire)
      /\ framesSent \in 0 .. number /\ framesSent = Cardinality(Ends)
  BY DEF MpqInv, MpqShape, EndsAreCounted
<1>2. Mpq!TypeOK
  <2>1. mpq_frame = Mpq!NoFrame
          \/ (mpq_frame.size \in Sizes \ {0} /\ Mpq!PacketCount(mpq_frame) <= MpqChunks)
    BY <1>1 DEF Accepted, Mpq!Fits
  <2>2. mpq_chunk \in 0 .. MpqChunks - 1
    <3>1. CASE mpq_frame = Mpq!NoFrame
      BY <1>1, <3>1, MpqConstants
    <3>2. CASE mpq_frame # Mpq!NoFrame
      <4>1. Mpq!PacketCount(mpq_frame) \in 1 .. MpqChunks /\ mpq_chunk < Mpq!PacketCount(mpq_frame)
        BY <1>1, <3>2, PacketCounts
      <4> QED
        BY <1>1, <4>1, MpqConstants
    <3> QED
      BY <3>1, <3>2
  <2>3. framesSent \in 0 .. LastFrame
    BY <1>1, MpqConstants
  <2>4. writer \in Nat /\ packetsSent \in Nat
    BY <1>1
  <2> QED
    BY <1>1, <2>1, <2>2, <2>3, <2>4 DEF Mpq!TypeOK
<1>3. Mpq!NumbersAreGapless
  BY <1>1 DEF MpqInv, MpqShape, Mpq!NumbersAreGapless
<1>4. Mpq!EndMeansWhole
  <2>1. Mpq!Range(mpq_wire) = Range(mpq_wire)
    BY DEF Mpq!Range, Range
  <2>2. framesSent = Mpq!Cardinality({d \in Mpq!Range(mpq_wire) : d.end})
    BY <1>1, <2>1, MpqCardinality, Zenon DEF Ends
  <2> QED
    BY <2>2, EndsAreWhole, Zenon DEF Mpq!EndMeansWhole
<1> QED
  BY <1>2, <1>3, <1>4 DEF NumbersAreTrue

-----------------------------------------------------------------------------
(* With the parity K beside the bytes of all the others, the XOR is the    *)
(* byte that is missing.                                                   *)
LEMMA ParityRestores ==
  ASSUME NEW f, AP!Disjoint(f), NEW m \in DOMAIN f, NEW K, K \notin DOMAIN f
  PROVE  XorBytes([i \in (DOMAIN f \ {m}) \cup {K} |-> IF i = K THEN XorBytes(f) ELSE f[i]]) = f[m]
<1> DEFINE M == (DOMAIN f \ {m}) \cup {K}
           g == [i \in M |-> IF i = K THEN XorBytes(f) ELSE f[i]]
           holders(t) == {k \in DOMAIN g : t \in g[k]}
<1>1. /\ g[K] = UNION {f[i] : i \in DOMAIN f} /\ K \in DOMAIN g
      /\ DOMAIN g = (DOMAIN f \ {m}) \cup {K}
  <2>1. AP!XorBytes(f) = UNION {f[i] : i \in DOMAIN f}
    BY MaxPayloadAssumption, AP!XorOfDisjoint
  <2>2. AP!XorBytes(f) = XorBytes(f)
    BY DEF AP!XorBytes, XorBytes, AP!Cardinality, Cardinality
  <2> QED
    BY <2>1, <2>2
<1>2. \A i \in DOMAIN f : i # m => i \in DOMAIN g /\ i # K /\ g[i] = f[i]
  OBVIOUS
<1> HIDE DEF g
<1>3. ASSUME NEW t \in f[m]
      PROVE  t \in g[K] /\ Cardinality(holders(t)) % 2 = 1
  <2>1. holders(t) = {K}
    BY <1>1, <1>2 DEF AP!Disjoint
  <2>2. Cardinality({K}) = 1
    BY FS_Singleton
  <2>3. t \in g[K]
    BY <1>1
  <2> HIDE DEF holders
  <2> QED
    BY <2>1, <2>2, <2>3
<1>4. ASSUME NEW i \in DOMAIN f, NEW t \in f[i], t \notin f[m]
      PROVE  Cardinality(holders(t)) % 2 # 1
  <2>1. i # m
    BY <1>4
  <2>2. holders(t) = {K} \cup {i} /\ i # K
    BY <1>1, <1>2, <1>4, <2>1 DEF AP!Disjoint
  <2>3. IsFiniteSet({K}) /\ Cardinality({K}) = 1
    BY FS_Singleton
  <2>4. i \notin {K}
    BY <2>2
  <2>5. Cardinality({K} \cup {i}) = Cardinality({K}) + 1
    BY <2>3, <2>4, FS_AddElement
  <2> HIDE DEF holders
  <2>6. Cardinality(holders(t)) = 2
    BY <2>2, <2>3, <2>5
  <2> QED
    BY <2>6
<1>5. ASSUME NEW i \in DOMAIN g, NEW t \in g[i]
      PROVE  \E k \in DOMAIN f : t \in f[k]
  BY <1>1, <1>2
<1>6. XorBytes(g) = {t \in UNION {g[i] : i \in DOMAIN g} : Cardinality(holders(t)) % 2 = 1}
  BY DEF XorBytes
<1> HIDE DEF holders
<1>7. ASSUME NEW t \in XorBytes(g) PROVE t \in f[m]
  BY <1>4, <1>5, <1>6, <1>7
<1>8. ASSUME NEW t \in f[m] PROVE t \in XorBytes(g)
  BY <1>1, <1>3, <1>6, <1>8
<1>9. XorBytes(g) = f[m]
  BY <1>7, <1>8
<1> QED
  BY <1>9 DEF g, M

(* The parity of a frame, and the bytes it is made of.                     *)
LEMMA ParityFacts ==
  ASSUME NEW f \in Accepted, NEW j \in 1 .. MaxPayload
  PROVE  LET row == [k \in 0 .. Mpq!DataChunks(f) - 1 |-> ByteAt(Mpq!ChunkBytes(f, k), j)]
         IN  AP!Disjoint(row) /\ ByteAt(Mpq!Parity(f), j) = XorBytes(row)
<1> DEFINE n == Mpq!DataChunks(f)
           row == [k \in 0 .. n - 1 |-> ByteAt(Mpq!ChunkBytes(f, k), j)]
           (* The layouts of the other transport know frames with weights. *)
           g == [size |-> f.size, content |-> f.content, weights |-> << >>]
<1>1. f.size \in Nat /\ f.size > 0 /\ n \in Nat /\ n > 0 /\ n = AP!ChunkCount(g.size)
  BY PacketCounts
<1>2. MaxPayload \in Nat /\ j \in Nat \ {0}
  BY MaxPayloadAssumption
<1>3. AP!HandedOver(g)
  BY <1>1 DEF AP!HandedOver, AP!Uniform
<1>4. \A k : AP!ChunkBytes(g, k) = Mpq!ChunkBytes(f, k)
  BY DEF AP!ChunkBytes, Mpq!ChunkBytes, AP!ChunkSize, Mpq!ChunkSize
<1>5. \A p, i : AP!ByteAt(p, i) = ByteAt(p, i) /\ Mpq!ByteAt(p, i) = ByteAt(p, i)
  BY DEF AP!ByteAt, Mpq!ByteAt, ByteAt
<1>6. \A b : Mpq!XorBytes(b) = XorBytes(b)
  BY MpqCardinality DEF Mpq!XorBytes, XorBytes
<1>7. AP!Disjoint([k \in 0 .. 0 + n - 1 |-> AP!ByteAt(AP!ChunkBytes(g, k), j)])
  <2>1. 0 \in 0 .. AP!ChunkCount(g.size) - 1 /\ 0 + n <= AP!ChunkCount(g.size) /\ n \in Nat
    BY <1>1
  <2> HIDE DEF g, n
  <2> QED
    BY <1>2, <1>3, <2>1, MaxPayloadAssumption, AP!BytesAreDisjoint
<1>8. AP!Disjoint(row)
  <2>1. 0 + n - 1 = n - 1
    BY <1>1
  <2>2. [k \in 0 .. n - 1 |-> AP!ByteAt(AP!ChunkBytes(g, k), j)] = row
    BY <1>4, <1>5
  <2> HIDE DEF g, n, row
  <2> QED
    BY <1>7, <2>1, <2>2
<1>9. ByteAt(Mpq!Parity(f), j) = XorBytes(row)
  <2> DEFINE q == [i \in 1 .. MaxPayload |->
                     XorBytes([k \in 0 .. n - 1 |-> ByteAt(Mpq!ChunkBytes(f, k), i)])]
  <2>1. Mpq!Parity(f) = q
    BY <1>5, <1>6 DEF Mpq!Parity
  <2>2. Len(q) = MaxPayload
    BY <1>2
  <2>3. q[j] = XorBytes(row)
    OBVIOUS
  <2> HIDE DEF q, row
  <2> QED
    BY <1>2, <2>1, <2>2, <2>3 DEF ByteAt
<1> QED
  BY <1>8, <1>9

(* The datagrams of a frame whose end was sent: one for each chunk.        *)
LEMMA EndedFrame ==
  ASSUME MpqInv, NEW i \in DOMAIN mpq_wire, mpq_wire[i].end
  PROVE  LET f == FrameOf(mpq_wire[i])
             last == mpq_wire[i].chunk
             at(k) == mpq_wire[i - last + k]
         IN  /\ f \in Accepted /\ last \in Nat /\ last + 1 = Mpq!PacketCount(f)
             /\ \A k \in 0 .. last :
                  /\ at(k) \in Mpq!OfFrame(f.content)
                  /\ at(k).chunk = k
                  /\ \E p \in Nat : at(k) = Piece(f, k, p)
             /\ \A d \in Mpq!OfFrame(f.content) : d.chunk \in 0 .. last /\ d = at(d.chunk)
<1> DEFINE w == mpq_wire
           e == w[i]
           f == FrameOf(e)
           last == e.chunk
           at(k) == w[i - last + k]
<1>1. \A k \in DOMAIN w : w[k] \in Pieces /\ k \in Nat
  BY DEF MpqInv, MpqShape
<1>2. DOMAIN w = 1 .. Len(w) /\ Len(w) \in Nat
  BY DEF MpqInv, MpqShape
<1>3. e \in Pieces /\ i \in 1 .. Len(w)
  BY <1>1, <1>2
<1>4. /\ f \in Accepted /\ last \in Nat /\ last + 1 = Mpq!PacketCount(f) /\ e.content = f.content
  BY <1>3, PieceFacts
<1>5. \A k \in DOMAIN w : w[k].chunk < w[k].chunks /\ Follow(w, FrameOf(w[k]), k, w[k].chunk)
  BY DEF MpqInv, InRuns
<1>6. \A j, k \in DOMAIN w : w[j].content = w[k].content => j - w[j].chunk = k - w[k].chunk
  BY DEF MpqInv, OneRunEach
<1>7. Mpq!OfFrame(f.content) = {d \in Range(w) : d.content = f.content}
  BY DEF Mpq!OfFrame, Mpq!Range, Range
<1> HIDE DEF w
<1>8. last < i /\ \A k \in 0 .. last : FrameOf(at(k)) = f /\ at(k).chunk = k
  <2>1. Follow(w, f, i, last)
    BY <1>2, <1>3, <1>5
  <2> HIDE DEF f, last
  <2> QED
    BY <2>1 DEF Follow
<1> HIDE DEF f, last
<1>9. ASSUME NEW k \in 0 .. last
      PROVE  /\ at(k) \in Mpq!OfFrame(f.content) /\ at(k).chunk = k
             /\ \E p \in Nat : at(k) = Piece(f, k, p)
  <2>1. i - last + k \in 1 .. Len(w)
    BY <1>2, <1>3, <1>4, <1>8
  <2>2. at(k) \in Pieces /\ at(k) \in Range(w)
    BY <1>1, <1>2, <2>1 DEF Range
  <2>3. FrameOf(at(k)) = f /\ at(k).chunk = k
    BY <1>8
  <2> HIDE DEF at
  <2>4. at(k).content = f.content /\ \E p \in Nat : at(k) = Piece(f, k, p)
    BY <2>2, <2>3, PieceFacts
  <2> QED
    BY <1>7, <2>2, <2>3, <2>4
<1>10. ASSUME NEW d \in Mpq!OfFrame(f.content)
       PROVE  d.chunk \in 0 .. last /\ d = at(d.chunk)
  <2>1. PICK j \in DOMAIN w : w[j] = d /\ d.content = f.content
    BY <1>7 DEF Range
  <2>2. d \in Pieces /\ j \in Nat
    BY <1>1, <2>1
  <2>3. d.chunk \in Nat /\ d.chunks = Mpq!PacketCount(FrameOf(d))
    BY <2>2, PieceFacts
  <2>4. j - d.chunk = i - last
    BY <1>2, <1>3, <1>4, <1>6, <2>1 DEF last
  <2>5. FrameOf(d) = f
    <3>1. Follow(w, FrameOf(d), j, d.chunk)
      BY <1>5, <2>1
    <3>2. 0 \in 0 .. d.chunk
      BY <2>3
    <3>3. FrameOf(w[j - d.chunk + 0]) = FrameOf(d)
      BY <3>1, <3>2, Zenon DEF Follow
    <3>4. j - d.chunk + 0 = i - last + 0 /\ 0 \in 0 .. last
      BY <1>4, <2>4
    <3>5. FrameOf(w[i - last + 0]) = f
      BY <1>8, <3>4
    <3> QED
      BY <3>3, <3>4, <3>5
  <2>6. d.chunk \in 0 .. last
    <3>1. d.chunk < last + 1
      BY <1>4, <1>5, <2>1, <2>3, <2>5
    <3> QED
      BY <1>4, <2>3, <3>1
  <2>7. i - last + d.chunk = j
    BY <1>3, <1>4, <2>2, <2>3, <2>4
  <2> QED
    BY <2>1, <2>6, <2>7
<1>11. /\ \A k \in 0 .. last :
            /\ at(k) \in Mpq!OfFrame(f.content)
            /\ at(k).chunk = k
            /\ \E p \in Nat : at(k) = Piece(f, k, p)
       /\ \A d \in Mpq!OfFrame(f.content) : d.chunk \in 0 .. last /\ d = at(d.chunk)
  BY <1>9, <1>10, Zenon
<1> QED
  BY <1>4, <1>11, Zenon DEF f, last, w

(* Whichever chunk of an ended frame is lost, the others give it back.     *)
LEMMA LossIsRepaired ==
  ASSUME MpqInv, NEW n, NEW e \in Mpq!OfFrame(n), e.end, e.fec,
         NEW d \in Mpq!OfFrame(n), ~d.parity
  PROVE  Mpq!Repaired(d, Mpq!OfFrame(n) \ {d}) = d.payload
<1>1. PICK i \in DOMAIN mpq_wire : mpq_wire[i] = e /\ e.content = n
  BY DEF Mpq!OfFrame, Mpq!Range
<1> DEFINE f == FrameOf(mpq_wire[i])
           K == mpq_wire[i].chunk
           at(k) == mpq_wire[i - K + k]
           all == Mpq!OfFrame(n)
           others == all \ {d}
           m == d.chunk
<1>2. f.content = n /\ f.fec = e.fec
  BY <1>1 DEF FrameOf
<1>3. /\ f \in Accepted /\ K \in Nat /\ K + 1 = Mpq!PacketCount(f)
      /\ \A k \in 0 .. K :
           at(k) \in all /\ at(k).chunk = k /\ \E p \in Nat : at(k) = Piece(f, k, p)
      /\ \A o \in all : o.chunk \in 0 .. K /\ o = at(o.chunk)
  BY <1>1, <1>2, EndedFrame
<1> HIDE DEF f, K, at, all
<1>4. K = Mpq!DataChunks(f) /\ K > 0
  <2>1. f.fec
    BY <1>2
  <2> QED
    BY <1>3, <2>1, PacketCounts
<1>5. \A k \in 0 .. K : at(k).payload = IF k = K THEN Mpq!Parity(f) ELSE Mpq!ChunkBytes(f, k)
  <2> SUFFICES ASSUME NEW k \in 0 .. K
               PROVE  at(k).payload = IF k = K THEN Mpq!Parity(f) ELSE Mpq!ChunkBytes(f, k)
    OBVIOUS
  <2>1. PICK p \in Nat : at(k) = Piece(f, k, p)
    BY <1>3
  <2> QED
    BY <1>4, <2>1 DEF Piece
<1>6. /\ d \in all /\ m \in 0 .. K - 1 /\ d = at(m) /\ d.size = f.size
      /\ d.payload = Mpq!ChunkBytes(f, m)
  <2>1. d \in all /\ m \in 0 .. K /\ d = at(m)
    BY <1>3 DEF all
  <2>2. PICK p \in Nat : d = Piece(f, m, p)
    BY <1>3, <2>1
  <2>3. m # K /\ d.size = f.size
    <3> HIDE DEF m
    <3>1. d.size = f.size
      BY <2>2 DEF Piece
    <3>2. Piece(f, m, p).parity = (m = Mpq!DataChunks(f))
      BY Zenon DEF Piece
    <3>3. ~Piece(f, m, p).parity
      BY <2>2
    <3> QED
      BY <1>4, <3>1, <3>2, <3>3, Zenon
  <2>4. m \in 0 .. K - 1
    BY <1>3, <2>1, <2>3
  <2> HIDE DEF m
  <2> QED
    BY <1>5, <2>1, <2>3, <2>4
<1> HIDE DEF m
<1>7. {o.chunk : o \in others} = (0 .. K - 1 \ {m}) \cup {K}
  <2>1. ASSUME NEW o \in others PROVE o.chunk \in (0 .. K - 1 \ {m}) \cup {K}
    <3>1. o.chunk \in 0 .. K /\ o.chunk # m
      BY <1>3, <1>6
    <3> QED
      BY <1>3, <3>1
  <2>2. ASSUME NEW k \in (0 .. K - 1 \ {m}) \cup {K}
        PROVE  \E o \in others : o.chunk = k
    <3>1. k \in 0 .. K /\ k # m
      BY <1>3, <1>6
    <3>2. at(k) \in others /\ at(k).chunk = k
      BY <1>3, <1>6, <3>1
    <3> QED
      BY <3>2
  <2> HIDE DEF others
  <2> QED
    BY <2>1, <2>2
<1>8. ASSUME NEW k \in (0 .. K - 1 \ {m}) \cup {K}
      PROVE  (CHOOSE o \in others : o.chunk = k) = at(k)
  <2>1. k \in 0 .. K /\ k # m
    BY <1>3, <1>6
  <2>2. at(k) \in others /\ at(k).chunk = k
    BY <1>3, <1>6, <2>1
  <2>3. \A o \in others : o.chunk = k => o = at(k)
    BY <1>3
  <2> HIDE DEF others
  <2> QED
    BY <2>2, <2>3
<1>9. /\ \A p, j : Mpq!ByteAt(p, j) = ByteAt(p, j)
      /\ \A b : Mpq!XorBytes(b) = XorBytes(b)
  BY MpqCardinality DEF Mpq!ByteAt, ByteAt, Mpq!XorBytes, XorBytes
<1> DEFINE len == Mpq!ChunkSize(f.size, m)
<1>10. len \in Nat /\ len <= MaxPayload
  <2>1. f.size \in Nat /\ f.size > 0 /\ K = AP!ChunkCount(f.size)
    BY <1>3, <1>4, PacketCounts
  <2>2. AP!ChunkSize(f.size, m) \in Nat /\ AP!ChunkSize(f.size, m) <= MaxPayload
    BY <1>6, <2>1, MaxPayloadAssumption, AP!ChunkSizeFacts
  <2>3. AP!ChunkSize(f.size, m) = len
    BY DEF AP!ChunkSize, Mpq!ChunkSize
  <2> QED
    BY <2>2, <2>3
<1> HIDE DEF len
<1>11. ASSUME NEW j \in 1 .. len
       PROVE  Mpq!XorBytes([k \in {o.chunk : o \in others} |->
                 Mpq!ByteAt((CHOOSE o \in others : o.chunk = k).payload, j)])
                = d.payload[j]
  <2> DEFINE row == [k \in 0 .. K - 1 |-> ByteAt(Mpq!ChunkBytes(f, k), j)]
             M == (0 .. K - 1 \ {m}) \cup {K}
             rest == [k \in M |-> IF k = K THEN XorBytes(row) ELSE row[k]]
  <2>1. j \in 1 .. MaxPayload /\ j \in Nat
    BY <1>10, MaxPayloadAssumption
  <2>2. AP!Disjoint(row) /\ ByteAt(Mpq!Parity(f), j) = XorBytes(row)
    BY <1>3, <1>4, <2>1, ParityFacts
  <2>3. K \notin 0 .. K - 1
    BY <1>3
  <2>4. \A k \in M : ByteAt(at(k).payload, j) = IF k = K THEN XorBytes(row) ELSE row[k]
    <3> SUFFICES ASSUME NEW k \in M
                 PROVE  ByteAt(at(k).payload, j) = IF k = K THEN XorBytes(row) ELSE row[k]
      OBVIOUS
    <3>1. CASE k = K
      BY <1>3, <1>5, <2>2, <3>1
    <3>2. CASE k # K
      <4>1. k \in 0 .. K /\ k \in 0 .. K - 1
        BY <1>3, <3>2
      <4> QED
        BY <1>5, <3>2, <4>1
    <3> QED
      BY <3>1, <3>2
  <2>5. [k \in {o.chunk : o \in others} |->
                 Mpq!ByteAt((CHOOSE o \in others : o.chunk = k).payload, j)] = rest
    <3>1. \A k \in M : Mpq!ByteAt((CHOOSE o \in others : o.chunk = k).payload, j)
                         = IF k = K THEN XorBytes(row) ELSE row[k]
      BY <1>8, <1>9, <2>4
    <3> HIDE DEF row, others
    <3> QED
      BY <1>7, <3>1
  <2>6. XorBytes(rest) = row[m]
    <3>1. DOMAIN row = 0 .. K - 1
      OBVIOUS
    <3>2. AP!Disjoint(row) /\ m \in DOMAIN row /\ K \notin DOMAIN row
      BY <1>6, <2>2, <2>3
    <3>3. XorBytes([k \in (DOMAIN row \ {m}) \cup {K} |-> IF k = K THEN XorBytes(row) ELSE row[k]])
            = row[m]
      <4> HIDE DEF row
      <4> QED
        BY <3>2, ParityRestores
    <3> HIDE DEF row
    <3> QED
      BY <3>1, <3>3
  <2>7. row[m] = d.payload[j]
    <3>1. row[m] = ByteAt(Mpq!ChunkBytes(f, m), j)
      BY <1>6
    <3>2. Len(Mpq!ChunkBytes(f, m)) = len
      BY <1>10 DEF Mpq!ChunkBytes, len
    <3> QED
      BY <1>6, <1>10, <3>1, <3>2 DEF ByteAt
  <2> HIDE DEF row, rest, others
  <2> QED
    BY <1>9, <2>5, <2>6, <2>7
<1>12. d.payload = [j \in 1 .. len |-> d.payload[j]]
  BY <1>6 DEF Mpq!ChunkBytes, len
<1>13. Mpq!Repaired(d, others)
         = [j \in 1 .. len |->
              Mpq!XorBytes([k \in {o.chunk : o \in others} |->
                 Mpq!ByteAt((CHOOSE o \in others : o.chunk = k).payload, j)])]
  <2> HIDE DEF others
  <2> QED
    BY <1>6 DEF Mpq!Repaired, len, m
<1>14. Mpq!Repaired(d, others) = [j \in 1 .. len |-> d.payload[j]]
  BY <1>11, <1>13
<1>15. Mpq!Repaired(d, others) = d.payload
  BY <1>12, <1>14, Zenon
<1> QED
  BY <1>15 DEF all

-----------------------------------------------------------------------------
(* Whichever part a behaviour plays, what it does of MpqSender is steps of *)
(* it.                                                                     *)
LEMMA MpqSteps == [MCNext]_allVars => [Mpq!Next]_mpqVars
  BY DEF MCNext, allVars, mpqVars

(* The invariant of the older transport holds, for all frame and payload   *)
(* sizes, whatever is refused and wherever a frame is given up.            *)
LEMMA MpqInvariant == MCSpec => []MpqInv
<1>1. MCInit => MpqInv
  BY MpqInitially DEF MCInit
<1>2. MpqInv /\ [MCNext]_allVars => MpqInv'
  BY MpqSteps, MpqStep
<1> QED
  BY <1>1, <1>2, PTL DEF MCSpec

(* MpqSender: packet numbers have no gaps, and the end of a frame means    *)
(* that all of it has been sent, right before.                             *)
THEOREM NumbersTrue == MCSpec => []NumbersAreTrue
  BY MpqInvariant, MpqPromise, PTL

(* MpqSender: whichever chunk of a frame is lost, the others and the       *)
(* parity give it back, for every frame size and payload size.             *)
THEOREM LossRepaired == MCSpec => []AnyLossIsRepaired
<1>1. MpqInv => AnyLossIsRepaired
  BY LossIsRepaired, Zenon DEF AnyLossIsRepaired, Mpq!AnyLossIsRepaired
<1> QED
  BY <1>1, MpqInvariant, PTL

-----------------------------------------------------------------------------
(* The instance the runs play and the one the proofs are about lay out     *)
(* frames alike.                                                           *)
LEMMA SameStream == \A f : Eye!FrameLayout(f) = SP!FrameLayout(f)
<1>1. /\ \A n : Eye!ChunkCount(n) = SP!ChunkCount(n)
      /\ \A n, c : Eye!ChunkSize(n, c) = SP!ChunkSize(n, c)
      /\ \A S : Eye!Cardinality(S) = SP!Cardinality(S)
      /\ \A p, j : Eye!ByteAt(p, j) = SP!ByteAt(p, j)
      /\ \A q : Eye!FlattenSeq(q) = SP!FlattenSeq(q)
      /\ \A w : Eye!FecGroupSize(w) = SP!FecGroupSize(w)
      /\ Eye!Uniform = SP!Uniform /\ Eye!ParityIndex = SP!ParityIndex
  BY DEF Eye!ChunkCount, SP!ChunkCount, Eye!ChunkSize, SP!ChunkSize, Eye!Cardinality,
    SP!Cardinality, Eye!ByteAt, SP!ByteAt, Eye!FlattenSeq, SP!FlattenSeq, Eye!FecGroupSize,
    SP!FecGroupSize, Eye!Uniform, SP!Uniform, Eye!ParityIndex, SP!ParityIndex
<1>2. /\ \A f, c : Eye!ChunkBytes(f, c) = SP!ChunkBytes(f, c)
      /\ \A f, c : Eye!GroupSize(f, c) = SP!GroupSize(f, c)
      /\ \A b : Eye!XorBytes(b) = SP!XorBytes(b)
  BY <1>1 DEF Eye!ChunkBytes, SP!ChunkBytes, Eye!GroupSize, SP!GroupSize, Eye!WantedGroupSize,
    SP!WantedGroupSize, Eye!XorBytes, SP!XorBytes
<1>3. /\ \A f, b, n : Eye!ParityBytes(f, b, n) = SP!ParityBytes(f, b, n)
      /\ \A f, g, b, n, i : Eye!Slice(f, g, b, n, i) = SP!Slice(f, g, b, n, i)
      /\ \A f, g, b, n, p : Eye!ParityOf(f, g, b, n, p) = SP!ParityOf(f, g, b, n, p)
  BY <1>1, <1>2 DEF Eye!ParityBytes, SP!ParityBytes, Eye!Slice, SP!Slice, Eye!ParityOf, SP!ParityOf
<1>4. \A f : Eye!GroupBase(f) = SP!GroupBase(f)
  BY <1>1, <1>2 DEF Eye!GroupBase, SP!GroupBase
<1>5. \A f : Eye!Groups(f) = SP!Groups(f)
  BY <1>1, <1>4 DEF Eye!Groups, SP!Groups
<1>6. \A f, g : Eye!GroupDatagrams(f, g) = SP!GroupDatagrams(f, g)
  BY <1>2, <1>3, <1>4 DEF Eye!GroupDatagrams, SP!GroupDatagrams
<1> QED
  BY <1>1, <1>5, <1>6 DEF Eye!FrameLayout, SP!FrameLayout

(* EyeStream: what is sent again was sent before, is the last keyframe,    *)
(* and goes out once.                                                      *)
THEOREM RetriesRight == MCSpec => []RetriesAreRight
<1>1. SP!StreamAssumption
  BY PartsAssumption DEF Eye!StreamAssumption, SP!StreamAssumption
<1>2. MCInit => SP!IInv
  <2>1. Eye!Init => SP!Init
    BY DEF Eye!Init, SP!Init, Eye!NoNal, SP!NoNal, Eye!Uniform, SP!Uniform
  <2> QED
    BY <1>1, <2>1, SP!Initially, MaxPayloadAssumption DEF MCInit
<1>3. [MCNext]_allVars => [SP!Next]_eyeVars
  <2>1. Eye!Next => SP!Next
    BY SameStream DEF Eye!Next, SP!Next, Eye!Submit, SP!Submit, Eye!Worker, SP!Worker,
      Eye!TakeNack, SP!TakeNack, Eye!Resend, SP!Resend, Eye!EncodeFails, SP!EncodeFails,
      Eye!Encode, SP!Encode, Eye!CopyKeyframe, SP!CopyKeyframe, Eye!CacheFails,
      SP!CacheFails, Eye!PublishKeyframe, SP!PublishKeyframe, Eye!Send, SP!Send,
      Eye!ReceiveNack, SP!ReceiveNack, Eye!Matches, SP!Matches, Eye!Grown, SP!Grown,
      Eye!Transmit, SP!Transmit, Eye!AfterRetry, SP!AfterRetry, Eye!Dense, SP!Dense,
      Eye!Encoded, SP!Encoded, Eye!cacheVars, SP!cacheVars, Eye!ChunkCount, SP!ChunkCount,
      Eye!Uniform, SP!Uniform
  <2> QED
    BY <2>1 DEF MCNext, allVars, eyeVars
<1>4. SP!IInv /\ [MCNext]_allVars => SP!IInv'
  BY <1>1, <1>3, SP!NextIInv, MaxPayloadAssumption DEF eyeVars, SP!vars
<1>5. SP!IInv => RetriesAreRight
  <2>1. SP!IInv => SP!TypeOK /\ SP!RetriesAreRight
    BY DEF SP!IInv, SP!Shape, SP!RetriesAreRight, SP!CachedIsTheLast, SP!CacheIsCoherent
  <2>2. SP!TypeOK => Eye!TypeOK
    BY DEF SP!TypeOK, Eye!TypeOK
  <2>3. SP!RetriesAreRight => Eye!RetriesAreRight
    <3>1. /\ \A t : Eye!IsRetry(t) <=> SP!IsRetry(t)
          /\ \A f : Eye!Dense(f) = SP!Dense(f)
      BY DEF Eye!IsRetry, SP!IsRetry, Eye!Dense, SP!Dense, Eye!Uniform, SP!Uniform,
        Eye!ChunkCount, SP!ChunkCount
    <3>2. SP!OneRetryEach => Eye!OneRetryEach
      BY <3>1 DEF SP!OneRetryEach, Eye!OneRetryEach
    <3>3. SP!RetryIsTheKeyframe => Eye!RetryIsTheKeyframe
      BY <3>1 DEF SP!RetryIsTheKeyframe, Eye!RetryIsTheKeyframe
    <3>4. SP!SentInOrder => Eye!SentInOrder
      BY <3>1 DEF SP!SentInOrder, Eye!SentInOrder
    <3>5. SP!CacheIsCoherent => Eye!CacheIsCoherent
      BY DEF SP!CacheIsCoherent, Eye!CacheIsCoherent
    <3> QED
      BY <3>2, <3>3, <3>4, <3>5 DEF SP!RetriesAreRight, Eye!RetriesAreRight
  <2> QED
    BY <2>1, <2>2, <2>3 DEF RetriesAreRight
<1> QED
  BY <1>2, <1>4, <1>5, PTL DEF MCSpec
=============================================================================
