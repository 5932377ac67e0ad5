---------------------------- MODULE ImtPacketizer ----------------------------
(***************************************************************************)
(* The sending half of IMT as an eye stream drives it                      *)
(* (imt_packetizer_send_frame through emit_datagram and send_ctx_flush):   *)
(* datagrams are produced one at a time into a batch, a full batch is      *)
(* handed to sendmmsg, and the kernel may take any part of it and refuse   *)
(* the rest.                                                               *)
(*                                                                         *)
(* One thread runs all of it; a step is one datagram, so that the loop's   *)
(* own state (chunk, group, parity) can be compared with the layout of the *)
(* whole frame.                                                            *)
(***************************************************************************)
EXTENDS ImtLayout

CONSTANTS
  BatchSize,   \* MPS_SEND_BATCH_DATAGRAMS
  WireLimit,   \* 0xFFFF, the largest chunk count a header can carry
  Frames       \* the frames that may be sent

ASSUME SenderAssumption ==
  /\ BatchSize \in Nat \ {0}
  /\ WireLimit \in Nat

ASSUME FramesAssumption ==
  \A f \in Frames :
    /\ f.seq \in Nat /\ f.size \in Nat /\ f.keyframe \in BOOLEAN
    /\ f.weights \in Seq(0 .. 255)

PacketToken == {f.content : f \in Frames} \X Nat

PacketPayload == Seq(SUBSET PacketToken)

Datagram ==
  [type : {"SLICE", "PARITY"}, seq : Nat, keyframe : BOOLEAN, size : Nat,
   chunks : Nat, chunk : Nat, group : Nat, groupSize : Nat, index : Nat,
   payload : PacketPayload]

VARIABLES
  pc,      \* "idle", "emit" inside the packetizer's loops, "flush" after them
  frame,   \* the frame being sent, the last one when idle
  chunk,   \* first chunk of the current group
  group,   \* its id
  index,   \* next chunk within the group; the group's size: its parity is next
  parity,  \* XOR of the chunks of the group emitted so far
  batch,   \* datagrams waiting for sendmmsg
  wire,    \* the datagrams of frame that the kernel has accepted, in order
  result   \* "none" while sending, then "ok", "failed" or "rejected"

packetVars == << pc, frame, chunk, group, index, parity, batch, wire, result >>

-----------------------------------------------------------------------------
Chunks == ChunkCount(frame.size)

Zeros(f, c) == [j \in 1 .. ChunkSize(f.size, c) |-> {}]

(* Defect: the parity is the last chunk instead of the XOR of all. *)
Overwrite(bytes) == [j \in DOMAIN parity |-> ByteAt(bytes, j)]

Accumulate(bytes) ==
  [j \in DOMAIN parity |-> XorBytes(<< parity[j], ByteAt(bytes, j) >>)]

(* Before the first frame, frame is any of them. *)
PacketizeInit ==
  /\ pc = "idle"
  /\ frame \in Frames
  /\ chunk = 0 /\ group = 0 /\ index = 0
  /\ parity = << >>
  /\ batch = << >>
  /\ wire = << >>
  /\ result = "none"

(* The checks of imt_packetizer_send_frame, before anything is emitted. *)
Sendable(f) ==
  /\ f.size # 0
  /\ ChunkCount(f.size) <= WireLimit
  /\ f.weights # Uniform => Len(f.weights) >= ChunkCount(f.size)

Begin(f) ==
  /\ pc = "idle"
  /\ Sendable(f)
  /\ pc' = "emit"
  /\ frame' = f
  /\ chunk' = 0 /\ group' = 0 /\ index' = 0
  /\ parity' = Zeros(f, 0)
  /\ wire' = << >>
  /\ result' = "none"
  /\ UNCHANGED batch

(* The caller empties the batch whenever send_frame fails. *)
Reject(f) ==
  /\ pc = "idle"
  /\ ~Sendable(f)
  /\ frame' = f
  /\ batch' = << >>
  /\ wire' = << >>
  /\ result' = "rejected"
  /\ UNCHANGED << pc, chunk, group, index, parity >>

-----------------------------------------------------------------------------
(* send_ctx_flush: sendmmsg is called until the batch is gone or a call    *)
(* fails, so the kernel has accepted a prefix; the batch is empty either   *)
(* way.                                                                    *)
Transmit(b, n) ==
  /\ wire' = wire \o SubSeq(b, 1, n)
  /\ batch' = << >>

(* emit_datagram: a batch that has become full is flushed at once. *)
Emitted(d) ==
  LET b == Append(batch, d)
  IN  \/ Len(b) < BatchSize /\ batch' = b /\ UNCHANGED wire
      \/ Len(b) >= BatchSize /\ Transmit(b, Len(b))

CurrentSlice == Slice(frame, group, chunk, GroupSize(frame, chunk), index)
CurrentParity == ParityOf(frame, group, chunk, GroupSize(frame, chunk), parity)

EmitSlice ==
  /\ pc = "emit"
  /\ index < GroupSize(frame, chunk)
  /\ Emitted(CurrentSlice)
  /\ parity' = Accumulate(CurrentSlice.payload)
  /\ index' = index + 1
  /\ UNCHANGED << pc, frame, chunk, group, result >>

(* The guard against a group id above 0xFFFF cannot fail: there are at     *)
(* most half as many groups as chunks (WireFits).                          *)
EmitParity ==
  /\ pc = "emit"
  /\ index = GroupSize(frame, chunk)
  /\ Emitted(CurrentParity)
  /\ chunk' = chunk + GroupSize(frame, chunk)
  /\ group' = group + 1
  /\ index' = 0
  /\ IF chunk' < Chunks
     THEN parity' = Zeros(frame, chunk') /\ UNCHANGED pc
     ELSE pc' = "flush" /\ UNCHANGED parity
  /\ UNCHANGED << frame, result >>

(* The kernel refuses part of a full batch: the frame is abandoned and no  *)
(* tail of it is transmitted.                                              *)
EmitFails ==
  /\ pc = "emit"
  /\ LET d == IF index < GroupSize(frame, chunk) THEN CurrentSlice ELSE CurrentParity
         b == Append(batch, d)
     IN  /\ Len(b) >= BatchSize
         /\ \E n \in 0 .. Len(b) - 1 : Transmit(b, n)
  /\ pc' = "idle"
  /\ result' = "failed"
  /\ UNCHANGED << frame, chunk, group, index, parity >>

(* The last, partly filled batch. *)
FinalFlush ==
  /\ pc = "flush"
  /\ \E n \in 0 .. Len(batch) :
       /\ Transmit(batch, n)
       /\ result' = IF n = Len(batch) THEN "ok" ELSE "failed"
  /\ pc' = "idle"
  /\ UNCHANGED << frame, chunk, group, index, parity >>

PacketizeNext ==
  \/ \E f \in Frames : Begin(f) \/ Reject(f)
  \/ EmitSlice
  \/ EmitParity
  \/ EmitFails
  \/ FinalFlush

PacketizeSpec == PacketizeInit /\ [][PacketizeNext]_packetVars

-----------------------------------------------------------------------------
(* The shape of the state; in the loop, the position is inside the frame   *)
(* and the parity buffer is as long as the group's first chunk.            *)
PacketTypeOK ==
  /\ pc \in {"idle", "emit", "flush"}
  /\ result \in {"none", "ok", "failed", "rejected"}
  /\ frame \in Frames
  /\ chunk \in Nat /\ group \in Nat /\ index \in Nat
  /\ parity \in PacketPayload
  /\ batch \in Seq(Datagram) /\ wire \in Seq(Datagram)
  /\ pc = "emit" =>
       /\ Sendable(frame)
       /\ chunk < Chunks
       /\ index <= GroupSize(frame, chunk)
       /\ Len(parity) = ChunkSize(frame.size, chunk)

(* What has gone out or waits to go out is the beginning of the frame's    *)
(* layout: nothing of another frame, nothing skipped, nothing twice, and   *)
(* every parity the XOR of exactly its group.  An aborted frame leaves a   *)
(* prefix on the wire.                                                     *)
WireIsPrefix ==
  result # "rejected" /\ (pc # "idle" \/ result # "none") =>
    IsPrefix(wire \o batch, FrameLayout(frame))

(* A frame is reported sent exactly when all of it has been accepted.      *)
SentMeansWhole ==
  pc = "idle" /\ result # "none" /\ result # "rejected" =>
    (result = "ok" <=> wire = FrameLayout(frame))

(* "Never transmit a partial tail after packetization aborted": the batch  *)
(* is empty between frames, and never overflows within one.                *)
BatchIsBounded ==
  /\ pc = "idle" => batch = << >>
  /\ Len(batch) < BatchSize

(* Whatever is sent finds a place at the receiver: the header agrees with  *)
(* the frame, and the group id is below the number of groups an assembler  *)
(* for frames of this size keeps (R5.2).                                   *)
Fits(d) ==
  /\ d.size > 0
  /\ d.chunks = ChunkCount(d.size)
  /\ d.group < (d.chunks + 1) \div 2
  /\ Placed(d)

WireFits ==
  /\ \A i \in DOMAIN wire : Fits(wire[i])
  /\ \A i \in DOMAIN batch : Fits(batch[i])

(* What goes out is one frame's layout, and the caller is told the truth   *)
(* about it.                                                               *)
SentAsLaidOut == WireIsPrefix /\ SentMeansWhole

(* Nothing the packetizer indexes or sends is out of range, neither here   *)
(* nor at the receiver.                                                    *)
EverythingFits == PacketTypeOK /\ BatchIsBounded /\ WireFits
=============================================================================
