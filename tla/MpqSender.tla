----------------------------- MODULE MpqSender -----------------------------
(***************************************************************************)
(* The older transport (mps_udp_sender.c over mps_packet_writer.c): a      *)
(* frame is cut into chunks, one datagram each, optionally followed by one *)
(* XOR parity over all of them.  A datagram that cannot be sent aborts its *)
(* frame, and the next frame goes on with the same packet number.          *)
(*                                                                         *)
(* The header's constant fields and the bytes of the envelope are left     *)
(* out.  Bytes are as in ImtLayout, whose chunking is the same.            *)
(***************************************************************************)
EXTENDS ImtLayout

CONSTANTS
  MaxChunks,    \* MPS_PACKET_MAX_CHUNKS
  Sizes,        \* frame sizes, in bytes
  LastFrame     \* bound: frames that are sent

MpqAssumption ==
  MaxChunks \in Nat \ {0} /\ Sizes \subseteq Nat /\ LastFrame \in Nat

VARIABLES
  frame,        \* the frame that is being sent; size = 0: none
  chunk,        \* chunk_index
  writer,       \* packet_sequence
  packetsSent, framesSent,
  number,       \* frame_sequence: frames the caller has offered
  wire          \* history: the datagrams that were sent, in order

vars == << frame, chunk, writer, packetsSent, framesSent, number, wire >>

NoFrame == [size |-> 0, content |-> 0, fec |-> FALSE]

DataChunks(f) == ChunkCount(f.size)
PacketCount(f) == DataChunks(f) + (IF f.fec THEN 1 ELSE 0)

Init ==
  /\ frame = NoFrame /\ chunk = 0
  /\ writer = 0 /\ packetsSent = 0 /\ framesSent = 0 /\ number = 0
  /\ wire = << >>

-----------------------------------------------------------------------------
Fits(f) == PacketCount(f) <= MaxChunks

(* mps_udp_sender_send_frame and mps_udp_sender_send_frame_xor_fec; an     *)
(* empty frame, or one of too many chunks, is refused as a whole.          *)
BeginFrame ==
  /\ frame = NoFrame /\ number < LastFrame
  /\ number' = number + 1
  /\ \E size \in Sizes, fec \in BOOLEAN :
       LET f == [size |-> size, content |-> number + 1, fec |-> fec]
       IN  IF size # 0 /\ Fits(f) THEN frame' = f ELSE UNCHANGED frame
  /\ chunk' = 0
  /\ UNCHANGED << writer, packetsSent, framesSent, wire >>

(* Defect: a short last chunk is not padded but left out. *)
ParityOfFullChunks(f) ==
  [j \in 1 .. MaxPayload |->
     XorBytes([i \in {c \in 0 .. DataChunks(f) - 1 : ChunkSize(f.size, c) = MaxPayload} |->
                 ByteAt(ChunkBytes(f, i), j)])]

(* The parity is always of full size, and short chunks count as padded. *)
Parity(f) ==
  [j \in 1 .. MaxPayload |->
     XorBytes([i \in 0 .. DataChunks(f) - 1 |-> ByteAt(ChunkBytes(f, i), j)])]

EndOfFrame(f, c) == c + 1 = PacketCount(f)

(* mps_packet_writer_make and mps_packet_writer_make_payload *)
Datagram(f, c) ==
  [packet |-> writer, content |-> f.content, chunk |-> c, chunks |-> PacketCount(f),
   size |-> f.size, end |-> EndOfFrame(f, c),
   fec |-> f.fec, parity |-> c = DataChunks(f),
   payload |-> IF c = DataChunks(f) THEN Parity(f) ELSE ChunkBytes(f, c)]

Advance == writer + 1

SendPacket ==
  /\ frame # NoFrame
  /\ wire' = Append(wire, Datagram(frame, chunk))
  /\ writer' = Advance
  /\ packetsSent' = packetsSent + 1
  /\ IF chunk + 1 = PacketCount(frame)
     THEN frame' = NoFrame /\ chunk' = 0 /\ framesSent' = framesSent + 1
     ELSE chunk' = chunk + 1 /\ UNCHANGED << frame, framesSent >>
  /\ UNCHANGED number

(* Defect: the rest of the frame is sent all the same. *)
SkipPacket ==
  /\ frame # NoFrame
  /\ IF chunk + 1 = PacketCount(frame)
     THEN frame' = NoFrame /\ chunk' = 0 /\ framesSent' = framesSent + 1
     ELSE chunk' = chunk + 1 /\ UNCHANGED << frame, framesSent >>
  /\ UNCHANGED << writer, packetsSent, number, wire >>

(* sendto failed: the caller is told, and the frame is over. *)
AbortFrame ==
  /\ frame # NoFrame
  /\ frame' = NoFrame /\ chunk' = 0
  /\ UNCHANGED << writer, packetsSent, framesSent, number, wire >>

Next == BeginFrame \/ SendPacket \/ AbortFrame

Spec == Init /\ [][Next]_vars

-----------------------------------------------------------------------------
(* The shape of the state, and no packet count a receiver refuses.         *)
TypeOK ==
  /\ frame = NoFrame \/ (frame.size \in Sizes \ {0} /\ PacketCount(frame) <= MaxChunks)
  /\ chunk \in 0 .. MaxChunks - 1
  /\ writer \in Nat /\ packetsSent \in Nat /\ framesSent \in 0 .. LastFrame
  /\ number \in 0 .. LastFrame

(* Packet numbers have no gaps and no repetitions, whatever was refused or *)
(* aborted in between: to a receiver, a gap is a loss.                     *)
NumbersAreGapless ==
  packetsSent = Len(wire) /\ \A i \in DOMAIN wire : wire[i].packet = i - 1

OfFrame(n) == {d \in Range(wire) : d.content = n}

(* The end of a frame is announced once, by its last datagram and behind   *)
(* all the others; an aborted frame has no end.                            *)
EndMeansWhole ==
  /\ \A i \in DOMAIN wire :
       wire[i].end =>
         /\ wire[i].chunk + 1 = wire[i].chunks /\ i >= wire[i].chunks
         /\ \A c \in 0 .. wire[i].chunks - 1 :
              LET d == wire[i - wire[i].chunks + 1 + c]
              IN  d.content = wire[i].content /\ d.chunk = c
  /\ framesSent = Cardinality({d \in Range(wire) : d.end})

(* What a receiver can make of the other datagrams and the parity. *)
Repaired(d, others) ==
  [j \in 1 .. ChunkSize(d.size, d.chunk) |->
     XorBytes([k \in {o.chunk : o \in others} |->
                 ByteAt((CHOOSE o \in others : o.chunk = k).payload, j)])]

(* Whichever one of a frame's chunks is lost, the rest and the parity give *)
(* it back, a short last chunk included.                                   *)
AnyLossIsRepaired ==
  \A n \in 1 .. number :
    \A e \in OfFrame(n) :
      e.end /\ e.fec =>
        \A d \in OfFrame(n) :
          ~d.parity => Repaired(d, OfFrame(n) \ {d}) = d.payload
=============================================================================
