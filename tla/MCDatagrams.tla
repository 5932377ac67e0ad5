----------------------------- MODULE MCDatagrams -----------------------------
(***************************************************************************)
(* Small instances of what is put on the wire: the IMT packetizer, the     *)
(* encoder that sends through it and answers requests for a retry          *)
(* (EyeStream), the older transport (MpqSender) and the bytes of the       *)
(* datagrams (ImtWire).  A behaviour plays one part, chosen at the start.  *)
(***************************************************************************)
EXTENDS ImtPacketizer

CONSTANTS
  LastSeq, KeySizes, InterSizes, TailBound,  \* of EyeStream
  MpqChunks, Sizes, LastFrame,               \* of MpqSender
  Base, MaxMapTiles, Payloads, Damages       \* of ImtWire

VARIABLES
  part,                                                                 \* the part that is played
  mpq_frame, mpq_chunk, writer, packetsSent, framesSent, number, mpq_wire, \* of MpqSender
  written, datagram, harm,                                              \* of ImtWire
  eye_pc, job, nal, bytes, capacity, cache, pending, sent               \* of EyeStream

Mpq == INSTANCE MpqSender WITH
  MaxChunks <- MpqChunks, frame <- mpq_frame, chunk <- mpq_chunk, wire <- mpq_wire

Coded == INSTANCE ImtWire WITH sent <- written, wire <- datagram

Eye == INSTANCE EyeStream WITH pc <- eye_pc

mpqVars == << mpq_frame, mpq_chunk, writer, packetsSent, framesSent, number, mpq_wire >>
byteVars == << written, datagram, harm >>
eyeVars == << eye_pc, job, nal, bytes, capacity, cache, pending, sent >>
allVars == << part, packetVars, eyeVars, mpqVars, byteVars >>

ASSUME PartsAssumption == Mpq!MpqAssumption /\ Eye!StreamAssumption /\ Coded!WireAssumption

Given(seq, size, weights) ==
  [seq |-> seq, size |-> size, keyframe |-> seq % 2 = 1, weights |-> weights, content |-> seq]

(* Frames whose groups take every size the bounds allow (weights at both   *)
(* sides of each threshold), one of a single byte, one whose last group is *)
(* cut by the end of the frame, and one for each way to be rejected.       *)
MCFrames ==
  {Given(1, 1, Uniform), Given(2, 9, Uniform), Given(3, 21, Uniform),
   Given(4, 11, << 192, 0, 191, 0, 0, 0 >>),
   Given(5, 12, << 127, 0, 0, 0, 0, 0 >>),
   Given(6, 37, << 64, 0, 0, 0, 0, 0, 0, 0, 63, 0, 0, 0, 0, 0, 0, 0, 0, 0, 0 >>),
   Given(7, 9, << 200, 200, 200, 200, 128 >>), Given(7, 9, << 200, 0, 1 >>),
   Given(8, 0, Uniform), Given(9, 41, Uniform)}

-----------------------------------------------------------------------------
MCInit ==
  /\ part \in {"packetizer", "eye", "mpq", "bytes"}
  /\ Eye!Init /\ Mpq!Init /\ Coded!Init
  /\ IF part = "packetizer" THEN PacketizeInit
     ELSE PacketizeInit /\ frame = Given(1, 1, Uniform)

MCNext ==
  \/ part = "packetizer" /\ PacketizeNext /\ UNCHANGED << part, eyeVars, mpqVars, byteVars >>
  \/ part = "eye" /\ Eye!Next /\ UNCHANGED << part, packetVars, mpqVars, byteVars >>
  \/ part = "mpq" /\ Mpq!Next /\ UNCHANGED << part, packetVars, eyeVars, byteVars >>
  \/ part = "bytes" /\ Coded!Next /\ UNCHANGED << part, packetVars, eyeVars, mpqVars >>

(* The fairness of EyeStream, for the behaviours that play it. *)
MCSpec ==
  /\ MCInit /\ [][MCNext]_allVars
  /\ WF_eyeVars(part = "eye" /\ Eye!Worker)
  /\ WF_eyeVars(part = "eye" /\ Eye!Submit)

-----------------------------------------------------------------------------
(* Of EyeStream: retries are the keyframes that were sent, once each.      *)
RetriesAreRight == Eye!TypeOK /\ Eye!RetriesAreRight

(* Of EyeStream: every accepted request is answered.                       *)
NackIsAnswered == Eye!NackIsAnswered

(* Of MpqSender: packet numbers without gaps, frame ends that mean a whole *)
(* frame.                                                                  *)
NumbersAreTrue == Mpq!TypeOK /\ Mpq!NumbersAreGapless /\ Mpq!EndMeansWhole

(* Of MpqSender: any single loss is repaired from the parity.              *)
AnyLossIsRepaired == Mpq!AnyLossIsRepaired

(* Of ImtWire: what the readers make of datagrams whole, cut, lengthened   *)
(* and damaged.                                                            *)
ReadersAreExact ==
  /\ Coded!TypeOK
  /\ Coded!ArrivesAsSent
  /\ Coded!CutIsRefused
  /\ Coded!LongerIsNoNack
  /\ Coded!DamageStaysInItsField
=============================================================================
