------------------------------ MODULE ImtWire ------------------------------
(***************************************************************************)
(* The bytes of an IMT datagram (src/native/imt/src/imt_wire.c), with the  *)
(* datagrams the programs make of them: chunks and parities, importance    *)
(* maps (imt_packetizer_send_map), feedback and keyframe NACKs; and with   *)
(* the three places that read datagrams, each of which must refuse what is *)
(* not meant for it: the assembler, the feedback thread of the             *)
(* side-by-side sender and the NACK thread of an eye.                      *)
(*                                                                         *)
(* The network may cut a datagram, lengthen it or damage one byte.  A byte *)
(* has Base values; the widths and places of the fields are the real ones. *)
(***************************************************************************)
EXTENDS Integers, Sequences, FiniteSetsExt

CONSTANTS
  Base,          \* 256: values of a byte
  MaxMapTiles,   \* of the packetizer, and the assembler's map_capacity
  Payloads,      \* sizes of a chunk's payload
  Damages        \* what may be added to a byte

HeaderSize == 40
FeedbackSize == 32
MapHeaderSize == 8

WireAssumption ==
  /\ Base \in Nat /\ Base > 6 /\ Base * Base > HeaderSize
  /\ MaxMapTiles \in Nat \ {0} /\ MapHeaderSize + MaxMapTiles < Base * Base
  /\ Payloads \subseteq 0 .. Base * Base - 1
  /\ Damages \subseteq 1 .. Base - 1

VARIABLES
  sent,    \* what was written: its kind, header and content
  wire,    \* the datagram, as it stands; empty before it is sent
  harm     \* what the network has done to it

vars == << sent, wire, harm >>

-----------------------------------------------------------------------------
(* Fields: where they start and how many bytes they have. *)

Header ==
  [magic0 |-> << 0, 1 >>, magic1 |-> << 1, 1 >>, version |-> << 2, 1 >>, type |-> << 3, 1 >>,
   header_size |-> << 4, 2 >>, flags |-> << 6, 2 >>, frame_seq |-> << 8, 8 >>,
   capture_timestamp_ns |-> << 16, 8 >>, frame_size |-> << 24, 4 >>,
   chunk_index |-> << 28, 2 >>, chunk_count |-> << 30, 2 >>, payload_size |-> << 32, 2 >>,
   fec_group |-> << 34, 2 >>, fec_group_size |-> << 36, 1 >>, fec_index |-> << 37, 1 >>]

Feedback ==
  [latest_frame_seq |-> << 0, 8 >>, latest_capture_timestamp_ns |-> << 8, 8 >>,
   frame_age_ns |-> << 16, 8 >>, frames_completed |-> << 24, 4 >>,
   frames_incomplete |-> << 28, 4 >>]

MapHeader == [cols |-> << 0, 2 >>, rows |-> << 2, 2 >>, tile_size |-> << 4, 2 >>]

Fixed == [magic0 |-> 4, magic1 |-> 5, version |-> 1, header_size |-> HeaderSize]

Types == [SLICE |-> 0, MAP |-> 1, PARITY |-> 2, FEEDBACK |-> 3, KEYFRAME_NACK |-> 4]

Known(type) == \E kind \in DOMAIN Types : Types[kind] = type

-----------------------------------------------------------------------------
(* Defect: the higher byte of a pair comes first. *)
HighFirst(value, place) ==
  (value \div Base ^ (IF place % 2 = 0 THEN place + 1 ELSE place - 1)) % Base

Digit(value, place) == (value \div Base ^ place) % Base

(* Bytes that belong to no field are reserved and 0. *)
Encode(format, size, record) ==
  [i \in 1 .. size |->
     LET over == {f \in DOMAIN format : i - 1 - format[f][1] \in 0 .. format[f][2] - 1}
     IN  IF over = {} THEN 0
         ELSE LET f == CHOOSE f \in over : TRUE IN Digit(record[f], i - 1 - format[f][1])]

(* Behind the end of a datagram lies what the buffer held before. *)
At(bytes, i) == IF i \in DOMAIN bytes THEN bytes[i] ELSE 0

Read(bytes, from, width) ==
  MapThenSumSet(LAMBDA i : At(bytes, from + i + 1) * Base ^ i, 0 .. width - 1)

Decode(format, bytes) == [f \in DOMAIN format |-> Read(bytes, format[f][1], format[f][2])]

Refused == [refused |-> TRUE]

(* imt_wire_decode_header; its error codes make no difference to anyone. *)
DecodeHeader(bytes) ==
  IF Len(bytes) < HeaderSize THEN Refused
  ELSE LET h == Decode(Header, bytes)
       IN  IF \/ \E f \in DOMAIN Fixed : h[f] # Fixed[f]
              \/ ~Known(h.type)
              \/ HeaderSize + h.payload_size > Len(bytes)
           THEN Refused ELSE h

Payload(bytes) == SubSeq(bytes, HeaderSize + 1, Len(bytes))

-----------------------------------------------------------------------------
(* The readers.  recv cuts off what does not fit into its buffer. *)

Received(room) == SubSeq(wire, 1, IF Len(wire) < room THEN Len(wire) ELSE room)

(* What imt_assembler_push_datagram goes on with. *)
ReadVideo ==
  LET h == DecodeHeader(wire)
  IN  IF h = Refused \/ h.type \notin {Types.SLICE, Types.PARITY} THEN Refused
      ELSE [header |-> h, content |-> [i \in 1 .. h.payload_size |-> At(wire, HeaderSize + i)]]

(* imt_assembler_handle_map; which of two maps is newer is in ImtAssembler. *)
ReadMap ==
  LET h == DecodeHeader(wire)
      m == Decode(MapHeader, Payload(wire))
      tiles == m.cols * m.rows
  IN  IF \/ h = Refused \/ h.type # Types.MAP
         \/ h.payload_size < MapHeaderSize
         \/ tiles = 0 \/ tiles > MaxMapTiles
         \/ h.payload_size # MapHeaderSize + tiles
      THEN Refused
      ELSE [header |-> h, map |-> m,
            weights |-> [t \in 1 .. tiles |->
                           LET w == At(wire, HeaderSize + MapHeaderSize + t) IN IF w = 0 THEN 1 ELSE w]]

ReadFeedback ==
  LET bytes == Received(HeaderSize + FeedbackSize)
      h == DecodeHeader(bytes)
  IN  IF Len(bytes) # HeaderSize + FeedbackSize \/ h = Refused \/ h.type # Types.FEEDBACK
      THEN Refused
      ELSE [header |-> h, content |-> Decode(Feedback, Payload(bytes))]

(* A NACK says nothing but the number of a frame; one byte more than it    *)
(* has makes a longer datagram show.                                       *)
ReadNack ==
  LET bytes == Received(HeaderSize + 1)
      h == DecodeHeader(bytes)
  IN  IF \/ Len(bytes) # HeaderSize \/ h = Refused \/ h.type # Types.KEYFRAME_NACK
         \/ \E f \in DOMAIN h \ (DOMAIN Fixed \cup {"type", "frame_seq"}) : h[f] # 0
      THEN Refused ELSE [header |-> h]

-----------------------------------------------------------------------------
(* Values that show every byte of a field, and the two ends of its range. *)

Ramp(width) == MapThenSumSet(LAMBDA i : ((i + 1) % Base) * Base ^ i, 0 .. width - 1)
Largest(width) == Base ^ width - 1

(* All fields of a format at one end, one of them not. *)
Filled(format) ==
  {[f \in DOMAIN format |-> IF f = odd THEN Ramp(format[f][2])
                            ELSE IF top THEN Largest(format[f][2]) ELSE 0] :
     odd \in DOMAIN format, top \in BOOLEAN}

With(record, others) ==
  [f \in DOMAIN record |-> IF f \in DOMAIN others THEN others[f] ELSE record[f]]

Blank == [f \in DOMAIN Header |-> 0]

HeaderOf(record, kind, size) ==
  With(With(record, [type |-> Types[kind], payload_size |-> size]), Fixed)

Init == sent = << >> /\ wire = << >> /\ harm = "none"

Send(what, content) ==
  /\ wire = << >>
  /\ sent' = what
  /\ wire' = Encode(Header, HeaderSize, what.header) \o content
  /\ UNCHANGED harm

(* Slices and parities: any header. *)
SendVideo ==
  \E record \in Filled(Header), kind \in {"SLICE", "PARITY"}, size \in Payloads :
    LET content == [i \in 1 .. size |-> i % Base]
    IN  Send([header |-> HeaderOf(record, kind, size), content |-> content], content)

MapFits(tiles) == tiles \in 1 .. MaxMapTiles

(* imt_packetizer_send_map, which refuses a map that is empty or too large. *)
SendMap ==
  \E other \in Filled(MapHeader), seq \in {1, Ramp(8)}, cols, rows \in 0 .. MaxMapTiles :
    LET map == With(other, [cols |-> cols, rows |-> rows])
        weights == [t \in 1 .. cols * rows |-> 1 + (t % (Base - 1))]
        size == MapHeaderSize + cols * rows
        record == With(Blank, [frame_seq |-> seq, capture_timestamp_ns |-> Ramp(8),
                               frame_size |-> size, chunk_count |-> 1])
    IN  /\ MapFits(cols * rows)
        /\ Send([header |-> HeaderOf(record, "MAP", size), map |-> map, weights |-> weights],
                Encode(MapHeader, MapHeaderSize, map) \o weights)

SendFeedback ==
  \E content \in Filled(Feedback) :
    Send([header |-> HeaderOf(Blank, "FEEDBACK", FeedbackSize), content |-> content],
         Encode(Feedback, FeedbackSize, content))

SendNack ==
  \E seq \in {1, Ramp(8), Largest(8)} :
    Send([header |-> HeaderOf(With(Blank, [frame_seq |-> seq]), "KEYFRAME_NACK", 0)], << >>)

Harm(how, bytes) ==
  /\ wire # << >> /\ harm = "none"
  /\ harm' = how /\ wire' = bytes
  /\ UNCHANGED sent

Cut == \E size \in 1 .. Len(wire) - 1 : Harm("cut", SubSeq(wire, 1, size))

Lengthen == \E byte \in {0, Base - 1} : Harm("longer", Append(wire, byte))

Damage ==
  \E i \in 1 .. Len(wire), by \in Damages :
    Harm("damaged", [wire EXCEPT ![i] = (@ + by) % Base])

Next ==
  \/ SendVideo \/ SendMap \/ SendFeedback \/ SendNack
  \/ Cut \/ Lengthen \/ Damage

Spec == Init /\ [][Next]_vars

-----------------------------------------------------------------------------
(* What the readers make of the datagram, by kind. *)
Seen(kind) ==
  CASE kind \in {"SLICE", "PARITY"} -> ReadVideo
    [] kind = "MAP" -> ReadMap
    [] kind = "FEEDBACK" -> ReadFeedback
    [] kind = "KEYFRAME_NACK" -> ReadNack

Readings == {ReadVideo, ReadMap, ReadFeedback, ReadNack} \ {Refused}

KindOf(header) == CHOOSE kind \in DOMAIN Types : Types[kind] = header.type

(* The shape of the state: what is on the wire are bytes. *)
TypeOK ==
  /\ \A i \in DOMAIN wire : wire[i] \in 0 .. Base - 1
  /\ harm \in {"none", "cut", "longer", "damaged"}

(* A datagram that arrives whole is taken by the reader it is meant for,   *)
(* with every field and byte as it was written, and by no other reader.    *)
ArrivesAsSent ==
  wire # << >> /\ harm = "none" =>
    Seen(KindOf(sent.header)) = sent /\ Readings = {sent}

(* A datagram that lost its tail, wherever it was cut, is taken by nobody: *)
(* no reader goes beyond its end.                                          *)
CutIsRefused == harm = "cut" => Readings = {}

(* A datagram with bytes behind its end is never taken for a NACK, and is  *)
(* read by the others as if they were not there.                           *)
LongerIsNoNack ==
  harm = "longer" =>
    Readings = IF KindOf(sent.header) = "KEYFRAME_NACK" THEN {} ELSE {sent}

(* There is no checksum: one damaged byte of a header may go unnoticed.    *)
(* Then it has changed one field at most, and a NACK has not come of       *)
(* anything but a NACK, and only the frame it names can be another.        *)
DamageStaysInItsField ==
  harm = "damaged" =>
    \A seen \in Readings :
      LET changed == {f \in DOMAIN Header : seen.header[f] # sent.header[f]}
      IN  /\ \A f, g \in changed : f = g
          /\ seen = ReadNack => KindOf(sent.header) = "KEYFRAME_NACK"
                                /\ changed \subseteq {"frame_seq"}
=============================================================================
