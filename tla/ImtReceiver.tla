---------------------------- MODULE ImtReceiver ----------------------------
(***************************************************************************)
(* The assembler and those who send to it.  A behaviour plays one of four  *)
(* parts, chosen at the start: in three of them every datagram of a set    *)
(* may arrive at any time and any number of times; in the fourth the       *)
(* datagrams come from a sender that is killed and started again           *)
(* (ImtRestart).                                                           *)
(***************************************************************************)
EXTENDS ImtRestart

CONSTANTS
  SentOnce,      \* frames sent in one grouping each, under different numbers
  SentAgain,     \* frames of which some come in two groupings, or share a number
  SentWithMaps,  \* frames among which maps arrive
  Maps           \* those maps, well-formed or not

VARIABLE traffic \* what this behaviour is about

-----------------------------------------------------------------------------
Control == {[type |-> t] : t \in {"KEYFRAME_NACK", "FEEDBACK", "INVALID"}}

DatagramsOf(frames) == UNION {FrameDatagrams(f) : f \in frames}

OnceEach  == DatagramsOf(SentOnce) \cup Control
Regrouped == DatagramsOf(SentAgain)
WithMaps  == DatagramsOf(SentWithMaps) \cup Maps
Restarted == DatagramsOf(AllFrames)

(* A frame as the sender hands it over: default groups, or a weight for    *)
(* each chunk.                                                             *)
HandedOver(frame) ==
  /\ frame.size \in Nat /\ frame.size > 0
  /\ frame.weights # Uniform =>
       frame.weights \in Seq(0 .. 255) /\ Len(frame.weights) >= ChunkCount(frame.size)

(* Transmissions of one encoded frame, in whatever groups.                 *)
SameFrame(f, g) == f.content = g.content /\ f.keyframe = g.keyframe

(* Within one run of a sender the number of a frame and its size tell it   *)
(* from every other; across a restart they do not (ImtRestart).            *)
SendersAssumption ==
  /\ RestartAssumption
  /\ \A f \in SentOnce \cup SentAgain \cup SentWithMaps : HandedOver(f)
  /\ \A f, g \in SentOnce : f.seq = g.seq => f = g
  /\ \A frames \in {SentAgain, SentWithMaps} : \A f, g \in frames :
       f.seq = g.seq /\ f.size = g.size => SameFrame(f, g)
  /\ \A d \in Maps : d.type = "MAP"
  /\ OnceEach \cup Regrouped \cup WithMaps \cup Restarted \subseteq Datagrams

Arriving ==
  CASE traffic = "once"      -> OnceEach
    [] traffic = "regrouped" -> Regrouped
    [] traffic = "maps"      -> WithMaps

-----------------------------------------------------------------------------
PartsInit ==
  /\ traffic \in {"once", "regrouped", "maps", "restart"}
  /\ Init /\ SenderInit

Arrive ==
  /\ traffic # "restart"
  /\ \/ \E d \in Arriving : PushDatagram(d)
     \/ \E enabled \in BOOLEAN : SetKeyframeRetryEnabled(enabled)
  /\ UNCHANGED << traffic, senderVars >>

PartsNext == Arrive \/ (traffic = "restart" /\ RestartNext /\ UNCHANGED traffic)

(* The fairness of ImtRestart, for the behaviours that play it. *)
PartsSpec ==
  /\ PartsInit /\ [][PartsNext]_<< traffic, restartVars >>
  /\ WF_restartVars(traffic = "restart" /\ SendFrame)
  /\ WF_restartVars(traffic = "restart" /\ Deliver)

-----------------------------------------------------------------------------
(* R7.2: whatever can be repaired has been.  A repair is left unmade only  *)
(* if the missing chunk came in another, overlapping group, so never as    *)
(* long as each frame is sent in one grouping.  And what is shown was      *)
(* sent: byte for byte, and after a restart by one of the two runs of the  *)
(* sender.                                                                 *)
RepairedAsSent ==
  /\ RepairsAreMade
  /\ traffic = "once" => NothingLeftToRecover
  /\ IF traffic = "restart" THEN OneProcessIsShown ELSE PublishedAsSent
=============================================================================
