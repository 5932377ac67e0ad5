--------------------------- MODULE MCEdgeLibrary ---------------------------
(***************************************************************************)
(* Small instances of the edge camera library: the ring between writer and *)
(* reader (FrameRing), the estimate of a remote clock (ClockSync) and the  *)
(* pairing of two eyes' frames (StereoIngest).  A behaviour plays one      *)
(* part, chosen at the start.                                              *)
(***************************************************************************)
EXTENDS FrameRing

CONSTANTS
  Ahead, Behind, Delays, Newer, Older, Times, Scale, DriftMax, Modulus,    \* of ClockSync
  Period, MaxError, PairSkew, MaxSkew, Warmup, DegradeAfter, Jitter, MaxLost, Horizon  \* of StereoIngest

VARIABLES
  part,                           \* the part that is played
  theta, sync, given,             \* of ClockSync
  ts, monitor, stats, sbs, seen   \* of StereoIngest

clockVars == << theta, sync, given >>
ingestVars == << ts, monitor, stats, sbs, seen >>

Clock == INSTANCE ClockSync

Ingest == INSTANCE StereoIngest

ASSUME PartsAssumption == Clock!ClockAssumption /\ Ingest!IngestAssumption

-----------------------------------------------------------------------------
MCInit ==
  /\ part \in {"ring", "clock", "ingest"}
  /\ Init /\ Clock!Init /\ Ingest!Init
  /\ part # "clock" => theta \in Ahead
  /\ part # "ingest" => ts["left"] = Period /\ ts["right"] = Period

MCNext ==
  \/ part = "ring" /\ Next /\ UNCHANGED << part, clockVars, ingestVars >>
  \/ part = "clock" /\ Clock!Next /\ UNCHANGED << part, vars, ingestVars >>
  \/ part = "ingest" /\ Ingest!Next /\ UNCHANGED << part, vars, clockVars >>

(* The fairness of each part, for the behaviours that play it. *)
MCFairness ==
  /\ WF_vars(part = "ring" /\ Reader)
  /\ WF_vars(part = "ring" /\ Writer /\ writer.pc # "idle")
  /\ WF_clockVars(part = "clock" /\ Clock!Next)

MCSpec == MCInit /\ [][MCNext]_<< part, vars, clockVars, ingestVars >> /\ MCFairness

-----------------------------------------------------------------------------
(* Of ClockSync: the estimate stays within what the samples say, and a     *)
(* time is mapped there and back.                                          *)
ClockIsRight ==
  part = "clock" => Clock!TypeOK /\ Clock!WithinTheSamples /\ Clock!MapsBack

(* Of ClockSync: a late sample does no harm, an update leaves frames in    *)
(* order, and equal delays let the estimate settle.                        *)
ClockSettles == Clock!OldSampleCalms /\ Clock!FramesKeepOrder /\ Clock!Settles

(* Of StereoIngest: which frames are dropped, at what rate the pairs come, *)
(* what is counted, and when the stream is called locked.                  *)
PairsAreJudged ==
  part = "ingest" =>
    /\ Ingest!TypeOK /\ Ingest!OnlyHopelessAreDropped /\ Ingest!DeliveredSteadily
    /\ Ingest!CountsAddUp /\ Ingest!LockIsEarned
=============================================================================
