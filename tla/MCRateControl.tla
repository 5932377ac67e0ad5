--------------------------- MODULE MCRateControl ---------------------------
(***************************************************************************)
(* Small instances of what decides how much is sent: the latency           *)
(* controller against a plant (ImtPace; MCStereoSender has it with any     *)
(* samples), its use for the CRF (AdaptiveControl) and in the sender of    *)
(* raw pairs (ImtRpicamSender), and the importance map (ImtImportance).  A *)
(* behaviour plays one part, chosen at the start.                          *)
(***************************************************************************)
EXTENDS ImtImportance

VARIABLES
  part,                                               \* the part that is played
  integ, rate, base,                                  \* of ImtPace
  pc, busy, work, crf, control, next_crf, refused,    \* of AdaptiveControl
  main, pipes, feedback, thread, pace, linked, slept  \* of ImtRpicamSender

paceVars == << integ, rate, base >>
crfVars == << pc, busy, work, crf, control, next_crf, refused >>
rpicamVars == << main, pipes, feedback, thread, pace, linked, slept >>

Plant == INSTANCE ImtPace WITH
  One <- 1024, Kp <- 410, Ki <- 51, RateMin <- 102, RateMax <- 2048, Target <- 150,
  Latencies <- {}, Steps <- {}, Bases <- {100, 120, 150, 200, 250, 300}

Adaptive == INSTANCE AdaptiveControl WITH
  One <- 10, Kp <- 4, Ki <- 3, RateMin <- 1, RateMax <- 20, Target <- 10,
  BaseCrf <- 47, MaxCrf <- 50, Interval <- 2, Works <- {7, 10, 14}

Rpicam == INSTANCE ImtRpicamSender WITH
  One <- 10, Kp <- 4, Ki <- 5, RateMin <- 1, RateMax <- 20, Target <- 10,
  Numbers <- 2, FrameTime <- 30, Ages <- {0, 15, 40}

(* Two rows of three tiles an eye; the last tile of a row of the left eye  *)
(* is the first one of the right eye.  Both, one, the other or none find   *)
(* the foreground there.                                                   *)
MCScenes ==
  LET rows == 0 .. 1
  IN  {{}, rows \X (0 .. 2), rows \X {1}, rows \X {0, 1}, {<< 0, 0 >>, << 1, 2 >>},
       {<< 0, 2 >>, << 1, 1 >>, << 1, 2 >>}}

ASSUME Plant!LawAssumption /\ Plant!PaceAssumption
ASSUME Adaptive!LawAssumption /\ Adaptive!AdaptiveAssumption
ASSUME Rpicam!LawAssumption /\ Rpicam!SenderAssumption
ASSUME SizesAssumption

-----------------------------------------------------------------------------
MCInit ==
  /\ part \in {"plant", "crf", "rpicam", "map"}
  /\ IF part = "plant" THEN Plant!PlantInit ELSE Plant!Init
  /\ Adaptive!Init /\ Rpicam!Init
  /\ IF part = "map" THEN Init ELSE Init /\ scene = {}

MCNext ==
  \/ part = "plant" /\ Plant!PlantStep /\ UNCHANGED << part, crfVars, rpicamVars, vars >>
  \/ part = "crf" /\ Adaptive!Next /\ UNCHANGED << part, paceVars, rpicamVars, vars >>
  \/ part = "rpicam" /\ Rpicam!Next /\ UNCHANGED << part, paceVars, crfVars, vars >>
  \/ /\ part = "map" /\ Next /\ UNCHANGED << part, paceVars, crfVars, rpicamVars >>
     /\ changes' + failures' <= 1

(* The fairness of each part, for the behaviours that play it. *)
MCFairness ==
  /\ WF_paceVars(part = "plant" /\ Plant!PlantStep)
  /\ WF_crfVars(part = "crf" /\ Adaptive!Main)
  /\ \A e \in Adaptive!Eyes : WF_crfVars(part = "crf" /\ Adaptive!Encode(e))
  /\ WF_rpicamVars(part = "rpicam" /\ Rpicam!Main)
  /\ WF_rpicamVars(part = "rpicam" /\ Rpicam!CheckStop)
  /\ WF_rpicamVars(part = "rpicam" /\ Rpicam!TimeOut)
  /\ WF_vars(part = "map" /\ UpdateMap)

MCSpec ==
  /\ MCInit /\ [][MCNext]_<< part, paceVars, crfVars, rpicamVars, vars >>
  /\ MCFairness

-----------------------------------------------------------------------------
(* Of ImtPace: from an integrator at rest and from one at either end, the  *)
(* rate settles against a plant, and the integrator is never wound up on   *)
(* the way.                                                                *)
PaceConverges ==
  /\ [](part = "plant" => Plant!TypeOK /\ Plant!AntiWindup)
  /\ part = "plant" => Plant!Converges

(* Of AdaptiveControl: no encoder is reconfigured while it encodes, both   *)
(* eyes keep one CRF, and it follows a lasting overload up and down.       *)
CrfFollows ==
  /\ Adaptive!NotWhileEncoding
  /\ [](Adaptive!TypeOK /\ Adaptive!EyesAgree)
  /\ part = "crf" => Adaptive!OverloadRaises
  /\ part = "crf" => Adaptive!QualityReturns

(* Of ImtRpicamSender: a pair is what was read equally often, a frame is   *)
(* held back briefly, what the feedback thread uses exists, and the sender *)
(* ends with its cameras.                                                  *)
FramesArePaired ==
  /\ [](Rpicam!TypeOK /\ Rpicam!PairedByCount /\ Rpicam!HeldBackBriefly
          /\ Rpicam!JoinedBeforeClosed)
  /\ Rpicam!EndsWithCamera

(* Of ImtImportance: what is derived from the map, quantisers, protection  *)
(* and order, follows the scene in both eyes and keeps the budget, and in  *)
(* the end the foreground stands out.                                      *)
MapsFollowTheScene ==
  /\ [](part = "map" =>
          /\ TypeOK /\ BudgetIsKept
          /\ BlocksFollowTheirTiles /\ ChunksFollowTheirTiles
          /\ MostImportantFirst /\ EyesAreAlike)
  /\ part = "map" => ForegroundStandsOut
=============================================================================
