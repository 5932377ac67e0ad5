--------------------------- MODULE MCStereoSender ---------------------------
(***************************************************************************)
(* Small instances of the stereo sender's parts: the threads and their     *)
(* triple buffer (StereoPipeline), bringing the program up and down        *)
(* (SenderLifecycle), the web service that starts and stops it             *)
(* (MpControl), and the latency controller it sets its rate by (ImtPace).  *)
(* A behaviour plays one part, chosen at the start.                        *)
(***************************************************************************)
EXTENDS StereoPipeline

CONSTANTS
  Requests, Params,                                          \* of MpControl
  One, Kp, Ki, RateMin, RateMax, Target, Latencies, Steps, Bases  \* of ImtPace

VARIABLES
  part,                                                  \* the part that is played
  config, stage, todo, failing, owns, thread, told, timed, shut, held, misused,  \* of SenderLifecycle
  pc, local, proc, proc_lock, stray, last_params, snapshot_lock,  \* of MpControl
  integ, rate, base                                      \* of ImtPace

lifeVars == << config, stage, todo, failing, owns, thread, told, timed, shut, held, misused >>
controlVars == << pc, local, proc, proc_lock, stray, last_params, snapshot_lock >>
paceVars == << integ, rate, base >>
allVars == << part, vars, lifeVars, controlVars, paceVars >>

Life == INSTANCE SenderLifecycle

Service == INSTANCE MpControl

Pace == INSTANCE ImtPace

ASSUME ServiceAssumption == Service!ControlAssumption
ASSUME ControllerAssumption == Pace!LawAssumption /\ Pace!PaceAssumption

-----------------------------------------------------------------------------
MCInit ==
  /\ part \in {"pipeline", "lifecycle", "control", "pace"}
  /\ Init /\ Service!Init /\ Pace!Init
  /\ IF part = "lifecycle" THEN Life!Init
     ELSE Life!Init /\ config = [backend |-> "rpicam", nacks |-> TRUE]

MCNext ==
  \/ part = "pipeline" /\ Next /\ UNCHANGED << part, lifeVars, controlVars, paceVars >>
  \/ part = "lifecycle" /\ Life!Next /\ UNCHANGED << part, vars, controlVars, paceVars >>
  \/ part = "control" /\ Service!Next /\ UNCHANGED << part, vars, lifeVars, paceVars >>
  \/ part = "pace" /\ Pace!Next /\ UNCHANGED << part, vars, lifeVars, controlVars >>

(* The fairness of each part, for the behaviours that play it. *)
PipelineFairness ==
  /\ WF_vars(part = "pipeline" /\ ChooseWriteSlot)
  /\ WF_vars(part = "pipeline" /\ PublishPair)
  /\ WF_vars(part = "pipeline" /\ MainStep)
  /\ \A e \in Eyes : WF_vars(part = "pipeline" /\ WorkerStep(e))

LifeFairness ==
  /\ WF_lifeVars(part = "lifecycle" /\ Life!GoDown)
  /\ \A t \in Life!Threads : WF_lifeVars(part = "lifecycle" /\ Life!ThreadRuns(t))

ServiceFairness ==
  /\ WF_controlVars(part = "control" /\ Service!Watch)
  /\ SF_controlVars(part = "control" /\ Service!Step(Service!Watchdog))
  /\ SF_controlVars(part = "control" /\ Service!Launch(Service!Watchdog))
  /\ \A t \in Requests : WF_controlVars(part = "control" /\ Service!Step(t))
  /\ WF_controlVars(part = "control" /\ proc = "killed" /\ Service!Dies)

MCSpec ==
  /\ MCInit /\ [][MCNext]_allVars
  /\ PipelineFairness /\ LifeFairness /\ ServiceFairness

-----------------------------------------------------------------------------
(* Of SenderLifecycle: whatever fails, and when, nothing is used after its *)
(* release or released twice.                                              *)
ResourcesAreKept == Life!TypeOK /\ Life!ResourcesAreKept

(* A failure ends the program: every sleeping thread is woken and joined   *)
(* (StereoPipeline), from every stage of coming up (SenderLifecycle).      *)
FailuresEnd == FailureEndsAll /\ Life!FailureEnds

(* Of MpControl: one sender and one snapshot at a time.                    *)
OneAtATime == Service!TypeOK /\ Service!OneSender /\ Service!OneSnapshot

(* Of MpControl: a sender that was asked for comes back.                   *)
SenderComesBack == Service!SenderComesBack

(* Of ImtPace: the integrator and the rate keep their bounds, a long       *)
(* overload is forgotten in as many samples as undo a full integrator, and *)
(* idle calls approach 1.0 and leave the samples a rate to go on from.     *)
PaceIsSound ==
  /\ [](Pace!TypeOK /\ Pace!AntiWindup /\ Pace!UnwindsInTime)
  /\ Pace!ResumesSmoothly /\ Pace!IdleApproaches
=============================================================================
