--------------------------- MODULE StereoCapture ---------------------------
(***************************************************************************)
(* The libcamera backend: mps_libcamera_stereo_capture.cpp under the loop  *)
(* of run_libcamera_capture.  Each camera completes requests in a callback *)
(* that copies the frame into the eye's one "latest" place; main pairs the *)
(* two places by timestamp, has the pair encoded, and gives the buffers    *)
(* back.                                                                   *)
(*                                                                         *)
(* A step is a critical section of the frame mutexes, an access to the     *)
(* atomics of CaptureNotify, or a call into libcamera.  The callbacks take *)
(* no lock when they notify: main may miss a notification between looking  *)
(* at the atomics and falling asleep ("drowsy").                           *)
(***************************************************************************)
EXTENDS Integers, FiniteSets

CONSTANTS
  Requests,   \* buffers each camera was allocated
  MaxSkew,    \* max_skew_ns; 0: any
  LastStamp   \* bound: the last capture timestamp

ASSUME CaptureAssumption ==
  /\ Requests \in Nat \ {0}
  /\ MaxSkew \in Nat
  /\ LastStamp \in Nat

VARIABLES
  camera,    \* per eye, libcamera's side: acquired, started, queued requests
  callback,  \* per eye: where requestComplete is
  running,   \* per eye: running_
  latest,    \* per eye: latest_, whether it owns a buffer (has), is valid, its timestamp
  pool,      \* per eye: the buffers in pool_
  dropped,   \* per eye: dropped_
  notify,    \* CaptureNotify: generation, failed
  main,      \* pc, and the generation it has seen
  outstanding, \* held_left and held_right are with the encoders
  broken,    \* the eyes whose frames copyI420 refuses, from the start
  shot,      \* history, per eye: timestamp of and number of completed frames
  taken,     \* history: per eye, the timestamp of the last frame handed over
  pairs,     \* pair_sequence
  missed     \* history: main slept through a notification

cameraVars == << camera, callback, running >>
frameVars  == << latest, pool, dropped, outstanding, shot, taken, pairs >>
vars == << cameraVars, frameVars, notify, main, broken, missed >>

-----------------------------------------------------------------------------
Left == 1
Right == 2
Eyes == {Left, Right}
PoolSize == 3

NoFrame == [has |-> FALSE, valid |-> FALSE, stamp |-> 0]

Init ==
  /\ camera = [e \in Eyes |-> [acquired |-> FALSE, started |-> FALSE, queued |-> 0]]
  /\ callback = [e \in Eyes |-> "idle"]
  /\ running = [e \in Eyes |-> FALSE]
  /\ latest = [e \in Eyes |-> NoFrame]
  /\ pool = [e \in Eyes |-> PoolSize]
  /\ dropped = [e \in Eyes |-> 0]
  /\ notify = [generation |-> 0, failed |-> FALSE]
  /\ main = [pc |-> "open_left", seen |-> 0]
  /\ outstanding = FALSE
  /\ broken \in SUBSET Eyes
  /\ shot = [e \in Eyes |-> [stamp |-> 0, count |-> 0]]
  /\ taken = [e \in Eyes |-> 0]
  /\ pairs = 0
  /\ missed = FALSE

At(pc) == main.pc = pc
Goto(pc) == main' = [main EXCEPT !.pc = pc]

-----------------------------------------------------------------------------
(* requestComplete *)

(* Defect: a frame that is overwritten is not counted. *)
OverwrittenUncounted(e) == ~latest[e].valid /\ pool[e] = 0

(* Nothing to copy into, or a frame nobody has taken is overwritten. *)
CountsAsDropped(e) == latest[e].valid \/ pool[e] = 0

(* A buffer a failed copy left behind is replaced by the pool's next one,  *)
(* and lost.                                                               *)
TakesFromPool(e) == ~latest[e].valid /\ pool[e] # 0

CopyFrame(e) ==
  /\ callback[e] = "idle"
  /\ camera[e].started /\ camera[e].queued > 0
  /\ running[e]
  /\ \E stamp \in {shot[e].stamp + 1, shot[e].stamp + 2} :
       /\ stamp <= LastStamp
       /\ shot' = [shot EXCEPT ![e] = [stamp |-> stamp, count |-> @.count + 1]]
       /\ LET has == latest[e].has \/ pool[e] # 0
          IN  latest' = [latest EXCEPT ![e] =
                IF has /\ e \notin broken THEN [has |-> TRUE, valid |-> TRUE, stamp |-> stamp]
                ELSE [@ EXCEPT !.has = has, !.valid = FALSE]]
  /\ dropped' = [dropped EXCEPT ![e] = IF CountsAsDropped(e) THEN @ + 1 ELSE @]
  /\ pool' = [pool EXCEPT ![e] = IF TakesFromPool(e) THEN @ - 1 ELSE @]
  /\ camera' = [camera EXCEPT ![e].queued = @ - 1]
  /\ callback' = [callback EXCEPT ![e] = "copied"]
  /\ UNCHANGED << running, outstanding, taken, pairs, notify, main, broken, missed >>

(* notify_one and notify_all: main is the only one who waits. *)
WakeMain ==
  /\ main' = IF At("asleep") THEN [main EXCEPT !.pc = "check"] ELSE main
  /\ missed' = (missed \/ At("drowsy"))

NotifyGeneration(e) ==
  /\ callback[e] = "copied"
  /\ notify' = [notify EXCEPT !.generation = @ + 1]
  /\ WakeMain
  /\ callback' = [callback EXCEPT ![e] = "notified"]
  /\ UNCHANGED << camera, running, frameVars, broken >>

Requeue(e) ==
  /\ callback[e] = "notified"
  /\ running[e]
  /\ camera' = [camera EXCEPT ![e].queued = @ + 1]
  /\ callback' = [callback EXCEPT ![e] = "idle"]
  /\ UNCHANGED << running, frameVars, notify, main, broken, missed >>

RequeueFails(e) ==
  /\ callback[e] = "notified"
  /\ running[e]
  /\ notify' = [notify EXCEPT !.failed = TRUE]
  /\ WakeMain
  /\ callback' = [callback EXCEPT ![e] = "idle"]
  /\ UNCHANGED << camera, running, frameVars, broken >>

LeaveStopped(e) ==
  /\ callback[e] = "notified"
  /\ ~running[e]
  /\ callback' = [callback EXCEPT ![e] = "idle"]
  /\ UNCHANGED << camera, running, frameVars, notify, main, broken, missed >>

Callback(e) ==
  NotifyGeneration(e) \/ Requeue(e) \/ RequeueFails(e) \/ LeaveStopped(e)

-----------------------------------------------------------------------------
(* mps_libcamera_stereo_create and _start; whatever fails, what has been   *)
(* acquired so far goes through stop().                                    *)

Open(e, pc, next) ==
  /\ At(pc)
  /\ \/ /\ camera' = [camera EXCEPT ![e].acquired = TRUE]
        /\ Goto(next)
     \/ /\ \E acquired \in BOOLEAN : camera' = [camera EXCEPT ![e].acquired = acquired]
        /\ Goto("stop_left")
  /\ UNCHANGED << callback, running, frameVars, notify, broken, missed >>

Start(e, pc, next) ==
  /\ At(pc)
  /\ \/ /\ running' = [running EXCEPT ![e] = TRUE]
        /\ camera' = [camera EXCEPT ![e] = [@ EXCEPT !.started = TRUE, !.queued = Requests]]
        /\ Goto(next)
        /\ UNCHANGED notify
     \/ /\ Goto("stop_left")  \* start() of the camera fails
        /\ UNCHANGED << running, camera, notify >>
     \/ /\ running' = [running EXCEPT ![e] = TRUE]  \* queueRequest fails
        /\ \E n \in 0 .. Requests - 1 :
             camera' = [camera EXCEPT ![e] = [@ EXCEPT !.started = TRUE, !.queued = n]]
        /\ notify' = [notify EXCEPT !.failed = TRUE]
        /\ Goto("stop_left")
  /\ UNCHANGED << callback, frameVars, broken, missed >>

-----------------------------------------------------------------------------
(* mps_libcamera_stereo_acquire_pair *)

Difference(a, b) == IF a > b THEN a - b ELSE b - a

BothValid == latest[Left].valid /\ latest[Right].valid
Skew == Difference(latest[Left].stamp, latest[Right].stamp)

SkewFits == MaxSkew = 0 \/ Skew <= MaxSkew

(* A pair still outstanding would be refused, and end the loop. *)
CallAcquire ==
  /\ At("acquire")
  /\ main' = IF outstanding THEN [main EXCEPT !.pc = "stop_left"]
             ELSE [pc |-> "try", seen |-> notify.generation]
  /\ UNCHANGED << cameraVars, frameVars, notify, broken, missed >>

TakePair ==
  /\ At("try") /\ BothValid /\ SkewFits
  /\ taken' = [e \in Eyes |-> latest[e].stamp]
  /\ latest' = [e \in Eyes |-> NoFrame]
  /\ outstanding' = TRUE
  /\ pairs' = pairs + 1
  /\ Goto("encode")
  /\ UNCHANGED << cameraVars, pool, dropped, shot, notify, broken, missed >>

(* Defect: the newer frame is thrown away. *)
Newer == IF latest[Left].stamp < latest[Right].stamp THEN Right ELSE Left

Older == IF latest[Left].stamp < latest[Right].stamp THEN Left ELSE Right

(* recycleLocked *)
DiscardOlder ==
  /\ At("try") /\ BothValid /\ ~SkewFits
  /\ pool' = [pool EXCEPT ![Older] = @ + 1]
  /\ latest' = [latest EXCEPT ![Older] = NoFrame]
  /\ dropped' = [dropped EXCEPT ![Older] = @ + 1]
  /\ Goto("examine")
  /\ UNCHANGED << cameraVars, outstanding, shot, taken, pairs, notify, broken, missed >>

FindNoPair ==
  /\ At("try") /\ ~BothValid
  /\ Goto("examine")
  /\ UNCHANGED << cameraVars, frameVars, notify, broken, missed >>

(* A negative result ends the loop of run_libcamera_capture. *)
Examine ==
  /\ At("examine")
  /\ Goto(IF notify.failed THEN "stop_left" ELSE "check")
  /\ UNCHANGED << cameraVars, frameVars, notify, broken, missed >>

News == notify.failed \/ notify.generation # main.seen

Check ==
  /\ At("check")
  /\ main' = IF News THEN [pc |-> "try", seen |-> notify.generation]
             ELSE [main EXCEPT !.pc = "drowsy"]
  /\ missed' = (missed /\ ~News)
  /\ UNCHANGED << cameraVars, frameVars, notify, broken >>

FallAsleep ==
  /\ At("drowsy")
  /\ Goto("asleep")
  /\ UNCHANGED << cameraVars, frameVars, notify, broken, missed >>

WakeSpuriously ==
  /\ At("asleep")
  /\ Goto("check")
  /\ UNCHANGED << cameraVars, frameVars, notify, broken, missed >>

(* Defect: after the deadline main waits on without a look. *)
DeadlineForgotten ==
  /\ At("asleep")
  /\ Goto("drowsy")
  /\ UNCHANGED << cameraVars, frameVars, notify, broken, missed >>

(* Without news the call returns 0 and the loop calls again. *)
DeadlinePasses ==
  /\ At("asleep")
  /\ main' = IF News THEN [pc |-> "try", seen |-> notify.generation]
             ELSE [main EXCEPT !.pc = "acquire"]
  /\ missed' = FALSE
  /\ UNCHANGED << cameraVars, frameVars, notify, broken >>

(* Both workers have encoded the pair; StereoPipeline models how main and  *)
(* they wait for each other.                                               *)
Encoded ==
  /\ At("encode")
  /\ Goto("release")
  /\ UNCHANGED << cameraVars, frameVars, notify, broken, missed >>

ReleasePair ==
  /\ At("release")
  /\ pool' = [e \in Eyes |-> pool[e] + 1]
  /\ outstanding' = FALSE
  /\ Goto("acquire")
  /\ UNCHANGED << cameraVars, latest, dropped, shot, taken, pairs, notify, broken, missed >>

-----------------------------------------------------------------------------
(* CameraEye::stop, from mps_libcamera_stereo_destroy: first no callback   *)
(* does anything any more, then libcamera waits for the one under way.     *)

StopRunning(e, pc, next) ==
  /\ At(pc)
  /\ running' = [running EXCEPT ![e] = FALSE]
  /\ Goto(next)
  /\ UNCHANGED << camera, callback, frameVars, notify, broken, missed >>

StopCamera(e, pc, next) ==
  /\ At(pc)
  /\ callback[e] = "idle"
  /\ camera' = [camera EXCEPT ![e] = [acquired |-> FALSE, started |-> FALSE, queued |-> 0]]
  /\ Goto(next)
  /\ UNCHANGED << callback, running, frameVars, notify, broken, missed >>

SetUp ==
  \/ Open(Left, "open_left", "open_right")
  \/ Open(Right, "open_right", "start_right")
  \/ Start(Right, "start_right", "start_left")
  \/ Start(Left, "start_left", "acquire")

TearDown ==
  \/ StopRunning(Left, "stop_left", "left_stopping")
  \/ StopCamera(Left, "left_stopping", "stop_right")
  \/ StopRunning(Right, "stop_right", "right_stopping")
  \/ StopCamera(Right, "right_stopping", "ended")

Acquire ==
  \/ CallAcquire \/ TakePair \/ DiscardOlder \/ FindNoPair
  \/ Examine \/ Check \/ FallAsleep \/ DeadlinePasses

MainStep == SetUp \/ Acquire \/ Encoded \/ ReleasePair \/ TearDown

Next ==
  \/ \E e \in Eyes : CopyFrame(e) \/ Callback(e)
  \/ MainStep
  \/ WakeSpuriously

(* Threads run on and deadlines pass.  The cameras may stall, and requests *)
(* may or may not fail.                                                    *)
Fairness == WF_vars(MainStep) /\ \A e \in Eyes : WF_vars(Callback(e))

Spec == Init /\ [][Next]_vars /\ Fairness

-----------------------------------------------------------------------------
MainPC == {"open_left", "open_right", "start_right", "start_left",
           "acquire", "try", "examine", "check", "drowsy", "asleep", "encode", "release",
           "stop_left", "left_stopping", "stop_right", "right_stopping", "ended"}

(* The shape of the state. *)
TypeOK ==
  /\ camera \in [Eyes -> [acquired : BOOLEAN, started : BOOLEAN, queued : 0 .. Requests]]
  /\ callback \in [Eyes -> {"idle", "copied", "notified"}]
  /\ running \in [Eyes -> BOOLEAN]
  /\ latest \in [Eyes -> [has : BOOLEAN, valid : BOOLEAN, stamp : 0 .. LastStamp]]
  /\ pool \in [Eyes -> 0 .. PoolSize]
  /\ dropped \in [Eyes -> Nat]
  /\ notify \in [generation : Nat, failed : BOOLEAN]
  /\ main \in [pc : MainPC, seen : Nat]
  /\ outstanding \in BOOLEAN
  /\ broken \subseteq Eyes
  /\ shot \in [Eyes -> [stamp : 0 .. LastStamp, count : Nat]]
  /\ taken \in [Eyes -> 0 .. LastStamp]
  /\ pairs \in Nat
  /\ missed \in BOOLEAN

Count(b) == IF b THEN 1 ELSE 0

(* The header promises "no per-frame allocation ... in steady state": the  *)
(* three buffers of an eye whose copies succeed are never lost or doubled, *)
(* wherever they are: in the pool, in latest_, or with the encoders.       *)
BuffersAreKept ==
  \A e \in Eyes \ broken : pool[e] + Count(latest[e].has) + Count(outstanding) = PoolSize

(* The printed "dropped" is exact: every frame a camera completed has been *)
(* handed over, waits, or has been counted as dropped, exactly once.       *)
DropsAreExact ==
  \A e \in Eyes \ broken :
    shot[e].count = pairs + dropped[e] + Count(latest[e].valid)

(* The two frames of a pair are no further apart than allowed, and neither *)
(* is older than, or the same as, the one handed over before.              *)
PairsAdvance ==
  [][taken' # taken =>
       /\ \A e \in Eyes : taken'[e] > taken[e]
       /\ MaxSkew # 0 => Difference(taken'[Left], taken'[Right]) <= MaxSkew]_vars

(* A frame that is thrown away for its skew could not have been paired     *)
(* with any frame the other camera has yet to deliver.                     *)
OnlyHopelessAreDiscarded ==
  [][\A e \in Eyes :
       latest[e].valid /\ ~latest'[e].valid /\ taken' = taken /\ shot' = shot =>
         shot[IF e = Left THEN Right ELSE Left].stamp > latest[e].stamp + MaxSkew]_vars

(* Main sleeps beside a pair that fits only while its notification is yet  *)
(* to come, or after one has fallen into the gap between main's look at    *)
(* the atomics and its sleep.                                              *)
OnlyTheGapDelays ==
  At("asleep") /\ BothValid /\ SkewFits =>
    missed \/ \E e \in Eyes : callback[e] = "copied"

(* A camera never runs out of requests while capturing: what it has        *)
(* completed comes back, unless a failure has been announced.              *)
RequestsComeBack ==
  \A e \in Eyes :
    running[e] /\ ~notify.failed =>
      camera[e].queued + Count(callback[e] # "idle") = Requests

(* Nothing is left acquired or running at the end, whatever failed.        *)
EndsReleased ==
  At("ended") => \A e \in Eyes : /\ ~camera[e].acquired /\ ~camera[e].started
                                 /\ callback[e] = "idle" /\ ~running[e]

(* Each eye's hand-over is a Mailbox. *)
LeftBox  == INSTANCE Mailbox WITH offered <- shot[Left].stamp, taken <- taken[Left]
RightBox == INSTANCE Mailbox WITH offered <- shot[Right].stamp, taken <- taken[Right]
HandsOverLatest == LeftBox!Spec /\ RightBox!Spec

(* In one: no buffer, frame, request, camera or wakeup is lost but where   *)
(* the code says so.                                                       *)
NothingGoesAstray ==
  /\ TypeOK
  /\ BuffersAreKept
  /\ DropsAreExact
  /\ RequestsComeBack
  /\ OnlyTheGapDelays
  /\ EndsReleased

(* In one: what is paired and what is given up, step by step.              *)
PairsAreRight == PairsAdvance /\ OnlyHopelessAreDiscarded /\ HandsOverLatest

(* Main acts on every pair and on every failure, wherever it is: a pair    *)
(* that fits is not left lying for ever, but is taken, or one of the two   *)
(* is replaced; a request that cannot be queued ends the capture.          *)
Pending == (BothValid /\ SkewFits) \/ notify.failed

MainGoesOn == []<>(Pending => At("ended"))
=============================================================================
