-------------------------- MODULE SenderLifecycle --------------------------
(***************************************************************************)
(* How mps_stereo_x264_sender.c comes up and goes down, with both capture  *)
(* backends: what main acquires and starts, in which order, and what every *)
(* one of its failing paths gives back while the threads that are already  *)
(* running go on.                                                          *)
(*                                                                         *)
(* What the threads do meanwhile is in EyeStream and StereoPipeline; here  *)
(* they only hold on to what they use, and end when they are told to.      *)
(***************************************************************************)
EXTENDS Naturals, Sequences, SequencesExt

VARIABLES
  config,   \* environment: the backend, and whether NACKs are enabled
  stage,    \* how far main has come up: the next of Stages to do
  todo,     \* once going down: what main has yet to give back, in order
  failing,  \* main has begun to go down
  owns,     \* what each EyeStream's fields say it owns
  thread,   \* what each thread is doing
  told,     \* threads that have been told to stop
  timed,    \* eyes whose recv times out: SO_RCVTIMEO could be set
  shut,     \* eyes whose socket has been shut down for receiving
  held,     \* history: what is acquired and not yet released
  misused   \* history: what was released without being held

vars == << config, stage, todo, failing, owns, thread, told, timed, shut, held, misused >>

-----------------------------------------------------------------------------
Left == "left"
Right == "right"
Both == "both"
Eyes == {Left, Right}

(* The parts of an EyeStream in the order in which they are made. *)
Parts == << "lock", "x264", "packetizer", "socket" >>
Of(parts, e) == {<< p, e >> : p \in parts}

Capture == << "capture", Both >>
Threads == {Capture} \cup ({"nack", "worker"} \X Eyes)
Pipes == Of({"pipe"}, Left) \cup Of({"pipe"}, Right)
Buffers == Of({"buffers"}, Left) \cup Of({"buffers"}, Right)
CaptureLock == << "capture lock", Both >>
Camera == << "camera", Both >>

Stages(backend) ==
  << Left, Right >> \o
  IF backend = "rpicam"
  THEN << "buffers", "pipes", "left worker", "right worker", "capture" >>
  ELSE << "create", "start", "left worker", "right worker" >>

At(s) ==
  ~failing /\ stage <= Len(Stages(config.backend)) /\ Stages(config.backend)[stage] = s

Serving == ~failing /\ stage > Len(Stages(config.backend))
Ended == failing /\ todo = << >>

FieldsCleared == [e \in Eyes |-> {}]

Init ==
  /\ config \in [backend : {"rpicam", "libcamera"}, nacks : BOOLEAN]
  /\ stage = 1 /\ todo = << >> /\ failing = FALSE
  /\ owns = FieldsCleared
  /\ thread = [t \in Threads |-> "none"]
  /\ told = {} /\ timed = {} /\ shut = {} /\ held = {} /\ misused = {}

-----------------------------------------------------------------------------
(* Coming up. *)
EyesDown == << << "eye", Left >>, << "eye", Right >> >>
BuffersDown == << << "buffers", Left >>, << "buffers", Right >> >>
PipesDown == << << "pipe", Left >>, << "pipe", Right >> >>
WorkersDown == << << "worker", Left >>, << "worker", Right >> >>

(* What main gives back after the libcamera capture has been tried, or     *)
(* with the rpicam backend after its other resources.                      *)
Finally == IF config.backend = "rpicam" THEN EyesDown \o BuffersDown ELSE EyesDown

GetsUp(new) ==
  /\ stage' = stage + 1
  /\ held' = held \cup new
  /\ UNCHANGED << config, todo, failing, told, shut, misused >>

GoesDown(steps, partly) ==
  /\ failing' = TRUE
  /\ todo' = steps
  /\ held' = held \cup partly
  /\ UNCHANGED << config, stage, thread, told, timed, shut, misused >>

(* eye_stream_init; setting the timeout may fail, which is only reported. *)
InitEye(e) ==
  /\ At(e)
  /\ GetsUp(Of(Range(Parts), e))
  /\ owns' = [owns EXCEPT ![e] = Range(Parts) \cup (IF config.nacks THEN {"nack"} ELSE {})]
  /\ thread' = [thread EXCEPT ![<< "nack", e >>] = IF config.nacks THEN "looking" ELSE "none"]
  /\ \E t \in IF config.nacks THEN {{}, {e}} ELSE {{}} : timed' = timed \cup t

(* It destroys what it has made, unless not even the lock was; main then   *)
(* destroys both eyes, whatever has become of them.                        *)
InitEyeFails(e) ==
  /\ At(e)
  /\ \E k \in 0 .. Len(Parts) :
       LET made == Range(SubSeq(Parts, 1, k))
       IN  /\ owns' = [owns EXCEPT ![e] = made]
           /\ GoesDown((IF k = 0 THEN << >> ELSE << << "eye", e >> >>)
                         \o EyesDown \o BuffersDown,
                       Of(made, e))

AllocateBuffers ==
  /\ At("buffers")
  /\ \/ GetsUp(Buffers) /\ UNCHANGED << owns, thread, timed >>
     \/ /\ \E some \in {{}, Of({"buffers"}, Left)} : GoesDown(Finally, some)
        /\ UNCHANGED owns

(* Main makes cap.lock and cap.cond next, which is not checked. *)
OpenPipes ==
  /\ At("pipes")
  /\ \/ GetsUp(Pipes \cup {CaptureLock}) /\ UNCHANGED << owns, thread, timed >>
     \/ /\ \E some \in SUBSET Pipes \ {Pipes} :
             GoesDown(SelectSeq(PipesDown, LAMBDA p : p \in some) \o Finally, some)
        /\ UNCHANGED owns

(* Defect: the pipes are forgotten when a worker cannot be started. *)
WithoutWorkerForgetful ==
  WorkersDown \o
  (IF config.backend = "rpicam" THEN << CaptureLock >> ELSE << Camera >>) \o Finally

WithoutWorker ==
  WorkersDown \o
  (IF config.backend = "rpicam" THEN Append(PipesDown, CaptureLock) ELSE << Camera >>) \o Finally

(* eye_worker_init leaves nothing behind when it fails. *)
InitWorker(e) ==
  /\ At(IF e = Left THEN "left worker" ELSE "right worker")
  /\ \/ /\ GetsUp(Of({"worker lock"}, e))
        /\ thread' = [thread EXCEPT ![<< "worker", e >>] = "idle"]
        /\ UNCHANGED << owns, timed >>
     \/ GoesDown(WithoutWorker, {}) /\ UNCHANGED owns

StartCapture ==
  /\ At("capture")
  /\ \/ /\ GetsUp({})
        /\ thread' = [thread EXCEPT ![Capture] = "reading"]
        /\ UNCHANGED << owns, timed >>
     \/ /\ GoesDown(Append(PipesDown, CaptureLock) \o WorkersDown \o Finally, {})
        /\ UNCHANGED owns

StartCamera ==
  \/ /\ At("create")
     /\ \/ GetsUp({Camera}) /\ UNCHANGED << owns, thread, timed >>
        \/ GoesDown(Finally, {}) /\ UNCHANGED owns
  \/ /\ At("start")
     /\ \/ GetsUp({}) /\ UNCHANGED << owns, thread, timed >>
        \/ GoesDown(<< Camera >> \o Finally, {}) /\ UNCHANGED owns

ComeUp ==
  \/ \E e \in Eyes : InitEye(e) \/ InitEyeFails(e) \/ InitWorker(e)
  \/ AllocateBuffers \/ OpenPipes \/ StartCapture \/ StartCamera

-----------------------------------------------------------------------------
(* Serving: both workers get a pair, and main waits for both. *)
WorkersIdle == \A e \in Eyes : thread[<< "worker", e >>] = "idle"

SubmitPair ==
  /\ Serving /\ WorkersIdle
  /\ thread' = [t \in Threads |-> IF t[1] = "worker" THEN "busy" ELSE thread[t]]
  /\ UNCHANGED << config, stage, todo, failing, owns, told, timed, shut, held, misused >>

AfterCapture ==
  IF config.backend = "rpicam" THEN PipesDown \o << << "join", Both >>, CaptureLock >>
                               ELSE << Camera >>

(* The capture thread has reported its error, or libcamera has. *)
CaptureHasFailed ==
  /\ Serving /\ WorkersIdle
  /\ config.backend = "rpicam" => thread[Capture] \in {"leaving", "ended"}
  /\ GoesDown(WorkersDown \o AfterCapture \o Finally, {})
  /\ UNCHANGED owns

-----------------------------------------------------------------------------
(* Going down. *)
Now(op) == failing /\ todo # << >> /\ Head(todo) = op

Releases(what) ==
  /\ held' = held \ what
  /\ misused' = misused \cup (what \ held)
  /\ todo' = Tail(todo)
  /\ UNCHANGED << config, stage, failing, told, timed, shut >>

(* Defect: recv is left waiting for its timeout. *)
ShutNothing(e) == shut

ShutForReceiving(e) == IF "socket" \in owns[e] THEN shut \cup {e} ELSE shut

(* eye_stream_destroy, up to the join of the NACK thread and from there. *)
StopEye(e) ==
  /\ Now(<< "eye", e >>)
  /\ "nack" \in owns[e] /\ << "nack", e >> \notin told
  /\ told' = told \cup {<< "nack", e >>}
  /\ shut' = ShutForReceiving(e)
  /\ UNCHANGED << config, stage, todo, failing, owns, thread, timed, held, misused >>

FieldsReset(e) == [owns EXCEPT ![e] = {}]

DestroyEye(e) ==
  /\ Now(<< "eye", e >>)
  /\ "nack" \in owns[e] => thread[<< "nack", e >>] = "ended"
  /\ Releases(Of(owns[e] \ {"nack"}, e))
  /\ owns' = FieldsReset(e)
  /\ UNCHANGED thread

(* eye_worker_destroy; a worker that was never started is left alone. *)
StopWorker(e) ==
  /\ Now(<< "worker", e >>)
  /\ thread[<< "worker", e >>] # "none" /\ << "worker", e >> \notin told
  /\ told' = told \cup {<< "worker", e >>}
  /\ UNCHANGED << config, stage, todo, failing, owns, thread, timed, shut, held, misused >>

DestroyWorker(e) ==
  /\ Now(<< "worker", e >>)
  /\ \/ thread[<< "worker", e >>] = "none" /\ Releases({})
     \/ thread[<< "worker", e >>] = "ended" /\ Releases(Of({"worker lock"}, e))
  /\ UNCHANGED << owns, thread >>

JoinCapture ==
  /\ Now(<< "join", Both >>) /\ thread[Capture] = "ended"
  /\ Releases({})
  /\ UNCHANGED << owns, thread >>

(* Freeing a buffer that was never allocated is harmless; all else is not. *)
ReleaseNext ==
  /\ \E r \in Pipes \cup Buffers \cup {CaptureLock, Camera} :
       Now(r) /\ Releases({r} \ (Buffers \ held))
  /\ UNCHANGED << owns, thread >>

GoDown ==
  \/ \E e \in Eyes : StopEye(e) \/ DestroyEye(e) \/ StopWorker(e) \/ DestroyWorker(e)
  \/ JoinCapture \/ ReleaseNext

-----------------------------------------------------------------------------
(* The threads. *)
Moves(t, from, to) ==
  /\ thread[t] = from
  /\ thread' = [thread EXCEPT ![t] = to]
  /\ UNCHANGED << config, stage, todo, failing, owns, told, timed, shut, held, misused >>

(* eye_stream_nack_loop; recv returns with a datagram or an error, or      *)
(* because its timeout has passed or the socket was shut down.             *)
NackLooks(t) ==
  IF t \in told THEN Moves(t, "looking", "ended") ELSE Moves(t, "looking", "receiving")
NackReceives(t) == Moves(t, "receiving", "looking")
NackIsWoken(t) == t[2] \in timed \cup shut /\ NackReceives(t)

WorkerEncodes(t) == Moves(t, "busy", "idle")
WorkerStops(t) == t \in told /\ Moves(t, "idle", "ended")

CameraFails == Moves(Capture, "reading", "leaving")
CaptureReturns == Moves(Capture, "leaving", "ended")

ThreadRuns(t) ==
  \/ t[1] = "nack" /\ (NackLooks(t) \/ NackIsWoken(t))
  \/ t[1] = "worker" /\ (WorkerEncodes(t) \/ WorkerStops(t))
  \/ t = Capture /\ CaptureReturns

Next ==
  \/ ComeUp \/ SubmitPair \/ CaptureHasFailed \/ GoDown
  \/ \E t \in Threads : ThreadRuns(t)
  \/ \E e \in Eyes : NackReceives(<< "nack", e >>)
  \/ CameraFails

(* Main goes on and every thread is scheduled; datagrams and failures may  *)
(* or may not come.                                                        *)
Spec == Init /\ [][Next]_vars /\ WF_vars(GoDown) /\ \A t \in Threads : WF_vars(ThreadRuns(t))

-----------------------------------------------------------------------------
(* The shape of the state; an EyeStream's parts are made one upon the      *)
(* other, so its fields always name a beginning of Parts.                  *)
TypeOK ==
  /\ config \in [backend : {"rpicam", "libcamera"}, nacks : BOOLEAN]
  /\ stage \in 1 .. 8 /\ failing \in BOOLEAN
  /\ \A e \in Eyes : \E k \in 0 .. Len(Parts) :
       owns[e] \ {"nack"} = Range(SubSeq(Parts, 1, k))
  /\ thread \in [Threads -> {"none", "looking", "receiving", "idle", "busy", "reading",
                             "leaving", "ended"}]
  /\ told \subseteq Threads /\ timed \subseteq Eyes /\ shut \subseteq Eyes

(* What a thread may touch at any moment. *)
Needs(t) ==
  CASE thread[t] \in {"looking", "receiving"} -> Of({"lock", "socket"}, t[2])
    [] thread[t] = "idle" -> Of({"worker lock"}, t[2])
    [] thread[t] = "busy" ->
         Of(Range(Parts) \cup {"worker lock"}, t[2])
           \cup (IF config.backend = "rpicam" THEN Of({"buffers"}, t[2]) ELSE {Camera})
    [] thread[t] = "reading" -> Pipes \cup Buffers \cup {CaptureLock}
    [] thread[t] = "leaving" -> {CaptureLock}
    [] OTHER -> {}

(* Whatever main takes down, in whichever of its paths: a thread that is   *)
(* still running keeps everything it works with.                           *)
ThreadsKeepTheirs == \A t \in Threads : Needs(t) \subseteq held

(* Every path out of the program has given everything back, once. *)
EndsReleased == Ended => held = {} /\ \A t \in Threads : thread[t] \in {"none", "ended"}

(* Nothing is released that is not held: neither what was never acquired   *)
(* nor, when a failing eye_stream_init has already destroyed its eye, that *)
(* eye's parts for a second time.                                          *)
NothingReleasedTwice == misused = {}

(* Whatever fails, and when: everything is held for as long as it is used, *)
(* and given back exactly once.                                            *)
ResourcesAreKept == ThreadsKeepTheirs /\ EndsReleased /\ NothingReleasedTwice

(* A failure, at any stage, ends the program: no join waits forever, also  *)
(* not for a NACK thread whose receive timeout could not be set.           *)
FailureEnds == failing ~> Ended
=============================================================================
