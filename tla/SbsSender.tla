----------------------------- MODULE SbsSender -----------------------------
(***************************************************************************)
(* mps_libcamera_sbs_sender.cpp: two cameras (or one, for both eyes), the  *)
(* loop that pairs their latest frames and packs them side by side, the    *)
(* encoder pipeline with its places for one frame each, and the sending of *)
(* what it puts out.  A frame is its sequence number and its time.         *)
(*                                                                         *)
(* The loop waits for a notification, but for 100 ms at most, and never    *)
(* looks at why it woke: notifications are left out, and it may go on at   *)
(* any time.                                                               *)
(***************************************************************************)
EXTENDS LatencyGate, FiniteSets

CONSTANTS
  MaxSkew,    \* max_skew_ns, in ticks
  Requests,   \* requests (and buffers) per camera
  LastStamp   \* bound: ticks

ASSUME SbsAssumption == MaxSkew \in Nat /\ Requests \in Nat \ {0} /\ LastStamp \in Nat \ {0}

VARIABLES
  options,  \* codec h264 or raw RGBA, one camera or two
  now,
  camera,   \* per eye: state of the libcamera camera, and the requests queued to it
  eye,      \* per eye: running_ and latest_
  callback, \* per eye: whether requestComplete has stored its frame and not yet queued the request again
  main,     \* pc, left and right copies, last sequences, encode_sequence, sent_sequence
  gate,
  masks,    \* pending_masks
  pipe,     \* the encoder pipeline: appsrc, queue, coder, appsink
  wire,     \* history: the last frame sent, and what was sent with it
  lost      \* history: a frame left the pipeline and was not counted as emitted

vars == << options, now, camera, eye, callback, main, gate, masks, pipe, wire, lost >>

-----------------------------------------------------------------------------
Eyes == {"left", "right"}

Blank == [sequence |-> 0, stamp |-> 0]
Pair(left, right) == << left, right >>
NoFrame == [number |-> -1, pair |-> Pair(Blank, Blank)]
NoMask == [sequence |-> 0, of |-> -1, valid |-> FALSE]
Nothing == [number |-> -1, stamp |-> 0, mask |-> -1, frame |-> NoFrame]

Init ==
  /\ options \in [h264 : BOOLEAN, mono : BOOLEAN]
  /\ now = 1
  /\ camera = [e \in Eyes |-> [state |-> "closed", queued |-> 0]]
  /\ eye = [e \in Eyes |-> [running |-> FALSE, latest |-> Blank]]
  /\ callback = [e \in Eyes |-> FALSE]
  /\ main = [pc |-> "open_left", left |-> Blank, right |-> Blank, last_left |-> 0,
             last_right |-> 0, encode_sequence |-> 0, sent_sequence |-> 0]
  /\ gate = EmptyGate
  /\ masks = [i \in 0 .. Tracked - 1 |-> NoMask]
  /\ pipe = [place \in 1 .. 4 |-> NoFrame]
  /\ wire = Nothing
  /\ lost = FALSE

GoTo(pc) == main' = [main EXCEPT !.pc = pc]

-----------------------------------------------------------------------------
(* The cameras *)

Tick ==
  /\ now < LastStamp
  /\ now' = now + 1
  /\ UNCHANGED << options, camera, eye, callback, main, gate, masks, pipe, wire, lost >>

(* requestComplete stores the frame, unless its buffer cannot be copied.   *)
Complete(e) ==
  /\ camera[e].state = "started" /\ camera[e].queued > 0 /\ ~callback[e]
  /\ eye[e].latest.stamp < now
  /\ camera' = [camera EXCEPT ![e].queued = @ - 1]
  /\ IF eye[e].running
     THEN /\ callback' = [callback EXCEPT ![e] = TRUE]
          /\ \/ eye' = [eye EXCEPT ![e].latest = [sequence |-> @.sequence + 1, stamp |-> now]]
             \/ UNCHANGED eye
     ELSE UNCHANGED << callback, eye >>
  /\ UNCHANGED << options, now, main, gate, masks, pipe, wire, lost >>

(* ... and queues the request again; that it fails goes unnoticed.         *)
Requeue(e) ==
  /\ callback[e]
  /\ callback' = [callback EXCEPT ![e] = FALSE]
  /\ \/ eye[e].running /\ camera' = [camera EXCEPT ![e].queued = @ + 1]
     \/ UNCHANGED camera
  /\ UNCHANGED << options, now, eye, main, gate, masks, pipe, wire, lost >>

Camera(e) == Complete(e) \/ Requeue(e)

-----------------------------------------------------------------------------
(* GStreamer: a frame moves on to the next place and, where that is a leaky *)
(* one, replaces what it finds there.  Only the coder waits.  The pipeline  *)
(* is the first thing that main destroys when it returns.                  *)

Coder == 3
Sink == 4

Closing == {"stop_right", "release_right", "stop_left", "release_left", "ended"}

Advance(place) ==
  /\ main.pc \notin Closing /\ place < Sink
  /\ pipe[place] # NoFrame
  /\ place + 1 = Coder => pipe[Coder] = NoFrame
  /\ pipe' = [pipe EXCEPT ![place] = NoFrame, ![place + 1] = pipe[place]]
  /\ UNCHANGED << options, now, camera, eye, callback, main, gate, masks, wire, lost >>

(* A frame leaves the pipeline without leaving a trace in the gate. *)
Lose(place) ==
  /\ pipe[place] # NoFrame
  /\ pipe' = [pipe EXCEPT ![place] = NoFrame]
  /\ lost' = TRUE
  /\ UNCHANGED << options, now, camera, eye, callback, gate, masks, wire >>

(* The coder puts out nothing for a frame. *)
CoderDrops == main.pc \notin Closing /\ Lose(Coder) /\ UNCHANGED main

InPipe == {place \in 1 .. Sink : pipe[place] # NoFrame}

-----------------------------------------------------------------------------
(* main, up to its loop *)

OpenEye(e, at, next) ==
  /\ main.pc = at
  /\ \/ /\ \E state \in {"closed", "acquired"} : camera' = [camera EXCEPT ![e].state = state]
        /\ GoTo("stop_right")
     \/ /\ camera' = [camera EXCEPT ![e].state = "acquired"]
        /\ GoTo(next)
  /\ UNCHANGED << options, now, eye, callback, gate, masks, pipe, wire, lost >>

OpenSocketAndEncoder ==
  /\ main.pc = "prepare"
  /\ GoTo("start_left") \/ GoTo("stop_right")
  /\ UNCHANGED << options, now, camera, eye, callback, gate, masks, pipe, wire, lost >>

(* Either every request is queued, or the camera fails to start, or a      *)
(* request is refused and the camera runs with those before it.            *)
StartEye(e, at, next) ==
  /\ main.pc = at
  /\ \/ /\ camera' = [camera EXCEPT ![e] = [state |-> "started", queued |-> Requests]]
        /\ eye' = [eye EXCEPT ![e].running = TRUE]
        /\ GoTo(next)
     \/ /\ \E n \in 0 .. Requests - 1 :
             camera' = [camera EXCEPT ![e] = [state |-> "started", queued |-> n]]
        /\ eye' = [eye EXCEPT ![e].running = TRUE]
        /\ GoTo("stop_right")
     \/ /\ GoTo("stop_right")
        /\ UNCHANGED << camera, eye >>
  /\ UNCHANGED << options, now, callback, gate, masks, pipe, wire, lost >>

StartUp ==
  \/ OpenEye("left", "open_left", IF options.mono THEN "prepare" ELSE "open_right")
  \/ OpenEye("right", "open_right", "prepare")
  \/ OpenSocketAndEncoder
  \/ StartEye("left", "start_left", IF options.mono THEN "wait" ELSE "start_right")
  \/ StartEye("right", "start_right", "wait")

-----------------------------------------------------------------------------
(* The loop *)

Wait ==
  /\ main.pc = "wait"
  /\ GoTo(IF options.h264 THEN "drain" ELSE "copy_left")
  /\ UNCHANGED << options, now, camera, eye, callback, gate, masks, pipe, wire, lost >>

MaskOf(sequence) ==
  LET mask == masks[sequence % Tracked]
  IN  IF mask.valid /\ mask.sequence = sequence THEN mask.of ELSE -1

(* drain_encoded pulls a frame and sends it under the next number to be    *)
(* sent, with that number's time and mask; a failure to send ends the loop. *)
Drain ==
  /\ main.pc \in {"drain", "drain_pushed"}
  /\ pipe[Sink] # NoFrame
  /\ pipe' = [pipe EXCEPT ![Sink] = NoFrame]
  /\ gate' = MarkEmitted(gate, main.sent_sequence)
  /\ \/ /\ wire' = [number |-> main.sent_sequence,
                    stamp |-> EmittedStamp(gate, main.sent_sequence, now),
                    mask |-> MaskOf(main.sent_sequence), frame |-> pipe[Sink]]
        /\ masks' = [masks EXCEPT ![main.sent_sequence % Tracked].valid =
                       @ /\ MaskOf(main.sent_sequence) = -1]
        /\ main' = [main EXCEPT !.sent_sequence = @ + 1]
     \/ GoTo("stop_right") /\ UNCHANGED << masks, wire >>
  /\ UNCHANGED << options, now, camera, eye, callback, lost >>

AfterDraining == IF main.pc = "drain" THEN "copy_left" ELSE "wait"

(* pullFrame pulls a sample, but finds no buffer, cannot map it, or finds   *)
(* it empty: the sample is gone, and nothing more is looked for.           *)
PullFails ==
  /\ main.pc \in {"drain", "drain_pushed"}
  /\ Lose(Sink)
  /\ GoTo(AfterDraining)

Drained ==
  /\ main.pc \in {"drain", "drain_pushed"}
  /\ pipe[Sink] = NoFrame
  /\ GoTo(AfterDraining)
  /\ UNCHANGED << options, now, camera, eye, callback, gate, masks, pipe, wire, lost >>

CopyLeft ==
  /\ main.pc = "copy_left"
  /\ main' = IF eye["left"].latest = Blank
             THEN [main EXCEPT !.pc = "wait"]
             ELSE [main EXCEPT !.pc = "copy_right", !.left = eye["left"].latest]
  /\ UNCHANGED << options, now, camera, eye, callback, gate, masks, pipe, wire, lost >>

CopyRight ==
  /\ main.pc = "copy_right"
  /\ LET right == IF options.mono THEN main.left ELSE eye["right"].latest
     IN  main' = IF right = Blank
                 THEN [main EXCEPT !.pc = "wait"]
                 ELSE [main EXCEPT !.pc = "examine", !.right = right]
  /\ UNCHANGED << options, now, camera, eye, callback, gate, masks, pipe, wire, lost >>

Fresh == main.left.sequence # main.last_left \/ main.right.sequence # main.last_right

(* Defect: only a late right frame is a skew. *)
SkewFitsOneWay == options.mono \/ main.right.stamp - main.left.stamp <= MaxSkew

SkewFits ==
  options.mono \/ (/\ main.left.stamp - main.right.stamp <= MaxSkew
                   /\ main.right.stamp - main.left.stamp <= MaxSkew)

(* last_left_sequence and last_right_sequence are set. *)
Seen(pc) ==
  [main EXCEPT !.pc = pc, !.last_left = main.left.sequence, !.last_right = main.right.sequence]

ExamineAgain ==
  /\ main.pc = "examine" /\ ~Fresh
  /\ GoTo("wait")
  /\ UNCHANGED << options, now, camera, eye, callback, gate, masks, pipe, wire, lost >>

DropSkewed ==
  /\ main.pc = "examine" /\ Fresh /\ ~SkewFits
  /\ main' = Seen("wait")
  /\ UNCHANGED << options, now, camera, eye, callback, gate, masks, pipe, wire, lost >>

(* What the gate refuses it counts for the log only. *)
Refuse ==
  /\ main.pc = "examine" /\ Fresh /\ SkewFits /\ options.h264
  /\ ~Accepts(gate, main.left.stamp, now)
  /\ main' = Seen("wait")
  /\ UNCHANGED << options, now, camera, eye, callback, gate, masks, pipe, wire, lost >>

PushUnder(number) ==
  gate' = MarkPushed(gate, number, main.left.stamp)

(* The mask is stored, the frame goes into the pipeline; when that fails   *)
(* the loop ends.                                                          *)
Push ==
  /\ main.pc = "examine" /\ Fresh /\ SkewFits /\ options.h264
  /\ Accepts(gate, main.left.stamp, now)
  /\ LET number == main.encode_sequence IN
     /\ masks' = [masks EXCEPT ![number % Tracked] =
                    [sequence |-> number, of |-> number, valid |-> TRUE]]
     /\ \/ /\ pipe' = [pipe EXCEPT ![1] = [number |-> number, pair |-> Pair(main.left, main.right)]]
           /\ PushUnder(number)
           /\ main' = [Seen("drain_pushed") EXCEPT !.encode_sequence = @ + 1]
        \/ GoTo("stop_right") /\ UNCHANGED << pipe, gate >>
  /\ UNCHANGED << options, now, camera, eye, callback, wire, lost >>

(* Without an encoder the pair is sent at once. *)
SendRaw ==
  /\ main.pc = "examine" /\ Fresh /\ SkewFits /\ ~options.h264
  /\ LET number == main.sent_sequence IN
     \/ /\ wire' = [number |-> number, stamp |-> main.left.stamp, mask |-> number,
                    frame |-> [number |-> number, pair |-> Pair(main.left, main.right)]]
        /\ main' = [Seen("wait") EXCEPT !.sent_sequence = @ + 1]
     \/ GoTo("stop_right") /\ UNCHANGED wire
  /\ UNCHANGED << options, now, camera, eye, callback, gate, masks, pipe, lost >>

Loop ==
  \/ Wait \/ Drain \/ PullFails \/ Drained \/ CopyLeft \/ CopyRight
  \/ ExamineAgain \/ DropSkewed \/ Refuse \/ Push \/ SendRaw

-----------------------------------------------------------------------------
(* The destructors of the eyes run when main returns, the right one first; *)
(* stopping a camera waits for its callback.                               *)

StopRunning(e, at, next) ==
  /\ main.pc = at
  /\ eye' = [eye EXCEPT ![e].running = FALSE]
  /\ GoTo(next)
  /\ UNCHANGED << options, now, camera, callback, gate, masks, pipe, wire, lost >>

Release(e, at, next) ==
  /\ main.pc = at
  /\ ~callback[e]
  /\ camera' = [camera EXCEPT ![e] = [state |-> "closed", queued |-> 0]]
  /\ GoTo(next)
  /\ UNCHANGED << options, now, eye, callback, gate, masks, pipe, wire, lost >>

TearDown ==
  \/ StopRunning("right", "stop_right", "release_right")
  \/ Release("right", "release_right", "stop_left")
  \/ StopRunning("left", "stop_left", "release_left")
  \/ Release("left", "release_left", "ended")

Main == StartUp \/ Loop \/ TearDown

Next ==
  \/ Tick
  \/ \E e \in Eyes : Camera(e)
  \/ \E place \in 1 .. 3 : Advance(place)
  \/ CoderDrops
  \/ Main

(* The loop wakes every 100 ms at least; GStreamer's threads and callbacks  *)
(* already begun go on.  Cameras need not deliver.                         *)
Fairness ==
  /\ WF_vars(Main)
  /\ \A e \in Eyes : WF_vars(Requeue(e))
  /\ WF_vars(\E place \in 1 .. 3 : Advance(place))

Spec == Init /\ [][Next]_vars /\ Fairness

-----------------------------------------------------------------------------
Frames == [sequence : 0 .. LastStamp, stamp : 0 .. LastStamp]
Numbers == -1 .. 2 * LastStamp
PairFrames == [number : Numbers, pair : Frames \X Frames]

(* The shape of the state. *)
TypeOK ==
  /\ options \in [h264 : BOOLEAN, mono : BOOLEAN]
  /\ now \in 1 .. LastStamp
  /\ camera \in [Eyes -> [state : {"closed", "acquired", "started"}, queued : 0 .. Requests]]
  /\ eye \in [Eyes -> [running : BOOLEAN, latest : Frames]]
  /\ callback \in [Eyes -> BOOLEAN]
  /\ main.left \in Frames /\ main.right \in Frames
  /\ main.last_left \in 0 .. LastStamp /\ main.last_right \in 0 .. LastStamp
  /\ main.encode_sequence \in Numbers /\ main.sent_sequence \in Numbers
  /\ gate \in Gate
  /\ masks \in [0 .. Tracked - 1 -> [sequence : Numbers, of : Numbers, valid : BOOLEAN]]
  /\ pipe \in [1 .. Sink -> PairFrames]
  /\ wire \in [number : Numbers, stamp : 0 .. LastStamp, mask : Numbers, frame : PairFrames]
  /\ lost \in BOOLEAN

(* No more frames are in the pipeline than the gate counts, and it counts   *)
(* no more than its limit: the leaky places never hide a frame from it.    *)
GateCoversPipe ==
  /\ Cardinality(InPipe) <= Pending(gate)
  /\ MaxPending > 0 => Pending(gate) <= MaxPending

(* A frame a leaky place dropped is never counted as emitted, but that does *)
(* not shut the gate for good: with an empty pipeline there is room.  Only *)
(* frames that the coder drops or that cannot be pulled take the room away *)
(* from all that follow.                                                   *)
LeaksLeaveRoom == MaxPending > 0 /\ InPipe = {} /\ ~lost => ~Full(gate)

(* What is sent is not older than its number: each dropped frame lets the  *)
(* numbers fall behind the frames for good.  With a limit that the rings   *)
(* of tags and masks hold, they fall behind by less than the limit, and     *)
(* what is sent carries the time and the mask of the number it is sent     *)
(* under: with a limit of 1 every frame has its own time and mask.         *)
LagIsBounded ==
  wire # Nothing =>
    /\ wire.frame.number >= wire.number
    /\ ~options.h264 => wire.frame.number = wire.number
    /\ ~options.h264 \/ MaxPending \in 1 .. Tracked =>
         /\ options.h264 => wire.frame.number - wire.number < MaxPending
         /\ wire.mask = wire.number
         /\ wire.frame.number = wire.number => wire.stamp = wire.frame.pair[1].stamp

(* No pair is sent twice, none goes back in time in either eye, and its     *)
(* frames fit together.                                                    *)
PairsAdvance ==
  [][LET old == wire.frame.pair  new == wire'.frame.pair IN
     wire' # wire =>
       /\ new # old
       /\ \A i \in 1 .. 2 : new[i].sequence >= old[i].sequence
       /\ options.mono => new[1] = new[2]
       /\ ~options.mono => new[1].stamp - new[2].stamp \in -MaxSkew .. MaxSkew]_vars

(* The hand-over of each camera is a Mailbox, whatever its partner does.    *)
LeftBox == INSTANCE Mailbox WITH offered <- eye["left"].latest.sequence, taken <- main.last_left
RightBox == INSTANCE Mailbox WITH
  offered <- eye[IF options.mono THEN "left" ELSE "right"].latest.sequence, taken <- main.last_right
HandsOverLatest == LeftBox!Spec /\ RightBox!Spec

(* What the encoder puts out is pulled even when no camera delivers any     *)
(* more, unless the program ends first.                                    *)
OutputIsDrained == pipe[Sink] # NoFrame ~> pipe[Sink] = NoFrame \/ main.pc = "ended"

(* A new frame is looked at, though nothing but the passing of time may    *)
(* wake the loop.                                                          *)
NewFramesAreSeen ==
  LET Unseen == /\ eye["left"].latest.sequence > main.last_left
                /\ eye["right"].latest # Blank \/ options.mono
  IN  Unseen ~> ~Unseen \/ main.pc = "ended"

(* However the program ends, no callback is left and both cameras are given *)
(* back.                                                                   *)
EndsReleased ==
  main.pc = "ended" => \A e \in Eyes : camera[e].state = "closed" /\ ~callback[e]

(* In one: the gate's count holds for the pipeline behind it, number and   *)
(* frame stay together as far as they can, and nothing is left at the end. *)
GateIsTrue == TypeOK /\ GateCoversPipe /\ LeaksLeaveRoom /\ LagIsBounded /\ EndsReleased

(* In one: from the cameras to the wire only forward, and on and on.       *)
SendsOnward == PairsAdvance /\ HandsOverLatest /\ OutputIsDrained /\ NewFramesAreSeen
=============================================================================
