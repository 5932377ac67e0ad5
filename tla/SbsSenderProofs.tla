--------------------------- MODULE SbsSenderProofs ---------------------------
(***************************************************************************)
(* Proofs about SbsSender, for every limit of the gate, every size of its  *)
(* rings, every number of requests and every skew: the gate's count holds  *)
(* for the pipeline behind it, what is sent only goes forward, each camera *)
(* hands over as a Mailbox does, and nothing is left at the end.           *)
(***************************************************************************)
EXTENDS SbsSender, FiniteSetTheorems, TLAPS

-----------------------------------------------------------------------------
(* Before a camera is started. *)
BeforeRight == {"open_left", "open_right", "prepare", "start_left", "start_right"}
BeforeLeft == BeforeRight \ {"start_right"}

PCs == BeforeRight \cup Closing
         \cup {"wait", "drain", "drain_pushed", "copy_left", "copy_right", "examine"}

Shape ==
  /\ options \in [h264 : BOOLEAN, mono : BOOLEAN]
  /\ now \in 1 .. LastStamp
  /\ camera \in [Eyes -> [state : {"closed", "acquired", "started"}, queued : 0 .. Requests]]
  /\ eye \in [Eyes -> [running : BOOLEAN, latest : Frames]]
  /\ callback \in [Eyes -> BOOLEAN]
  /\ main \in [pc : PCs, left : Frames, right : Frames,
               last_left : 0 .. LastStamp, last_right : 0 .. LastStamp,
               encode_sequence : Nat, sent_sequence : Nat]
  /\ gate \in Gate
  /\ masks \in [0 .. Tracked - 1 -> [sequence : Numbers, of : Numbers, valid : BOOLEAN]]
  /\ pipe \in [1 .. Sink -> PairFrames]
  /\ wire \in [number : Numbers, stamp : 0 .. LastStamp, mask : Numbers, frame : PairFrames]
  /\ lost \in BOOLEAN

(* A frame a camera completed has a number and a time. *)
Real(frame) == frame.sequence > 0 /\ frame.stamp > 0

(* A request is queued, or in the callback, or lost; a callback only runs  *)
(* for a camera that was started, and closing a camera waits for it.       *)
CamerasHold ==
  /\ \A e \in Eyes :
       /\ callback[e] => camera[e].state = "started"
       /\ callback[e] => camera[e].queued < Requests
       /\ eye[e].latest # Blank => Real(eye[e].latest)
       /\ eye[e].latest.sequence <= eye[e].latest.stamp
       /\ eye[e].latest.stamp <= now
  /\ main.pc \in BeforeLeft => camera["left"].state # "started"
  /\ main.pc \in BeforeRight => camera["right"].state # "started"
  /\ main.pc \in {"stop_left", "release_left", "ended"} => camera["right"].state = "closed"
  /\ main.pc = "ended" => camera["left"].state = "closed"

RightEye == IF options.mono THEN "left" ELSE "right"

(* What the loop has looked at is not newer than its copies, and those are *)
(* not newer than the cameras' frames.                                     *)
CopiesFollow ==
  /\ main.last_left <= main.left.sequence
  /\ main.left.sequence <= eye["left"].latest.sequence
  /\ main.last_right <= main.right.sequence
  /\ main.right.sequence <= eye[RightEye].latest.sequence
  /\ options.mono => main.right.sequence <= main.left.sequence
  /\ main.pc = "copy_right" => Real(main.left)
  /\ main.pc = "examine" =>
       Real(main.left) /\ Real(main.right) /\ (options.mono => main.right = main.left)

(* Every pair that is encoded or sent was new in at least one eye. *)
NumbersAreBounded ==
  /\ main.encode_sequence <= main.last_left + main.last_right
  /\ options.h264 => main.sent_sequence <= main.encode_sequence
  /\ ~options.h264 =>
       /\ main.sent_sequence <= main.last_left + main.last_right
       /\ main.encode_sequence = 0
       /\ \A p \in 1 .. Sink : pipe[p] = NoFrame

(* The gate has counted what was pushed and what was sent, and the limit   *)
(* is only reached while the newest frame is still in the pipeline (no     *)
(* leaky place drops that one), unless frames were lost on their way.      *)
GateCounts ==
  /\ gate.pushed = main.encode_sequence
  /\ gate.emitted <= gate.pushed
  /\ options.h264 =>
       /\ main.sent_sequence <= gate.emitted
       /\ main.pc \notin Closing => main.sent_sequence = gate.emitted
  /\ MaxPending > 0 =>
       /\ gate.pushed - gate.emitted <= MaxPending
       /\ gate.pushed - gate.emitted = MaxPending =>
            \/ lost
            \/ \E p \in 1 .. Sink : pipe[p] # NoFrame /\ pipe[p].number = gate.pushed - 1

(* The first pair is older than the second. *)
Older(first, second) ==
  /\ first[1].sequence <= second[1].sequence
  /\ first[2].sequence <= second[2].sequence
  /\ first[1].sequence < second[1].sequence \/ first[2].sequence < second[2].sequence

FitsTogether(pair) ==
  /\ options.mono => pair[1] = pair[2]
  /\ ~options.mono => pair[1].stamp - pair[2].stamp \in -MaxSkew .. MaxSkew

(* The frame at a place of the pipeline is between what was pulled and what *)
(* was pushed, and newer than the last one sent.                           *)
InOrder(p) ==
  /\ gate.emitted <= pipe[p].number
  /\ pipe[p].number < gate.pushed
  /\ Real(pipe[p].pair[1])
  /\ pipe[p].pair[1].sequence <= main.last_left
  /\ pipe[p].pair[2].sequence <= main.last_right
  /\ FitsTogether(pipe[p].pair)
  /\ Older(wire.frame.pair, pipe[p].pair)

(* ... and the nearer to the end, the older. *)
PipeIsInOrder ==
  /\ wire.frame.pair[1].sequence <= main.last_left
  /\ wire.frame.pair[2].sequence <= main.last_right
  /\ \A p \in 1 .. Sink : pipe[p] # NoFrame => InOrder(p)
  /\ \A p, q \in 1 .. Sink :
       p < q /\ pipe[p] # NoFrame /\ pipe[q] # NoFrame =>
         /\ pipe[q].number < pipe[p].number
         /\ Older(pipe[q].pair, pipe[p].pair)

(* With a limit that the rings hold, every number still to be sent has its *)
(* mask, and every frame in the pipeline its tag.                          *)
TagsAreKept ==
  /\ \A i \in 0 .. Tracked - 1 : gate.tags[i].stamp <= LastStamp
  /\ MaxPending \in 1 .. Tracked /\ main.pc \notin Closing =>
       /\ \A n \in gate.emitted .. gate.pushed - 1 :
            masks[n % Tracked] = [sequence |-> n, of |-> n, valid |-> TRUE]
       /\ \A p \in 1 .. Sink :
            pipe[p] # NoFrame =>
              gate.tags[pipe[p].number % Tracked] =
                [sequence |-> pipe[p].number, stamp |-> pipe[p].pair[1].stamp, valid |-> TRUE]

IInv ==
  /\ Shape
  /\ CamerasHold
  /\ CopiesFollow
  /\ NumbersAreBounded
  /\ GateCounts
  /\ PipeIsInOrder
  /\ TagsAreKept
  /\ LagIsBounded

-----------------------------------------------------------------------------
(* Two numbers closer than the size of a ring have different entries. *)
LEMMA NearNumbersDiffer ==
  ASSUME NEW m \in Nat, NEW n \in Nat, m # n, m - n < Tracked, n - m < Tracked
  PROVE  m % Tracked # n % Tracked
<1> DEFINE T == Tracked
<1>1. T \in Nat /\ T > 0
  BY GateAssumption
<1>2. /\ m = T * (m \div T) + (m % T) /\ m % T \in 0 .. T - 1
      /\ n = T * (n \div T) + (n % T) /\ n % T \in 0 .. T - 1
      /\ m \div T \in Int /\ n \div T \in Int
  BY <1>1
<1>3. ASSUME NEW a \in Int, NEW b \in Int, NEW r \in Int,
             m = T * a + r, n = T * b + r
      PROVE  FALSE
  <2>1. m - n = T * (a - b)
    BY <1>1, <1>3
  <2>2. CASE a = b
    BY <2>1, <2>2, <1>1
  <2>3. CASE a > b
    <3>1. T * (a - b) >= T
      BY <1>1, <2>3
    <3> QED
      BY <3>1, <2>1, <1>1
  <2>4. CASE a < b
    <3>1. n - m = T * (b - a)
      BY <1>1, <1>3
    <3>2. T * (b - a) >= T
      BY <1>1, <2>4
    <3> QED
      BY <3>1, <3>2, <1>1
  <2> QED
    BY <2>2, <2>3, <2>4
<1> QED
  BY <1>2, <1>3

(* Every number has an entry in the rings. *)
LEMMA EntryExists ==
  ASSUME NEW n \in Nat
  PROVE  n % Tracked \in 0 .. Tracked - 1
BY GateAssumption

(* What marking does to a gate. *)
LEMMA GatePushed ==
  ASSUME NEW g \in Gate, NEW n \in Nat, NEW stamp \in Nat
  PROVE  /\ MarkPushed(g, n, stamp) \in Gate
         /\ MarkPushed(g, n, stamp).pushed = g.pushed + 1
         /\ MarkPushed(g, n, stamp).emitted = g.emitted
         /\ MarkPushed(g, n, stamp).tags =
              [g.tags EXCEPT ![n % Tracked] = [sequence |-> n, stamp |-> stamp, valid |-> TRUE]]
<1> DEFINE r == n % Tracked
           tags == [g.tags EXCEPT ![r] = [sequence |-> n, stamp |-> stamp, valid |-> TRUE]]
           count == g.pushed + 1
<1>1. r \in 0 .. Tracked - 1
  BY EntryExists
<1>2. MarkPushed(g, n, stamp) = [g EXCEPT !.pushed = count, !.tags = tags]
  BY DEF MarkPushed, Gate
<1>3. tags \in [0 .. Tracked - 1 -> [sequence : Nat, stamp : Nat, valid : BOOLEAN]]
  <2> HIDE DEF r
  <2> QED
    BY <1>1 DEF Gate
<1>4. count \in Nat
  BY DEF Gate
<1> HIDE DEF r, count
<1>5. MarkPushed(g, n, stamp) \in Gate
  <2> HIDE DEF tags
  <2> QED
    BY <1>2, <1>3, <1>4 DEF Gate
<1>6. /\ MarkPushed(g, n, stamp).pushed = count
      /\ MarkPushed(g, n, stamp).emitted = g.emitted
      /\ MarkPushed(g, n, stamp).tags = tags
  BY <1>2 DEF Gate
<1> QED
  BY <1>5, <1>6 DEF r, count

(* ... of which this is what the count is about. *)
LEMMA PushIsCounted ==
  \A g \in Gate : \A n, stamp \in Nat :
    /\ MarkPushed(g, n, stamp).pushed = g.pushed + 1
    /\ MarkPushed(g, n, stamp).emitted = g.emitted
<1> TAKE g \in Gate
<1> TAKE n, stamp \in Nat
<1> QED
  BY GatePushed, SMTT(15), ZenonT(30)

(* ... and this what the tags are about. *)
LEMMA PushIsTagged ==
  \A g \in Gate : \A n, stamp \in Nat :
    MarkPushed(g, n, stamp).tags =
      [g.tags EXCEPT ![n % Tracked] = [sequence |-> n, stamp |-> stamp, valid |-> TRUE]]
<1> TAKE g \in Gate
<1> TAKE n, stamp \in Nat
<1> QED
  BY GatePushed

(* An emission frees a place at the gate and changes no tag but its own.   *)
LEMMA GateEmitted ==
  ASSUME NEW g \in Gate, NEW n \in Nat
  PROVE  /\ MarkEmitted(g, n) \in Gate
         /\ MarkEmitted(g, n).pushed = g.pushed
         /\ MarkEmitted(g, n).emitted = IF g.emitted < g.pushed THEN g.emitted + 1 ELSE g.emitted
         /\ \A i \in 0 .. Tracked - 1 :
              /\ MarkEmitted(g, n).tags[i].stamp = g.tags[i].stamp
              /\ i # n % Tracked => MarkEmitted(g, n).tags[i] = g.tags[i]
<1> DEFINE r == n % Tracked
           tag == g.tags[r]
           kept == [tag EXCEPT !.valid = tag.valid /\ ~Tagged(g, n)]
<1>1. r \in 0 .. Tracked - 1
  BY EntryExists
<1>2. tag \in [sequence : Nat, stamp : Nat, valid : BOOLEAN]
  BY <1>1 DEF Gate
<1>3. kept \in [sequence : Nat, stamp : Nat, valid : BOOLEAN] /\ kept.stamp = tag.stamp
  BY <1>2
<1>4. MarkEmitted(g, n) =
        [g EXCEPT !.emitted = IF g.emitted < g.pushed THEN g.emitted + 1 ELSE g.emitted,
                  !.tags = [g.tags EXCEPT ![r] = kept]]
  BY DEF MarkEmitted, Gate
<1> HIDE DEF r, kept
<1>5. [g.tags EXCEPT ![r] = kept]
        \in [0 .. Tracked - 1 -> [sequence : Nat, stamp : Nat, valid : BOOLEAN]]
  BY <1>1, <1>3 DEF Gate
<1>6. \A i \in 0 .. Tracked - 1 :
        /\ [g.tags EXCEPT ![r] = kept][i].stamp = g.tags[i].stamp
        /\ i # r => [g.tags EXCEPT ![r] = kept][i] = g.tags[i]
  BY <1>1, <1>3 DEF Gate
<1>7. /\ MarkEmitted(g, n).pushed = g.pushed
      /\ MarkEmitted(g, n).emitted = IF g.emitted < g.pushed THEN g.emitted + 1 ELSE g.emitted
      /\ MarkEmitted(g, n).tags = [g.tags EXCEPT ![r] = kept]
  BY <1>4 DEF Gate
<1>8. MarkEmitted(g, n) \in Gate
  <2> DEFINE tags == [g.tags EXCEPT ![r] = kept]
             count == IF g.emitted < g.pushed THEN g.emitted + 1 ELSE g.emitted
  <2>1. count \in Nat
    BY DEF Gate
  <2> HIDE DEF tags, count
  <2>2. tags \in [0 .. Tracked - 1 -> [sequence : Nat, stamp : Nat, valid : BOOLEAN]]
    BY <1>5 DEF tags
  <2>3. MarkEmitted(g, n) = [g EXCEPT !.emitted = count, !.tags = tags]
    BY <1>4 DEF tags, count
  <2> QED
    BY <2>1, <2>2, <2>3 DEF Gate
<1> QED
  BY <1>6, <1>7, <1>8 DEF r

(* What it does to the count, for every gate at once.                      *)
LEMMA EmissionIsCounted ==
  \A g \in Gate : \A n \in Nat :
    /\ MarkEmitted(g, n).pushed = g.pushed
    /\ g.emitted < g.pushed => MarkEmitted(g, n).emitted = g.emitted + 1
<1> TAKE g \in Gate
<1> TAKE n \in Nat
<1> QED
  BY GateEmitted

-----------------------------------------------------------------------------
(* The places that are not the pipeline's or the wire's business: nothing  *)
(* but the cameras and the loop's place and copies changes.                *)
Elsewhere ==
  /\ UNCHANGED << options, gate, masks, pipe, wire, lost >>
  /\ main'.last_left = main.last_left /\ main'.last_right = main.last_right
  /\ main'.encode_sequence = main.encode_sequence
  /\ main'.sent_sequence = main.sent_sequence
  /\ main'.pc \notin Closing => main.pc \notin Closing

(* A frame leaves the pipeline uncounted; the loop only moves on. *)
Losing ==
  /\ \E place \in 1 .. Sink : Lose(place)
  /\ main'.last_left = main.last_left /\ main'.last_right = main.last_right
  /\ main'.encode_sequence = main.encode_sequence
  /\ main'.sent_sequence = main.sent_sequence
  /\ main'.pc \notin Closing => main.pc \notin Closing

(* The steps, as far as the pipeline and the wire are concerned. *)
LEMMA StepKinds ==
  ASSUME Shape, [Next]_vars
  PROVE  \/ Elsewhere
         \/ \E place \in 1 .. 3 : Advance(place)
         \/ Losing
         \/ Drain
         \/ DropSkewed
         \/ Refuse
         \/ Push
         \/ SendRaw
<1>1. CASE UNCHANGED vars
  BY <1>1 DEF vars, Elsewhere
<1>2. CASE Tick
  BY <1>2 DEF Tick, Elsewhere
<1>3. CASE \E e \in Eyes : Camera(e)
  BY <1>3 DEF Camera, Complete, Requeue, Elsewhere
<1>4. ASSUME NEW e \in Eyes, NEW at \in PCs \ Closing, NEW next \in PCs,
             OpenEye(e, at, next) \/ StartEye(e, at, next)
      PROVE  Elsewhere
  BY <1>4 DEF OpenEye, StartEye, GoTo, Shape, Elsewhere
<1>5. CASE StartUp
  <2>1. CASE OpenSocketAndEncoder
    BY <2>1 DEF OpenSocketAndEncoder, GoTo, Shape, Elsewhere, Closing
  <2> QED
    BY <1>4, <1>5, <2>1 DEF StartUp, Eyes, PCs, BeforeRight, Closing
<1>6. CASE Wait \/ Drained \/ CopyLeft \/ CopyRight \/ ExamineAgain
  <2>1. CASE Wait
    BY <2>1 DEF Wait, GoTo, Shape, Elsewhere, Closing
  <2>2. CASE Drained
    BY <2>2 DEF Drained, AfterDraining, GoTo, Shape, Elsewhere, Closing
  <2>3. CASE CopyLeft
    BY <2>3 DEF CopyLeft, Shape, Elsewhere, Closing
  <2>4. CASE CopyRight
    BY <2>4 DEF CopyRight, Shape, Elsewhere, Closing
  <2>5. CASE ExamineAgain
    BY <2>5 DEF ExamineAgain, GoTo, Shape, Elsewhere, Closing
  <2> QED
    BY <1>6, <2>1, <2>2, <2>3, <2>4, <2>5
<1>7. ASSUME NEW e \in Eyes, NEW at, NEW next \in Closing,
             StopRunning(e, at, next) \/ Release(e, at, next)
      PROVE  Elsewhere
  BY <1>7 DEF StopRunning, Release, GoTo, Shape, Elsewhere
<1>8. CASE TearDown
  BY <1>7, <1>8 DEF TearDown, Eyes, Closing
<1>9. CASE PullFails \/ CoderDrops
  <2>1. CASE PullFails
    BY <2>1 DEF PullFails, Lose, AfterDraining, GoTo, Shape, Losing, Closing, Sink
  <2>2. CASE CoderDrops
    BY <2>2 DEF CoderDrops, Lose, Coder, Sink, Losing
  <2> QED
    BY <1>9, <2>1, <2>2
<1> QED
  BY <1>1, <1>2, <1>3, <1>5, <1>6, <1>8, <1>9 DEF Next, Main, Loop

-----------------------------------------------------------------------------
(* Shape: the cameras' and the loop's part.                                *)

(* The loop's record keeps its shape when it only moves. *)
LEMMA MoveKeepsShape ==
  ASSUME Shape, NEW pc \in PCs
  PROVE  [main EXCEPT !.pc = pc] \in [pc : PCs, left : Frames, right : Frames,
               last_left : 0 .. LastStamp, last_right : 0 .. LastStamp,
               encode_sequence : Nat, sent_sequence : Nat]
BY DEF Shape

(* ... and when it has looked at its copies. *)
LEMMA SeenKeepsShape ==
  ASSUME Shape, NEW pc \in PCs
  PROVE  /\ Seen(pc) \in [pc : PCs, left : Frames, right : Frames,
               last_left : 0 .. LastStamp, last_right : 0 .. LastStamp,
               encode_sequence : Nat, sent_sequence : Nat]
         /\ Seen(pc).pc = pc
         /\ Seen(pc).left = main.left /\ Seen(pc).right = main.right
         /\ Seen(pc).last_left = main.left.sequence /\ Seen(pc).last_right = main.right.sequence
         /\ Seen(pc).encode_sequence = main.encode_sequence
         /\ Seen(pc).sent_sequence = main.sent_sequence
BY DEF Shape, Seen, Frames

(* The initial state has the shape of a state.                             *)
LEMMA ShapeInit == Init => Shape
<1> SUFFICES ASSUME Init PROVE Shape
  OBVIOUS
<1>1. 0 \in Nat /\ 1 \in 1 .. LastStamp /\ 0 \in 0 .. LastStamp /\ -1 \in Numbers /\ 0 \in Numbers
      /\ 0 \in 0 .. Requests
  BY SbsAssumption DEF Numbers
<1>2. Blank \in Frames
  BY <1>1 DEF Blank, Frames
<1>3. NoFrame \in PairFrames
  BY <1>1, <1>2 DEF NoFrame, PairFrames, Pair
<1>4. EmptyGate \in Gate
  BY DEF EmptyGate, Gate, NoTag
<1>5. NoMask \in [sequence : Numbers, of : Numbers, valid : BOOLEAN]
  BY <1>1 DEF NoMask
<1>6. Nothing \in [number : Numbers, stamp : 0 .. LastStamp, mask : Numbers, frame : PairFrames]
  BY <1>1, <1>3 DEF Nothing
<1>7. main \in [pc : PCs, left : Frames, right : Frames,
               last_left : 0 .. LastStamp, last_right : 0 .. LastStamp,
               encode_sequence : Nat, sent_sequence : Nat]
  BY <1>1, <1>2 DEF Init, PCs, BeforeRight
<1>8. eye \in [Eyes -> [running : BOOLEAN, latest : Frames]]
  BY <1>2 DEF Init
<1>9. camera \in [Eyes -> [state : {"closed", "acquired", "started"}, queued : 0 .. Requests]]
  BY <1>1 DEF Init
<1>10. /\ options \in [h264 : BOOLEAN, mono : BOOLEAN]
       /\ now \in 1 .. LastStamp
       /\ callback \in [Eyes -> BOOLEAN]
  BY <1>1 DEF Init
<1>11. masks \in [0 .. Tracked - 1 -> [sequence : Numbers, of : Numbers, valid : BOOLEAN]]
  BY <1>5 DEF Init
<1>12. pipe \in [1 .. Sink -> PairFrames]
  BY <1>3 DEF Init, Sink
<1> QED
  BY <1>4, <1>6, <1>7, <1>8, <1>9, <1>10, <1>11, <1>12 DEF Init, Shape

(* What the numbers are at most. *)
LEMMA NumbersFit ==
  ASSUME Shape, NumbersAreBounded
  PROVE  /\ main.sent_sequence \in Numbers /\ main.encode_sequence \in Numbers
         /\ main.encode_sequence <= 2 * LastStamp
         /\ main.sent_sequence <= 2 * LastStamp
<1>1. /\ main.last_left \in 0 .. LastStamp /\ main.last_right \in 0 .. LastStamp
      /\ main.encode_sequence \in Nat /\ main.sent_sequence \in Nat
  BY DEF Shape
<1>2. LastStamp \in Nat
  BY SbsAssumption
<1>3. options.h264 \in BOOLEAN
  BY DEF Shape
<1>4. main.encode_sequence <= 2 * LastStamp
  BY <1>1, <1>2 DEF NumbersAreBounded
<1>5. main.sent_sequence <= 2 * LastStamp
  BY <1>1, <1>2, <1>4 DEF NumbersAreBounded
<1> QED
  BY <1>1, <1>2, <1>4, <1>5 DEF Numbers

(* Every step keeps the shape of the state.                                *)
LEMMA ShapeNext == ASSUME IInv, [Next]_vars PROVE Shape'
<1> DEFINE MainRecord == [pc : PCs, left : Frames, right : Frames,
               last_left : 0 .. LastStamp, last_right : 0 .. LastStamp,
               encode_sequence : Nat, sent_sequence : Nat]
<1> USE DEF IInv
<1>0. CASE UNCHANGED vars
  BY <1>0 DEF vars, Shape
<1>1. CASE Tick
  BY <1>1, SbsAssumption DEF Tick, Shape
<1>2. ASSUME NEW e \in Eyes, Complete(e)
      PROVE  Shape'
  <2>1. camera' \in [Eyes -> [state : {"closed", "acquired", "started"}, queued : 0 .. Requests]]
    <3>1. camera[e].queued - 1 \in 0 .. Requests
      BY <1>2, SbsAssumption DEF Complete, Shape
    <3>2. camera' = [camera EXCEPT ![e] = [camera[e] EXCEPT !.queued = camera[e].queued - 1]]
      BY <1>2 DEF Complete, Shape
    <3>3. [camera[e] EXCEPT !.queued = camera[e].queued - 1]
            \in [state : {"closed", "acquired", "started"}, queued : 0 .. Requests]
      <4> DEFINE n == camera[e].queued - 1
      <4>1. n \in 0 .. Requests
        BY <3>1
      <4> HIDE DEF n
      <4>2. [camera[e] EXCEPT !.queued = n]
              \in [state : {"closed", "acquired", "started"}, queued : 0 .. Requests]
        <5>1. camera[e] \in [state : {"closed", "acquired", "started"}, queued : 0 .. Requests]
          BY DEF Shape
        <5> QED
          BY <4>1, <5>1
      <4> QED
        BY <4>2 DEF n
    <3> QED
      BY <3>2, <3>3 DEF Shape
  <2>2. eye' \in [Eyes -> [running : BOOLEAN, latest : Frames]]
    <3>1. CASE eye' = eye
      BY <3>1 DEF Shape
    <3>2. CASE eye' = [eye EXCEPT ![e].latest = [sequence |-> @.sequence + 1, stamp |-> now]]
      <4> DEFINE new == [sequence |-> eye[e].latest.sequence + 1, stamp |-> now]
      <4>1. /\ eye[e].latest.sequence <= eye[e].latest.stamp /\ eye[e].latest.stamp < now
            /\ eye[e].latest.sequence \in Nat /\ eye[e].latest.stamp \in Nat
            /\ now \in 1 .. LastStamp /\ LastStamp \in Nat
        BY <1>2, SbsAssumption DEF Complete, CamerasHold, Shape, Frames
      <4>2. new \in Frames
        BY <4>1 DEF Frames
      <4>3. eye' = [eye EXCEPT ![e] = [eye[e] EXCEPT !.latest = new]]
        BY <3>2 DEF Shape
      <4> HIDE DEF new
      <4>4. [eye[e] EXCEPT !.latest = new] \in [running : BOOLEAN, latest : Frames]
        BY <4>2, SMTT(15), ZenonT(30) DEF Shape
      <4> QED
        BY <4>3, <4>4 DEF Shape
    <3> QED
      BY <1>2, <3>1, <3>2 DEF Complete
  <2>3. callback' \in [Eyes -> BOOLEAN]
    BY <1>2 DEF Complete, Shape
  <2> QED
    BY <1>2, <2>1, <2>2, <2>3 DEF Complete, Shape
<1>3. ASSUME NEW e \in Eyes, Requeue(e)
      PROVE  Shape'
  <2>1. camera' \in [Eyes -> [state : {"closed", "acquired", "started"}, queued : 0 .. Requests]]
    <3>1. camera[e].queued + 1 \in 0 .. Requests
      BY <1>3, SbsAssumption DEF Requeue, Shape, CamerasHold
    <3>2. CASE camera' = [camera EXCEPT ![e].queued = @ + 1]
      <4>1. camera' = [camera EXCEPT ![e] = [camera[e] EXCEPT !.queued = camera[e].queued + 1]]
        BY <3>2 DEF Shape
      <4>2. [camera[e] EXCEPT !.queued = camera[e].queued + 1]
              \in [state : {"closed", "acquired", "started"}, queued : 0 .. Requests]
        <5> DEFINE n == camera[e].queued + 1
        <5>1. n \in 0 .. Requests
          BY <3>1
        <5> HIDE DEF n
        <5>2. [camera[e] EXCEPT !.queued = n]
                \in [state : {"closed", "acquired", "started"}, queued : 0 .. Requests]
          <6>1. camera[e] \in [state : {"closed", "acquired", "started"}, queued : 0 .. Requests]
            BY DEF Shape
          <6> QED
            BY <5>1, <6>1
        <5> QED
          BY <5>2 DEF n
      <4> QED
        BY <4>1, <4>2 DEF Shape
    <3> QED
      BY <1>3, <3>2 DEF Requeue, Shape
  <2>2. callback' \in [Eyes -> BOOLEAN]
    BY <1>3 DEF Requeue, Shape
  <2> QED
    BY <1>3, <2>1, <2>2 DEF Requeue, Shape
<1>4. ASSUME NEW place \in 1 .. 3, Advance(place)
      PROVE  Shape'
  <2>1. NoFrame \in PairFrames
    BY SbsAssumption DEF NoFrame, PairFrames, Pair, Blank, Frames, Numbers
  <2>2. place \in 1 .. Sink /\ place + 1 \in 1 .. Sink
    BY DEF Sink
  <2>3. pipe' \in [1 .. Sink -> PairFrames]
    BY <1>4, <2>1, <2>2 DEF Advance, Shape
  <2> QED
    BY <1>4, <2>3 DEF Advance, Shape
<1>5. ASSUME NEW e \in Eyes, NEW at, NEW next \in PCs, OpenEye(e, at, next)
      PROVE  Shape'
  <2>1. main' \in MainRecord
    BY <1>5, MoveKeepsShape DEF OpenEye, GoTo, PCs, Closing
  <2>2. camera' \in [Eyes -> [state : {"closed", "acquired", "started"}, queued : 0 .. Requests]]
    <3>1. ASSUME NEW state \in {"closed", "acquired", "started"},
                 camera' = [camera EXCEPT ![e].state = state]
          PROVE  camera' \in [Eyes -> [state : {"closed", "acquired", "started"},
                                       queued : 0 .. Requests]]
      <4>1. camera' = [camera EXCEPT ![e] = [camera[e] EXCEPT !.state = state]]
        BY <3>1 DEF Shape
      <4>2. [camera[e] EXCEPT !.state = state]
              \in [state : {"closed", "acquired", "started"}, queued : 0 .. Requests]
        <5>1. camera[e] \in [state : {"closed", "acquired", "started"}, queued : 0 .. Requests]
          BY DEF Shape
        <5> QED
          BY <5>1
      <4> QED
        BY <4>1, <4>2 DEF Shape
    <3> QED
      BY <1>5, <3>1 DEF OpenEye
  <2> QED
    BY <1>5, <2>1, <2>2 DEF OpenEye, Shape
<1>6. CASE OpenSocketAndEncoder
  <2>1. main' \in MainRecord
    BY <1>6, MoveKeepsShape DEF OpenSocketAndEncoder, GoTo, PCs, Closing, BeforeRight
  <2> QED
    BY <1>6, <2>1 DEF OpenSocketAndEncoder, Shape
<1>7. ASSUME NEW e \in Eyes, NEW at, NEW next \in PCs, StartEye(e, at, next)
      PROVE  Shape'
  <2>1. main' \in MainRecord
    BY <1>7, MoveKeepsShape DEF StartEye, GoTo, PCs, Closing
  <2>2. camera' \in [Eyes -> [state : {"closed", "acquired", "started"}, queued : 0 .. Requests]]
    <3>1. ASSUME NEW n \in 0 .. Requests,
                 camera' = [camera EXCEPT ![e] = [state |-> "started", queued |-> n]]
          PROVE  camera' \in [Eyes -> [state : {"closed", "acquired", "started"},
                                       queued : 0 .. Requests]]
      BY <3>1 DEF Shape
    <3>2. Requests \in 0 .. Requests /\ \A n \in 0 .. Requests - 1 : n \in 0 .. Requests
      BY SbsAssumption
    <3>3. CASE camera' = camera
      BY <3>3 DEF Shape
    <3> QED
      BY <1>7, <3>1, <3>2, <3>3 DEF StartEye
  <2>3. eye' \in [Eyes -> [running : BOOLEAN, latest : Frames]]
    <3>1. CASE eye' = [eye EXCEPT ![e].running = TRUE]
      BY <3>1 DEF Shape
    <3>2. CASE eye' = eye
      BY <3>2 DEF Shape
    <3> QED
      BY <1>7, <3>1, <3>2 DEF StartEye
  <2> QED
    BY <1>7, <2>1, <2>2, <2>3 DEF StartEye, Shape
<1>8. CASE StartUp
  BY <1>5, <1>6, <1>7, <1>8 DEF StartUp, Eyes, PCs, BeforeRight
<1>9. CASE Wait \/ Drained \/ ExamineAgain
  <2>1. main' \in MainRecord
    BY <1>9, MoveKeepsShape DEF Wait, Drained, AfterDraining, ExamineAgain, GoTo, PCs
  <2> QED
    BY <1>9, <2>1 DEF Wait, Drained, ExamineAgain, Shape
<1>10. CASE CopyLeft
  <2>1. "wait" \in PCs /\ "copy_right" \in PCs /\ eye["left"].latest \in Frames
    BY DEF PCs, Shape, Eyes
  <2>2. main' \in MainRecord
    BY <1>10, <2>1 DEF CopyLeft, Shape
  <2> QED
    BY <1>10, <2>2 DEF CopyLeft, Shape
<1>11. CASE CopyRight
  <2>1. /\ "wait" \in PCs /\ "examine" \in PCs /\ eye["right"].latest \in Frames
        /\ main.left \in Frames
    BY DEF PCs, Shape, Eyes
  <2>2. main' \in MainRecord
    BY <1>11, <2>1 DEF CopyRight, Shape
  <2> QED
    BY <1>11, <2>2 DEF CopyRight, Shape
<1>12. CASE DropSkewed
  <2>1. main' \in MainRecord
    BY <1>12, SeenKeepsShape DEF DropSkewed, PCs
  <2> QED
    BY <1>12, <2>1 DEF DropSkewed, Shape
<1>13. CASE Refuse
  <2>1. main' \in MainRecord
    BY <1>13, SeenKeepsShape DEF Refuse, PCs
  <2>2. gate' \in Gate
    BY <1>13 DEF Refuse, Shape
  <2> QED
    BY <1>13, <2>1, <2>2 DEF Refuse, Shape
<1>14. CASE Drain
  <2>1. main.sent_sequence \in Nat /\ main.sent_sequence \in Numbers
    BY NumbersFit DEF Shape
  <2>2. gate' \in Gate
    BY <1>14, <2>1, GateEmitted DEF Drain, Shape
  <2>3. pipe' \in [1 .. Sink -> PairFrames]
    <3>1. NoFrame \in PairFrames
      BY SbsAssumption DEF NoFrame, PairFrames, Pair, Blank, Frames, Numbers
    <3> QED
      BY <1>14, <3>1 DEF Drain, Shape
  <2>4. CASE GoTo("stop_right") /\ UNCHANGED << masks, wire >>
    <3>1. main' \in MainRecord
      BY <2>4, MoveKeepsShape DEF GoTo, PCs, Closing
    <3> QED
      BY <1>14, <2>2, <2>3, <2>4, <3>1 DEF Drain, Shape
  <2>5. CASE /\ wire' = [number |-> main.sent_sequence,
                         stamp |-> EmittedStamp(gate, main.sent_sequence, now),
                         mask |-> MaskOf(main.sent_sequence), frame |-> pipe[Sink]]
             /\ masks' = [masks EXCEPT ![main.sent_sequence % Tracked].valid =
                            @ /\ MaskOf(main.sent_sequence) = -1]
             /\ main' = [main EXCEPT !.sent_sequence = @ + 1]
    <3> DEFINE r == main.sent_sequence % Tracked
    <3>1. r \in 0 .. Tracked - 1
      BY <2>1, EntryExists
    <3>2. main' \in MainRecord
      <4> DEFINE next == main.sent_sequence + 1
      <4>1. next \in Nat /\ main' = [main EXCEPT !.sent_sequence = next]
        BY <2>1, <2>5 DEF Shape
      <4> HIDE DEF next
      <4> QED
        BY <4>1 DEF Shape
    <3>3. masks' \in [0 .. Tracked - 1 -> [sequence : Numbers, of : Numbers, valid : BOOLEAN]]
      <4> DEFINE kept == [masks[r] EXCEPT !.valid = masks[r].valid /\ MaskOf(main.sent_sequence) = -1]
      <4> HIDE DEF r
      <4>1. kept \in [sequence : Numbers, of : Numbers, valid : BOOLEAN]
        <5>1. masks[r] \in [sequence : Numbers, of : Numbers, valid : BOOLEAN]
          BY <3>1 DEF Shape, r
        <5>2. ASSUME NEW m \in [sequence : Numbers, of : Numbers, valid : BOOLEAN],
                     NEW b \in BOOLEAN
              PROVE  [m EXCEPT !.valid = b] \in [sequence : Numbers, of : Numbers, valid : BOOLEAN]
          OBVIOUS
        <5>3. (masks[r].valid /\ MaskOf(main.sent_sequence) = -1) \in BOOLEAN
          BY Zenon
        <5> QED
          BY <5>1, <5>2, <5>3, Zenon
      <4>2. masks' = [masks EXCEPT ![r] = kept]
        BY <2>5, <3>1 DEF Shape, r
      <4> QED
        BY <4>1, <4>2 DEF Shape
    <3>4. EmittedStamp(gate, main.sent_sequence, now) \in 0 .. LastStamp
      <4>1. gate.tags[r].stamp \in 0 .. LastStamp
        <5>1. gate.tags[r] \in [sequence : Nat, stamp : Nat, valid : BOOLEAN]
          BY <3>1 DEF Shape, Gate
        <5>2. gate.tags[r].stamp <= LastStamp
          BY <3>1 DEF TagsAreKept
        <5> QED
          BY <5>1, <5>2, SbsAssumption
      <4>2. now \in 0 .. LastStamp
        BY SbsAssumption DEF Shape
      <4> QED
        BY <4>1, <4>2 DEF EmittedStamp
    <3>5. MaskOf(main.sent_sequence) \in Numbers
      <4>1. masks[r].of \in Numbers
        BY <3>1 DEF Shape
      <4>2. -1 \in Numbers
        BY SbsAssumption DEF Numbers
      <4> QED
        BY <4>1, <4>2 DEF MaskOf
    <3>6. pipe[Sink] \in PairFrames
      BY DEF Shape, Sink
    <3>7. wire' \in [number : Numbers, stamp : 0 .. LastStamp, mask : Numbers, frame : PairFrames]
      BY <2>5, <2>1, <3>4, <3>5, <3>6
    <3> QED
      BY <1>14, <2>2, <2>3, <3>2, <3>3, <3>7 DEF Drain, Shape
  <2> QED
    BY <1>14, <2>4, <2>5 DEF Drain
<1>15. CASE Push
  <2> DEFINE number == main.encode_sequence
             mask == [sequence |-> number, of |-> number, valid |-> TRUE]
             frame == [number |-> number, pair |-> Pair(main.left, main.right)]
  <2>1. number \in Nat /\ number \in Numbers
    BY NumbersFit DEF Shape
  <2>2. number % Tracked \in 0 .. Tracked - 1
    BY <2>1, EntryExists
  <2>3. mask \in [sequence : Numbers, of : Numbers, valid : BOOLEAN]
    BY <2>1
  <2>4. masks' = [masks EXCEPT ![number % Tracked] = mask]
    BY <1>15 DEF Push
  <2>5. masks' \in [0 .. Tracked - 1 -> [sequence : Numbers, of : Numbers, valid : BOOLEAN]]
    <3> HIDE DEF mask, number
    <3> QED
      BY <2>2, <2>3, <2>4 DEF Shape
  <2>6. CASE GoTo("stop_right") /\ UNCHANGED << pipe, gate >>
    <3>1. main' \in MainRecord
      BY <2>6, MoveKeepsShape DEF GoTo, PCs, Closing
    <3> QED
      BY <1>15, <2>5, <2>6, <3>1 DEF Push, Shape
  <2>7. CASE /\ pipe' = [pipe EXCEPT ![1] = frame]
             /\ PushUnder(number)
             /\ main' = [Seen("drain_pushed") EXCEPT !.encode_sequence = @ + 1]
    <3>1. main' \in MainRecord
      <4>1. Seen("drain_pushed") \in MainRecord
        BY SeenKeepsShape DEF PCs
      <4>2. main' = [Seen("drain_pushed") EXCEPT !.encode_sequence = number + 1]
        BY <2>7, <4>1 DEF Seen, Shape
      <4>3. number + 1 \in Nat
        BY <2>1
      <4> HIDE DEF number
      <4> QED
        BY <4>1, <4>2, <4>3
    <3>2. main.left \in Frames /\ main.right \in Frames /\ main.left.stamp \in Nat
      BY DEF Shape, Frames
    <3>3. frame \in PairFrames
      BY <2>1, <3>2 DEF PairFrames, Pair
    <3>4. pipe' \in [1 .. Sink -> PairFrames]
      BY <2>7, <3>3 DEF Shape, Sink
    <3>5. gate' \in Gate
      BY <2>7, <2>1, <3>2, GatePushed DEF PushUnder, Shape
    <3> QED
      BY <1>15, <2>5, <3>1, <3>4, <3>5 DEF Push, Shape
  <2> QED
    BY <1>15, <2>6, <2>7 DEF Push
<1>16. CASE SendRaw
  <2> DEFINE number == main.sent_sequence
             frame == [number |-> number, pair |-> Pair(main.left, main.right)]
  <2>1. number \in Nat /\ number \in Numbers
    BY NumbersFit DEF Shape
  <2>2. main.left \in Frames /\ main.right \in Frames /\ main.left.stamp \in 0 .. LastStamp
    BY DEF Shape, Frames
  <2>3. CASE GoTo("stop_right") /\ UNCHANGED wire
    <3>1. main' \in MainRecord
      BY <2>3, MoveKeepsShape DEF GoTo, PCs, Closing
    <3> QED
      BY <1>16, <2>3, <3>1 DEF SendRaw, Shape
  <2>4. CASE /\ wire' = [number |-> number, stamp |-> main.left.stamp, mask |-> number,
                         frame |-> frame]
             /\ main' = [Seen("wait") EXCEPT !.sent_sequence = @ + 1]
    <3>1. main' \in MainRecord
      <4>1. Seen("wait") \in MainRecord
        BY SeenKeepsShape DEF PCs
      <4>2. main' = [Seen("wait") EXCEPT !.sent_sequence = number + 1]
        BY <2>4, <4>1 DEF Seen, Shape
      <4>3. number + 1 \in Nat
        BY <2>1
      <4> HIDE DEF number
      <4> QED
        BY <4>1, <4>2, <4>3
    <3>2. frame \in PairFrames
      BY <2>1, <2>2 DEF PairFrames, Pair
    <3>3. wire' \in [number : Numbers, stamp : 0 .. LastStamp, mask : Numbers, frame : PairFrames]
      <4> HIDE DEF number, frame
      <4> QED
        BY <2>1, <2>2, <2>4, <3>2
    <3> QED
      BY <1>16, <3>1, <3>3 DEF SendRaw, Shape
  <2> QED
    BY <1>16, <2>3, <2>4 DEF SendRaw
<1>20. CASE PullFails \/ CoderDrops
  <2>1. /\ \E place \in 1 .. Sink : pipe' = [pipe EXCEPT ![place] = NoFrame]
        /\ UNCHANGED << options, now, camera, eye, callback, gate, masks, wire >> /\ lost' = TRUE
    BY <1>20 DEF PullFails, CoderDrops, Lose, Sink, Coder
  <2>2. pipe' \in [1 .. Sink -> PairFrames]
    <3>1. NoFrame \in PairFrames
      BY SbsAssumption DEF NoFrame, PairFrames, Pair, Blank, Frames, Numbers
    <3> QED
      BY <2>1, <3>1 DEF Shape
  <2>3. main' \in MainRecord
    <3>1. CASE PullFails
      BY <3>1, MoveKeepsShape DEF PullFails, AfterDraining, GoTo, PCs
    <3>2. CASE CoderDrops
      BY <3>2 DEF CoderDrops, Shape
    <3> QED
      BY <1>20, <3>1, <3>2
  <2> QED
    BY <2>1, <2>2, <2>3 DEF Shape
<1>17. ASSUME NEW e \in Eyes, NEW at, NEW next \in PCs, StopRunning(e, at, next)
       PROVE  Shape'
  <2>1. main' \in MainRecord
    BY <1>17, MoveKeepsShape DEF StopRunning, GoTo
  <2>2. eye' \in [Eyes -> [running : BOOLEAN, latest : Frames]]
    BY <1>17 DEF StopRunning, Shape
  <2> QED
    BY <1>17, <2>1, <2>2 DEF StopRunning, Shape
<1>18. ASSUME NEW e \in Eyes, NEW at, NEW next \in PCs, Release(e, at, next)
       PROVE  Shape'
  <2>1. main' \in MainRecord
    BY <1>18, MoveKeepsShape DEF Release, GoTo
  <2>2. camera' \in [Eyes -> [state : {"closed", "acquired", "started"}, queued : 0 .. Requests]]
    BY <1>18, SbsAssumption DEF Release, Shape
  <2> QED
    BY <1>18, <2>1, <2>2 DEF Release, Shape
<1>19. CASE TearDown
  BY <1>17, <1>18, <1>19 DEF TearDown, Eyes, PCs, Closing
<1> QED
  BY <1>0, <1>1, <1>2, <1>3, <1>4, <1>8, <1>9, <1>10, <1>11, <1>12, <1>13, <1>14, <1>15,
     <1>16, <1>19, <1>20 DEF Next, Camera, Main, Loop

-----------------------------------------------------------------------------
(* The cameras and the copies.                                             *)

(* No camera has delivered anything at first.                              *)
LEMMA CamerasInit == Init => CamerasHold
<1> SUFFICES ASSUME Init PROVE CamerasHold
  OBVIOUS
<1> QED
  BY SbsAssumption
     DEF Init, CamerasHold, Blank, Real, BeforeLeft, BeforeRight, Eyes

(* Requests stay queued, with the callback or lost, and frames get newer.  *)
LEMMA CamerasNext == ASSUME IInv, [Next]_vars PROVE CamerasHold'
<1> USE DEF IInv
<1>0. CASE UNCHANGED vars
  BY <1>0 DEF vars, CamerasHold
<1>1. CASE Tick
  BY <1>1 DEF Tick, CamerasHold, Shape, Frames
<1>2. ASSUME NEW e \in Eyes, Complete(e)
      PROVE  CamerasHold'
  <2>1. /\ camera[e].state = "started" /\ camera[e].queued \in 1 .. Requests
        /\ main' = main /\ now' = now
        /\ camera' = [camera EXCEPT ![e] = [camera[e] EXCEPT !.queued = camera[e].queued - 1]]
    BY <1>2 DEF Complete, Shape
  <2>2. \A x \in Eyes : camera'[x].state = camera[x].state
    BY <2>1 DEF Shape
  <2>3. \A x \in Eyes : callback'[x] => camera'[x].state = "started" /\ camera'[x].queued < Requests
    <3> SUFFICES ASSUME NEW x \in Eyes, callback'[x]
                 PROVE  camera'[x].state = "started" /\ camera'[x].queued < Requests
      OBVIOUS
    <3>1. CASE x = e
      BY <2>1, <3>1, SbsAssumption DEF Shape
    <3>2. CASE x # e
      <4>1. callback[x]
        BY <1>2, <3>2 DEF Complete, Shape
      <4> QED
        BY <2>1, <3>2, <4>1 DEF CamerasHold, Shape
    <3> QED
      BY <3>1, <3>2
  <2>4. \A x \in Eyes : /\ eye'[x].latest # Blank => Real(eye'[x].latest)
                        /\ eye'[x].latest.sequence <= eye'[x].latest.stamp
                        /\ eye'[x].latest.stamp <= now
    <3> DEFINE new == [sequence |-> eye[e].latest.sequence + 1, stamp |-> now]
    <3>1. /\ eye[e].latest.sequence <= eye[e].latest.stamp /\ eye[e].latest.stamp < now
          /\ eye[e].latest.sequence \in Nat /\ eye[e].latest.stamp \in Nat
          /\ now \in Nat
      BY <1>2, SbsAssumption DEF Complete, CamerasHold, Shape, Frames
    <3>2. new.sequence > 0 /\ new.stamp > 0 /\ new.sequence <= new.stamp /\ new.stamp <= now
      BY <3>1
    <3>3. eye' = eye \/ eye' = [eye EXCEPT ![e] = [eye[e] EXCEPT !.latest = new]]
      BY <1>2 DEF Complete, Shape
    <3> HIDE DEF new
    <3>4. \A x \in Eyes : eye'[x].latest = eye[x].latest \/ eye'[x].latest = new
      <4>1. ASSUME NEW x \in Eyes, eye' = [eye EXCEPT ![e] = [eye[e] EXCEPT !.latest = new]]
            PROVE  eye'[x].latest = eye[x].latest \/ eye'[x].latest = new
        <5>1. eye \in [Eyes -> [running : BOOLEAN, latest : Frames]]
          BY DEF Shape
        <5>2. eye'[e] = [eye[e] EXCEPT !.latest = new]
          BY <4>1, <5>1
        <5>3. eye[e] \in [running : BOOLEAN, latest : Frames]
          BY <5>1
        <5>4. eye'[e].latest = new
          BY <5>2, <5>3
        <5>5. x # e => eye'[x] = eye[x]
          BY <4>1, <5>1
        <5> QED
          BY <5>4, <5>5
      <4> QED
        BY <3>3, <4>1
    <3> QED
      BY <3>2, <3>4 DEF CamerasHold, Real
  <2> QED
    BY <2>1, <2>2, <2>3, <2>4 DEF CamerasHold, Eyes
<1>3. ASSUME NEW e \in Eyes, Requeue(e)
      PROVE  CamerasHold'
  <2>1. /\ callback[e] /\ callback' = [callback EXCEPT ![e] = FALSE]
        /\ main' = main /\ now' = now /\ eye' = eye
    BY <1>3 DEF Requeue
  <2>2. CASE camera' = camera
    BY <2>1, <2>2 DEF CamerasHold, Shape, Eyes
  <2>3. CASE camera' = [camera EXCEPT ![e].queued = @ + 1]
    <3>1. camera' = [camera EXCEPT ![e] = [camera[e] EXCEPT !.queued = camera[e].queued + 1]]
      BY <2>3 DEF Shape
    <3>2. \A x \in Eyes : /\ camera'[x].state = camera[x].state
                          /\ x # e => camera'[x] = camera[x]
      BY <3>1 DEF Shape
    <3>3. \A x \in Eyes : callback'[x] => x # e /\ callback[x]
      BY <2>1 DEF Shape
    <3> QED
      BY <2>1, <3>2, <3>3 DEF CamerasHold, Eyes
  <2> QED
    BY <1>3, <2>2, <2>3 DEF Requeue
<1>4. CASE StartUp
  <2>1. ASSUME NEW e \in Eyes, NEW at \in BeforeRight,
               NEW next \in (PCs \ Closing),
               OpenEye(e, at, next),
               e = "left" => at \in BeforeLeft, at \in BeforeLeft, next \in BeforeLeft
        PROVE  CamerasHold'
    <3>1. main.pc \in BeforeLeft /\ main.pc \in BeforeRight
      BY <2>1 DEF OpenEye
    <3>2. \A x \in Eyes : ~callback[x]
      BY <3>1 DEF CamerasHold, Eyes
    <3>3. \A x \in Eyes : camera'[x].state # "started"
      BY <2>1, <3>1 DEF OpenEye, CamerasHold, Shape, Eyes
    <3>4. main'.pc = "stop_right" \/ main'.pc \in BeforeLeft
      BY <2>1 DEF OpenEye, GoTo, Shape
    <3>5. callback' = callback /\ eye' = eye /\ now' = now
      BY <2>1 DEF OpenEye
    <3> QED
      BY <3>2, <3>3, <3>4, <3>5 DEF CamerasHold, BeforeLeft, BeforeRight, Eyes
  <2>2. CASE OpenSocketAndEncoder
    <3>1. main'.pc = "start_left" \/ main'.pc = "stop_right"
      BY <2>2 DEF OpenSocketAndEncoder, GoTo, Shape
    <3> QED
      BY <2>2, <3>1 DEF OpenSocketAndEncoder, CamerasHold, BeforeLeft, BeforeRight
  <2>3. ASSUME NEW e \in Eyes, NEW at \in PCs, NEW next \in PCs, StartEye(e, at, next),
               \/ e = "left" /\ at = "start_left" /\ next \in {"wait", "start_right"}
               \/ e = "right" /\ at = "start_right" /\ next = "wait"
        PROVE  CamerasHold'
    <3>1. main.pc = at
      BY <2>3 DEF StartEye
    <3>2. ~callback[e]
      BY <2>3, <3>1 DEF CamerasHold, BeforeLeft, BeforeRight
    <3>3. main'.pc = next \/ main'.pc = "stop_right"
      BY <2>3 DEF StartEye, GoTo, Shape
    <3>4. /\ callback' = callback /\ now' = now
          /\ \A x \in Eyes : eye'[x].latest = eye[x].latest
          /\ \A x \in Eyes : x # e => camera'[x] = camera[x]
      <4>1. callback' = callback /\ now' = now
        BY <2>3 DEF StartEye
      <4>2. CASE camera' = camera /\ eye' = eye
        BY <4>1, <4>2
      <4>3. ASSUME NEW n \in 0 .. Requests,
                   camera' = [camera EXCEPT ![e] = [state |-> "started", queued |-> n]],
                   eye' = [eye EXCEPT ![e].running = TRUE]
            PROVE  <3>4!2 /\ <3>4!3
        BY <4>3 DEF Shape
      <4>4. Requests \in 0 .. Requests /\ \A n \in 0 .. Requests - 1 : n \in 0 .. Requests
        BY SbsAssumption
      <4> QED
        BY <2>3, <4>1, <4>2, <4>3, <4>4 DEF StartEye
    <3> QED
      BY <2>3, <3>1, <3>2, <3>3, <3>4 DEF CamerasHold, BeforeLeft, BeforeRight, Eyes
  <2> QED
    BY <1>4, <2>1, <2>2, <2>3 DEF StartUp, Eyes, PCs, BeforeLeft, BeforeRight, Closing
<1>5. ASSUME main' # main => main'.pc \in PCs \ (BeforeRight \cup (Closing \ {"stop_right"})),
             UNCHANGED << camera, eye, callback, now >>
      PROVE  CamerasHold'
  BY <1>5 DEF CamerasHold, BeforeLeft, BeforeRight, Closing
<1>6. CASE Loop
  <2> DEFINE ok == PCs \ (BeforeRight \cup (Closing \ {"stop_right"}))
  <2>1. {"wait", "drain", "drain_pushed", "copy_left", "copy_right", "examine", "stop_right"} \subseteq ok
    BY DEF PCs, BeforeRight, Closing
  <2> HIDE DEF ok
  <2>2. CASE Wait \/ Drained \/ ExamineAgain
    BY <2>1, <2>2, <1>5 DEF Wait, Drained, AfterDraining, ExamineAgain, GoTo, Shape, ok
  <2>7. CASE PullFails
    <3>1. main'.pc \in {"wait", "copy_left"}
      BY <2>7 DEF PullFails, AfterDraining, GoTo, Shape
    <3> QED
      BY <2>1, <2>7, <3>1, <1>5 DEF PullFails, Lose, ok
  <2>3. CASE CopyLeft \/ CopyRight
    <3>1. main'.pc \in ok
      BY <2>1, <2>3 DEF CopyLeft, CopyRight, Shape
    <3> QED
      BY <2>3, <3>1, <1>5 DEF CopyLeft, CopyRight, ok
  <2>4. CASE Drain
    <3>1. main'.pc = "stop_right" \/ main'.pc = main.pc
      BY <2>4 DEF Drain, GoTo, Shape
    <3>2. main'.pc \in ok
      BY <2>1, <2>4, <3>1 DEF Drain
    <3> QED
      BY <2>4, <3>2, <1>5 DEF Drain, ok
  <2>5. CASE DropSkewed \/ Refuse
    <3>1. main'.pc = "wait"
      BY <2>5, SeenKeepsShape DEF DropSkewed, Refuse, PCs
    <3> QED
      BY <2>1, <2>5, <3>1, <1>5 DEF DropSkewed, Refuse, ok
  <2>6. CASE Push \/ SendRaw
    <3>1. main'.pc \in {"wait", "drain_pushed", "stop_right"}
      BY <2>6, SeenKeepsShape DEF Push, SendRaw, PCs, GoTo, Shape
    <3> QED
      BY <2>1, <2>6, <3>1, <1>5 DEF Push, SendRaw, ok
  <2> QED
    BY <1>6, <2>2, <2>3, <2>4, <2>5, <2>6, <2>7 DEF Loop
<1>7. CASE TearDown
  <2>1. CASE StopRunning("right", "stop_right", "release_right")
    <3>1. main'.pc = "release_right"
      BY <2>1 DEF StopRunning, GoTo, Shape
    <3> QED
      BY <2>1, <3>1 DEF StopRunning, CamerasHold, BeforeLeft, BeforeRight, Shape, Eyes
  <2>2. CASE Release("right", "release_right", "stop_left")
    <3>1. main'.pc = "stop_left"
      BY <2>2 DEF Release, GoTo, Shape
    <3> QED
      BY <2>2, <3>1 DEF Release, CamerasHold, BeforeLeft, BeforeRight, Shape, Eyes
  <2>3. CASE StopRunning("left", "stop_left", "release_left")
    <3>1. main.pc = "stop_left" /\ main'.pc = "release_left"
      BY <2>3 DEF StopRunning, GoTo, Shape
    <3> QED
      BY <2>3, <3>1 DEF StopRunning, CamerasHold, BeforeLeft, BeforeRight, Shape, Eyes
  <2>4. CASE Release("left", "release_left", "ended")
    <3>1. main.pc = "release_left" /\ main'.pc = "ended"
      BY <2>4 DEF Release, GoTo, Shape
    <3> QED
      BY <2>4, <3>1 DEF Release, CamerasHold, BeforeLeft, BeforeRight, Shape, Eyes
  <2> QED
    BY <1>7, <2>1, <2>2, <2>3, <2>4 DEF TearDown
<1>8. CASE \E place \in 1 .. 3 : Advance(place)
  BY <1>8 DEF Advance, CamerasHold
<1>9. CASE CoderDrops
  BY <1>9 DEF CoderDrops, Lose, CamerasHold
<1> QED
  BY <1>0, <1>1, <1>2, <1>3, <1>4, <1>6, <1>7, <1>8, <1>9 DEF Next, Camera, Main

(* Nothing is copied at first.                                             *)
LEMMA CopiesInit == Init => CopiesFollow
BY DEF Init, CopiesFollow, Blank, Eyes, RightEye

(* The loop's copies stay between what it looked at and what the cameras   *)
(* have.                                                                   *)
LEMMA CopiesNext == ASSUME IInv, [Next]_vars PROVE CopiesFollow'
<1> USE DEF IInv
<1>0. CASE UNCHANGED vars
  BY <1>0 DEF vars, CopiesFollow, RightEye
<1>a. /\ main.left.sequence \in Nat /\ main.right.sequence \in Nat
      /\ main.last_left \in Nat /\ main.last_right \in Nat
      /\ \A x \in Eyes : eye[x].latest.sequence \in Nat
      /\ RightEye \in Eyes /\ "left" \in Eyes /\ "right" \in Eyes
  BY DEF Shape, Frames, Eyes, RightEye
<1>1. ASSUME main' = main, options' = options, eye' = eye
      PROVE  CopiesFollow'
  BY <1>1 DEF CopiesFollow, RightEye
<1>2. ASSUME NEW e \in Eyes, Complete(e)
      PROVE  CopiesFollow'
  <2>1. main' = main /\ options' = options
    BY <1>2 DEF Complete
  <2>2. \A x \in Eyes : eye'[x].latest.sequence >= eye[x].latest.sequence
    <3> SUFFICES ASSUME NEW x \in Eyes PROVE eye'[x].latest.sequence >= eye[x].latest.sequence
      OBVIOUS
    <3> DEFINE new == [sequence |-> eye[e].latest.sequence + 1, stamp |-> now]
    <3>1. CASE eye' = eye
      BY <3>1, <1>a
    <3>2. CASE eye' = [eye EXCEPT ![e].latest = new]
      <4>1. eye \in [Eyes -> [running : BOOLEAN, latest : Frames]]
        BY DEF Shape
      <4>2. x = e => eye'[x].latest = new
        BY <3>2, <4>1
      <4>3. x # e => eye'[x] = eye[x]
        BY <3>2, <4>1
      <4> QED
        BY <4>2, <4>3, <1>a
    <3> QED
      BY <1>2, <3>1, <3>2 DEF Complete
  <2>3. \A x \in Eyes : eye'[x].latest.sequence \in Nat
    <3>1. eye' \in [Eyes -> [running : BOOLEAN, latest : Frames]]
      BY ShapeNext DEF Shape, Frames
    <3> QED
      BY <3>1 DEF Frames
  <2>4. eye'[RightEye].latest.sequence >= eye[RightEye].latest.sequence /\ RightEye' = RightEye
    BY <1>a, <2>1, <2>2 DEF RightEye
  <2>5. /\ main.left.sequence <= eye'["left"].latest.sequence
        /\ main.right.sequence <= eye'[RightEye].latest.sequence
    BY <1>a, <2>2, <2>3, <2>4 DEF CopiesFollow
  <2> QED
    BY <2>1, <2>4, <2>5 DEF CopiesFollow
<1>3. ASSUME \A x \in Eyes : eye'[x].latest = eye[x].latest, options' = options,
             /\ main'.last_left = main.last_left /\ main'.last_right = main.last_right
             /\ main'.left = main.left /\ main'.right = main.right,
             main'.pc \notin {"copy_right", "examine"}
      PROVE  CopiesFollow'
  BY <1>3, <1>a DEF CopiesFollow, RightEye
<1>4. ASSUME NEW e \in Eyes, NEW at, NEW next \in PCs \ {"copy_right", "examine"},
             \/ OpenEye(e, at, next) \/ StartEye(e, at, next)
             \/ StopRunning(e, at, next) \/ Release(e, at, next)
      PROVE  CopiesFollow'
  <2>1. \A x \in Eyes : eye'[x].latest = eye[x].latest
    <3>1. ASSUME NEW b \in BOOLEAN, eye' = [eye EXCEPT ![e].running = b]
          PROVE  \A x \in Eyes : eye'[x].latest = eye[x].latest
      BY <3>1 DEF Shape
    <3> QED
      BY <1>4, <3>1 DEF OpenEye, StartEye, StopRunning, Release
  <2>2. main' = [main EXCEPT !.pc = next] \/ main' = [main EXCEPT !.pc = "stop_right"]
    BY <1>4 DEF OpenEye, StartEye, StopRunning, Release, GoTo
  <2>3. options' = options
    BY <1>4 DEF OpenEye, StartEye, StopRunning, Release
  <2> QED
    BY <1>3, <2>1, <2>2, <2>3 DEF Shape
<1>5. CASE StartUp
  <2>1. CASE OpenSocketAndEncoder
    BY <1>3, <2>1 DEF OpenSocketAndEncoder, GoTo, Shape
  <2> QED
    BY <1>4, <1>5, <2>1 DEF StartUp, Eyes, PCs, BeforeRight
<1>6. CASE TearDown
  BY <1>4, <1>6 DEF TearDown, Eyes, PCs, Closing
<1>7. CASE Wait
  <2>1. main'.pc \in {"drain", "copy_left"}
    BY <1>7 DEF Wait, GoTo, Shape
  <2> QED
    BY <1>3, <1>7, <2>1 DEF Wait, GoTo, Shape
<1>8. CASE PullFails \/ Drained \/ ExamineAgain
  <2>1. main'.pc \in {"wait", "copy_left"}
    BY <1>8 DEF PullFails, Drained, AfterDraining, ExamineAgain, GoTo, Shape
  <2> QED
    BY <1>3, <1>8, <2>1 DEF PullFails, Lose, Drained, ExamineAgain, GoTo, Shape
<1>9. CASE CopyLeft
  <2>1. CASE eye["left"].latest = Blank
    BY <1>3, <1>9, <2>1 DEF CopyLeft, Shape
  <2>2. CASE eye["left"].latest # Blank
    <3>1. /\ main'.left = eye["left"].latest /\ main'.right = main.right
          /\ main'.last_left = main.last_left /\ main'.last_right = main.last_right
          /\ main'.pc = "copy_right" /\ eye' = eye /\ options' = options
      BY <1>9, <2>2 DEF CopyLeft, Shape
    <3>2. Real(eye["left"].latest)
      BY <1>a, <2>2 DEF CamerasHold
    <3> QED
      BY <3>1, <3>2, <1>a DEF CopiesFollow, RightEye
  <2> QED
    BY <2>1, <2>2
<1>10. CASE CopyRight
  <2> DEFINE right == IF options.mono THEN main.left ELSE eye["right"].latest
  <2>1. CASE right = Blank
    BY <1>3, <1>10, <2>1 DEF CopyRight, Shape
  <2>2. CASE right # Blank
    <3>1. /\ main'.left = main.left /\ main'.right = right
          /\ main'.last_left = main.last_left /\ main'.last_right = main.last_right
          /\ main'.pc = "examine" /\ eye' = eye /\ options' = options /\ main.pc = "copy_right"
      BY <1>10, <2>2 DEF CopyRight, Shape
    <3>2. Real(main.left)
      BY <3>1 DEF CopiesFollow
    <3>3. ~options.mono => Real(right)
      BY <1>a, <2>2 DEF CamerasHold
    <3>4. right.sequence <= eye[RightEye].latest.sequence /\ main.last_right <= eye[RightEye].latest.sequence
      BY <1>a DEF CopiesFollow, RightEye
    <3>5. main.last_right <= right.sequence
      <4>1. CASE options.mono
        <5>1. main.last_right <= main.left.sequence
          BY <1>a, <4>1 DEF CopiesFollow
        <5> QED
          BY <4>1, <5>1
      <4>2. CASE ~options.mono
        BY <4>2, <3>4 DEF RightEye
      <4> QED
        BY <4>1, <4>2
    <3> QED
      BY <3>1, <3>2, <3>3, <3>4, <3>5, <1>a DEF CopiesFollow, RightEye
  <2> QED
    BY <2>1, <2>2
<1>11. ASSUME /\ main'.left = main.left /\ main'.right = main.right
              /\ main'.last_left = main.left.sequence
              /\ main'.last_right = main.right.sequence
              /\ eye' = eye /\ options' = options
              /\ main'.pc \notin {"copy_right", "examine"}
       PROVE  CopiesFollow'
  BY <1>11, <1>a DEF CopiesFollow, RightEye
<1>12. CASE DropSkewed \/ Refuse
  BY <1>11, <1>12, SeenKeepsShape DEF DropSkewed, Refuse, PCs
<1>13. CASE Drain
  <2>1. main'.pc \in {"drain", "drain_pushed", "stop_right"}
    BY <1>13 DEF Drain, GoTo, Shape
  <2>2. /\ main'.last_left = main.last_left /\ main'.last_right = main.last_right
        /\ main'.left = main.left /\ main'.right = main.right
    BY <1>13 DEF Drain, GoTo, Shape
  <2> QED
    BY <1>3, <1>13, <2>1, <2>2 DEF Drain
<1>14. CASE Push \/ SendRaw
  <2>1. CASE GoTo("stop_right")
    BY <1>3, <1>14, <2>1 DEF Push, SendRaw, GoTo, Shape
  <2>2. ASSUME NEW pc \in {"wait", "drain_pushed"},
               \/ main' = [Seen(pc) EXCEPT !.encode_sequence = @ + 1]
               \/ main' = [Seen(pc) EXCEPT !.sent_sequence = @ + 1]
        PROVE  CopiesFollow'
    <3>1. pc \in PCs /\ pc \notin {"copy_right", "examine"}
      BY DEF PCs
    <3> QED
      BY <1>11, <1>14, <2>2, <3>1, SeenKeepsShape DEF Push, SendRaw
  <2> QED
    BY <1>14, <2>1, <2>2 DEF Push, SendRaw
<1>15. CASE (\E place \in 1 .. 3 : Advance(place)) \/ CoderDrops
  BY <1>1, <1>15 DEF Advance, CoderDrops, Lose
<1>16. CASE Tick \/ \E e \in Eyes : Requeue(e)
  BY <1>1, <1>16 DEF Tick, Requeue
<1> QED
  BY <1>0, <1>2, <1>5, <1>6, <1>7, <1>8, <1>9, <1>10, <1>12, <1>13, <1>14, <1>15, <1>16
     DEF Next, Camera, Main, Loop

-----------------------------------------------------------------------------
(* Numbers and counts.                                                     *)

(* All numbers start at zero.                                              *)
LEMMA NumbersInit == Init => NumbersAreBounded /\ GateCounts
<1> SUFFICES ASSUME Init PROVE NumbersAreBounded /\ GateCounts
  OBVIOUS
<1>1. NumbersAreBounded
  BY DEF Init, NumbersAreBounded, Sink
<1>2. gate.pushed = 0 /\ gate.emitted = 0 /\ main.encode_sequence = 0 /\ main.sent_sequence = 0
  BY DEF Init, EmptyGate
<1>3. GateCounts
  BY <1>2, GateAssumption DEF GateCounts
<1> QED
  BY <1>1, <1>3

(* What the numbers are made of. *)
LEMMA NumberTypes ==
  ASSUME Shape
  PROVE  /\ main.left.sequence \in Nat /\ main.right.sequence \in Nat
         /\ main.last_left \in Nat /\ main.last_right \in Nat
         /\ main.encode_sequence \in Nat /\ main.sent_sequence \in Nat
         /\ gate.pushed \in Nat /\ gate.emitted \in Nat
         /\ options.h264 \in BOOLEAN /\ options.mono \in BOOLEAN
         /\ main.left \in Frames /\ main.right \in Frames
         /\ pipe \in [1 .. Sink -> PairFrames]
         /\ wire.frame \in PairFrames
BY DEF Shape, Frames, Gate

(* What a frame that is lost leaves as it was. *)
LEMMA LosesOne ==
  ASSUME Shape, Losing
  PROVE  /\ UNCHANGED << options, gate, masks, wire >> /\ lost'
         /\ main'.last_left = main.last_left /\ main'.last_right = main.last_right
         /\ main'.encode_sequence = main.encode_sequence
         /\ main'.sent_sequence = main.sent_sequence
         /\ main'.pc \notin Closing => main.pc \notin Closing
         /\ \E p \in 1 .. Sink : pipe[p] # NoFrame
         /\ \A p \in 1 .. Sink : pipe'[p] # NoFrame => pipe'[p] = pipe[p]
BY NumberTypes DEF Losing, Lose

(* When the loop has looked at its copies, what it has seen has moved on   *)
(* if one of them is new.                                                  *)
LEMMA FreshAdvances ==
  ASSUME Shape, CopiesFollow, Fresh
  PROVE  main.left.sequence + main.right.sequence > main.last_left + main.last_right
BY NumberTypes DEF CopiesFollow, Fresh

(* What is encoded and sent stays bounded by the frames looked at.         *)
LEMMA NumbersNext == ASSUME IInv, [Next]_vars PROVE NumbersAreBounded'
<1> USE NumberTypes DEF IInv
<1>1. CASE Elsewhere
  BY <1>1 DEF Elsewhere, NumbersAreBounded
<1>2. ASSUME NEW place \in 1 .. 3, Advance(place)
      PROVE  NumbersAreBounded'
  <2>1. place \in 1 .. Sink /\ pipe[place] # NoFrame
    BY <1>2 DEF Advance, Sink
  <2>2. options.h264
    BY <2>1 DEF NumbersAreBounded
  <2> QED
    BY <1>2, <2>2 DEF Advance, NumbersAreBounded
<1>3. CASE Drain
  <2>1. Sink \in 1 .. Sink /\ pipe[Sink] # NoFrame /\ options' = options
    BY <1>3 DEF Drain, Sink
  <2>2. options.h264
    BY <2>1 DEF NumbersAreBounded
  <2>3. main.sent_sequence < main.encode_sequence
    BY <1>3, <2>1, <2>2 DEF Drain, GateCounts, PipeIsInOrder, InOrder, PairFrames, Numbers, Closing
  <2>4. /\ main'.last_left = main.last_left /\ main'.last_right = main.last_right
        /\ main'.encode_sequence = main.encode_sequence
        /\ main'.sent_sequence \in {main.sent_sequence, main.sent_sequence + 1}
    BY <1>3 DEF Drain, GoTo, Shape
  <2> QED
    BY <2>1, <2>2, <2>3, <2>4 DEF NumbersAreBounded
<1>4. CASE DropSkewed \/ Refuse
  <2>1. /\ main'.last_left = main.left.sequence /\ main'.last_right = main.right.sequence
        /\ main'.encode_sequence = main.encode_sequence
        /\ main'.sent_sequence = main.sent_sequence
        /\ options' = options /\ pipe' = pipe
    BY <1>4, SeenKeepsShape DEF DropSkewed, Refuse, PCs
  <2>2. main.left.sequence + main.right.sequence >= main.last_left + main.last_right
    BY DEF CopiesFollow
  <2> QED
    BY <2>1, <2>2, SMTT(15), ZenonT(30) DEF NumbersAreBounded
<1>5. CASE Push
  <2>1. options' = options /\ options.h264 /\ Fresh
    BY <1>5 DEF Push
  <2>2. CASE GoTo("stop_right")
    BY <2>1, <2>2 DEF GoTo, Shape, NumbersAreBounded
  <2>3. CASE main' = [Seen("drain_pushed") EXCEPT !.encode_sequence = @ + 1]
    <3>1. /\ main'.last_left = main.left.sequence /\ main'.last_right = main.right.sequence
          /\ main'.encode_sequence = main.encode_sequence + 1
          /\ main'.sent_sequence = main.sent_sequence
      BY <2>3, SeenKeepsShape DEF PCs
    <3>2. main.left.sequence + main.right.sequence > main.last_left + main.last_right
      BY <2>1, FreshAdvances
    <3>3. main'.encode_sequence <= main'.last_left + main'.last_right
      <4>1. main.encode_sequence <= main.last_left + main.last_right
        BY DEF NumbersAreBounded
      <4> QED
        BY <3>1, <3>2, <4>1, SMTT(15), ZenonT(30)
    <3>4. main'.sent_sequence <= main'.encode_sequence
      <4>1. main.sent_sequence <= main.encode_sequence
        BY <2>1 DEF NumbersAreBounded
      <4> QED
        BY <3>1, <4>1
    <3> QED
      BY <2>1, <3>3, <3>4 DEF NumbersAreBounded
  <2> QED
    BY <1>5, <2>2, <2>3 DEF Push
<1>6. CASE SendRaw
  <2>1. options' = options /\ ~options.h264 /\ Fresh /\ pipe' = pipe
    BY <1>6 DEF SendRaw
  <2>2. CASE GoTo("stop_right")
    BY <2>1, <2>2 DEF GoTo, Shape, NumbersAreBounded
  <2>3. CASE main' = [Seen("wait") EXCEPT !.sent_sequence = @ + 1]
    <3>1. /\ main'.last_left = main.left.sequence /\ main'.last_right = main.right.sequence
          /\ main'.encode_sequence = main.encode_sequence
          /\ main'.sent_sequence = main.sent_sequence + 1
      BY <2>3, SeenKeepsShape DEF PCs
    <3>2. main.left.sequence + main.right.sequence > main.last_left + main.last_right
      BY <2>1, FreshAdvances
    <3>3. main'.sent_sequence <= main'.last_left + main'.last_right
      <4>1. main.sent_sequence <= main.last_left + main.last_right
        BY <2>1 DEF NumbersAreBounded
      <4> QED
        BY <3>1, <3>2, <4>1, SMTT(15), ZenonT(30)
    <3>4. main'.encode_sequence = 0 /\ \A p \in 1 .. Sink : pipe'[p] = NoFrame
      BY <2>1, <3>1 DEF NumbersAreBounded
    <3>5. main'.encode_sequence <= main'.last_left + main'.last_right
      BY <3>1, <3>4
    <3> QED
      BY <2>1, <3>3, <3>4, <3>5 DEF NumbersAreBounded
  <2> QED
    BY <1>6, <2>2, <2>3 DEF SendRaw
<1>7. CASE Losing
  <2>1. options.h264
    BY <1>7, LosesOne DEF NumbersAreBounded
  <2> QED
    BY <1>7, <2>1, LosesOne DEF NumbersAreBounded
<1> QED
  BY <1>1, <1>2, <1>3, <1>4, <1>5, <1>6, <1>7, StepKinds

(* A frame in the pipeline is a number between what was pulled and pushed. *)
LEMMA FrameNumbers ==
  ASSUME Shape, PipeIsInOrder, NEW p \in 1 .. Sink, pipe[p] # NoFrame
  PROVE  /\ pipe[p].number \in Nat
         /\ gate.emitted <= pipe[p].number
         /\ pipe[p].number < gate.pushed
<1>1. pipe[p].number \in Int
  BY NumberTypes, SbsAssumption DEF PairFrames, Numbers
<1> QED
  BY <1>1, NumberTypes DEF PipeIsInOrder, InOrder

(* The gate counts what is pending, and never more than its limit.         *)
LEMMA GateNext == ASSUME IInv, [Next]_vars PROVE GateCounts'
<1> USE NumberTypes, GateAssumption DEF IInv
<1>1. CASE Elsewhere
  BY <1>1 DEF Elsewhere, GateCounts
<1>2. ASSUME NEW place \in 1 .. 3, Advance(place)
      PROVE  GateCounts'
  <2>1. /\ place \in 1 .. Sink /\ place + 1 \in 1 .. Sink /\ place < place + 1
        /\ pipe[place] # NoFrame
        /\ pipe' = [pipe EXCEPT ![place] = NoFrame, ![place + 1] = pipe[place]]
        /\ gate' = gate /\ main' = main /\ options' = options /\ lost' = lost
    BY <1>2 DEF Advance, Sink
  <2>2. ASSUME NEW p \in 1 .. Sink, pipe[p] # NoFrame, pipe[p].number = gate.pushed - 1
        PROVE  \E q \in 1 .. Sink : pipe'[q] # NoFrame /\ pipe'[q].number = gate.pushed - 1
    <3>1. CASE p = place
      BY <2>1, <2>2, <3>1
    <3>2. CASE p = place + 1
      <4>1. pipe[p].number < pipe[place].number
        BY <2>1, <2>2, <3>2 DEF PipeIsInOrder
      <4>2. pipe[place].number < gate.pushed /\ pipe[place].number \in Nat
        BY <2>1, FrameNumbers
      <4> QED
        BY <2>2, <4>1, <4>2
    <3>3. CASE p # place /\ p # place + 1
      BY <2>1, <2>2, <3>3
    <3> QED
      BY <3>1, <3>2, <3>3
  <2> QED
    BY <2>1, <2>2 DEF GateCounts
<1>3. CASE Drain
  <2>1. /\ Sink \in 1 .. Sink /\ pipe[Sink] # NoFrame /\ options' = options
        /\ main.pc \in {"drain", "drain_pushed"} /\ main.pc \notin Closing
    BY <1>3 DEF Drain, Sink, Closing
  <2>2. gate.emitted < gate.pushed
    BY <2>1, FrameNumbers
  <2>3. gate'.pushed = gate.pushed /\ gate'.emitted = gate.emitted + 1
    BY <1>3, <2>2, GateEmitted DEF Drain, Shape
  <2>4. /\ main'.encode_sequence = main.encode_sequence
        /\ \/ main'.sent_sequence = main.sent_sequence /\ main'.pc \in Closing
           \/ main'.sent_sequence = main.sent_sequence + 1
    BY <1>3, SMTT(15), ZenonT(30) DEF Drain, GoTo, Shape, Closing
  <2>5. options.h264
    BY <2>1 DEF NumbersAreBounded
  <2>6. /\ main'.sent_sequence <= gate'.emitted
        /\ main'.pc \notin Closing => main'.sent_sequence = gate'.emitted
    BY <2>1, <2>3, <2>4, <2>5 DEF GateCounts
  <2>7. MaxPending > 0 =>
          /\ gate'.pushed - gate'.emitted <= MaxPending
          /\ gate'.pushed - gate'.emitted # MaxPending
    BY <2>3 DEF GateCounts
  <2> QED
    BY <2>1, <2>2, <2>3, <2>4, <2>6, <2>7 DEF GateCounts
<1>4. CASE DropSkewed
  <2>1. /\ main'.encode_sequence = main.encode_sequence
        /\ main'.sent_sequence = main.sent_sequence
        /\ main.pc \notin Closing
        /\ options' = options /\ pipe' = pipe /\ gate' = gate /\ lost' = lost
    BY <1>4, SeenKeepsShape DEF DropSkewed, PCs, Closing
  <2> QED
    BY <2>1 DEF GateCounts
<1>5. CASE Refuse
  <2>1. /\ main'.encode_sequence = main.encode_sequence
        /\ main'.sent_sequence = main.sent_sequence
        /\ main.pc \notin Closing
        /\ options' = options /\ pipe' = pipe /\ lost' = lost
        /\ gate'.pushed = gate.pushed /\ gate'.emitted = gate.emitted
    BY <1>5, SeenKeepsShape DEF Refuse, PCs, Closing, Shape
  <2> QED
    BY <2>1 DEF GateCounts
<1>6. CASE Push
  <2> DEFINE frame == [number |-> main.encode_sequence, pair |-> Pair(main.left, main.right)]
  <2>1. options' = options /\ options.h264 /\ main.pc \notin Closing /\ lost' = lost
    BY <1>6 DEF Push, Closing
  <2>2. CASE GoTo("stop_right") /\ UNCHANGED << pipe, gate >>
    BY <2>1, <2>2 DEF GoTo, Shape, GateCounts, Closing
  <2>3. CASE /\ pipe' = [pipe EXCEPT ![1] = frame]
             /\ PushUnder(main.encode_sequence)
             /\ main' = [Seen("drain_pushed") EXCEPT !.encode_sequence = @ + 1]
    <3>1. /\ main'.encode_sequence = main.encode_sequence + 1
          /\ main'.sent_sequence = main.sent_sequence
      BY <2>3, SeenKeepsShape DEF PCs
    <3>2. gate'.pushed = gate.pushed + 1 /\ gate'.emitted = gate.emitted
      <4>1. main.left.stamp \in Nat
        BY DEF Frames
      <4>2. gate \in Gate
        BY DEF Shape
      <4>3. gate' = MarkPushed(gate, main.encode_sequence, main.left.stamp)
        BY <2>3 DEF PushUnder
      <4>4. ASSUME NEW n \in Nat, NEW stamp \in Nat, gate' = MarkPushed(gate, n, stamp)
            PROVE  gate'.pushed = gate.pushed + 1 /\ gate'.emitted = gate.emitted
        <5>1. /\ MarkPushed(gate, n, stamp).pushed = gate.pushed + 1
              /\ MarkPushed(gate, n, stamp).emitted = gate.emitted
          BY <4>2, PushIsCounted
        <5> QED
          BY <4>4, <5>1
      <4> QED
        BY <4>1, <4>3, <4>4
    <3>3. MaxPending > 0 => gate.pushed - gate.emitted < MaxPending
      BY <1>6 DEF Push, Accepts, Full, Pending, GateCounts
    <3>4. pipe'[1] = frame /\ frame # NoFrame /\ frame.number = gate.pushed /\ 1 \in 1 .. Sink
      BY <2>3 DEF NoFrame, Sink, GateCounts
    <3>5. pipe'[1] # NoFrame /\ pipe'[1].number = gate'.pushed - 1
      BY <3>2, <3>4
    <3> QED
      BY <2>1, <3>1, <3>2, <3>3, <3>4, <3>5 DEF GateCounts
  <2> QED
    BY <1>6, <2>2, <2>3 DEF Push
<1>7. CASE SendRaw
  <2>1. options' = options /\ ~options.h264 /\ pipe' = pipe /\ gate' = gate /\ lost' = lost
    BY <1>7 DEF SendRaw
  <2>2. main'.encode_sequence = main.encode_sequence
    BY <1>7, SeenKeepsShape, SMTT(15), ZenonT(30) DEF SendRaw, PCs, GoTo, Shape
  <2> QED
    BY <2>1, <2>2 DEF GateCounts
<1>8. CASE Losing
  <2>1. main'.pc \notin Closing => main.pc \notin Closing
    BY <1>8, LosesOne
  <2> QED
    BY <1>8, <2>1, LosesOne DEF GateCounts
<1> QED
  BY <1>1, <1>2, <1>3, <1>4, <1>5, <1>6, <1>7, <1>8, StepKinds

-----------------------------------------------------------------------------
(* The pipeline.                                                           *)

(* What a pair of captured frames is made of.                              *)
LEMMA PairTypes ==
  ASSUME NEW frame \in PairFrames
  PROVE  /\ frame.number \in Int
         /\ frame.pair[1].sequence \in Nat /\ frame.pair[2].sequence \in Nat
         /\ frame.pair[1].stamp \in Nat /\ frame.pair[2].stamp \in Nat
         /\ frame.pair[1].stamp <= LastStamp
BY SbsAssumption DEF PairFrames, Numbers, Frames

(* The encoder starts empty.                                               *)
LEMMA PipeInit == Init => PipeIsInOrder
<1> SUFFICES ASSUME Init PROVE PipeIsInOrder
  OBVIOUS
<1> QED
  BY DEF Init, PipeIsInOrder, InOrder, Nothing, NoFrame, Pair, Blank, Sink

(* The copies follow every pair the loop has dealt with. *)
LEMMA CopiesAreNewer ==
  ASSUME Shape, CopiesFollow, Fresh, NEW old \in PairFrames,
         old.pair[1].sequence <= main.last_left,
         old.pair[2].sequence <= main.last_right
  PROVE  Older(old.pair, Pair(main.left, main.right))
<1>1. old.pair[1].sequence \in Nat /\ old.pair[2].sequence \in Nat
  BY PairTypes
<1>2. /\ main.last_left <= main.left.sequence /\ main.last_right <= main.right.sequence
      /\ main.left.sequence # main.last_left \/ main.right.sequence # main.last_right
  BY DEF CopiesFollow, Fresh
<1>3. Pair(main.left, main.right)[1] = main.left /\ Pair(main.left, main.right)[2] = main.right
  BY DEF Pair
<1> QED
  BY <1>1, <1>2, <1>3, NumberTypes, SMTT(15), ZenonT(30) DEF Older

(* Copies whose skew fits are a pair that fits together. *)
LEMMA CopiesFit ==
  ASSUME Shape, CopiesFollow, SkewFits, main.pc = "examine"
  PROVE  FitsTogether(Pair(main.left, main.right))
<1>1. Pair(main.left, main.right)[1] = main.left /\ Pair(main.left, main.right)[2] = main.right
  BY DEF Pair
<1>2. CASE options.mono
  BY <1>1, <1>2 DEF CopiesFollow, FitsTogether
<1>3. CASE ~options.mono
  <2>1. main.left.stamp \in Nat /\ main.right.stamp \in Nat /\ MaxSkew \in Nat
    BY NumberTypes, SbsAssumption DEF Frames
  <2> QED
    BY <1>1, <1>3, <2>1 DEF SkewFits, FitsTogether
<1> QED
  BY <1>2, <1>3

(* What is in the encoder leaves it in the order it entered.               *)
LEMMA PipeNext == ASSUME IInv, [Next]_vars PROVE PipeIsInOrder'
<1> USE NumberTypes DEF IInv
<1>0. \A p \in 1 .. Sink : pipe[p] \in PairFrames
  OBVIOUS
<1>1. CASE Elsewhere
  BY <1>1 DEF Elsewhere, PipeIsInOrder, InOrder, FitsTogether
<1>2. ASSUME NEW place \in 1 .. 3, Advance(place)
      PROVE  PipeIsInOrder'
  <2>1. /\ place \in 1 .. Sink /\ place + 1 \in 1 .. Sink
        /\ pipe' = [pipe EXCEPT ![place] = NoFrame, ![place + 1] = pipe[place]]
        /\ gate' = gate /\ main' = main /\ options' = options /\ wire' = wire
    BY <1>2 DEF Advance, Sink
  <2> DEFINE from(p) == IF p = place + 1 THEN place ELSE p
  <2>2. \A p \in 1 .. Sink : from(p) \in 1 .. Sink
    BY <2>1
  <2>3. \A p \in 1 .. Sink : pipe'[p] # NoFrame => p # place /\ pipe'[p] = pipe[from(p)]
    BY <2>1
  <2>4. \A p, q \in 1 .. Sink : p < q /\ p # place => from(p) < from(q)
    BY <2>1
  <2> HIDE DEF from
  <2>5. \A p \in 1 .. Sink : pipe'[p] # NoFrame => InOrder(p)'
    <3> SUFFICES ASSUME NEW p \in 1 .. Sink, pipe'[p] # NoFrame
                 PROVE  InOrder(p)'
      BY Zenon
    <3>1. pipe'[p] = pipe[from(p)] /\ from(p) \in 1 .. Sink
      BY <2>2, <2>3
    <3> QED
      BY <2>1, <3>1 DEF PipeIsInOrder, InOrder, FitsTogether
  <2>6. \A p, q \in 1 .. Sink :
       p < q /\ pipe'[p] # NoFrame /\ pipe'[q] # NoFrame =>
         /\ pipe'[q].number < pipe'[p].number
         /\ Older(pipe'[q].pair, pipe'[p].pair)
    BY <2>2, <2>3, <2>4 DEF PipeIsInOrder, InOrder
  <2> QED
    BY <2>1, <2>5, <2>6 DEF PipeIsInOrder, InOrder
<1>3. CASE Drain
  <2>1. /\ Sink \in 1 .. Sink /\ pipe[Sink] # NoFrame /\ options' = options
        /\ pipe' = [pipe EXCEPT ![Sink] = NoFrame]
    BY <1>3 DEF Drain, Sink
  <2>2. gate.emitted < gate.pushed
    BY <2>1, FrameNumbers
  <2>3. gate'.pushed = gate.pushed /\ gate'.emitted = gate.emitted + 1
    BY <1>3, <2>2, GateEmitted DEF Drain, Shape
  <2>4. main'.last_left = main.last_left /\ main'.last_right = main.last_right
    BY <1>3 DEF Drain, GoTo, Shape
  <2>5. wire'.frame = pipe[Sink] \/ wire' = wire
    BY <1>3 DEF Drain
  <2>6. \A p \in 1 .. Sink :
          pipe'[p] # NoFrame =>
            /\ p < Sink /\ pipe'[p] = pipe[p]
            /\ gate'.emitted <= pipe[p].number
            /\ Older(wire'.frame.pair, pipe[p].pair)
    <3> SUFFICES ASSUME NEW p \in 1 .. Sink, pipe'[p] # NoFrame
                 PROVE  /\ p < Sink /\ pipe'[p] = pipe[p]
                        /\ gate'.emitted <= pipe[p].number
                        /\ Older(wire'.frame.pair, pipe[p].pair)
      BY Zenon
    <3>1. p < Sink /\ pipe'[p] = pipe[p]
      BY <2>1 DEF Sink
    <3>2. pipe[Sink].number < pipe[p].number /\ Older(pipe[Sink].pair, pipe[p].pair)
      BY <2>1, <3>1 DEF PipeIsInOrder, InOrder
    <3>3. pipe[Sink].number \in Nat /\ gate.emitted <= pipe[Sink].number /\ pipe[p].number \in Nat
      BY <2>1, <3>1, FrameNumbers
    <3>4. gate'.emitted <= pipe[p].number
      BY <2>3, <3>2, <3>3
    <3>5. Older(wire.frame.pair, pipe[p].pair)
      BY <3>1 DEF PipeIsInOrder, InOrder
    <3> QED
      BY <2>5, <3>1, <3>2, <3>4, <3>5
  <2>7. /\ wire'.frame.pair[1].sequence <= main'.last_left
        /\ wire'.frame.pair[2].sequence <= main'.last_right
    BY <2>1, <2>4, <2>5 DEF PipeIsInOrder, InOrder
  <2> QED
    BY <2>1, <2>3, <2>4, <2>6, <2>7 DEF PipeIsInOrder, InOrder, FitsTogether
<1>4. CASE DropSkewed \/ Refuse
  <2>1. /\ main'.last_left = main.left.sequence /\ main'.last_right = main.right.sequence
        /\ options' = options /\ pipe' = pipe /\ wire' = wire
    BY <1>4, SeenKeepsShape DEF DropSkewed, Refuse, PCs
  <2>2. gate'.pushed = gate.pushed /\ gate'.emitted = gate.emitted
    BY <1>4 DEF DropSkewed, Refuse, Shape
  <2>3. main.last_left <= main'.last_left /\ main.last_right <= main'.last_right
    BY <2>1 DEF CopiesFollow
  <2>4. \A f \in PairFrames :
          /\ f.pair[1].sequence <= main.last_left => f.pair[1].sequence <= main'.last_left
          /\ f.pair[2].sequence <= main.last_right => f.pair[2].sequence <= main'.last_right
    BY <2>1, <2>3, PairTypes, SMTT(15), ZenonT(30)
  <2> QED
    BY <1>0, <2>1, <2>2, <2>4 DEF PipeIsInOrder, InOrder, FitsTogether
<1>5. CASE Push
  <2> DEFINE frame == [number |-> main.encode_sequence, pair |-> Pair(main.left, main.right)]
  <2>1. /\ options' = options /\ wire' = wire /\ Fresh /\ SkewFits /\ main.pc = "examine"
        /\ 1 \in 1 .. Sink
    BY <1>5 DEF Push, Sink
  <2>2. CASE GoTo("stop_right") /\ UNCHANGED << pipe, gate >>
    BY <2>1, <2>2 DEF GoTo, Shape, PipeIsInOrder, InOrder, FitsTogether
  <2>3. CASE /\ pipe' = [pipe EXCEPT ![1] = frame]
             /\ PushUnder(main.encode_sequence)
             /\ main' = [Seen("drain_pushed") EXCEPT !.encode_sequence = @ + 1]
    <3>1. main'.last_left = main.left.sequence /\ main'.last_right = main.right.sequence
      BY <2>3, SeenKeepsShape DEF PCs
    <3>2. gate'.pushed = gate.pushed + 1 /\ gate'.emitted = gate.emitted
      <4>1. main.left.stamp \in Nat /\ gate \in Gate
        BY DEF Frames, Shape
      <4>2. gate' = MarkPushed(gate, main.encode_sequence, main.left.stamp)
        BY <2>3 DEF PushUnder
      <4> QED
        BY <4>1, <4>2, PushIsCounted
    <3>3. /\ frame.number = gate.pushed /\ frame.pair = Pair(main.left, main.right)
          /\ frame.pair[1] = main.left /\ frame.pair[2] = main.right
      BY DEF GateCounts, Pair
    <3>4. \A f \in PairFrames :
            f.pair[1].sequence <= main.last_left /\ f.pair[2].sequence <= main.last_right =>
              /\ Older(f.pair, frame.pair)
              /\ f.pair[1].sequence <= main'.last_left
              /\ f.pair[2].sequence <= main'.last_right
      <4> SUFFICES ASSUME NEW f \in PairFrames,
                          f.pair[1].sequence <= main.last_left,
                          f.pair[2].sequence <= main.last_right
                   PROVE  /\ Older(f.pair, frame.pair)
                          /\ f.pair[1].sequence <= main'.last_left
                          /\ f.pair[2].sequence <= main'.last_right
        BY Zenon
      <4>1. Older(f.pair, frame.pair)
        BY <2>1, <3>3, CopiesAreNewer
      <4> QED
        BY <4>1, <3>1, <3>3 DEF Older
    <3>5. Real(frame.pair[1]) /\ FitsTogether(frame.pair)
      <4>1. Real(main.left)
        BY <2>1 DEF CopiesFollow
      <4>2. FitsTogether(Pair(main.left, main.right))
        BY <2>1, CopiesFit
      <4> QED
        BY <3>3, <4>1, <4>2
    <3>a. pipe' = [pipe EXCEPT ![1] = frame]
      BY <2>3
    <3> HIDE DEF frame
    <3>6. \A p \in 1 .. Sink : (p = 1 /\ pipe'[p] = frame) \/ (p # 1 /\ pipe'[p] = pipe[p])
      BY <2>1, <3>a
    <3>7. /\ wire'.frame.pair[1].sequence <= main'.last_left
          /\ wire'.frame.pair[2].sequence <= main'.last_right
          /\ Older(wire'.frame.pair, frame.pair)
      BY <2>1, <3>4 DEF PipeIsInOrder, InOrder
    <3>8. \A p \in 1 .. Sink : pipe'[p] # NoFrame => InOrder(p)'
      <4> SUFFICES ASSUME NEW p \in 1 .. Sink, pipe'[p] # NoFrame
                   PROVE  InOrder(p)'
        BY Zenon
      <4>1. CASE pipe'[p] = frame
        <5>1. gate'.emitted <= frame.number /\ frame.number < gate'.pushed
          BY <3>2, <3>3 DEF GateCounts
        <5>2. frame.pair[1].sequence <= main'.last_left /\ frame.pair[2].sequence <= main'.last_right
          BY <3>1, <3>3
        <5> QED
          BY <2>1, <3>5, <3>7, <4>1, <5>1, <5>2 DEF FitsTogether, InOrder
      <4>2. CASE pipe'[p] = pipe[p]
        <5>1. pipe[p] # NoFrame
          BY <4>2
        <5>2. pipe[p].number \in Nat /\ gate.emitted <= pipe[p].number /\ pipe[p].number < gate.pushed
          BY <5>1, FrameNumbers
        <5>3. gate'.emitted <= pipe[p].number /\ pipe[p].number < gate'.pushed
          BY <3>2, <5>2
        <5> QED
          BY <1>0, <2>1, <3>4, <4>2, <5>1, <5>3 DEF PipeIsInOrder, InOrder, FitsTogether
      <4> QED
        BY <3>6, <4>1, <4>2
    <3>9. \A p, q \in 1 .. Sink :
       p < q /\ pipe'[p] # NoFrame /\ pipe'[q] # NoFrame =>
         /\ pipe'[q].number < pipe'[p].number
         /\ Older(pipe'[q].pair, pipe'[p].pair)
      <4> SUFFICES ASSUME NEW p \in 1 .. Sink, NEW q \in 1 .. Sink,
                          p < q, pipe'[p] # NoFrame, pipe'[q] # NoFrame
                   PROVE  /\ pipe'[q].number < pipe'[p].number
                          /\ Older(pipe'[q].pair, pipe'[p].pair)
        BY Zenon
      <4>1. pipe'[q] = pipe[q] /\ pipe[q] # NoFrame
        BY <3>6
      <4>2. CASE pipe'[p] = frame
        <5>1. pipe[q].number < gate.pushed
          BY <4>1, FrameNumbers
        <5>2. Older(pipe[q].pair, frame.pair)
          BY <1>0, <3>4, <4>1 DEF PipeIsInOrder, InOrder
        <5> QED
          BY <3>3, <4>1, <4>2, <5>1, <5>2
      <4>3. CASE pipe'[p] = pipe[p]
        BY <4>1, <4>3 DEF PipeIsInOrder, InOrder
      <4> QED
        BY <3>6, <4>2, <4>3
    <3> QED
      BY <3>7, <3>8, <3>9 DEF PipeIsInOrder, InOrder
  <2> QED
    BY <1>5, <2>2, <2>3 DEF Push
<1>6. CASE SendRaw
  <2>1. options' = options /\ ~options.h264 /\ pipe' = pipe /\ gate' = gate
    BY <1>6 DEF SendRaw
  <2>2. \A p \in 1 .. Sink : pipe'[p] = NoFrame
    BY <2>1 DEF NumbersAreBounded
  <2>3. CASE GoTo("stop_right") /\ UNCHANGED wire
    BY <2>2, <2>3 DEF GoTo, Shape, PipeIsInOrder, InOrder
  <2>4. ASSUME wire'.frame.pair = Pair(main.left, main.right),
               main' = [Seen("wait") EXCEPT !.sent_sequence = @ + 1]
        PROVE  PipeIsInOrder'
    <3>1. main'.last_left = main.left.sequence /\ main'.last_right = main.right.sequence
      BY <2>4, SeenKeepsShape DEF PCs
    <3> QED
      BY <2>2, <2>4, <3>1 DEF PipeIsInOrder, InOrder, Pair
  <2> QED
    BY <1>6, <2>3, <2>4 DEF SendRaw
<1>7. CASE Losing
  BY <1>7, LosesOne DEF PipeIsInOrder, InOrder, FitsTogether
<1> QED
  BY <1>1, <1>2, <1>3, <1>4, <1>5, <1>6, <1>7, StepKinds

-----------------------------------------------------------------------------
(* The rings of tags and masks.                                            *)

(* No tag is kept at first, and nothing is on the wire.                    *)
LEMMA TagsInit == Init => TagsAreKept /\ LagIsBounded
<1> SUFFICES ASSUME Init PROVE TagsAreKept /\ LagIsBounded
  OBVIOUS
<1>1. \A i \in 0 .. Tracked - 1 : gate.tags[i].stamp <= LastStamp
  BY SbsAssumption DEF Init, EmptyGate, NoTag
<1>2. gate.emitted .. gate.pushed - 1 = {}
  BY DEF Init, EmptyGate
<1>3. \A p \in 1 .. Sink : pipe[p] = NoFrame
  BY DEF Init, Sink
<1>4. LagIsBounded
  BY DEF Init, LagIsBounded
<1> QED
  BY <1>1, <1>2, <1>3, <1>4 DEF TagsAreKept

(* With a limit that the rings hold, the numbers still to be sent have     *)
(* entries of their own.                                                   *)
LEMMA NumbersHaveTheirOwn ==
  ASSUME Shape, GateCounts, MaxPending \in 1 .. Tracked,
         NEW m \in gate.emitted .. gate.pushed - 1, NEW n \in gate.emitted .. gate.pushed - 1,
         m # n
  PROVE  m % Tracked # n % Tracked
<1>1. /\ m \in Nat /\ n \in Nat /\ MaxPending \in Nat /\ Tracked \in Nat
      /\ gate.pushed - gate.emitted <= MaxPending /\ MaxPending <= Tracked
  BY GateAssumption, NumberTypes DEF GateCounts
<1>2. m - n < Tracked /\ n - m < Tracked
  BY <1>1, NumberTypes
<1> QED
  BY <1>1, <1>2, NearNumbersDiffer

(* With a limit the rings hold, no tag or mask is overwritten too early.   *)
LEMMA TagsNext == ASSUME IInv, [Next]_vars PROVE TagsAreKept'
<1> USE NumberTypes, GateAssumption DEF IInv
<1>0. \A p \in 1 .. Sink :
        pipe[p] # NoFrame => pipe[p].number \in gate.emitted .. gate.pushed - 1
  BY FrameNumbers
<1>1. CASE Elsewhere
  BY <1>1 DEF Elsewhere, TagsAreKept
<1>2. ASSUME NEW place \in 1 .. 3, Advance(place)
      PROVE  TagsAreKept'
  <2>1. /\ place \in 1 .. Sink /\ place + 1 \in 1 .. Sink
        /\ pipe' = [pipe EXCEPT ![place] = NoFrame, ![place + 1] = pipe[place]]
        /\ gate' = gate /\ main' = main /\ options' = options /\ masks' = masks
    BY <1>2 DEF Advance, Sink
  <2>2. \A p \in 1 .. Sink :
          pipe'[p] # NoFrame => \E q \in 1 .. Sink : pipe'[p] = pipe[q]
    BY <2>1
  <2> QED
    BY <2>1, <2>2 DEF TagsAreKept
<1>3. CASE Drain
  <2> DEFINE number == main.sent_sequence
             r == number % Tracked
  <2>1. /\ Sink \in 1 .. Sink /\ pipe[Sink] # NoFrame
        /\ pipe' = [pipe EXCEPT ![Sink] = NoFrame]
        /\ main.pc \notin Closing
        /\ gate' = MarkEmitted(gate, number)
    BY <1>3 DEF Drain, Sink, Closing
  <2>2. gate.emitted < gate.pushed /\ options.h264 /\ number = gate.emitted
    BY <2>1, FrameNumbers DEF NumbersAreBounded, GateCounts
  <2>3. /\ gate'.pushed = gate.pushed /\ gate'.emitted = gate.emitted + 1
        /\ \A i \in 0 .. Tracked - 1 : /\ gate'.tags[i].stamp = gate.tags[i].stamp
                                       /\ i # r => gate'.tags[i] = gate.tags[i]
    <3>1. gate \in Gate /\ number \in Nat
      BY DEF Shape
    <3>2. /\ MarkEmitted(gate, number).pushed = gate.pushed
          /\ MarkEmitted(gate, number).emitted = gate.emitted + 1
      BY <2>2, <3>1, EmissionIsCounted
    <3>3. \A i \in 0 .. Tracked - 1 :
            /\ MarkEmitted(gate, number).tags[i].stamp = gate.tags[i].stamp
            /\ i # r => MarkEmitted(gate, number).tags[i] = gate.tags[i]
      BY <3>1, GateEmitted
    <3> QED
      BY <2>1, <3>2, <3>3
  <2>4. \A i \in 0 .. Tracked - 1 : gate'.tags[i].stamp <= LastStamp
    BY <2>3 DEF TagsAreKept
  <2>5. ASSUME MaxPending \in 1 .. Tracked, main'.pc \notin Closing
        PROVE  /\ \A n \in gate'.emitted .. gate'.pushed - 1 :
                    masks'[n % Tracked] = [sequence |-> n, of |-> n, valid |-> TRUE]
               /\ \A p \in 1 .. Sink :
                    pipe'[p] # NoFrame =>
                      gate'.tags[pipe'[p].number % Tracked] =
                        [sequence |-> pipe'[p].number, stamp |-> pipe'[p].pair[1].stamp,
                         valid |-> TRUE]
    <3>1. \A n \in gate'.emitted .. gate'.pushed - 1 :
            /\ n \in gate.emitted .. gate.pushed - 1
            /\ n % Tracked # r /\ n % Tracked \in 0 .. Tracked - 1
      <4> SUFFICES ASSUME NEW n \in gate'.emitted .. gate'.pushed - 1
                   PROVE  /\ n \in gate.emitted .. gate.pushed - 1
                          /\ n % Tracked # r /\ n % Tracked \in 0 .. Tracked - 1
        BY Zenon
      <4>1. /\ n \in gate.emitted .. gate.pushed - 1 /\ n # number /\ n \in Nat
            /\ number \in gate.emitted .. gate.pushed - 1
        BY <2>2, <2>3
      <4>2. n % Tracked # r
        BY <2>5, <4>1, NumbersHaveTheirOwn
      <4> QED
        BY <4>1, <4>2, EntryExists
    <3> HIDE DEF r
    <3>2. \A i \in 0 .. Tracked - 1 : i # r => masks'[i] = masks[i]
      <4>1. main' # [main EXCEPT !.pc = "stop_right"]
        BY <2>5 DEF Shape, Closing
      <4>2. masks' = [masks EXCEPT ![r].valid = @ /\ MaskOf(number) = -1]
        BY <1>3, <4>1 DEF Drain, GoTo, r
      <4> QED
        BY <4>2 DEF Shape
    <3>3. \A n \in gate'.emitted .. gate'.pushed - 1 :
            masks'[n % Tracked] = [sequence |-> n, of |-> n, valid |-> TRUE]
      <4>1. \A n \in gate.emitted .. gate.pushed - 1 :
              masks[n % Tracked] = [sequence |-> n, of |-> n, valid |-> TRUE]
        BY <2>1, <2>5 DEF TagsAreKept
      <4> QED
        BY <3>1, <3>2, <4>1
    <3>4. ASSUME NEW p \in 1 .. Sink, pipe'[p] # NoFrame
          PROVE  gate'.tags[pipe'[p].number % Tracked] =
                   [sequence |-> pipe'[p].number, stamp |-> pipe'[p].pair[1].stamp,
                    valid |-> TRUE]
      <4>1. p < Sink /\ pipe'[p] = pipe[p] /\ pipe[p] # NoFrame
        BY <2>1, <3>4 DEF Sink
      <4>2. pipe[Sink].number < pipe[p].number
        BY <2>1, <4>1 DEF PipeIsInOrder
      <4>3. /\ pipe[p].number \in gate.emitted .. gate.pushed - 1
            /\ pipe[Sink].number \in gate.emitted .. gate.pushed - 1
        BY <1>0, <2>1, <4>1
      <4>4. pipe[p].number \in gate'.emitted .. gate'.pushed - 1
        BY <2>3, <4>2, <4>3
      <4>5. gate'.tags[pipe[p].number % Tracked] = gate.tags[pipe[p].number % Tracked]
        BY <2>3, <3>1, <4>4
      <4>6. gate.tags[pipe[p].number % Tracked] =
              [sequence |-> pipe[p].number, stamp |-> pipe[p].pair[1].stamp, valid |-> TRUE]
        BY <2>1, <2>5, <4>1 DEF TagsAreKept
      <4> QED
        BY <4>1, <4>5, <4>6
    <3> QED
      BY <3>3, <3>4
  <2> QED
    BY <2>4, <2>5 DEF TagsAreKept
<1>4. CASE DropSkewed \/ Refuse
  <2>1. pipe' = pipe /\ masks' = masks /\ main.pc \notin Closing
    BY <1>4 DEF DropSkewed, Refuse, Closing
  <2>2. gate'.pushed = gate.pushed /\ gate'.emitted = gate.emitted /\ gate'.tags = gate.tags
    BY <1>4 DEF DropSkewed, Refuse, Shape
  <2> QED
    BY <2>1, <2>2 DEF TagsAreKept
<1>5. CASE Push
  <2> DEFINE number == main.encode_sequence
             r == number % Tracked
             frame == [number |-> number, pair |-> Pair(main.left, main.right)]
             mask == [sequence |-> number, of |-> number, valid |-> TRUE]
             tag == [sequence |-> number, stamp |-> main.left.stamp, valid |-> TRUE]
  <2>1. /\ main.pc \notin Closing /\ 1 \in 1 .. Sink
        /\ masks' = [masks EXCEPT ![r] = mask]
    BY <1>5 DEF Push, Sink, Closing
  <2>2. CASE GoTo("stop_right") /\ UNCHANGED << pipe, gate >>
    BY <2>2 DEF GoTo, Shape, TagsAreKept, Closing
  <2>3. CASE /\ pipe' = [pipe EXCEPT ![1] = frame]
             /\ PushUnder(number)
             /\ main' = [Seen("drain_pushed") EXCEPT !.encode_sequence = @ + 1]
    <3>1. /\ number \in Nat /\ main.left.stamp \in Nat /\ main.left.stamp <= LastStamp
          /\ gate \in Gate /\ r \in 0 .. Tracked - 1
      <4>1. number \in Nat /\ gate \in Gate
        BY DEF Shape
      <4>2. main.left.stamp \in 0 .. LastStamp
        BY DEF Frames
      <4> QED
        BY <4>1, <4>2, EntryExists, SbsAssumption
    <3>2. /\ gate'.pushed = gate.pushed + 1 /\ gate'.emitted = gate.emitted
          /\ gate'.tags = [gate.tags EXCEPT ![r] = tag]
      <4>1. gate' = MarkPushed(gate, number, main.left.stamp)
        BY <2>3 DEF PushUnder
      <4>2. /\ MarkPushed(gate, number, main.left.stamp).pushed = gate.pushed + 1
            /\ MarkPushed(gate, number, main.left.stamp).emitted = gate.emitted
        BY <3>1, PushIsCounted, SMTT(15), ZenonT(30)
      <4>3. MarkPushed(gate, number, main.left.stamp).tags = [gate.tags EXCEPT ![r] = tag]
        BY <3>1, PushIsTagged, SMTT(15), ZenonT(30)
      <4> QED
        BY <4>1, <4>2, <4>3
    <3>3. number = gate.pushed /\ frame.number = number /\ frame.pair[1] = main.left
      BY DEF GateCounts, Pair
    <3>4. MaxPending > 0 => gate.pushed - gate.emitted < MaxPending
      BY <1>5 DEF Push, Accepts, Full, Pending, GateCounts
    <3>5. tag = [sequence |-> frame.number, stamp |-> frame.pair[1].stamp, valid |-> TRUE]
      BY <3>3
    <3>6. \A i \in 0 .. Tracked - 1 :
            (i = r /\ gate'.tags[i] = tag) \/ (i # r /\ gate'.tags[i] = gate.tags[i])
      <4>1. DOMAIN gate.tags = 0 .. Tracked - 1
        BY DEF Shape, Gate
      <4> HIDE DEF r, tag
      <4> QED
        BY <3>2, <4>1
    <3>7. \A i \in 0 .. Tracked - 1 :
            (i = r /\ masks'[i] = mask) \/ (i # r /\ masks'[i] = masks[i])
      <4> HIDE DEF r, mask
      <4> QED
        BY <2>1 DEF Shape
    <3>8. pipe' = [pipe EXCEPT ![1] = frame]
      BY <2>3
    <3> HIDE DEF frame
    <3>9. \A p \in 1 .. Sink : (p = 1 /\ pipe'[p] = frame) \/ (p # 1 /\ pipe'[p] = pipe[p])
      BY <2>1, <3>8
    <3>10. \A i \in 0 .. Tracked - 1 : gate'.tags[i].stamp <= LastStamp
      <4> SUFFICES ASSUME NEW i \in 0 .. Tracked - 1
                   PROVE  gate'.tags[i].stamp <= LastStamp
        BY Zenon
      <4>1. tag.stamp <= LastStamp
        BY <3>1
      <4>2. gate.tags[i].stamp <= LastStamp
        BY DEF TagsAreKept
      <4> HIDE DEF tag, r
      <4> QED
        BY <3>6, <4>1, <4>2
    <3>11. ASSUME MaxPending \in 1 .. Tracked
           PROVE  /\ \A n \in gate'.emitted .. gate'.pushed - 1 :
                       masks'[n % Tracked] = [sequence |-> n, of |-> n, valid |-> TRUE]
                  /\ \A p \in 1 .. Sink :
                       pipe'[p] # NoFrame =>
                         gate'.tags[pipe'[p].number % Tracked] =
                           [sequence |-> pipe'[p].number, stamp |-> pipe'[p].pair[1].stamp,
                            valid |-> TRUE]
      <4>1. \A n \in gate.emitted .. gate.pushed - 1 :
              n % Tracked # r /\ n % Tracked \in 0 .. Tracked - 1
        <5> SUFFICES ASSUME NEW n \in gate.emitted .. gate.pushed - 1
                     PROVE  n % Tracked # r /\ n % Tracked \in 0 .. Tracked - 1
          BY Zenon
        <5>1. n \in Nat /\ n # number /\ n - number < Tracked /\ number - n < Tracked
          BY <3>3, <3>4, <3>11
        <5> QED
          BY <3>1, <5>1, NearNumbersDiffer, EntryExists
      <4>2. ASSUME NEW n \in gate'.emitted .. gate'.pushed - 1
            PROVE  masks'[n % Tracked] = [sequence |-> n, of |-> n, valid |-> TRUE]
        <5>1. CASE n = number
          BY <3>1, <3>7, <5>1
        <5>2. CASE n # number
          <6>1. n \in gate.emitted .. gate.pushed - 1
            BY <3>2, <3>3, <4>2, <5>2
          <6>2. masks[n % Tracked] = [sequence |-> n, of |-> n, valid |-> TRUE]
            BY <2>1, <3>11, <6>1 DEF TagsAreKept
          <6> HIDE DEF r, mask
          <6> QED
            BY <3>7, <4>1, <6>1, <6>2
        <5> QED
          BY <5>1, <5>2
      <4>3. ASSUME NEW p \in 1 .. Sink, pipe'[p] # NoFrame
            PROVE  gate'.tags[pipe'[p].number % Tracked] =
                     [sequence |-> pipe'[p].number, stamp |-> pipe'[p].pair[1].stamp,
                      valid |-> TRUE]
        <5>1. CASE pipe'[p] = frame
          <6>1. gate'.tags[r] = tag
            BY <3>1, <3>6
          <6> QED
            BY <3>3, <3>5, <5>1, <6>1
        <5>2. CASE pipe'[p] = pipe[p]
          <6>1. pipe[p].number \in gate.emitted .. gate.pushed - 1
            BY <1>0, <4>3, <5>2
          <6>2. gate.tags[pipe[p].number % Tracked] =
                  [sequence |-> pipe[p].number, stamp |-> pipe[p].pair[1].stamp, valid |-> TRUE]
            BY <2>1, <3>11, <4>3, <5>2 DEF TagsAreKept
          <6> HIDE DEF r, tag
          <6>3. gate'.tags[pipe[p].number % Tracked] = gate.tags[pipe[p].number % Tracked]
            BY <3>6, <4>1, <6>1
          <6> QED
            BY <5>2, <6>2, <6>3
        <5> QED
          BY <3>9, <5>1, <5>2
      <4> QED
        BY <4>2, <4>3
    <3> QED
      BY <3>10, <3>11 DEF TagsAreKept
  <2> QED
    BY <1>5, <2>2, <2>3 DEF Push
<1>6. CASE SendRaw
  <2>1. pipe' = pipe /\ gate' = gate /\ masks' = masks /\ main.pc \notin Closing
    BY <1>6 DEF SendRaw, Closing
  <2> QED
    BY <2>1 DEF TagsAreKept
<1>7. CASE Losing
  BY <1>7, LosesOne DEF TagsAreKept
<1> QED
  BY <1>1, <1>2, <1>3, <1>4, <1>5, <1>6, <1>7, StepKinds

-----------------------------------------------------------------------------
(* What is sent. *)

(* The encoder lags by less than the gate admits, and tags stay true.      *)
LEMMA LagNext == ASSUME IInv, [Next]_vars PROVE LagIsBounded'
<1> USE NumberTypes, GateAssumption DEF IInv
<1>1. ASSUME wire' = wire, options' = options
      PROVE  LagIsBounded'
  BY <1>1 DEF LagIsBounded
<1>2. CASE Drain
  <2> DEFINE number == main.sent_sequence
             r == number % Tracked
             new == [number |-> number, stamp |-> EmittedStamp(gate, number, now),
                     mask |-> MaskOf(number), frame |-> pipe[Sink]]
  <2>1. /\ Sink \in 1 .. Sink /\ pipe[Sink] # NoFrame /\ main.pc \notin Closing
        /\ options' = options
    BY <1>2 DEF Drain, Sink, Closing
  <2>2. gate.emitted < gate.pushed /\ options.h264 /\ number = gate.emitted
    BY <2>1, FrameNumbers DEF NumbersAreBounded, GateCounts
  <2>3. /\ pipe[Sink].number \in Nat
        /\ number <= pipe[Sink].number /\ pipe[Sink].number < gate.pushed
    BY <2>1, <2>2, FrameNumbers
  <2>4. CASE wire' = new
    <3>1. wire'.frame = pipe[Sink] /\ wire'.number = number
      BY <2>4
    <3>2. MaxPending \in 1 .. Tracked => wire'.frame.number - wire'.number < MaxPending
      BY <2>2, <2>3, <3>1 DEF GateCounts
    <3>3. ASSUME MaxPending \in 1 .. Tracked
          PROVE  wire'.mask = number
      <4>1. number \in gate.emitted .. gate.pushed - 1
        BY <2>2
      <4>2. masks[r] = [sequence |-> number, of |-> number, valid |-> TRUE]
        BY <2>1, <3>3, <4>1 DEF TagsAreKept
      <4>3. MaskOf(number) = number
        BY <4>2 DEF MaskOf
      <4> QED
        BY <2>4, <4>3
    <3>4. ASSUME MaxPending \in 1 .. Tracked, pipe[Sink].number = number
          PROVE  wire'.stamp = pipe[Sink].pair[1].stamp
      <4>1. gate.tags[r] = [sequence |-> number, stamp |-> pipe[Sink].pair[1].stamp, valid |-> TRUE]
        BY <2>1, <3>4 DEF TagsAreKept
      <4>2. pipe[Sink].pair[1].stamp # 0
        BY <2>1 DEF PipeIsInOrder, InOrder, Real
      <4>3. EmittedStamp(gate, number, now) = pipe[Sink].pair[1].stamp
        BY <4>1, <4>2 DEF EmittedStamp, Tagged
      <4> QED
        BY <2>4, <4>3
    <3> HIDE DEF number
    <3> QED
      BY <2>1, <2>2, <2>3, <3>1, <3>2, <3>3, <3>4 DEF LagIsBounded
  <2> QED
    BY <1>1, <1>2, <2>1, <2>4 DEF Drain
<1>3. CASE SendRaw
  <2>1. options' = options /\ ~options.h264
    BY <1>3 DEF SendRaw
  <2>2. main.sent_sequence \in Int
    OBVIOUS
  <2>3. ASSUME NEW n \in Int,
               wire' = [number |-> n, stamp |-> main.left.stamp, mask |-> n,
                        frame |-> [number |-> n, pair |-> Pair(main.left, main.right)]]
        PROVE  LagIsBounded'
    <3>1. /\ wire'.frame.number = n /\ wire'.number = n /\ wire'.mask = n
          /\ wire'.stamp = main.left.stamp /\ wire'.frame.pair[1] = main.left
      BY <2>3 DEF Pair
    <3> QED
      BY <2>1, <3>1 DEF LagIsBounded
  <2> QED
    BY <1>1, <1>3, <2>1, <2>2, <2>3 DEF SendRaw
<1>4. CASE Elsewhere
  BY <1>1, <1>4 DEF Elsewhere
<1>5. CASE (\E place \in 1 .. 3 : Advance(place)) \/ DropSkewed \/ Refuse \/ Push
  BY <1>1, <1>5 DEF Advance, DropSkewed, Refuse, Push
<1>6. CASE Losing
  BY <1>1, <1>6, LosesOne
<1> QED
  BY <1>2, <1>3, <1>4, <1>5, <1>6, StepKinds

(* The inductive invariant holds throughout.                               *)
LEMMA InvariantHolds == Spec => []IInv
<1>1. Init => IInv
  BY ShapeInit, CamerasInit, CopiesInit, NumbersInit, PipeInit, TagsInit DEF IInv
<1>2. IInv /\ [Next]_vars => IInv'
  BY ShapeNext, CamerasNext, CopiesNext, NumbersNext, GateNext, PipeNext, TagsNext, LagNext
     DEF IInv
<1> QED
  BY <1>1, <1>2, PTL DEF Spec

-----------------------------------------------------------------------------
(* What the invariant says of the gate. *)

(* It has the shape of the state in it.                                    *)
LEMMA InvariantIsTyped == IInv => TypeOK
<1> SUFFICES ASSUME IInv PROVE TypeOK
  OBVIOUS
<1>1. Shape /\ NumbersAreBounded
  BY DEF IInv
<1>2. main.encode_sequence \in Numbers /\ main.sent_sequence \in Numbers
  BY <1>1, NumbersFit
<1> QED
  BY <1>1, <1>2 DEF Shape, TypeOK

(* The frames in the pipeline have numbers of their own, from those still  *)
(* to be pulled.                                                           *)
LEMMA InvariantCovers == IInv => GateCoversPipe
<1> SUFFICES ASSUME IInv PROVE GateCoversPipe
  OBVIOUS
<1>1. Shape /\ GateCounts /\ PipeIsInOrder
  BY DEF IInv
<1>2. /\ gate.pushed \in Nat /\ gate.emitted \in Nat /\ gate.emitted <= gate.pushed
      /\ MaxPending \in Nat
  BY <1>1, NumberTypes, GateAssumption DEF GateCounts
<1>3. Pending(gate) = gate.pushed - gate.emitted
  BY <1>2 DEF Pending
<1> DEFINE free == gate.emitted .. gate.pushed - 1
           numbers == [p \in InPipe |-> pipe[p].number]
<1>4. IsFiniteSet(free) /\ Cardinality(free) = gate.pushed - gate.emitted
  <2>1. gate.emitted \in Int /\ gate.pushed - 1 \in Int
    BY <1>2
  <2>2. /\ IsFiniteSet(free)
        /\ Cardinality(free) =
             IF gate.emitted > gate.pushed - 1 THEN 0 ELSE (gate.pushed - 1) - gate.emitted + 1
    BY <2>1, FS_Interval
  <2> QED
    BY <1>2, <2>2
<1>5. \A p \in InPipe : p \in 1 .. Sink /\ pipe[p].number \in free
  BY <1>1, <1>2, FrameNumbers DEF InPipe
<1>6. \A p, q \in InPipe : pipe[p].number = pipe[q].number => p = q
  <2> SUFFICES ASSUME NEW p \in InPipe, NEW q \in InPipe, p # q
               PROVE  pipe[p].number # pipe[q].number
    OBVIOUS
  <2>1. pipe[p].number \in Nat /\ pipe[q].number \in Nat /\ p \in Nat /\ q \in Nat
    BY <1>1, FrameNumbers DEF InPipe, Sink
  <2>2. p < q \/ q < p
    BY <2>1
  <2>3. pipe[p].number < pipe[q].number \/ pipe[q].number < pipe[p].number
    BY <1>1, <2>2 DEF PipeIsInOrder, InPipe
  <2> QED
    BY <2>1, <2>3
<1>7. numbers \in Injection(InPipe, free)
  BY <1>5, <1>6 DEF Injection, IsInjective
<1>8. Cardinality(InPipe) <= Cardinality(free)
  BY <1>4, <1>7, FS_Injection
<1> QED
  BY <1>1, <1>2, <1>3, <1>4, <1>8 DEF GateCoversPipe, GateCounts

(* An empty pipeline leaves the gate open, unless frames were lost.        *)
LEMMA InvariantLeavesRoom == IInv => LeaksLeaveRoom
<1> SUFFICES ASSUME IInv, MaxPending > 0, InPipe = {}, ~lost PROVE ~Full(gate)
  BY DEF LeaksLeaveRoom
<1>1. Shape /\ GateCounts
  BY DEF IInv
<1>2. \A p \in 1 .. Sink : pipe[p] = NoFrame
  BY DEF InPipe
<1>3. gate.pushed - gate.emitted < MaxPending
  BY <1>1, <1>2, NumberTypes, GateAssumption DEF GateCounts
<1> QED
  BY <1>1, <1>3, NumberTypes, GateAssumption DEF Full, Pending, GateCounts

(* When the program has ended, no camera is left open.                     *)
LEMMA InvariantReleases == IInv => EndsReleased
BY DEF IInv, CamerasHold, EndsReleased, Eyes

(* The gate's count covers the pipeline behind it and never exceeds the    *)
(* limit, leaky places, a coder that drops and samples that cannot be      *)
(* pulled notwithstanding; as long as none of the last two came, an empty  *)
(* pipeline leaves it open; numbers and frames stay together as far as the *)
(* limit says; and nothing is left open when the program ends.             *)
THEOREM GateIsAlwaysTrue == Spec => []GateIsTrue
<1>1. IInv => GateIsTrue
  BY InvariantIsTyped, InvariantCovers, InvariantLeavesRoom, InvariantReleases
     DEF GateIsTrue, IInv
<1> QED
  BY <1>1, InvariantHolds, PTL

-----------------------------------------------------------------------------
(* What is sent only goes forward: every pair is newer than the one before *)
(* in one eye at least and older in none, and its frames fit together.     *)
THEOREM PairsOnlyAdvance == Spec => PairsAdvance
<1> DEFINE Step == LET old == wire.frame.pair  new == wire'.frame.pair IN
     wire' # wire =>
       /\ new # old
       /\ \A i \in 1 .. 2 : new[i].sequence >= old[i].sequence
       /\ options.mono => new[1] = new[2]
       /\ ~options.mono => new[1].stamp - new[2].stamp \in -MaxSkew .. MaxSkew
<1>0. ASSUME Shape, NEW new \in PairFrames,
             Older(wire.frame.pair, new.pair), FitsTogether(new.pair), wire'.frame.pair = new.pair
      PROVE  Step
  <2>1. wire.frame \in PairFrames
    BY <1>0, NumberTypes
  <2>2. /\ wire.frame.pair[1].sequence \in Nat /\ wire.frame.pair[2].sequence \in Nat
        /\ new.pair[1].sequence \in Nat /\ new.pair[2].sequence \in Nat
    BY <2>1, PairTypes
  <2>3. new.pair # wire.frame.pair
    BY <1>0, <2>2 DEF Older
  <2>4. \A i \in 1 .. 2 : new.pair[i].sequence >= wire.frame.pair[i].sequence
    BY <1>0, <2>2 DEF Older
  <2> QED
    BY <1>0, <2>3, <2>4 DEF FitsTogether
<1>1. IInv /\ [Next]_vars => Step
  <2> SUFFICES ASSUME IInv, [Next]_vars PROVE Step
    OBVIOUS
  <2> HIDE DEF Step
  <2>1. ASSUME wire' = wire PROVE Step
    BY <2>1 DEF Step
  <2>2. CASE Drain
    <3>1. /\ Sink \in 1 .. Sink /\ pipe[Sink] # NoFrame /\ pipe[Sink] \in PairFrames
      BY <2>2, NumberTypes DEF Drain, Sink, IInv
    <3>2. Older(wire.frame.pair, pipe[Sink].pair) /\ FitsTogether(pipe[Sink].pair)
      BY <3>1 DEF IInv, PipeIsInOrder, InOrder
    <3> QED
      BY <1>0, <2>1, <2>2, <3>1, <3>2 DEF Drain, IInv
  <2>3. CASE SendRaw
    <3> DEFINE frame == [number |-> main.sent_sequence, pair |-> Pair(main.left, main.right)]
    <3>1. frame \in PairFrames
      <4>1. main.sent_sequence \in Numbers /\ main.left \in Frames /\ main.right \in Frames
        BY NumbersFit, NumberTypes DEF IInv
      <4> QED
        BY <4>1 DEF PairFrames, Pair
    <3>2. Fresh /\ SkewFits /\ main.pc = "examine"
      BY <2>3 DEF SendRaw
    <3>3. FitsTogether(frame.pair)
      BY <3>2, CopiesFit DEF IInv
    <3>4. Older(wire.frame.pair, frame.pair)
      BY <3>2, NumberTypes, CopiesAreNewer DEF IInv, PipeIsInOrder
    <3>5. wire'.frame = frame \/ wire' = wire
      BY <2>3 DEF SendRaw
    <3> HIDE DEF frame
    <3> QED
      BY <1>0, <2>1, <3>1, <3>3, <3>4, <3>5 DEF IInv
  <2>4. CASE Elsewhere
    BY <2>1, <2>4 DEF Elsewhere
  <2>5. CASE (\E place \in 1 .. 3 : Advance(place)) \/ DropSkewed \/ Refuse \/ Push
    BY <2>1, <2>5 DEF Advance, DropSkewed, Refuse, Push
  <2>6. CASE Losing
    BY <2>1, <2>6, LosesOne DEF IInv
  <2> QED
    BY <2>2, <2>3, <2>4, <2>5, <2>6, StepKinds DEF IInv
<1>2. IInv /\ [Next]_vars => [Step]_vars
  BY <1>1
<1> QED
  BY <1>2, InvariantHolds, PTL DEF Spec, PairsAdvance

-----------------------------------------------------------------------------
(* The hand-over from each camera to the loop implements Mailbox: the loop *)
(* takes frames that were completed, each newer than the one before.       *)
THEOREM CamerasHandOverLatest == Spec => HandsOverLatest
<1> DEFINE Offered(e) == eye[e].latest.sequence
<1>1. Init => LeftBox!Init /\ RightBox!Init
  BY DEF Init, LeftBox!Init, RightBox!Init, Blank, Eyes
<1>2. IInv /\ [Next]_vars => [LeftBox!Next]_LeftBox!vars /\ [RightBox!Next]_RightBox!vars
  <2> SUFFICES ASSUME IInv, [Next]_vars
               PROVE  [LeftBox!Next]_LeftBox!vars /\ [RightBox!Next]_RightBox!vars
    OBVIOUS
  <2> USE NumberTypes DEF IInv
  <2>0. /\ RightEye \in Eyes /\ "left" \in Eyes
        /\ \A e \in Eyes : Offered(e) \in Nat
        /\ options' = options
    <3>1. options' = options
      BY DEF Next, vars, Tick, Camera, Complete, Requeue, Advance, Main, StartUp, OpenEye,
             OpenSocketAndEncoder, StartEye, Loop, Wait, Drain, Drained, CopyLeft, CopyRight,
             ExamineAgain, DropSkewed, Refuse, Push, SendRaw, TearDown, StopRunning, Release,
             PullFails, CoderDrops, Lose
    <3>2. RightEye \in Eyes /\ "left" \in Eyes
      BY DEF RightEye, Eyes
    <3>3. eye \in [Eyes -> [running : BOOLEAN, latest : Frames]]
      BY DEF Shape
    <3>4. \A e \in Eyes : Offered(e) \in Nat
      BY <3>3 DEF Frames
    <3> QED
      BY <3>1, <3>2, <3>4
  <2>1. ASSUME \A e \in Eyes : eye'[e].latest = eye[e].latest,
               main'.last_left = main.last_left, main'.last_right = main.last_right
        PROVE  [LeftBox!Next]_LeftBox!vars /\ [RightBox!Next]_RightBox!vars
    BY <2>0, <2>1 DEF LeftBox!vars, RightBox!vars, RightEye
  <2>2. ASSUME NEW e \in Eyes, Complete(e)
        PROVE  [LeftBox!Next]_LeftBox!vars /\ [RightBox!Next]_RightBox!vars
    <3> DEFINE new == [sequence |-> Offered(e) + 1, stamp |-> now]
    <3>1. main' = main /\ (eye' = eye \/ eye' = [eye EXCEPT ![e].latest = new])
      BY <2>2 DEF Complete, Shape
    <3>2. CASE eye' = [eye EXCEPT ![e].latest = new]
      <4>1. eye \in [Eyes -> [running : BOOLEAN, latest : Frames]]
        BY DEF Shape
      <4>2. eye'[e].latest = new
        BY <3>2, <4>1
      <4>3. new.sequence = Offered(e) + 1
        OBVIOUS
      <4>4. \A x \in Eyes : x # e => eye'[x] = eye[x]
        BY <3>2, <4>1
      <4> HIDE DEF new
      <4>5. \A x \in Eyes : \/ eye'[x].latest = eye[x].latest
                            \/ eye'[x].latest.sequence = Offered(x) + 1
        BY <4>2, <4>3, <4>4
      <4>6. \A x \in Eyes : \/ eye'[x].latest.sequence = eye[x].latest.sequence
                            \/ /\ eye'[x].latest.sequence \in Nat
                               /\ eye'[x].latest.sequence > eye[x].latest.sequence
        BY <2>0, <4>5
      <4>7. [LeftBox!Next]_LeftBox!vars
        BY <2>0, <3>1, <4>6 DEF LeftBox!Next, LeftBox!Offer, LeftBox!vars
      <4>8. [RightBox!Next]_RightBox!vars
        BY <2>0, <3>1, <4>6 DEF RightBox!Next, RightBox!Offer, RightBox!vars, RightEye
      <4> QED
        BY <4>7, <4>8
    <3> QED
      BY <2>1, <3>1, <3>2
  <2>3. ASSUME eye' = eye,
               main'.last_left = main.left.sequence, main'.last_right = main.right.sequence
        PROVE  [LeftBox!Next]_LeftBox!vars /\ [RightBox!Next]_RightBox!vars
    <3>1. /\ main.last_left <= main.left.sequence /\ main.left.sequence <= Offered("left")
          /\ main.last_right <= main.right.sequence /\ main.right.sequence <= Offered(RightEye)
      BY DEF CopiesFollow
    <3>2. /\ main'.last_left = main.last_left \/ main'.last_left \in main.last_left + 1 .. Offered("left")
          /\ main'.last_right = main.last_right \/ main'.last_right \in main.last_right + 1 .. Offered(RightEye)
      BY <2>0, <2>3, <3>1
    <3>3. [LeftBox!Next]_LeftBox!vars
      BY <2>3, <3>2 DEF LeftBox!Next, LeftBox!Take, LeftBox!vars
    <3>4. [RightBox!Next]_RightBox!vars
      BY <2>0, <2>3, <3>2 DEF RightBox!Next, RightBox!Take, RightBox!vars, RightEye
    <3> QED
      BY <3>3, <3>4
  <2>4. CASE DropSkewed \/ Refuse
    <3>1. eye' = eye
      BY <2>4 DEF DropSkewed, Refuse
    <3>2. main'.last_left = main.left.sequence /\ main'.last_right = main.right.sequence
      BY <2>4, SeenKeepsShape DEF DropSkewed, Refuse, PCs
    <3> QED
      BY <2>3, <3>1, <3>2
  <2>5. CASE Push \/ SendRaw
    <3>1. eye' = eye
      BY <2>5 DEF Push, SendRaw
    <3>2. CASE GoTo("stop_right")
      <4>1. main'.last_left = main.last_left /\ main'.last_right = main.last_right
        BY <3>2 DEF GoTo, Shape
      <4> QED
        BY <2>1, <3>1, <4>1
    <3>3. ASSUME NEW pc \in PCs,
                 \/ main' = [Seen(pc) EXCEPT !.encode_sequence = @ + 1]
                 \/ main' = [Seen(pc) EXCEPT !.sent_sequence = @ + 1]
          PROVE  main'.last_left = main.left.sequence /\ main'.last_right = main.right.sequence
      BY <3>3, SeenKeepsShape
    <3>4. "wait" \in PCs /\ "drain_pushed" \in PCs
      BY DEF PCs
    <3> QED
      BY <2>3, <2>5, <3>1, <3>2, <3>3, <3>4 DEF Push, SendRaw
  <2>6. CASE (\E place \in 1 .. 3 : Advance(place)) \/ Tick \/ (\E e \in Eyes : Requeue(e))
    BY <2>1, <2>6 DEF Advance, Tick, Requeue
  <2>7. CASE Drain
    <3>1. main'.last_left = main.last_left /\ main'.last_right = main.last_right
      BY <2>7 DEF Drain, GoTo, Shape
    <3> QED
      BY <2>1, <2>7, <3>1 DEF Drain
  <2>13. CASE PullFails \/ CoderDrops
    <3>1. main'.last_left = main.last_left /\ main'.last_right = main.last_right
      BY <2>13 DEF PullFails, CoderDrops, GoTo, Shape
    <3>2. eye' = eye
      BY <2>13 DEF PullFails, CoderDrops, Lose
    <3> QED
      BY <2>1, <3>1, <3>2
  <2>8. CASE Wait \/ Drained \/ CopyLeft \/ CopyRight \/ ExamineAgain \/ OpenSocketAndEncoder
    <3>1. main'.last_left = main.last_left /\ main'.last_right = main.last_right
      BY <2>8 DEF Wait, Drained, CopyLeft, CopyRight, ExamineAgain, OpenSocketAndEncoder, GoTo, Shape
    <3>2. eye' = eye
      BY <2>8 DEF Wait, Drained, CopyLeft, CopyRight, ExamineAgain, OpenSocketAndEncoder
    <3> QED
      BY <2>1, <3>1, <3>2
  <2>9. ASSUME NEW e \in Eyes, NEW at, NEW next,
               \/ OpenEye(e, at, next) \/ StartEye(e, at, next)
               \/ StopRunning(e, at, next) \/ Release(e, at, next)
        PROVE  [LeftBox!Next]_LeftBox!vars /\ [RightBox!Next]_RightBox!vars
    <3>1. main'.last_left = main.last_left /\ main'.last_right = main.last_right
      BY <2>9 DEF OpenEye, StartEye, StopRunning, Release, GoTo, Shape
    <3>2. ASSUME NEW b \in BOOLEAN, eye' = [eye EXCEPT ![e].running = b]
          PROVE  \A x \in Eyes : eye'[x].latest = eye[x].latest
      BY <3>2 DEF Shape
    <3>3. \A x \in Eyes : eye'[x].latest = eye[x].latest
      BY <2>9, <3>2 DEF OpenEye, StartEye, StopRunning, Release
    <3> QED
      BY <2>1, <3>1, <3>3
  <2>10. CASE StartUp
    BY <2>8, <2>9, <2>10 DEF StartUp, Eyes
  <2>11. CASE TearDown
    BY <2>9, <2>11 DEF TearDown, Eyes
  <2>12. CASE UNCHANGED vars
    BY <2>1, <2>12 DEF vars
  <2> QED
    BY <2>2, <2>4, <2>5, <2>6, <2>7, <2>8, <2>10, <2>11, <2>12, <2>13 DEF Next, Camera, Main, Loop
<1> QED
  BY <1>1, <1>2, InvariantHolds, PTL DEF Spec, HandsOverLatest, LeftBox!Spec, RightBox!Spec
=============================================================================
