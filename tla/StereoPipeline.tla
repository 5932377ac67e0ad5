--------------------------- MODULE StereoPipeline ---------------------------
(***************************************************************************)
(* The threads of mps_stereo_x264_sender.c with the rpicam backend: the    *)
(* capture thread fills a triple buffer with camera pairs, main hands the  *)
(* newest pair to the two eye workers and waits for both, and a failing    *)
(* camera brings all of them down.                                         *)
(*                                                                         *)
(* A step is a critical section (of CaptureCtx.lock or EyeWorker.lock),    *)
(* or what a thread does between two of them.  A thread that finds its     *)
(* condition false goes to sleep in the same step, as pthread_cond_wait    *)
(* does; a signal wakes a sleeper and is lost when nobody sleeps; and a    *)
(* sleeper may wake up for no reason.                                      *)
(***************************************************************************)
EXTENDS Integers, FiniteSets, Sequences, SequencesExt

CONSTANTS
  SlotCount,  \* CAPTURE_SLOT_COUNT
  MaxPairs    \* bound: pairs the camera delivers

ASSUME PipelineAssumption == SlotCount \in Nat /\ SlotCount >= 3 /\ MaxPairs \in Nat

VARIABLES
  capture,  \* the capture thread: pc, and the slot it fills
  cap,      \* CaptureCtx, under its lock
  slotSeq,  \* slot_frame_seq
  buf,      \* what each eye's buffer of a slot holds: a pair's number, or Torn
  main,     \* the main thread: pc, the eye it deals with, front, last_cap_seq
  skipped,  \* skipped_capture_frames
  worker,   \* the two EyeWorkers, under their locks
  handed    \* history: the pairs main has handed to the workers

vars == << capture, cap, slotSeq, buf, main, skipped, worker, handed >>

-----------------------------------------------------------------------------
Eyes == {1, 2}                \* left, right: the order in which main serves them
Slots == 0 .. SlotCount - 1
None == -1
Torn == -1                    \* a buffer that is being overwritten

(* What a worker is given, and what it works from: its own copy of that. *)
NoJob == [slot |-> None, seq |-> 0, generation |-> 0]

Init ==
  /\ capture = [pc |-> "choose", slot |-> None]
  /\ cap = [write |-> 0, writer |-> None, latest |-> None, reader |-> None,
            seq |-> 0, stop |-> FALSE, error |-> FALSE]
  /\ slotSeq = [s \in Slots |-> 0]
  /\ buf = [e \in Eyes |-> [s \in Slots |-> 0]]
  /\ main = [pc |-> "take", eye |-> 1, front |-> None, last |-> 0]
  /\ skipped = 0
  /\ worker = [e \in Eyes |-> [pc |-> "idle", job |-> NoJob, serving |-> NoJob,
                               completed |-> 0, stop |-> FALSE]]
  /\ handed = << >>

-----------------------------------------------------------------------------
(* Defect: main is not signalled. *)
NoSignal == main

(* Signals: of CaptureCtx.cond, EyeWorker.wake and EyeWorker.done. *)
SignalMain == IF main.pc = "take asleep" THEN [main EXCEPT !.pc = "take"] ELSE main

Woken(w) == IF w.pc = "asleep" THEN "idle" ELSE w.pc

SignalDone(e) ==
  IF main.pc = "await asleep" /\ main.eye = e THEN [main EXCEPT !.pc = "await"] ELSE main

-----------------------------------------------------------------------------
(* Defect: the slot that is being encoded is free to be overwritten. *)
FreeForWriter(s) == s \notin {cap.latest, cap.writer}

(* capture_loop *)
Free(s) == s \notin {cap.latest, cap.reader, cap.writer}

Candidate(i) == (cap.write + i) % SlotCount

(* Without a free slot the thread would sleep a millisecond and try again, *)
(* which changes nothing.                                                  *)
ChooseWriteSlot ==
  /\ capture.pc = "choose"
  /\ ~cap.stop
  /\ \E i \in Slots :
       /\ Free(Candidate(i)) /\ \A j \in 0 .. i - 1 : ~Free(Candidate(j))
       /\ cap' = [cap EXCEPT !.write = Candidate(i), !.writer = Candidate(i)]
       /\ capture' = [pc |-> "read", slot |-> Candidate(i)]
  /\ UNCHANGED << slotSeq, buf, main, skipped, worker, handed >>

(* read_camera_pair takes both eyes' bytes as they come. *)
ReadBytes(e) ==
  /\ capture.pc = "read"
  /\ cap.seq < MaxPairs
  /\ buf[e][capture.slot] # cap.seq + 1
  /\ \E b \in {Torn, cap.seq + 1} :
       /\ b # buf[e][capture.slot]
       /\ buf' = [buf EXCEPT ![e][capture.slot] = b]
  /\ UNCHANGED << capture, cap, slotSeq, main, skipped, worker, handed >>

PublishPair ==
  /\ capture.pc = "read"
  /\ \A e \in Eyes : buf[e][capture.slot] = cap.seq + 1
  /\ cap' = [cap EXCEPT !.seq = cap.seq + 1, !.latest = capture.slot, !.writer = None,
                        !.write = (capture.slot + 1) % SlotCount]
  /\ slotSeq' = [slotSeq EXCEPT ![capture.slot] = cap.seq + 1]
  /\ main' = SignalMain
  /\ capture' = [capture EXCEPT !.pc = "choose"]
  /\ UNCHANGED << buf, skipped, worker, handed >>

CameraFails ==
  /\ capture.pc = "read"
  /\ cap' = [cap EXCEPT !.error = TRUE, !.stop = TRUE]
  /\ main' = SignalMain
  /\ capture' = [capture EXCEPT !.pc = "ended"]
  /\ UNCHANGED << slotSeq, buf, skipped, worker, handed >>

-----------------------------------------------------------------------------
(* main *)
NothingNew == cap.latest = None \/ cap.seq = main.last

SleepUntilCaptured ==
  /\ main.pc = "take"
  /\ NothingNew /\ ~cap.stop
  /\ main' = [main EXCEPT !.pc = "take asleep"]
  /\ UNCHANGED << capture, cap, slotSeq, buf, skipped, worker, handed >>

(* Defect: the pair that is taken counts as skipped. *)
NewlySkippedAndTaken(seq) ==
  IF main.last # 0 /\ seq > main.last + 1 THEN seq - main.last ELSE 0

NewlySkipped(seq) ==
  IF main.last # 0 /\ seq > main.last + 1 THEN seq - main.last - 1 ELSE 0

TakeLatest ==
  /\ main.pc = "take"
  /\ ~NothingNew /\ ~cap.error
  /\ LET seq == slotSeq[cap.latest]
     IN  /\ main' = [pc |-> "submit", eye |-> 1, front |-> cap.latest, last |-> seq]
         /\ skipped' = skipped + NewlySkipped(seq)
         /\ handed' = Append(handed, seq)
  /\ cap' = [cap EXCEPT !.reader = cap.latest]
  /\ UNCHANGED << capture, slotSeq, buf, worker >>

GiveUp ==
  /\ main.pc = "take"
  /\ cap.error
  /\ main' = [main EXCEPT !.pc = "stop", !.eye = 1]
  /\ UNCHANGED << capture, cap, slotSeq, buf, skipped, worker, handed >>

(* The next eye, or on to the next thing when both have been served. *)
NextEye(pc, after) ==
  IF main.eye = 1 THEN [main EXCEPT !.pc = pc, !.eye = 2] ELSE [main EXCEPT !.pc = after, !.eye = 1]

(* eye_worker_submit *)
SubmitJob ==
  /\ main.pc = "submit"
  /\ worker' = [worker EXCEPT ![main.eye] =
                  [@ EXCEPT !.job = [slot |-> main.front, seq |-> main.last,
                                     generation |-> worker[main.eye].job.generation + 1],
                            !.pc = Woken(worker[main.eye])]]
  /\ main' = NextEye("submit", "await")
  /\ UNCHANGED << capture, cap, slotSeq, buf, skipped, handed >>

(* eye_worker_wait *)
AwaitJob ==
  /\ main.pc = "await"
  /\ main' = IF worker[main.eye].completed < worker[main.eye].job.generation
             THEN [main EXCEPT !.pc = "await asleep"]
             ELSE NextEye("await", "release")
  /\ UNCHANGED << capture, cap, slotSeq, buf, skipped, worker, handed >>

(* Defect: with the slot main forgets which pair it has taken. *)
ReleaseAndForget ==
  /\ main.pc = "release"
  /\ cap' = IF cap.reader = main.front THEN [cap EXCEPT !.reader = None] ELSE cap
  /\ main' = [main EXCEPT !.pc = "take", !.last = 0]
  /\ UNCHANGED << capture, slotSeq, buf, skipped, worker, handed >>

ReleaseSlot ==
  /\ main.pc = "release"
  /\ cap' = IF cap.reader = main.front THEN [cap EXCEPT !.reader = None] ELSE cap
  /\ main' = [main EXCEPT !.pc = "take"]
  /\ UNCHANGED << capture, slotSeq, buf, skipped, worker, handed >>

(* eye_worker_destroy: stop the worker, then join it. *)
StopWorker ==
  /\ main.pc = "stop"
  /\ worker' = [worker EXCEPT ![main.eye] =
                  [@ EXCEPT !.stop = TRUE, !.pc = Woken(worker[main.eye])]]
  /\ main' = [main EXCEPT !.pc = "join"]
  /\ UNCHANGED << capture, cap, slotSeq, buf, skipped, handed >>

JoinWorker ==
  /\ main.pc = "join"
  /\ worker[main.eye].pc = "ended"
  /\ main' = NextEye("stop", "join capture")
  /\ UNCHANGED << capture, cap, slotSeq, buf, skipped, worker, handed >>

JoinCapture ==
  /\ main.pc = "join capture"
  /\ capture.pc = "ended"
  /\ main' = [main EXCEPT !.pc = "exited"]
  /\ UNCHANGED << capture, cap, slotSeq, buf, skipped, worker, handed >>

-----------------------------------------------------------------------------
(* eye_worker_loop *)
LookForJob(e) ==
  /\ worker[e].pc = "idle"
  /\ worker' = [worker EXCEPT ![e] =
       IF @.stop THEN [@ EXCEPT !.pc = "ended"]
       ELSE IF @.job.generation = @.completed THEN [@ EXCEPT !.pc = "asleep"]
       ELSE [@ EXCEPT !.pc = "encode", !.serving = worker[e].job]]
  /\ UNCHANGED << capture, cap, slotSeq, buf, main, skipped, handed >>

FinishJob(e) ==
  /\ worker[e].pc = "encode"
  /\ worker' = [worker EXCEPT ![e] = [@ EXCEPT !.pc = "idle", !.completed = worker[e].serving.generation]]
  /\ main' = SignalDone(e)
  /\ UNCHANGED << capture, cap, slotSeq, buf, skipped, handed >>

-----------------------------------------------------------------------------
(* pthread_cond_wait may return without a signal. *)
SpuriousWakeup ==
  \/ /\ main.pc = "take asleep"
     /\ main' = [main EXCEPT !.pc = "take"]
     /\ UNCHANGED worker
  \/ /\ main.pc = "await asleep"
     /\ main' = [main EXCEPT !.pc = "await"]
     /\ UNCHANGED worker
  \/ /\ \E e \in Eyes : /\ worker[e].pc = "asleep"
                        /\ worker' = [worker EXCEPT ![e].pc = "idle"]
     /\ UNCHANGED main

Wakeup ==
  /\ SpuriousWakeup
  /\ UNCHANGED << capture, cap, slotSeq, buf, skipped, handed >>

MainStep ==
  \/ SleepUntilCaptured \/ TakeLatest \/ GiveUp
  \/ SubmitJob \/ AwaitJob \/ ReleaseSlot
  \/ StopWorker \/ JoinWorker \/ JoinCapture

WorkerStep(e) == LookForJob(e) \/ FinishJob(e)

Next ==
  \/ ChooseWriteSlot \/ (\E e \in Eyes : ReadBytes(e)) \/ PublishPair \/ CameraFails
  \/ MainStep
  \/ \E e \in Eyes : WorkerStep(e)
  \/ Wakeup

(* Every thread runs on; the camera may stall, or work for ever, and       *)
(* nobody may count on a spurious wakeup.                                  *)
Fairness ==
  /\ WF_vars(ChooseWriteSlot)
  /\ WF_vars(PublishPair)
  /\ WF_vars(MainStep)
  /\ \A e \in Eyes : WF_vars(WorkerStep(e))

Spec == Init /\ [][Next]_vars /\ Fairness

-----------------------------------------------------------------------------
MainPC == {"take", "take asleep", "submit", "await", "await asleep", "release",
           "stop", "join", "join capture", "exited"}

Job == [slot : Slots \cup {None}, seq : 0 .. MaxPairs, generation : Nat]

(* The shape of the state. *)
TypeOK ==
  /\ capture \in [pc : {"choose", "read", "ended"}, slot : Slots \cup {None}]
  /\ cap \in [write : Slots, writer : Slots \cup {None}, latest : Slots \cup {None},
              reader : Slots \cup {None}, seq : 0 .. MaxPairs, stop : BOOLEAN, error : BOOLEAN]
  /\ slotSeq \in [Slots -> 0 .. MaxPairs]
  /\ buf \in [Eyes -> [Slots -> -1 .. MaxPairs]]
  /\ main \in [pc : MainPC, eye : Eyes, front : Slots \cup {None}, last : 0 .. MaxPairs]
  /\ skipped \in Nat
  /\ worker \in [Eyes -> [pc : {"idle", "asleep", "encode", "ended"},
                          job : Job, serving : Job, completed : Nat, stop : BOOLEAN]]
  /\ handed \in Seq(1 .. MaxPairs)

(* A slow encoder never stalls the camera: the capture thread always finds *)
(* a slot that is neither the newest, nor being read, nor being written.   *)
CaptureNeverStalls == capture.pc = "choose" => \E i \in Slots : Free(Candidate(i))

(* "a slow encode on one eye cannot tear the other eye's buffer": as long  *)
(* as a worker encodes, its buffer holds the pair it was given, whole.     *)
NoTearing ==
  \A e \in Eyes : worker[e].pc = "encode" =>
    worker[e].serving.slot \in Slots /\ buf[e][worker[e].serving.slot] = worker[e].serving.seq

(* The two eyes stay paired: they work on the same capture whenever both   *)
(* work, and neither starts on a pair before both are done with the last.  *)
EyesStayPaired ==
  \A e, o \in Eyes :
    worker[e].pc = "encode" =>
      /\ worker[o].pc = "encode" => worker[o].serving = worker[e].serving
      /\ worker[o].completed >= worker[e].serving.generation - 1

(* What EyeStream assumes of main: a worker is given a newer frame, and    *)
(* only after it has finished the one before.                              *)
HandsOverNewer ==
  [][\A e \in Eyes : worker'[e].job # worker[e].job =>
       /\ worker[e].completed = worker[e].job.generation
       /\ worker[e].pc \in {"idle", "asleep"}
       /\ worker'[e].job.seq > worker[e].job.seq]_vars

(* The triple buffer with its slots, locks and signals is a mailbox: main  *)
(* takes pairs the cameras have delivered, each newer than the one before. *)
Box == INSTANCE Mailbox WITH offered <- cap.seq, taken <- main.last

IsAMailbox == Box!Spec

(* What main passes on, to itself from the cameras and from there to the   *)
(* workers, is newer each time.                                            *)
PassesOnNewer == IsAMailbox /\ HandsOverNewer

(* skipped_capture_frames counts exactly the pairs between the first and   *)
(* the last one handed over that were never handed over.                   *)
SkippedIsExact ==
  skipped = IF handed = << >> THEN 0
            ELSE Cardinality((handed[1] .. Last(handed)) \ Range(handed))

(* What the triple buffer is for, in one: the camera goes on, nobody       *)
(* encodes from a buffer that is being written, and the eyes stay a pair.  *)
SlotsAreSafe == TypeOK /\ CaptureNeverStalls /\ NoTearing /\ EyesStayPaired

(* No signal is lost: a pair newer than the last one taken is taken, or a  *)
(* newer one is, unless the camera fails.                                  *)
NewestIsTaken ==
  \A n \in 1 .. MaxPairs : cap.seq = n ~> main.last >= n \/ cap.error

(* A camera failure, whenever it comes, ends the program: every thread is  *)
(* woken and joined.                                                       *)
FailureEndsAll == cap.error ~> main.pc = "exited"
=============================================================================
