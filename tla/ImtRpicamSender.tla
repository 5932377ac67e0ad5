-------------------------- MODULE ImtRpicamSender --------------------------
(***************************************************************************)
(* mps_imt_rpicam_sbs_sender.c: the loop that reads a frame from each of   *)
(* two rpicam-vid pipes and sends them as one, and the feedback thread     *)
(* whose controller slows the loop down.  Frames are numbered modulo Numbers. *)
(***************************************************************************)
EXTENDS ImtPaceLaw

CONSTANTS
  Numbers,      \* bound: frame numbers
  FrameTime,    \* 1000000 / fps
  Ages          \* frame ages the receiver reports

(* What the constants have to be. *)
SenderAssumption ==
  /\ Numbers \in Nat \ {0}
  /\ FrameTime \in Nat \ {0}
  /\ Ages \subseteq Nat

VARIABLES
  main,      \* pc, frame_seq, the numbers of the left and the right frame it has read
  pipes,     \* how many frames each pipe has been read for
  feedback,  \* FeedbackState: fd and lock, whether recv times out, stop; feedback_started
  thread,    \* of the feedback receiver
  pace,      \* integ, rate
  linked,    \* whether feedback can still arrive
  slept      \* history: by how much the last frame was held back

vars == << main, pipes, feedback, thread, pace, linked, slept >>

-----------------------------------------------------------------------------
Init ==
  /\ main = [pc |-> "start", frame_seq |-> 0]
  /\ pipes = [left |-> 0, right |-> 0]
  /\ feedback = [open |-> FALSE, lock |-> FALSE, timed |-> FALSE, stop |-> FALSE, started |-> FALSE]
  /\ thread = "none"
  /\ pace = [integ |-> 0, rate |-> One]
  /\ linked = TRUE
  /\ slept = 0

GoTo(pc) == main' = [main EXCEPT !.pc = pc]

(* feedback_state_start: socket, bind or thread may fail; what has been    *)
(* set up is taken back and the sender goes on without feedback.  That the *)
(* timeout of recv cannot be set goes unnoticed.                           *)
StartFeedback ==
  /\ main.pc = "start"
  /\ \/ /\ \E timed \in BOOLEAN :
             feedback' = [open |-> TRUE, lock |-> TRUE, timed |-> timed, stop |-> FALSE, started |-> TRUE]
        /\ thread' = "recv"
     \/ UNCHANGED << feedback, thread >>
  /\ GoTo("read_left")
  /\ UNCHANGED << pipes, pace, linked, slept >>

(* read_exact: a pipe that ends, also in the middle of a frame, ends the loop. *)
ReadLeft ==
  /\ main.pc = "read_left"
  /\ \/ GoTo("read_right") /\ pipes' = [pipes EXCEPT !.left = (@ + 1) % Numbers]
     \/ GoTo("stop") /\ UNCHANGED pipes
  /\ UNCHANGED << feedback, thread, pace, linked, slept >>

ReadRight ==
  /\ main.pc = "read_right"
  /\ \/ GoTo("send") /\ pipes' = [pipes EXCEPT !.right = (@ + 1) % Numbers]
     \/ GoTo("stop") /\ UNCHANGED pipes
  /\ UNCHANGED << feedback, thread, pace, linked, slept >>

(* What sending returns is ignored; that no weights can be had is not. *)
Send ==
  /\ main.pc = "send"
  /\ \/ GoTo(IF feedback.started THEN "pace" ELSE "next")
     \/ GoTo("stop")
  /\ UNCHANGED << pipes, feedback, thread, pace, linked, slept >>

Extra(rate) == IF rate >= One THEN 0 ELSE (FrameTime * (One - rate)) \div One

Pace ==
  /\ main.pc = "pace"
  /\ slept' = Extra(pace.rate)
  /\ GoTo("next")
  /\ UNCHANGED << pipes, feedback, thread, pace, linked >>

NextFrame ==
  /\ main.pc = "next"
  /\ main' = [pc |-> "read_left", frame_seq |-> (main.frame_seq + 1) % Numbers]
  /\ UNCHANGED << pipes, feedback, thread, pace, linked, slept >>

(* feedback_state_stop: the thread is told to stop, joined, and its socket *)
(* and lock are given back.  Nothing wakes it from recv.                   *)
Stop ==
  /\ main.pc = "stop"
  /\ feedback' = [feedback EXCEPT !.stop = feedback.started]
  /\ GoTo(IF feedback.started THEN "join" ELSE "ended")
  /\ UNCHANGED << pipes, thread, pace, linked, slept >>

JoinAndClose ==
  /\ main.pc = "join"
  /\ thread = "ended"
  /\ feedback' = [feedback EXCEPT !.open = FALSE, !.lock = FALSE]
  /\ GoTo("ended")
  /\ UNCHANGED << pipes, thread, pace, linked, slept >>

Main ==
  \/ StartFeedback \/ ReadLeft \/ ReadRight \/ Send \/ Pace \/ NextFrame
  \/ Stop \/ JoinAndClose

-----------------------------------------------------------------------------
(* feedback_thread: recv returns with a message, after 100 ms without one   *)
(* if it has a timeout, or with an error, which ends the thread.           *)

Receive ==
  /\ thread = "recv" /\ linked
  /\ \E age \in Ages :
       LET integ == Accumulate(pace.integ, Error(age))
       IN  pace' = [integ |-> integ, rate |-> RateFor(integ, Error(age))]
  /\ thread' = "check"
  /\ UNCHANGED << main, pipes, feedback, linked, slept >>

(* Defect: recv waits for a message as long as it takes. *)
NoTimeOut == FALSE /\ UNCHANGED vars

TimeOut ==
  /\ thread = "recv" /\ feedback.timed
  /\ thread' = "check"
  /\ UNCHANGED << main, pipes, feedback, pace, linked, slept >>

ReceiveFails ==
  /\ thread = "recv"
  /\ thread' = "ended"
  /\ UNCHANGED << main, pipes, feedback, pace, linked, slept >>

CheckStop ==
  /\ thread = "check"
  /\ thread' = IF feedback.stop THEN "ended" ELSE "recv"
  /\ UNCHANGED << main, pipes, feedback, pace, linked, slept >>

Feedback == Receive \/ TimeOut \/ ReceiveFails \/ CheckStop

(* The receiver goes away. *)
Unlink ==
  /\ linked
  /\ linked' = FALSE
  /\ UNCHANGED << main, pipes, feedback, thread, pace, slept >>

Next == Main \/ Feedback \/ Unlink

(* Both threads go on; recv returns after its timeout, if it has one. *)
Fairness == WF_vars(Main) /\ WF_vars(CheckStop) /\ WF_vars(TimeOut)

Spec == Init /\ [][Next]_vars /\ Fairness

-----------------------------------------------------------------------------
(* The shape of the state. *)
TypeOK ==
  /\ main.frame_seq \in 0 .. Numbers - 1
  /\ pipes \in [left : 0 .. Numbers - 1, right : 0 .. Numbers - 1]
  /\ feedback \in [open : BOOLEAN, lock : BOOLEAN, timed : BOOLEAN, stop : BOOLEAN, started : BOOLEAN]
  /\ thread \in {"none", "recv", "check", "ended"}
  /\ pace.integ \in IntegMin .. IntegMax /\ pace.rate \in RateMin .. RateMax
  /\ linked \in BOOLEAN

(* The pipes carry no times: a pair is what has been read equally often    *)
(* from both.  It is never sent otherwise, whichever pipe ends.            *)
PairedByCount ==
  main.pc = "send" =>
    pipes.left = pipes.right /\ pipes.left = (main.frame_seq + 1) % Numbers

(* Whatever the receiver reports, a frame is held back for less than the   *)
(* time of one: the loop never falls behind by a whole frame per frame.    *)
HeldBackBriefly == slept < FrameTime

(* As long as the feedback thread runs, its socket and its lock exist.     *)
JoinedBeforeClosed ==
  thread \in {"recv", "check"} => feedback.open /\ feedback.lock

(* When a camera ends, so does the sender, feedback or no feedback.  Only  *)
(* where the timeout of recv could not be set, and nothing arrives, does    *)
(* the join wait for the thread for ever.                                  *)
EndsWithCamera ==
  main.pc = "stop" ~>
    \/ main.pc = "ended"
    \/ [](main.pc = "join" /\ thread = "recv" /\ ~feedback.timed)

=============================================================================
