----------------------------- MODULE ImtRestart -----------------------------
(***************************************************************************)
(* A sender that dies and is started again, as seen by the receiver.  The  *)
(* new process numbers its frames from 1 while the ImtAssembler still      *)
(* compares with the numbers of the old one: which frames does it refuse,  *)
(* when does the picture come back, and can the two runs be mixed up?      *)
(*                                                                         *)
(* The network keeps the order here, and loses datagrams until it becomes  *)
(* calm (ImtTransport has reordering, within one run).  Requests for a     *)
(* retry are left out: they name a frame of a process that is gone.        *)
(***************************************************************************)
EXTENDS ImtAssembler

CONSTANTS
  LastOld,       \* bound: frames the first process sends
  LastNew,       \* bound: frames the second process sends
  RestartSizes   \* sizes a keyframe may have, in bytes

RestartAssumption ==
  /\ LastOld \in Nat /\ LastNew \in Nat /\ LastOld < LastNew
  /\ RestartSizes \subseteq Nat \ {0}

VARIABLES
  process,  \* which process is sending: the first or the second
  seq,      \* CaptureCtx.frame_seq: frames it has sent
  network,  \* datagrams on their way
  calm,     \* environment: no more losses
  encoded   \* history: the frames that were encoded

senderVars  == << process, seq, network, calm, encoded >>
restartVars == << senderVars, vars >>

(* Every second frame is a keyframe, beginning with the first. *)
IsKey(n) == n % 2 = 1

Encoded(p, n, size) ==
  [seq |-> n, size |-> size, keyframe |-> IsKey(n), weights |-> Uniform, content |-> << p, n >>]

SizesOf(n) == IF IsKey(n) THEN RestartSizes ELSE {1}

SentAs(p, n) == {Encoded(p, n, s) : s \in SizesOf(n)}

AllFrames == UNION {SentAs(p, n) : p \in 1 .. 2, n \in 1 .. LastNew}

-----------------------------------------------------------------------------
SenderInit == process = 1 /\ seq = 0 /\ network = << >> /\ calm = FALSE /\ encoded = {}

EnableRetry ==
  /\ seq = 0 /\ process = 1
  /\ SetKeyframeRetryEnabled(TRUE)
  /\ UNCHANGED senderVars

(* The network keeps the order, so one frame at a time is on its way. *)
SendFrame ==
  /\ network = << >>
  /\ seq < (IF process = 1 THEN LastOld ELSE LastNew)
  /\ seq' = seq + 1
  /\ \E size \in SizesOf(seq + 1) :
       LET frame == Encoded(process, seq + 1, size)
       IN  /\ network' = FrameLayout(frame)
           /\ encoded' = encoded \cup {frame}
  /\ UNCHANGED << process, calm, vars >>

(* Whatever the old process knew is gone. *)
Restart ==
  /\ process = 1
  /\ process' = 2
  /\ seq' = 0
  /\ UNCHANGED << network, calm, encoded, vars >>

Lose ==
  /\ network # << >> /\ ~calm
  /\ network' = Tail(network)
  /\ UNCHANGED << process, seq, calm, encoded, vars >>

Deliver ==
  /\ network # << >>
  /\ network' = Tail(network)
  /\ PushDatagram(Head(network))
  /\ UNCHANGED << process, seq, calm, encoded >>

(* It must become calm while there are numbers left the receiver has not   *)
(* seen: two keyframes, since the first may be used up in closing the gate.*)
BecomeCalm ==
  /\ ~calm /\ process = 2 /\ seq + 2 < LastNew
  /\ calm' = TRUE
  /\ UNCHANGED << process, seq, network, encoded, vars >>

RestartNext == EnableRetry \/ SendFrame \/ Restart \/ Lose \/ Deliver \/ BecomeCalm

-----------------------------------------------------------------------------
OnShow(f) ==
  /\ f.seq = latest.seq /\ f.size = latest.size /\ f.keyframe = latest.keyframe
  /\ latest.data = [c \in 0 .. ChunkCount(f.size) - 1 |-> ChunkBytes(f, c)]

(* What is shown is bit for bit a frame of one of the two processes; only  *)
(* frames of both that have the same number and the very same size can be  *)
(* taken for one another and mixed.                                        *)
OneProcessIsShown ==
  latest.size # 0 =>
    \/ \E f \in encoded : OnShow(f)
    \/ \E f, g \in encoded : /\ f.content # g.content
                             /\ f.seq = latest.seq /\ g.seq = latest.seq
                             /\ f.size = latest.size /\ g.size = latest.size

(* The picture comes back: whatever was lost before and across the         *)
(* restart, and whatever keyframe the gate was waiting for, once nothing   *)
(* more is lost a frame of the new process is shown.                       *)
PictureComesBack == calm ~> (\E f \in encoded : f.content[1] = 2 /\ OnShow(f))
=============================================================================
