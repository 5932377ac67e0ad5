---------------------------- MODULE ImtTransport ----------------------------
(***************************************************************************)
(* One eye end to end: the sender's EyeStream, a network that loses,       *)
(* duplicates and reorders in both directions, the receiver's ImtAssembler *)
(* and the adapter that turns a lost keyframe into a KEYFRAME_NACK.        *)
(*                                                                         *)
(* The adapter is not part of this repository; it is modelled from what    *)
(* R14.2 and the assembler's last_incomplete_* fields expect of it.        *)
(***************************************************************************)
EXTENDS ImtLayout

CONSTANTS LastSeq, KeySizes, InterSizes, TailBound,   \* of EyeStream
          MaxFrameSize                                \* of ImtAssembler

ASSUME TransportAssumption ==
  /\ LastSeq \in Nat
  /\ KeySizes \subseteq Nat \ {0} /\ InterSizes \subseteq Nat \ {0}
  /\ TailBound \in Nat
  /\ MaxFrameSize \in Nat \ {0}

VARIABLES pc, job, nal, bytes, capacity, cache, pending, sent,
          latest, active, received, chunksReceived, groups, staging,
          retryEnabled, retryPending, retrySeq, incomplete, map,
          nacks,  \* the keyframes the adapter has asked for
          owed,   \* history: a keyframe known to be lost and not made good; -1: none
          skipped \* history: the first interframe the gate dropped since the last
                  \* keyframe newer than it; -1: none

senderVars   == << pc, job, nal, bytes, capacity, cache, pending, sent >>
receiverVars == << latest, active, received, chunksReceived, groups, staging,
                   retryEnabled, retryPending, retrySeq, incomplete, map >>
vars == << senderVars, receiverVars, nacks, owed, skipped >>

Sender == INSTANCE EyeStream

(* Every datagram the sender could ever produce. *)
AllFrames ==
  UNION {{Sender!Encoded(seq, size, TRUE) : size \in KeySizes}
           \cup {Sender!Encoded(seq, size, FALSE) : size \in InterSizes} : seq \in 1 .. LastSeq}

AllDatagrams ==
  UNION {FrameDatagrams(f) \cup FrameDatagrams(Sender!Dense(f)) : f \in AllFrames}

Receiver == INSTANCE ImtAssembler
  WITH MapCapacity <- 1, Datagrams <- AllDatagrams,
       Token <- (0 .. LastSeq) \X Nat

-----------------------------------------------------------------------------
(* What the network may deliver: anything that was sent, any number of     *)
(* times, in any order, or never.                                          *)
InFlight == UNION {{FrameLayout(t.frame)[k] : k \in 1 .. t.count} : t \in Range(sent)}

Init ==
  /\ Sender!Init
  /\ Receiver!Init
  /\ nacks = {}
  /\ owed = -1
  /\ skipped = -1

SenderStep ==
  /\ Sender!Submit \/ Sender!Worker
  /\ UNCHANGED << receiverVars, nacks, owed, skipped >>

(* The receiver is told once, at its start, to expect retries.             *)
EnableRetry ==
  /\ ~retryEnabled
  /\ Receiver!SetKeyframeRetryEnabled(TRUE)
  /\ UNCHANGED << senderVars, nacks, owed, skipped >>

GateDrops(d) ==
  /\ Receiver!DropGated(d) \/ Receiver!CloseGate(d)
  /\ ~d.keyframe /\ d.seq > retrySeq'

(* The adapter looks at last_incomplete_* after every datagram.            *)
Deliver(d) ==
  /\ ~incomplete.isNew
  /\ Receiver!PushDatagram(d)
  /\ owed' = IF latest' # latest /\ latest'.keyframe /\ latest'.seq >= owed THEN -1
             ELSE IF retryPending' /\ ~retryPending THEN retrySeq'
             ELSE owed
  /\ skipped' = IF latest' # latest /\ latest'.seq >= skipped
                  /\ (latest'.keyframe \/ latest'.seq = skipped) THEN -1
                ELSE IF skipped = -1 /\ GateDrops(d) THEN d.seq
                ELSE skipped
  /\ UNCHANGED << senderVars, nacks >>

Report ==
  /\ incomplete.isNew
  /\ incomplete' = [incomplete EXCEPT !.isNew = FALSE]
  /\ nacks' = IF incomplete.keyframe /\ retryEnabled THEN nacks \cup {incomplete.seq} ELSE nacks
  /\ UNCHANGED << senderVars, latest, active, received, chunksReceived, groups, staging,
                  retryEnabled, retryPending, retrySeq, map, owed, skipped >>

NackArrives ==
  /\ \E seq \in nacks : Sender!ReceiveNack(seq)
  /\ UNCHANGED << receiverVars, nacks, owed, skipped >>

Next ==
  \/ SenderStep
  \/ EnableRetry
  \/ \E d \in InFlight : Deliver(d)
  \/ Report
  \/ NackArrives

Spec == Init /\ [][Next]_vars

-----------------------------------------------------------------------------
(* The shape of the composed state.                                        *)
TypeOK ==
  /\ Sender!TypeOK
  /\ Receiver!TypeOK
  /\ nacks \subseteq 1 .. LastSeq
  /\ owed \in -1 .. LastSeq /\ skipped \in -1 .. LastSeq

(* End to end, over losses, duplicates, two layouts of one keyframe and    *)
(* repairs from either: what is shown under a number is, bit for bit, the  *)
(* frame that was encoded under that number.                               *)
ShownAsEncoded ==
  latest.size # 0 =>
    \E i \in DOMAIN sent :
      LET f == sent[i].frame
      IN  /\ f.seq = latest.seq /\ f.size = latest.size /\ f.keyframe = latest.keyframe
          /\ latest.data = [c \in 0 .. ChunkCount(f.size) - 1 |-> ChunkBytes(f, c)]

(* R14.2: once a keyframe is known to be lost, no interframe that follows  *)
(* it is shown before that keyframe or a newer one.                        *)
NoInterframeWhileOwed ==
  owed # -1 /\ latest.size # 0 /\ ~latest.keyframe => latest.seq < owed

(* R14.2 says the gate keeps interframes from being decoded while a frame  *)
(* they refer to is missing: an interframe that follows a dropped one is   *)
(* not shown before that one, or a newer keyframe, has been.               *)
NoInterframeAfterSkipped ==
  skipped # -1 /\ latest.size # 0 /\ ~latest.keyframe => latest.seq < skipped

(* The gate waits for a keyframe the sender did send, and one it has been  *)
(* or is about to be asked for: nobody waits for something nobody knows.   *)
GateAwaitsAKeyframe ==
  retryPending =>
    /\ \E i \in DOMAIN sent : sent[i].frame.keyframe /\ sent[i].frame.seq = retrySeq
    /\ retrySeq \in nacks \/ (incomplete.isNew /\ incomplete.keyframe /\ incomplete.seq = retrySeq)

(* A keyframe is only retransmitted for a receiver that asked for it.      *)
RetryOnlyOnRequest ==
  \A i \in DOMAIN sent : Sender!IsRetry(sent[i]) => sent[i].frame.seq \in nacks

(* Requests and retries meet: what the receiver waits for can come, and    *)
(* nothing is sent again unasked.                                          *)
RequestsMeetRetries == GateAwaitsAKeyframe /\ RetryOnlyOnRequest
=============================================================================
