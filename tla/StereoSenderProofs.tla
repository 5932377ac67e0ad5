------------------------ MODULE StereoSenderProofs ------------------------
(***************************************************************************)
(* For every number of slots from three on and every number of pairs: no   *)
(* eye is torn, the eyes stay paired, the capture thread finds a slot, a   *)
(* worker is handed newer pairs only, and the whole of it is a mailbox.    *)
(* For every number of requests: one sender and one snapshot at a time.    *)
(* For all gains and bounds: the latency controller keeps its bounds and   *)
(* forgets an overload.                                                    *)
(*                                                                         *)
(* IInv says who owns which slot at every program counter, what a worker   *)
(* has been given and how far it is, and that the newest slot and the one  *)
(* main deals with are whole; ControlInv, which thread holds the snapshot  *)
(* lock.  One lemma per action shows that it is kept.                      *)
(***************************************************************************)
EXTENDS MCStereoSender, TLAPS, FiniteSetTheorems, WellFoundedInduction

-----------------------------------------------------------------------------
(* A worker has the pair main deals with, or has already been waited for.  *)
Given(e) ==
  \/ main.pc \in {"await", "await asleep"}
  \/ main.pc = "submit" /\ main.eye = 2 /\ e = 1

WaitedFor(e) == main.pc \in {"await", "await asleep"} /\ main.eye = 2 /\ e = 1

Serving == {"submit", "await", "await asleep", "release"}
Stopping == {"stop", "join", "join capture", "exited"}

(* The slot that is written belongs to nobody else. *)
WriterIsAlone ==
  /\ capture.pc = "choose" => cap.writer = None
  /\ capture.pc = "read" =>
       /\ capture.slot \in Slots /\ cap.writer = capture.slot
       /\ capture.slot # cap.latest /\ capture.slot # cap.reader

(* The newest slot holds the newest pair in both eyes. *)
LatestIsWhole ==
  /\ cap.latest = None => cap.seq = 0
  /\ cap.latest # None =>
       /\ slotSeq[cap.latest] = cap.seq /\ cap.seq >= 1
       /\ \A e \in Eyes : buf[e][cap.latest] = cap.seq
  /\ main.last <= cap.seq

(* The slot main deals with is locked for it, and holds its pair. *)
FrontIsWhole ==
  main.pc \in Serving =>
    /\ main.front \in Slots /\ cap.reader = main.front /\ main.last >= 1
    /\ \A e \in Eyes : buf[e][main.front] = main.last

(* What a worker has been given, and how far it is. *)
JobFollowsMain(e) ==
    /\ worker[e].completed <= worker[e].job.generation
    /\ worker[e].job.generation <= worker[e].completed + 1
    /\ worker[e].completed # worker[e].job.generation => Given(e) /\ ~WaitedFor(e)
    /\ worker[e].pc = "encode" =>
         /\ worker[e].completed # worker[e].job.generation
         /\ worker[e].serving = worker[e].job
    /\ Given(e) => worker[e].job.slot = main.front /\ worker[e].job.seq = main.last
    /\ worker[e].job.seq <= main.last
    /\ main.pc = "submit" /\ ~Given(e) => worker[e].job.seq < main.last
    /\ worker[e].pc = "ended" => worker[e].stop
    /\ worker[e].stop => main.pc \in Stopping

JobsFollowMain == \A e \in Eyes : JobFollowsMain(e)

GenerationsAgree ==
  worker[1].job.generation =
    worker[2].job.generation + IF main.pc = "submit" /\ main.eye = 2 THEN 1 ELSE 0

IInv ==
  /\ TypeOK
  /\ WriterIsAlone
  /\ LatestIsWhole
  /\ FrontIsWhole
  /\ JobsFollowMain
  /\ GenerationsAgree

-----------------------------------------------------------------------------
CaptureType == [pc : {"choose", "read", "ended"}, slot : Slots \cup {None}]
CapType == [write : Slots, writer : Slots \cup {None}, latest : Slots \cup {None},
            reader : Slots \cup {None}, seq : 0 .. MaxPairs, stop : BOOLEAN, error : BOOLEAN]
MainType == [pc : MainPC, eye : Eyes, front : Slots \cup {None}, last : 0 .. MaxPairs]
WorkerPC == {"idle", "asleep", "encode", "ended"}
WorkerType == [pc : WorkerPC,
               job : Job, serving : Job, completed : Nat, stop : BOOLEAN]

(* What TypeOK says of the fields.                                         *)
LEMMA FoldedTypes ==
  TypeOK <=> /\ capture \in CaptureType /\ cap \in CapType /\ main \in MainType
             /\ slotSeq \in [Slots -> 0 .. MaxPairs]
             /\ buf \in [Eyes -> [Slots -> -1 .. MaxPairs]]
             /\ skipped \in Nat /\ worker \in [Eyes -> WorkerType]
             /\ handed \in Seq(1 .. MaxPairs)
  BY DEF TypeOK, CaptureType, CapType, MainType, WorkerType, WorkerPC

(* Every pair has a natural number.                                        *)
LEMMA CountsAreNumbers == 0 .. MaxPairs \subseteq Nat
  BY PipelineAssumption, SMT

(* The fields of the capture thread and its context.                       *)
LEMMA CaptureFields ==
  ASSUME TypeOK
  PROVE  /\ capture \in CaptureType /\ cap \in CapType
         /\ capture.slot \in Slots \cup {None} /\ cap.write \in Slots
         /\ cap.latest \in Slots \cup {None} /\ cap.reader \in Slots \cup {None}
         /\ cap.seq \in 0 .. MaxPairs /\ cap.seq \in Nat
<1>1. capture \in CaptureType /\ cap \in CapType
  BY FoldedTypes
<1>2. capture.slot \in Slots \cup {None}
  BY <1>1 DEF CaptureType
<1>3. /\ cap.write \in Slots /\ cap.latest \in Slots \cup {None}
      /\ cap.reader \in Slots \cup {None} /\ cap.seq \in 0 .. MaxPairs
  BY <1>1 DEF CapType
<1> QED
  BY <1>1, <1>2, <1>3, CountsAreNumbers

(* The fields of main.                                                     *)
LEMMA MainFields ==
  ASSUME TypeOK
  PROVE  /\ main \in MainType /\ main.pc \in MainPC /\ main.eye \in {1, 2}
         /\ main.front \in Slots \cup {None}
         /\ main.last \in 0 .. MaxPairs /\ main.last \in Nat
<1>1. main \in MainType
  BY FoldedTypes
<1>2. /\ main.pc \in MainPC /\ main.eye \in {1, 2}
      /\ main.front \in Slots \cup {None} /\ main.last \in 0 .. MaxPairs
  BY <1>1 DEF MainType, Eyes
<1> QED
  BY <1>1, <1>2, CountsAreNumbers

(* The fields of a worker.                                                 *)
LEMMA WorkerFields ==
  ASSUME TypeOK, NEW e \in Eyes
  PROVE  /\ worker \in [Eyes -> WorkerType] /\ worker[e] \in WorkerType
         /\ worker[e].pc \in WorkerPC /\ worker[e].job \in Job /\ worker[e].serving \in Job
         /\ worker[e].completed \in Nat /\ worker[e].job.generation \in Nat
         /\ worker[e].job.seq \in 0 .. MaxPairs /\ worker[e].job.seq \in Nat
<1>1. worker \in [Eyes -> WorkerType] /\ worker[e] \in WorkerType
  BY FoldedTypes
<1>2. /\ worker[e].pc \in WorkerPC /\ worker[e].job \in Job /\ worker[e].serving \in Job
      /\ worker[e].completed \in Nat
  BY <1>1 DEF WorkerType
<1>3. worker[e].job.generation \in Nat /\ worker[e].job.seq \in 0 .. MaxPairs
  BY <1>2 DEF Job
<1> QED
  BY <1>1, <1>2, <1>3, CountsAreNumbers

(* A slot the search reaches is a slot.                                    *)
LEMMA CandidateIsSlot ==
  ASSUME NEW a \in Nat
  PROVE  a % SlotCount \in Slots
<1>1. SlotCount \in Nat /\ SlotCount > 0
  BY PipelineAssumption, SMT
<1>2. (a % SlotCount) \in 0 .. SlotCount - 1
  BY <1>1, SMT
<1> QED
  BY <1>2 DEF Slots

(* None is told apart from every slot.                                     *)
LEMMA NoneIsNoSlot == None \notin Slots
  BY PipelineAssumption, SMT DEF None, Slots

(* The updates of the records keep their types.                            *)
LEMMA CapChosenType ==
  ASSUME NEW x \in CapType, NEW w \in Slots,
         NEW y, y = [x EXCEPT !.write = w, !.writer = w]
  PROVE  y \in CapType
<1> DEFINE z1 == [x EXCEPT !.write = w]
<1>1. z1 \in CapType
  BY SMT DEF CapType
<1> HIDE DEF z1
<1>2. [z1 EXCEPT !.writer = w] \in CapType
  BY <1>1, SMT DEF CapType
<1> QED
  BY <1>2 DEF z1

(* A pair is published.                                                    *)
LEMMA CapPublishedType ==
  ASSUME NEW x \in CapType, NEW w \in Slots, NEW l \in Slots, NEW n \in 0 .. MaxPairs,
         NEW y, y = [x EXCEPT !.seq = n, !.latest = l, !.writer = None, !.write = w]
  PROVE  y \in CapType
<1> DEFINE z1 == [x EXCEPT !.seq = n]
<1>1. z1 \in CapType
  BY SMT DEF CapType
<1> HIDE DEF z1
<1> DEFINE z2 == [z1 EXCEPT !.latest = l]
<1>2. z2 \in CapType
  BY <1>1, SMT DEF CapType
<1> HIDE DEF z2
<1> DEFINE z3 == [z2 EXCEPT !.writer = None]
<1>3. z3 \in CapType
  BY <1>2, SMT DEF CapType
<1> HIDE DEF z3
<1>4. [z3 EXCEPT !.write = w] \in CapType
  BY <1>3, SMT DEF CapType
<1> QED
  BY <1>4 DEF z1, z2, z3

(* The camera has failed.                                                  *)
LEMMA CapFailedType ==
  ASSUME NEW x \in CapType, NEW b \in BOOLEAN,
         NEW y, y = [x EXCEPT !.error = b, !.stop = b]
  PROVE  y \in CapType
<1> DEFINE z1 == [x EXCEPT !.error = b]
<1>1. z1 \in CapType
  BY SMT DEF CapType
<1> HIDE DEF z1
<1>2. [z1 EXCEPT !.stop = b] \in CapType
  BY <1>1, SMT DEF CapType
<1> QED
  BY <1>2 DEF z1

(* Main locks a slot, or gives it back.                                    *)
LEMMA CapReadType ==
  ASSUME NEW x \in CapType, NEW r \in Slots \cup {None},
         NEW y, y = [x EXCEPT !.reader = r]
  PROVE  y \in CapType
  BY SMT DEF CapType

(* Main goes on to something else.                                         *)
LEMMA MainMovedType ==
  ASSUME NEW x \in MainType, NEW p \in MainPC,
         NEW y, y = [x EXCEPT !.pc = p]
  PROVE  y \in MainType
  BY SMT DEF MainType

(* Main turns to an eye.                                                   *)
LEMMA MainTurnedType ==
  ASSUME NEW x \in MainType, NEW p \in MainPC, NEW e \in Eyes,
         NEW y, y = [x EXCEPT !.pc = p, !.eye = e]
  PROVE  y \in MainType
<1> DEFINE z1 == [x EXCEPT !.pc = p]
<1>1. z1 \in MainType
  BY SMT DEF MainType
<1> HIDE DEF z1
<1>2. [z1 EXCEPT !.eye = e] \in MainType
  BY <1>1, SMT DEF MainType
<1> QED
  BY <1>2 DEF z1

(* A worker is given a job and woken.                                      *)
LEMMA WorkerGivenType ==
  ASSUME NEW x \in WorkerType, NEW j \in Job, NEW p \in WorkerPC,
         NEW y, y = [x EXCEPT !.job = j, !.pc = p]
  PROVE  y \in WorkerType
<1> DEFINE z1 == [x EXCEPT !.job = j]
<1>1. z1 \in WorkerType
  BY SMT DEF WorkerType
<1> HIDE DEF z1
<1>2. [z1 EXCEPT !.pc = p] \in WorkerType
  BY <1>1, SMT DEF WorkerType
<1> QED
  BY <1>2 DEF z1

(* A worker is told to stop and woken.                                     *)
LEMMA WorkerStoppedType ==
  ASSUME NEW x \in WorkerType, NEW p \in WorkerPC, NEW b \in BOOLEAN,
         NEW y, y = [x EXCEPT !.stop = b, !.pc = p]
  PROVE  y \in WorkerType
<1> DEFINE z1 == [x EXCEPT !.stop = b]
<1>1. z1 \in WorkerType
  BY SMT DEF WorkerType
<1> HIDE DEF z1
<1>2. [z1 EXCEPT !.pc = p] \in WorkerType
  BY <1>1, SMT DEF WorkerType
<1> QED
  BY <1>2 DEF z1

(* A worker goes on to something else.                                     *)
LEMMA WorkerMovedType ==
  ASSUME NEW x \in WorkerType, NEW p \in WorkerPC,
         NEW y, y = [x EXCEPT !.pc = p]
  PROVE  y \in WorkerType
  BY SMT DEF WorkerType

(* A worker starts on its job.                                             *)
LEMMA WorkerStartedType ==
  ASSUME NEW x \in WorkerType, NEW p \in WorkerPC, NEW j \in Job,
         NEW y, y = [x EXCEPT !.pc = p, !.serving = j]
  PROVE  y \in WorkerType
<1> DEFINE z1 == [x EXCEPT !.pc = p]
<1>1. z1 \in WorkerType
  BY SMT DEF WorkerType
<1> HIDE DEF z1
<1>2. [z1 EXCEPT !.serving = j] \in WorkerType
  BY <1>1, SMT DEF WorkerType
<1> QED
  BY <1>2 DEF z1

(* A worker is done with its job.                                          *)
LEMMA WorkerFinishedType ==
  ASSUME NEW x \in WorkerType, NEW p \in WorkerPC, NEW n \in Nat,
         NEW y, y = [x EXCEPT !.pc = p, !.completed = n]
  PROVE  y \in WorkerType
<1> DEFINE z1 == [x EXCEPT !.pc = p]
<1>1. z1 \in WorkerType
  BY SMT DEF WorkerType
<1> HIDE DEF z1
<1>2. [z1 EXCEPT !.completed = n] \in WorkerType
  BY <1>1, SMT DEF WorkerType
<1> QED
  BY <1>2 DEF z1

(* A signal moves main from sleeping to looking, and changes nothing else. *)
LEMMA MainSignalled ==
  ASSUME main \in MainType, main' = SignalMain
  PROVE  /\ main' \in MainType
         /\ main'.eye = main.eye /\ main'.front = main.front /\ main'.last = main.last
         /\ main'.pc = main.pc \/ (main.pc = "take asleep" /\ main'.pc = "take")
<1>1. CASE main.pc = "take asleep"
  <2>1. main' = [main EXCEPT !.pc = "take"] /\ "take" \in MainPC
    BY <1>1 DEF SignalMain, MainPC
  <2>2. main' \in MainType
    BY <2>1, MainMovedType
  <2>3. /\ main'.eye = main.eye /\ main'.front = main.front /\ main'.last = main.last
        /\ main'.pc = "take"
    BY <2>1, SMT DEF MainType
  <2> QED
    BY <1>1, <2>2, <2>3
<1>2. CASE main.pc # "take asleep"
  <2>1. main' = main
    BY <1>2 DEF SignalMain
  <2> QED
    BY <2>1, Zenon
<1> QED
  BY <1>1, <1>2

(* A worker that is done wakes main if main waits for it.                  *)
LEMMA MainAwoken ==
  ASSUME NEW e \in Eyes, main \in MainType, main' = SignalDone(e)
  PROVE  /\ main' \in MainType
         /\ main'.eye = main.eye /\ main'.front = main.front /\ main'.last = main.last
         /\ main'.pc = main.pc \/ (main.pc = "await asleep" /\ main'.pc = "await")
<1>1. CASE main.pc = "await asleep" /\ main.eye = e
  <2>1. main' = [main EXCEPT !.pc = "await"] /\ "await" \in MainPC
    BY <1>1 DEF SignalDone, MainPC
  <2>2. main' \in MainType
    BY <2>1, MainMovedType
  <2>3. /\ main'.eye = main.eye /\ main'.front = main.front /\ main'.last = main.last
        /\ main'.pc = "await"
    BY <2>1, SMT DEF MainType
  <2> QED
    BY <1>1, <2>2, <2>3
<1>2. CASE ~(main.pc = "await asleep" /\ main.eye = e)
  <2>1. main' = main
    BY <1>2 DEF SignalDone
  <2> QED
    BY <2>1, Zenon
<1> QED
  BY <1>1, <1>2

(* Main goes on, and keeps what it holds.                                  *)
LEMMA MainMoved ==
  ASSUME main \in MainType, NEW p \in MainPC, main' = [main EXCEPT !.pc = p]
  PROVE  /\ main' \in MainType
         /\ main'.pc = p /\ main'.eye = main.eye
         /\ main'.front = main.front /\ main'.last = main.last
<1>1. main' \in MainType
  BY MainMovedType
<1>2. /\ main'.pc = p /\ main'.eye = main.eye
      /\ main'.front = main.front /\ main'.last = main.last
  BY SMT DEF MainType
<1> QED
  BY <1>1, <1>2

(* Main serves the left eye, then the right one, then goes on.             *)
LEMMA MainTurned ==
  ASSUME main \in MainType, NEW p \in MainPC, NEW q \in MainPC, main' = NextEye(p, q)
  PROVE  /\ main' \in MainType
         /\ main'.front = main.front /\ main'.last = main.last
         /\ main.eye = 1 => main'.pc = p /\ main'.eye = 2
         /\ main.eye # 1 => main'.pc = q /\ main'.eye = 1
<1>1. CASE main.eye = 1
  <2>1. main' = [main EXCEPT !.pc = p, !.eye = 2] /\ 2 \in Eyes
    BY <1>1 DEF NextEye, Eyes
  <2>2. main' \in MainType
    BY <2>1, MainTurnedType
  <2>3. /\ main'.pc = p /\ main'.eye = 2
        /\ main'.front = main.front /\ main'.last = main.last
    BY <2>1, SMT DEF MainType
  <2> QED
    BY <1>1, <2>2, <2>3
<1>2. CASE main.eye # 1
  <2>1. main' = [main EXCEPT !.pc = q, !.eye = 1] /\ 1 \in Eyes
    BY <1>2 DEF NextEye, Eyes
  <2>2. main' \in MainType
    BY <2>1, MainTurnedType
  <2>3. /\ main'.pc = q /\ main'.eye = 1
        /\ main'.front = main.front /\ main'.last = main.last
    BY <2>1, SMT DEF MainType
  <2> QED
    BY <1>2, <2>2, <2>3
<1> QED
  BY <1>1, <1>2

(* One worker changes, the other does not.                                 *)
LEMMA WorkersUpdated ==
  ASSUME worker \in [Eyes -> WorkerType], NEW e \in Eyes, NEW v \in WorkerType,
         worker' = [worker EXCEPT ![e] = v]
  PROVE  /\ worker' \in [Eyes -> WorkerType]
         /\ worker'[e] = v
         /\ \A o \in Eyes : o # e => worker'[o] = worker[o]
  OBVIOUS

-----------------------------------------------------------------------------
(* The capture thread takes a slot.                                        *)
LEMMA ChooseWriteSlotStep ==
  ASSUME IInv, ChooseWriteSlot
  PROVE  IInv'
<1>1. TypeOK /\ None \notin Slots
  BY NoneIsNoSlot DEF IInv
<1>2. PICK c \in Slots : /\ c # cap.latest /\ c # cap.reader
                        /\ cap' = [cap EXCEPT !.write = c, !.writer = c]
                        /\ capture' = [pc |-> "read", slot |-> c]
  <2>1. PICK k \in Slots : /\ Free(Candidate(k))
                          /\ cap' = [cap EXCEPT !.write = Candidate(k), !.writer = Candidate(k)]
                          /\ capture' = [pc |-> "read", slot |-> Candidate(k)]
    BY DEF ChooseWriteSlot
  <2>2. cap.write + k \in Nat
    BY <1>1, CaptureFields, PipelineAssumption, SMT DEF Slots
  <2>3. Candidate(k) \in Slots
    BY <2>2, CandidateIsSlot DEF Candidate
  <2> QED
    BY <2>1, <2>3 DEF Free
<1>3. /\ cap' \in CapType /\ cap'.writer = c /\ cap'.latest = cap.latest
      /\ cap'.reader = cap.reader /\ cap'.seq = cap.seq
  <2>1. c \in Slots /\ cap \in CapType /\ cap' = [cap EXCEPT !.write = c, !.writer = c]
    BY <1>1, <1>2, CaptureFields
  <2>2. cap' \in CapType
    BY <2>1, CapChosenType
  <2>3. /\ cap'.writer = c /\ cap'.latest = cap.latest
        /\ cap'.reader = cap.reader /\ cap'.seq = cap.seq
    BY <2>1, SMT DEF CapType
  <2> QED
    BY <2>2, <2>3
<1>4. capture' \in CaptureType /\ capture'.pc = "read" /\ capture'.slot = c
  BY <1>2 DEF CaptureType
<1>5. c # cap.latest /\ c # cap.reader /\ c \in Slots
  BY <1>2
<1>6. /\ slotSeq' = slotSeq /\ buf' = buf /\ main' = main
      /\ skipped' = skipped /\ worker' = worker /\ handed' = handed
  BY DEF ChooseWriteSlot
<1>7. TypeOK'
  <2>1. /\ capture' \in CaptureType /\ cap' \in CapType /\ main' \in MainType
        /\ slotSeq' \in [Slots -> 0 .. MaxPairs]
        /\ buf' \in [Eyes -> [Slots -> -1 .. MaxPairs]]
        /\ skipped' \in Nat /\ worker' \in [Eyes -> WorkerType]
        /\ handed' \in Seq(1 .. MaxPairs)
    BY <1>1, <1>3, <1>4, <1>5, <1>6, FoldedTypes
  <2> QED
    BY <2>1 DEF TypeOK, CaptureType, CapType, MainType, WorkerType, WorkerPC
<1>8. WriterIsAlone'
  BY <1>1, <1>3, <1>4, <1>5, <1>6 DEF IInv, WriterIsAlone
<1>9. LatestIsWhole'
  BY <1>1, <1>3, <1>4, <1>5, <1>6 DEF IInv, LatestIsWhole
<1>10. FrontIsWhole'
  BY <1>1, <1>3, <1>4, <1>5, <1>6 DEF IInv, FrontIsWhole, Serving
<1>11. JobsFollowMain'
  BY <1>1, <1>3, <1>4, <1>5, <1>6
     DEF IInv, JobsFollowMain, JobFollowsMain, Given, WaitedFor, Stopping, Eyes
<1>12. GenerationsAgree'
  BY <1>1, <1>3, <1>4, <1>5, <1>6 DEF IInv, GenerationsAgree
<1> QED
  BY <1>7, <1>8, <1>9, <1>10, <1>11, <1>12 DEF IInv

(* It reads bytes of an eye into its slot.                                 *)
LEMMA ReadBytesStep ==
  ASSUME IInv, NEW f \in Eyes, ReadBytes(f)
  PROVE  IInv'
<1>1. TypeOK /\ None \notin Slots
  BY NoneIsNoSlot DEF IInv
<1>2. /\ capture.pc = "read" /\ capture.slot \in Slots
      /\ capture.slot # cap.latest /\ capture.slot # cap.reader
  BY DEF ReadBytes, IInv, WriterIsAlone
<1>3. /\ buf' \in [Eyes -> [Slots -> -1 .. MaxPairs]]
      /\ \A e \in Eyes, s \in Slots : s # capture.slot => buf'[e][s] = buf[e][s]
  <2>1. PICK b \in {Torn, cap.seq + 1} : buf' = [buf EXCEPT ![f][capture.slot] = b]
    BY DEF ReadBytes
  <2>2. cap.seq \in Nat /\ cap.seq < MaxPairs
    BY <1>1, CaptureFields DEF ReadBytes
  <2>3. b \in -1 .. MaxPairs
    BY <2>1, <2>2, PipelineAssumption, SMT DEF Torn
  <2>4. buf \in [Eyes -> [Slots -> -1 .. MaxPairs]]
    BY <1>1, FoldedTypes
  <2> QED
    BY <1>2, <2>1, <2>3, <2>4, SMT
<1>4. cap.latest \in Slots \cup {None}
  BY <1>1, CaptureFields
<1>5. /\ capture' = capture /\ cap' = cap /\ slotSeq' = slotSeq
      /\ main' = main /\ skipped' = skipped /\ worker' = worker
      /\ handed' = handed
  BY DEF ReadBytes
<1>6. TypeOK'
  <2>1. /\ capture' \in CaptureType /\ cap' \in CapType /\ main' \in MainType
        /\ slotSeq' \in [Slots -> 0 .. MaxPairs]
        /\ buf' \in [Eyes -> [Slots -> -1 .. MaxPairs]]
        /\ skipped' \in Nat /\ worker' \in [Eyes -> WorkerType]
        /\ handed' \in Seq(1 .. MaxPairs)
    BY <1>1, <1>2, <1>3, <1>4, <1>5, FoldedTypes
  <2> QED
    BY <2>1 DEF TypeOK, CaptureType, CapType, MainType, WorkerType, WorkerPC
<1>7. WriterIsAlone'
  BY <1>1, <1>2, <1>3, <1>4, <1>5 DEF IInv, WriterIsAlone
<1>8. LatestIsWhole'
  BY <1>1, <1>2, <1>3, <1>4, <1>5 DEF IInv, LatestIsWhole
<1>9. FrontIsWhole'
  BY <1>1, <1>2, <1>3, <1>4, <1>5 DEF IInv, FrontIsWhole, Serving
<1>10. JobsFollowMain'
  BY <1>1, <1>2, <1>3, <1>4, <1>5
     DEF IInv, JobsFollowMain, JobFollowsMain, Given, WaitedFor, Stopping, Eyes
<1>11. GenerationsAgree'
  BY <1>1, <1>2, <1>3, <1>4, <1>5 DEF IInv, GenerationsAgree
<1> QED
  BY <1>6, <1>7, <1>8, <1>9, <1>10, <1>11 DEF IInv

(* It publishes the pair it has read.                                      *)
LEMMA PublishPairStep ==
  ASSUME IInv, PublishPair
  PROVE  IInv'
<1>1. TypeOK /\ None \notin Slots
  BY NoneIsNoSlot DEF IInv
<1>2. /\ capture.pc = "read" /\ capture.slot \in Slots /\ capture.slot # cap.reader
      /\ \A e \in Eyes : buf[e][capture.slot] = cap.seq + 1
  BY DEF PublishPair, IInv, WriterIsAlone
<1>3. cap.seq \in Nat /\ cap.seq + 1 \in 0 .. MaxPairs
  <2>1. 1 \in Eyes /\ buf \in [Eyes -> [Slots -> -1 .. MaxPairs]] /\ cap.seq \in Nat
    BY <1>1, FoldedTypes, CaptureFields DEF Eyes
  <2>2. buf[1][capture.slot] \in -1 .. MaxPairs
    BY <1>2, <2>1
  <2>3. cap.seq + 1 \in -1 .. MaxPairs
    BY <1>2, <2>1, <2>2
  <2> QED
    BY <2>1, <2>3, PipelineAssumption, SMT
<1>4. /\ cap' \in CapType /\ cap'.writer = None /\ cap'.latest = capture.slot
      /\ cap'.reader = cap.reader /\ cap'.seq = cap.seq + 1
  <2> DEFINE w == (capture.slot + 1) % SlotCount
             n == cap.seq + 1
             l == capture.slot
  <2>1. w \in Slots
    <3>1. capture.slot + 1 \in Nat
      BY <1>2, PipelineAssumption, SMT DEF Slots
    <3> QED
      BY <3>1, CandidateIsSlot
  <2>2. cap \in CapType
    BY <1>1, CaptureFields
  <2>3. cap' = [cap EXCEPT !.seq = n, !.latest = l, !.writer = None, !.write = w]
    BY DEF PublishPair
  <2>4. l \in Slots /\ n \in 0 .. MaxPairs
    BY <1>2, <1>3
  <2> HIDE DEF w, n, l
  <2>5. cap' \in CapType
    BY <2>1, <2>2, <2>3, <2>4, CapPublishedType
  <2>6. /\ cap'.writer = None /\ cap'.latest = l
        /\ cap'.reader = cap.reader /\ cap'.seq = n
    BY <2>2, <2>3, SMT DEF CapType
  <2> QED
    BY <2>5, <2>6 DEF l, n
<1>5. /\ slotSeq' \in [Slots -> 0 .. MaxPairs]
      /\ slotSeq'[capture.slot] = cap.seq + 1
  <2>1. slotSeq \in [Slots -> 0 .. MaxPairs] /\ slotSeq' = [slotSeq EXCEPT ![capture.slot] = cap.seq + 1]
    BY <1>1, FoldedTypes DEF PublishPair
  <2> QED
    BY <1>2, <1>3, <2>1
<1>6. /\ main' \in MainType
      /\ main'.eye = main.eye /\ main'.front = main.front /\ main'.last = main.last
      /\ main'.pc = main.pc \/ (main.pc = "take asleep" /\ main'.pc = "take")
  BY <1>1, MainFields, MainSignalled DEF PublishPair
<1>7. capture' \in CaptureType /\ capture'.pc = "choose"
  <2>1. capture \in CaptureType /\ capture' = [capture EXCEPT !.pc = "choose"]
    BY <1>1, CaptureFields DEF PublishPair
  <2> QED
    BY <2>1 DEF CaptureType
<1>8. /\ buf' = buf /\ skipped' = skipped /\ worker' = worker
      /\ handed' = handed
  BY DEF PublishPair
<1>9. main.last \in Nat
  BY <1>1, MainFields
<1>10. TypeOK'
  <2>1. /\ capture' \in CaptureType /\ cap' \in CapType /\ main' \in MainType
        /\ slotSeq' \in [Slots -> 0 .. MaxPairs]
        /\ buf' \in [Eyes -> [Slots -> -1 .. MaxPairs]]
        /\ skipped' \in Nat /\ worker' \in [Eyes -> WorkerType]
        /\ handed' \in Seq(1 .. MaxPairs)
    BY <1>1, <1>2, <1>3, <1>4, <1>5, <1>6, <1>7, <1>8, <1>9, FoldedTypes
  <2> QED
    BY <2>1 DEF TypeOK, CaptureType, CapType, MainType, WorkerType, WorkerPC
<1>11. WriterIsAlone'
  BY <1>1, <1>2, <1>3, <1>4, <1>5, <1>6, <1>7, <1>8, <1>9 DEF IInv, WriterIsAlone
<1>12. LatestIsWhole'
  <2>1. cap'.latest # None
    BY <1>1, <1>2, <1>4
  <2>2. slotSeq'[cap'.latest] = cap'.seq
    BY <1>4, <1>5
  <2>3. \A e \in Eyes : buf'[e][cap'.latest] = cap'.seq
    BY <1>2, <1>4, <1>8
  <2>4. cap'.seq >= 1 /\ main'.last <= cap'.seq
    <3>1. main.last <= cap.seq
      BY DEF IInv, LatestIsWhole
    <3>2. cap.seq \in Nat /\ cap'.seq = cap.seq + 1 /\ main'.last = main.last
      BY <1>3, <1>4, <1>6
    <3> QED
      BY <1>9, <3>1, <3>2
  <2> QED
    BY <2>1, <2>2, <2>3, <2>4 DEF LatestIsWhole
<1>13. FrontIsWhole'
  BY <1>1, <1>2, <1>3, <1>4, <1>5, <1>6, <1>7, <1>8, <1>9 DEF IInv, FrontIsWhole, Serving
<1>14. JobsFollowMain'
  BY <1>1, <1>2, <1>3, <1>4, <1>5, <1>6, <1>7, <1>8, <1>9
     DEF IInv, JobsFollowMain, JobFollowsMain, Given, WaitedFor, Stopping, Eyes
<1>15. GenerationsAgree'
  BY <1>1, <1>2, <1>3, <1>4, <1>5, <1>6, <1>7, <1>8, <1>9 DEF IInv, GenerationsAgree
<1> QED
  BY <1>10, <1>11, <1>12, <1>13, <1>14, <1>15 DEF IInv

(* The camera fails.                                                       *)
LEMMA CameraFailsStep ==
  ASSUME IInv, CameraFails
  PROVE  IInv'
<1>1. TypeOK /\ None \notin Slots
  BY NoneIsNoSlot DEF IInv
<1>2. /\ cap' \in CapType /\ cap'.writer = cap.writer /\ cap'.latest = cap.latest
      /\ cap'.reader = cap.reader /\ cap'.seq = cap.seq
  <2>1. TRUE \in BOOLEAN /\ cap \in CapType /\ cap' = [cap EXCEPT !.error = TRUE, !.stop = TRUE]
    BY <1>1, CaptureFields DEF CameraFails
  <2>2. cap' \in CapType
    BY <2>1, CapFailedType
  <2>3. /\ cap'.writer = cap.writer /\ cap'.latest = cap.latest
        /\ cap'.reader = cap.reader /\ cap'.seq = cap.seq
    BY <2>1, SMT DEF CapType
  <2> QED
    BY <2>2, <2>3
<1>3. /\ main' \in MainType
      /\ main'.eye = main.eye /\ main'.front = main.front /\ main'.last = main.last
      /\ main'.pc = main.pc \/ (main.pc = "take asleep" /\ main'.pc = "take")
  BY <1>1, MainFields, MainSignalled DEF CameraFails
<1>4. capture' \in CaptureType /\ capture'.pc = "ended"
  <2>1. capture \in CaptureType /\ capture' = [capture EXCEPT !.pc = "ended"]
    BY <1>1, CaptureFields DEF CameraFails
  <2> QED
    BY <2>1 DEF CaptureType
<1>5. /\ slotSeq' = slotSeq /\ buf' = buf /\ skipped' = skipped
      /\ worker' = worker /\ handed' = handed
  BY DEF CameraFails
<1>6. TypeOK'
  <2>1. /\ capture' \in CaptureType /\ cap' \in CapType /\ main' \in MainType
        /\ slotSeq' \in [Slots -> 0 .. MaxPairs]
        /\ buf' \in [Eyes -> [Slots -> -1 .. MaxPairs]]
        /\ skipped' \in Nat /\ worker' \in [Eyes -> WorkerType]
        /\ handed' \in Seq(1 .. MaxPairs)
    BY <1>1, <1>2, <1>3, <1>4, <1>5, FoldedTypes
  <2> QED
    BY <2>1 DEF TypeOK, CaptureType, CapType, MainType, WorkerType, WorkerPC
<1>7. WriterIsAlone'
  BY <1>1, <1>2, <1>3, <1>4, <1>5 DEF IInv, WriterIsAlone
<1>8. LatestIsWhole'
  BY <1>1, <1>2, <1>3, <1>4, <1>5 DEF IInv, LatestIsWhole
<1>9. FrontIsWhole'
  BY <1>1, <1>2, <1>3, <1>4, <1>5 DEF IInv, FrontIsWhole, Serving
<1>10. JobsFollowMain'
  BY <1>1, <1>2, <1>3, <1>4, <1>5
     DEF IInv, JobsFollowMain, JobFollowsMain, Given, WaitedFor, Stopping, Eyes
<1>11. GenerationsAgree'
  BY <1>1, <1>2, <1>3, <1>4, <1>5 DEF IInv, GenerationsAgree
<1> QED
  BY <1>6, <1>7, <1>8, <1>9, <1>10, <1>11 DEF IInv

(* Main sleeps until there is a pair.                                      *)
LEMMA SleepUntilCapturedStep ==
  ASSUME IInv, SleepUntilCaptured
  PROVE  IInv'
<1>1. TypeOK /\ None \notin Slots
  BY NoneIsNoSlot DEF IInv
<1>2. main.pc = "take"
  BY DEF SleepUntilCaptured
<1>3. /\ main' \in MainType
      /\ main'.pc = "take asleep" /\ main'.eye = main.eye
      /\ main'.front = main.front /\ main'.last = main.last
  <2>1. "take asleep" \in MainPC /\ main \in MainType /\ main' = [main EXCEPT !.pc = "take asleep"]
    BY <1>1, MainFields DEF SleepUntilCaptured, MainPC
  <2> QED
    BY <2>1, MainMoved
<1>4. /\ capture' = capture /\ cap' = cap /\ slotSeq' = slotSeq
      /\ buf' = buf /\ skipped' = skipped /\ worker' = worker
      /\ handed' = handed
  BY DEF SleepUntilCaptured
<1>5. TypeOK'
  <2>1. /\ capture' \in CaptureType /\ cap' \in CapType /\ main' \in MainType
        /\ slotSeq' \in [Slots -> 0 .. MaxPairs]
        /\ buf' \in [Eyes -> [Slots -> -1 .. MaxPairs]]
        /\ skipped' \in Nat /\ worker' \in [Eyes -> WorkerType]
        /\ handed' \in Seq(1 .. MaxPairs)
    BY <1>1, <1>2, <1>3, <1>4, FoldedTypes
  <2> QED
    BY <2>1 DEF TypeOK, CaptureType, CapType, MainType, WorkerType, WorkerPC
<1>6. WriterIsAlone'
  BY <1>1, <1>2, <1>3, <1>4 DEF IInv, WriterIsAlone
<1>7. LatestIsWhole'
  BY <1>1, <1>2, <1>3, <1>4 DEF IInv, LatestIsWhole
<1>8. FrontIsWhole'
  BY <1>1, <1>2, <1>3, <1>4 DEF IInv, FrontIsWhole, Serving
<1>9. JobsFollowMain'
  BY <1>1, <1>2, <1>3, <1>4
     DEF IInv, JobsFollowMain, JobFollowsMain, Given, WaitedFor, Stopping, Eyes
<1>10. GenerationsAgree'
  BY <1>1, <1>2, <1>3, <1>4 DEF IInv, GenerationsAgree
<1> QED
  BY <1>5, <1>6, <1>7, <1>8, <1>9, <1>10 DEF IInv

(* Main takes the newest pair.                                             *)
LEMMA TakeLatestStep ==
  ASSUME IInv, TakeLatest
  PROVE  IInv'
<1>1. TypeOK /\ None \notin Slots
  BY NoneIsNoSlot DEF IInv
<1>2. /\ main.pc = "take" /\ cap.latest \in Slots
      /\ slotSeq[cap.latest] = cap.seq /\ cap.seq > main.last /\ cap.seq \in 1 .. MaxPairs
      /\ \A e \in Eyes : buf[e][cap.latest] = cap.seq
  <2>1. main.pc = "take" /\ cap.latest # None /\ cap.seq # main.last
    BY DEF TakeLatest, NothingNew
  <2>2. /\ cap.latest \in Slots \cup {None} /\ cap.seq \in 0 .. MaxPairs
        /\ cap.seq \in Nat /\ main.last \in Nat
    BY <1>1, CaptureFields, MainFields
  <2>3. /\ slotSeq[cap.latest] = cap.seq /\ cap.seq >= 1 /\ main.last <= cap.seq
        /\ \A e \in Eyes : buf[e][cap.latest] = cap.seq
    BY <2>1 DEF IInv, LatestIsWhole
  <2>4. cap.seq \in 1 .. MaxPairs /\ cap.seq > main.last
    BY <2>1, <2>2, <2>3, PipelineAssumption, SMT
  <2> QED
    BY <2>1, <2>2, <2>3, <2>4
<1>3. /\ main' \in MainType
      /\ main'.pc = "submit" /\ main'.eye = 1 /\ main'.front = cap.latest /\ main'.last = cap.seq
  <2>1. main' = [pc |-> "submit", eye |-> 1, front |-> cap.latest, last |-> cap.seq]
    BY <1>2 DEF TakeLatest
  <2>2. cap.seq \in 0 .. MaxPairs
    BY <1>1, CaptureFields
  <2> QED
    BY <1>2, <2>1, <2>2 DEF MainType, MainPC, Eyes
<1>4. /\ cap' \in CapType /\ cap'.writer = cap.writer /\ cap'.latest = cap.latest
      /\ cap'.reader = cap.latest /\ cap'.seq = cap.seq
  <2> DEFINE r == cap.latest
  <2>1. r \in Slots \cup {None} /\ cap \in CapType /\ cap' = [cap EXCEPT !.reader = r]
    BY <1>1, CaptureFields DEF TakeLatest
  <2> HIDE DEF r
  <2>2. cap' \in CapType
    BY <2>1, CapReadType
  <2>3. /\ cap'.writer = cap.writer /\ cap'.latest = cap.latest
        /\ cap'.reader = r /\ cap'.seq = cap.seq
    BY <2>1, SMT DEF CapType
  <2> QED
    BY <2>2, <2>3 DEF r
<1>5. skipped' \in Nat /\ handed' \in Seq(1 .. MaxPairs)
  <2>1. skipped \in Nat /\ handed \in Seq(1 .. MaxPairs)
    BY <1>1, FoldedTypes
  <2>2. skipped' = skipped + NewlySkipped(cap.seq) /\ handed' = Append(handed, cap.seq)
    BY <1>2 DEF TakeLatest
  <2>3. cap.seq \in Nat /\ main.last \in Nat
    BY <1>1, CaptureFields, MainFields
  <2>4. NewlySkipped(cap.seq) \in Nat
    BY <2>3, SMT DEF NewlySkipped
  <2>5. Append(handed, cap.seq) \in Seq(1 .. MaxPairs)
    BY <1>2, <2>1
  <2> QED
    BY <2>1, <2>2, <2>4, <2>5, SMT
<1>6. \A e \in Eyes : /\ worker[e].job.seq \in Nat /\ worker[e].job.seq <= main.last
  BY <1>1, WorkerFields DEF IInv, JobsFollowMain, JobFollowsMain
<1>7. /\ capture' = capture /\ slotSeq' = slotSeq /\ buf' = buf
      /\ worker' = worker
  BY DEF TakeLatest
<1>8. cap.seq \in Nat /\ main.last \in Nat
  BY <1>1, CaptureFields, MainFields
<1>9. TypeOK'
  <2>1. /\ capture' \in CaptureType /\ cap' \in CapType /\ main' \in MainType
        /\ slotSeq' \in [Slots -> 0 .. MaxPairs]
        /\ buf' \in [Eyes -> [Slots -> -1 .. MaxPairs]]
        /\ skipped' \in Nat /\ worker' \in [Eyes -> WorkerType]
        /\ handed' \in Seq(1 .. MaxPairs)
    BY <1>1, <1>2, <1>3, <1>4, <1>5, <1>6, <1>7, <1>8, FoldedTypes
  <2> QED
    BY <2>1 DEF TypeOK, CaptureType, CapType, MainType, WorkerType, WorkerPC
<1>10. WriterIsAlone'
  BY <1>1, <1>2, <1>3, <1>4, <1>5, <1>6, <1>7, <1>8 DEF IInv, WriterIsAlone
<1>11. LatestIsWhole'
  BY <1>1, <1>2, <1>3, <1>4, <1>5, <1>6, <1>7, <1>8 DEF IInv, LatestIsWhole
<1>12. FrontIsWhole'
  BY <1>1, <1>2, <1>3, <1>4, <1>5, <1>6, <1>7, <1>8 DEF IInv, FrontIsWhole, Serving
<1>13. JobsFollowMain'
  BY <1>1, <1>2, <1>3, <1>4, <1>5, <1>6, <1>7, <1>8, SMTT(15), ZenonT(30)
     DEF IInv, JobsFollowMain, JobFollowsMain, Given, WaitedFor, Stopping, Eyes
<1>14. GenerationsAgree'
  BY <1>1, <1>2, <1>3, <1>4, <1>5, <1>6, <1>7, <1>8 DEF IInv, GenerationsAgree
<1> QED
  BY <1>9, <1>10, <1>11, <1>12, <1>13, <1>14 DEF IInv

(* Main gives up when the capture has failed.                              *)
LEMMA GiveUpStep ==
  ASSUME IInv, GiveUp
  PROVE  IInv'
<1>1. TypeOK /\ None \notin Slots
  BY NoneIsNoSlot DEF IInv
<1>2. main.pc = "take"
  BY DEF GiveUp
<1>3. /\ main' \in MainType /\ main'.pc = "stop" /\ main'.eye = 1
      /\ main'.front = main.front /\ main'.last = main.last
  <2>1. /\ "stop" \in MainPC /\ 1 \in Eyes /\ main \in MainType
        /\ main' = [main EXCEPT !.pc = "stop", !.eye = 1]
    BY <1>1, MainFields DEF GiveUp, MainPC, Eyes
  <2>2. main' \in MainType
    BY <2>1, MainTurnedType
  <2>3. /\ main'.pc = "stop" /\ main'.eye = 1
        /\ main'.front = main.front /\ main'.last = main.last
    BY <2>1, SMT DEF MainType
  <2> QED
    BY <2>2, <2>3
<1>4. /\ capture' = capture /\ cap' = cap /\ slotSeq' = slotSeq
      /\ buf' = buf /\ skipped' = skipped /\ worker' = worker
      /\ handed' = handed
  BY DEF GiveUp
<1>5. TypeOK'
  <2>1. /\ capture' \in CaptureType /\ cap' \in CapType /\ main' \in MainType
        /\ slotSeq' \in [Slots -> 0 .. MaxPairs]
        /\ buf' \in [Eyes -> [Slots -> -1 .. MaxPairs]]
        /\ skipped' \in Nat /\ worker' \in [Eyes -> WorkerType]
        /\ handed' \in Seq(1 .. MaxPairs)
    BY <1>1, <1>2, <1>3, <1>4, FoldedTypes
  <2> QED
    BY <2>1 DEF TypeOK, CaptureType, CapType, MainType, WorkerType, WorkerPC
<1>6. WriterIsAlone'
  BY <1>1, <1>2, <1>3, <1>4 DEF IInv, WriterIsAlone
<1>7. LatestIsWhole'
  BY <1>1, <1>2, <1>3, <1>4 DEF IInv, LatestIsWhole
<1>8. FrontIsWhole'
  BY <1>1, <1>2, <1>3, <1>4 DEF IInv, FrontIsWhole, Serving
<1>9. JobsFollowMain'
  BY <1>1, <1>2, <1>3, <1>4
     DEF IInv, JobsFollowMain, JobFollowsMain, Given, WaitedFor, Stopping, Eyes
<1>10. GenerationsAgree'
  BY <1>1, <1>2, <1>3, <1>4 DEF IInv, GenerationsAgree
<1> QED
  BY <1>5, <1>6, <1>7, <1>8, <1>9, <1>10 DEF IInv

(* Main gives a worker the pair.                                           *)
LEMMA SubmitJobStep ==
  ASSUME IInv, SubmitJob
  PROVE  IInv'
<1>1. TypeOK /\ None \notin Slots
  BY NoneIsNoSlot DEF IInv
<1>2. /\ main.pc = "submit" /\ main.eye \in {1, 2} /\ main.eye \in Eyes
      /\ main.last \in Nat /\ main.front \in Slots
  <2>1. main.pc = "submit"
    BY DEF SubmitJob
  <2> QED
    BY <1>1, <2>1, MainFields DEF Eyes, IInv, FrontIsWhole, Serving
<1>3. /\ main' \in MainType
      /\ main'.front = main.front /\ main'.last = main.last
      /\ main.eye = 1 => main'.pc = "submit" /\ main'.eye = 2
      /\ main.eye # 1 => main'.pc = "await" /\ main'.eye = 1
  <2>1. /\ "submit" \in MainPC /\ "await" \in MainPC /\ main \in MainType
        /\ main' = NextEye("submit", "await")
    BY <1>1, MainFields DEF SubmitJob, MainPC
  <2> QED
    BY <2>1, MainTurned
<1>4. \A e \in Eyes : /\ worker[e].completed \in Nat /\ worker[e].job.generation \in Nat
                     /\ worker[e].pc \in WorkerPC
  BY <1>1, WorkerFields
<1> DEFINE j == [slot |-> main.front, seq |-> main.last,
                 generation |-> worker[main.eye].job.generation + 1]
           p == Woken(worker[main.eye])
           v == [worker[main.eye] EXCEPT !.job = j, !.pc = p]
<1>5. j \in Job /\ j.slot = main.front /\ j.seq = main.last
      /\ j.generation = worker[main.eye].job.generation + 1
  <2>1. worker[main.eye].job.generation + 1 \in Nat
    BY <1>2, <1>4, SMT
  <2>2. main.front \in Slots \cup {None} /\ main.last \in 0 .. MaxPairs
    BY <1>1, MainFields
  <2> QED
    BY <2>1, <2>2 DEF Job
<1>6. /\ p \in WorkerPC /\ p # "asleep"
      /\ p = worker[main.eye].pc \/ (worker[main.eye].pc = "asleep" /\ p = "idle")
  BY <1>2, <1>4 DEF Woken, WorkerPC
<1> HIDE DEF j, p
<1>7. /\ v \in WorkerType /\ v.job = j /\ v.pc = p
      /\ v.serving = worker[main.eye].serving
      /\ v.completed = worker[main.eye].completed /\ v.stop = worker[main.eye].stop
  <2>1. worker[main.eye] \in WorkerType
    BY <1>1, <1>2, WorkerFields
  <2>2. v \in WorkerType
    BY <1>5, <1>6, <2>1, WorkerGivenType
  <2>3. v.job = j /\ v.pc = p /\ v.serving = worker[main.eye].serving
        /\ v.completed = worker[main.eye].completed
    BY <2>1, SMT DEF WorkerType
  <2>4. v.stop = worker[main.eye].stop
    BY <2>1, Zenon DEF WorkerType
  <2> QED
    BY <2>2, <2>3, <2>4
<1>8. /\ worker' \in [Eyes -> WorkerType] /\ worker'[main.eye] = v
      /\ \A o \in Eyes : o # main.eye => worker'[o] = worker[o]
  <2>1. worker' = [worker EXCEPT ![main.eye] = v] /\ worker \in [Eyes -> WorkerType]
    BY <1>1, FoldedTypes DEF SubmitJob, v, j, p
  <2> HIDE DEF v
  <2> QED
    BY <1>2, <1>7, <2>1, WorkersUpdated
<1> HIDE DEF v
<1>9. /\ capture' = capture /\ cap' = cap /\ slotSeq' = slotSeq
      /\ buf' = buf /\ skipped' = skipped /\ handed' = handed
  BY DEF SubmitJob
<1>10. TypeOK'
  <2>1. /\ capture' \in CaptureType /\ cap' \in CapType /\ main' \in MainType
        /\ slotSeq' \in [Slots -> 0 .. MaxPairs]
        /\ buf' \in [Eyes -> [Slots -> -1 .. MaxPairs]]
        /\ skipped' \in Nat /\ worker' \in [Eyes -> WorkerType]
        /\ handed' \in Seq(1 .. MaxPairs)
    BY <1>1, <1>2, <1>3, <1>4, <1>5, <1>6, <1>7, <1>8, <1>9, FoldedTypes
  <2> QED
    BY <2>1 DEF TypeOK, CaptureType, CapType, MainType, WorkerType, WorkerPC
<1>11. WriterIsAlone'
  BY <1>1, <1>2, <1>3, <1>4, <1>5, <1>6, <1>7, <1>8, <1>9 DEF IInv, WriterIsAlone
<1>12. LatestIsWhole'
  BY <1>1, <1>2, <1>3, <1>4, <1>5, <1>6, <1>7, <1>8, <1>9 DEF IInv, LatestIsWhole
<1>13. FrontIsWhole'
  BY <1>1, <1>2, <1>3, <1>4, <1>5, <1>6, <1>7, <1>8, <1>9 DEF IInv, FrontIsWhole, Serving
<1>14. JobsFollowMain'
  <2> SUFFICES ASSUME NEW e \in Eyes PROVE JobFollowsMain(e)'
    BY DEF JobsFollowMain
  <2>1. JobFollowsMain(e) /\ worker[e].completed \in Nat /\ worker[e].job.generation \in Nat
    BY <1>4 DEF IInv, JobsFollowMain
  <2>2. ~worker[e].stop /\ worker[e].pc # "ended" /\ worker[e].job.seq <= main.last
    BY <1>2, <2>1 DEF JobFollowsMain, Stopping
  <2>3. CASE e = main.eye
    <3>1. ~Given(e)
      BY <1>2, <2>3 DEF Given
    <3>2. worker[e].completed = worker[e].job.generation /\ worker[e].pc # "encode"
      BY <2>1, <3>1 DEF JobFollowsMain
    <3>3. worker'[e] = v
      BY <1>8, <2>3
    <3>4. /\ worker'[e].job.slot = main.front /\ worker'[e].job.seq = main.last
          /\ worker'[e].job.generation = worker[e].job.generation + 1
          /\ worker'[e].completed = worker[e].completed
      BY <1>5, <1>7, <2>3, <3>3
    <3>5. worker'[e].pc # "encode" /\ worker'[e].pc # "ended"
      BY <1>6, <1>7, <2>2, <2>3, <3>2, <3>3
    <3>6. ~worker'[e].stop
      BY <1>7, <2>2, <2>3, <3>3, Zenon
    <3>7. Given(e)' /\ ~WaitedFor(e)'
      BY <1>2, <1>3, <2>3 DEF Given, WaitedFor
    <3> QED
      BY <1>2, <1>3, <2>1, <3>2, <3>4, <3>5, <3>6, <3>7 DEF JobFollowsMain
  <2>4. CASE e # main.eye
    <3>1. worker'[e] = worker[e]
      BY <1>8, <2>4
    <3>2. CASE main.eye = 1
      <4>1. ~Given(e) /\ ~Given(e)' /\ main'.pc = "submit"
        BY <1>2, <1>3, <2>4, <3>2 DEF Given
      <4> QED
        BY <1>2, <1>3, <2>1, <2>2, <3>1, <4>1 DEF JobFollowsMain
    <3>3. CASE main.eye = 2
      <4>1. Given(e) /\ Given(e)' /\ ~WaitedFor(e)'
        BY <1>2, <1>3, <2>4, <3>3 DEF Given, WaitedFor, Eyes
      <4> QED
        BY <1>3, <2>1, <2>2, <3>1, <4>1 DEF JobFollowsMain
    <3> QED
      BY <1>2, <3>2, <3>3
  <2> QED
    BY <2>3, <2>4
<1>15. GenerationsAgree'
  <2>1. 1 \in Eyes /\ 2 \in Eyes
    BY DEF Eyes
  <2>2. worker'[main.eye].job.generation = worker[main.eye].job.generation + 1
    BY <1>5, <1>7, <1>8
  <2>3. worker[1].job.generation \in Nat /\ worker[2].job.generation \in Nat
    BY <1>4, <2>1
  <2>4. CASE main.eye = 1
    <3>1. main'.pc = "submit" /\ main'.eye = 2 /\ worker'[2] = worker[2]
      BY <1>3, <1>8, <2>1, <2>4
    <3>2. worker[1].job.generation = worker[2].job.generation
      BY <2>3, <2>4 DEF IInv, GenerationsAgree
    <3> QED
      BY <2>2, <2>3, <2>4, <3>1, <3>2 DEF GenerationsAgree
  <2>5. CASE main.eye = 2
    <3>1. main'.pc = "await" /\ worker'[1] = worker[1]
      BY <1>3, <1>8, <2>1, <2>5
    <3>2. worker[1].job.generation = worker[2].job.generation + 1
      BY <1>2, <2>5 DEF IInv, GenerationsAgree
    <3> QED
      BY <2>2, <2>3, <2>5, <3>1, <3>2 DEF GenerationsAgree
  <2> QED
    BY <1>2, <2>4, <2>5
<1> QED
  BY <1>10, <1>11, <1>12, <1>13, <1>14, <1>15 DEF IInv

(* Main waits for a worker.                                                *)
LEMMA AwaitJobStep ==
  ASSUME IInv, AwaitJob
  PROVE  IInv'
<1>1. TypeOK /\ None \notin Slots
  BY NoneIsNoSlot DEF IInv
<1>2. /\ main.pc = "await" /\ main.eye \in {1, 2} /\ main.eye \in Eyes
  BY <1>1, MainFields DEF AwaitJob, Eyes
<1>3. /\ main' \in MainType /\ main'.front = main.front /\ main'.last = main.last
      /\ \/ main'.pc = "await asleep" /\ main'.eye = main.eye
         \/ /\ ~(worker[main.eye].completed < worker[main.eye].job.generation)
            /\ main.eye = 1 => main'.pc = "await" /\ main'.eye = 2
            /\ main.eye # 1 => main'.pc = "release" /\ main'.eye = 1
  <2>1. /\ "await asleep" \in MainPC /\ "await" \in MainPC /\ "release" \in MainPC
        /\ main \in MainType
    BY <1>1, MainFields DEF MainPC
  <2>2. CASE worker[main.eye].completed < worker[main.eye].job.generation
    <3>1. main' = [main EXCEPT !.pc = "await asleep"]
      BY <2>2 DEF AwaitJob
    <3>2. /\ main' \in MainType /\ main'.front = main.front /\ main'.last = main.last
          /\ main'.pc = "await asleep" /\ main'.eye = main.eye
      BY <2>1, <3>1, MainMoved
    <3> QED
      BY <3>2
  <2>3. CASE ~(worker[main.eye].completed < worker[main.eye].job.generation)
    <3>1. main' = NextEye("await", "release")
      BY <2>3 DEF AwaitJob
    <3>2. /\ main' \in MainType /\ main'.front = main.front /\ main'.last = main.last
          /\ main.eye = 1 => main'.pc = "await" /\ main'.eye = 2
          /\ main.eye # 1 => main'.pc = "release" /\ main'.eye = 1
      BY <2>1, <3>1, MainTurned
    <3> QED
      BY <2>3, <3>2
  <2> QED
    BY <2>2, <2>3
<1>4. \A e \in Eyes : worker[e].completed \in Nat /\ worker[e].job.generation \in Nat
  BY <1>1, WorkerFields
<1>5. /\ capture' = capture /\ cap' = cap /\ slotSeq' = slotSeq
      /\ buf' = buf /\ skipped' = skipped /\ worker' = worker
      /\ handed' = handed
  BY DEF AwaitJob
<1>6. TypeOK'
  <2>1. /\ capture' \in CaptureType /\ cap' \in CapType /\ main' \in MainType
        /\ slotSeq' \in [Slots -> 0 .. MaxPairs]
        /\ buf' \in [Eyes -> [Slots -> -1 .. MaxPairs]]
        /\ skipped' \in Nat /\ worker' \in [Eyes -> WorkerType]
        /\ handed' \in Seq(1 .. MaxPairs)
    BY <1>1, <1>2, <1>3, <1>4, <1>5, FoldedTypes
  <2> QED
    BY <2>1 DEF TypeOK, CaptureType, CapType, MainType, WorkerType, WorkerPC
<1>7. WriterIsAlone'
  BY <1>1, <1>2, <1>3, <1>4, <1>5 DEF IInv, WriterIsAlone
<1>8. LatestIsWhole'
  BY <1>1, <1>2, <1>3, <1>4, <1>5 DEF IInv, LatestIsWhole
<1>9. FrontIsWhole'
  BY <1>1, <1>2, <1>3, <1>4, <1>5 DEF IInv, FrontIsWhole, Serving
<1>10. JobsFollowMain'
  <2> SUFFICES ASSUME NEW e \in Eyes PROVE JobFollowsMain(e)'
    BY DEF JobsFollowMain
  <2>1. JobFollowsMain(e) /\ worker[e].completed \in Nat /\ worker[e].job.generation \in Nat
    BY <1>4 DEF IInv, JobsFollowMain
  <2>2. ~worker[e].stop /\ worker[e].pc # "ended" /\ Given(e) /\ worker'[e] = worker[e]
    BY <1>2, <1>5, <2>1 DEF JobFollowsMain, Stopping, Given
  <2>3. CASE main'.pc = "await asleep" /\ main'.eye = main.eye
    <3>1. Given(e)' /\ (WaitedFor(e)' => WaitedFor(e))
      BY <1>2, <2>3 DEF Given, WaitedFor
    <3> QED
      BY <1>3, <2>1, <2>2, <2>3, <3>1 DEF JobFollowsMain
  <2>4. CASE /\ ~(worker[main.eye].completed < worker[main.eye].job.generation)
             /\ main.eye = 1 /\ main'.pc = "await" /\ main'.eye = 2
    <3>1. Given(e)'
      BY <2>4 DEF Given
    <3>2. WaitedFor(e)' => worker[e].completed = worker[e].job.generation
      BY <2>1, <2>4 DEF WaitedFor, JobFollowsMain
    <3> QED
      BY <1>3, <2>1, <2>2, <2>4, <3>1, <3>2 DEF JobFollowsMain
  <2>5. CASE /\ ~(worker[main.eye].completed < worker[main.eye].job.generation)
             /\ main.eye = 2 /\ main'.pc = "release"
    <3>1. worker[e].completed = worker[e].job.generation
      <4>1. CASE e = 1
        BY <1>2, <2>1, <2>5, <4>1 DEF WaitedFor, JobFollowsMain
      <4>2. CASE e = 2
        BY <2>1, <2>5, <4>2 DEF JobFollowsMain
      <4> QED
        BY <4>1, <4>2 DEF Eyes
    <3>2. ~Given(e)'
      BY <2>5 DEF Given
    <3> QED
      BY <1>3, <2>1, <2>2, <2>5, <3>1, <3>2 DEF JobFollowsMain
  <2> QED
    BY <1>2, <1>3, <2>3, <2>4, <2>5
<1>11. GenerationsAgree'
  BY <1>1, <1>2, <1>3, <1>4, <1>5 DEF IInv, GenerationsAgree
<1> QED
  BY <1>6, <1>7, <1>8, <1>9, <1>10, <1>11 DEF IInv

(* Main gives the slot back.                                               *)
LEMMA ReleaseSlotStep ==
  ASSUME IInv, ReleaseSlot
  PROVE  IInv'
<1>1. TypeOK /\ None \notin Slots
  BY NoneIsNoSlot DEF IInv
<1>2. main.pc = "release"
  BY DEF ReleaseSlot
<1>3. /\ main' \in MainType
      /\ main'.pc = "take" /\ main'.eye = main.eye
      /\ main'.front = main.front /\ main'.last = main.last
  <2>1. "take" \in MainPC /\ main \in MainType /\ main' = [main EXCEPT !.pc = "take"]
    BY <1>1, MainFields DEF ReleaseSlot, MainPC
  <2> QED
    BY <2>1, MainMoved
<1>4. /\ cap' \in CapType /\ cap'.writer = cap.writer /\ cap'.latest = cap.latest
      /\ cap'.reader \in {cap.reader, None} /\ cap'.seq = cap.seq
  <2>1. cap \in CapType /\ None \in Slots \cup {None}
    BY <1>1, CaptureFields
  <2>2. CASE cap.reader = main.front
    <3>1. cap' = [cap EXCEPT !.reader = None]
      BY <2>2 DEF ReleaseSlot
    <3>2. cap' \in CapType
      BY <2>1, <3>1, CapReadType
    <3>3. /\ cap'.writer = cap.writer /\ cap'.latest = cap.latest
          /\ cap'.reader = None /\ cap'.seq = cap.seq
      BY <2>1, <3>1, SMT DEF CapType
    <3> QED
      BY <3>2, <3>3
  <2>3. CASE cap.reader # main.front
    <3>1. cap' = cap
      BY <2>3 DEF ReleaseSlot
    <3> QED
      BY <2>1, <3>1
  <2> QED
    BY <2>2, <2>3
<1>5. /\ capture' = capture /\ slotSeq' = slotSeq /\ buf' = buf
      /\ skipped' = skipped /\ worker' = worker /\ handed' = handed
  BY DEF ReleaseSlot
<1>6. TypeOK'
  <2>1. /\ capture' \in CaptureType /\ cap' \in CapType /\ main' \in MainType
        /\ slotSeq' \in [Slots -> 0 .. MaxPairs]
        /\ buf' \in [Eyes -> [Slots -> -1 .. MaxPairs]]
        /\ skipped' \in Nat /\ worker' \in [Eyes -> WorkerType]
        /\ handed' \in Seq(1 .. MaxPairs)
    BY <1>1, <1>2, <1>3, <1>4, <1>5, FoldedTypes
  <2> QED
    BY <2>1 DEF TypeOK, CaptureType, CapType, MainType, WorkerType, WorkerPC
<1>7. WriterIsAlone'
  BY <1>1, <1>2, <1>3, <1>4, <1>5 DEF IInv, WriterIsAlone
<1>8. LatestIsWhole'
  BY <1>1, <1>2, <1>3, <1>4, <1>5 DEF IInv, LatestIsWhole
<1>9. FrontIsWhole'
  BY <1>1, <1>2, <1>3, <1>4, <1>5 DEF IInv, FrontIsWhole, Serving
<1>10. JobsFollowMain'
  BY <1>1, <1>2, <1>3, <1>4, <1>5
     DEF IInv, JobsFollowMain, JobFollowsMain, Given, WaitedFor, Stopping, Eyes
<1>11. GenerationsAgree'
  BY <1>1, <1>2, <1>3, <1>4, <1>5 DEF IInv, GenerationsAgree
<1> QED
  BY <1>6, <1>7, <1>8, <1>9, <1>10, <1>11 DEF IInv

(* Main tells a worker to stop.                                            *)
LEMMA StopWorkerStep ==
  ASSUME IInv, StopWorker
  PROVE  IInv'
<1>1. TypeOK /\ None \notin Slots
  BY NoneIsNoSlot DEF IInv
<1>2. main.pc = "stop" /\ main.eye \in Eyes
  BY <1>1, MainFields DEF StopWorker, Eyes
<1>3. /\ main' \in MainType
      /\ main'.pc = "join" /\ main'.eye = main.eye
      /\ main'.front = main.front /\ main'.last = main.last
  <2>1. "join" \in MainPC /\ main \in MainType /\ main' = [main EXCEPT !.pc = "join"]
    BY <1>1, MainFields DEF StopWorker, MainPC
  <2> QED
    BY <2>1, MainMoved
<1> DEFINE p == Woken(worker[main.eye])
           v == [worker[main.eye] EXCEPT !.stop = TRUE, !.pc = p]
<1>4. p \in WorkerPC /\ (p = worker[main.eye].pc \/ p = "idle")
  BY <1>1, <1>2, WorkerFields DEF Woken, WorkerPC
<1> HIDE DEF p
<1>5. /\ v \in WorkerType /\ v.job = worker[main.eye].job /\ v.pc = p
      /\ v.serving = worker[main.eye].serving
      /\ v.completed = worker[main.eye].completed /\ v.stop
  <2>1. worker[main.eye] \in WorkerType /\ TRUE \in BOOLEAN
    BY <1>1, <1>2, WorkerFields
  <2>2. v \in WorkerType
    BY <1>4, <2>1, WorkerStoppedType
  <2>3. v.job = worker[main.eye].job /\ v.pc = p /\ v.serving = worker[main.eye].serving
        /\ v.completed = worker[main.eye].completed
    BY <2>1, SMT DEF WorkerType
  <2>4. v.stop = TRUE
    BY <2>1, Zenon DEF WorkerType
  <2> QED
    BY <2>2, <2>3, <2>4
<1>6. /\ worker' \in [Eyes -> WorkerType] /\ worker'[main.eye] = v
      /\ \A o \in Eyes : o # main.eye => worker'[o] = worker[o]
  <2>1. worker' = [worker EXCEPT ![main.eye] = v] /\ worker \in [Eyes -> WorkerType]
    BY <1>1, FoldedTypes DEF StopWorker, v, p
  <2> HIDE DEF v
  <2> QED
    BY <1>2, <1>5, <2>1, WorkersUpdated
<1> HIDE DEF v
<1>7. /\ capture' = capture /\ cap' = cap /\ slotSeq' = slotSeq
      /\ buf' = buf /\ skipped' = skipped /\ handed' = handed
  BY DEF StopWorker
<1>8. TypeOK'
  <2>1. /\ capture' \in CaptureType /\ cap' \in CapType /\ main' \in MainType
        /\ slotSeq' \in [Slots -> 0 .. MaxPairs]
        /\ buf' \in [Eyes -> [Slots -> -1 .. MaxPairs]]
        /\ skipped' \in Nat /\ worker' \in [Eyes -> WorkerType]
        /\ handed' \in Seq(1 .. MaxPairs)
    BY <1>1, <1>2, <1>3, <1>4, <1>5, <1>6, <1>7, FoldedTypes
  <2> QED
    BY <2>1 DEF TypeOK, CaptureType, CapType, MainType, WorkerType, WorkerPC
<1>9. WriterIsAlone'
  BY <1>1, <1>2, <1>3, <1>4, <1>5, <1>6, <1>7 DEF IInv, WriterIsAlone
<1>10. LatestIsWhole'
  BY <1>1, <1>2, <1>3, <1>4, <1>5, <1>6, <1>7 DEF IInv, LatestIsWhole
<1>11. FrontIsWhole'
  BY <1>1, <1>2, <1>3, <1>4, <1>5, <1>6, <1>7 DEF IInv, FrontIsWhole, Serving
<1>12. JobsFollowMain'
  <2> SUFFICES ASSUME NEW e \in Eyes PROVE JobFollowsMain(e)'
    BY DEF JobsFollowMain
  <2>1. JobFollowsMain(e)
    BY DEF IInv, JobsFollowMain
  <2>2. CASE e = main.eye
    BY <1>2, <1>3, <1>4, <1>5, <1>6, <2>1, <2>2 DEF JobFollowsMain, Given, WaitedFor, Stopping
  <2>3. CASE e # main.eye
    BY <1>2, <1>3, <1>6, <2>1, <2>3 DEF JobFollowsMain, Given, WaitedFor, Stopping
  <2> QED
    BY <2>2, <2>3
<1>13. GenerationsAgree'
  <2>1. worker'[1].job = worker[1].job /\ worker'[2].job = worker[2].job
    BY <1>2, <1>5, <1>6 DEF Eyes
  <2> QED
    BY <1>2, <1>3, <2>1 DEF IInv, GenerationsAgree
<1> QED
  BY <1>8, <1>9, <1>10, <1>11, <1>12, <1>13 DEF IInv

(* Main joins a worker.                                                    *)
LEMMA JoinWorkerStep ==
  ASSUME IInv, JoinWorker
  PROVE  IInv'
<1>1. TypeOK /\ None \notin Slots
  BY NoneIsNoSlot DEF IInv
<1>2. main.pc = "join"
  BY DEF JoinWorker
<1>3. /\ main' \in MainType
      /\ main'.front = main.front /\ main'.last = main.last
      /\ main.eye = 1 => main'.pc = "stop" /\ main'.eye = 2
      /\ main.eye # 1 => main'.pc = "join capture" /\ main'.eye = 1
  <2>1. /\ "stop" \in MainPC /\ "join capture" \in MainPC /\ main \in MainType
        /\ main' = NextEye("stop", "join capture")
    BY <1>1, MainFields DEF JoinWorker, MainPC
  <2> QED
    BY <2>1, MainTurned
<1>4. /\ capture' = capture /\ cap' = cap /\ slotSeq' = slotSeq
      /\ buf' = buf /\ skipped' = skipped /\ worker' = worker
      /\ handed' = handed
  BY DEF JoinWorker
<1>5. TypeOK'
  <2>1. /\ capture' \in CaptureType /\ cap' \in CapType /\ main' \in MainType
        /\ slotSeq' \in [Slots -> 0 .. MaxPairs]
        /\ buf' \in [Eyes -> [Slots -> -1 .. MaxPairs]]
        /\ skipped' \in Nat /\ worker' \in [Eyes -> WorkerType]
        /\ handed' \in Seq(1 .. MaxPairs)
    BY <1>1, <1>2, <1>3, <1>4, FoldedTypes
  <2> QED
    BY <2>1 DEF TypeOK, CaptureType, CapType, MainType, WorkerType, WorkerPC
<1>6. WriterIsAlone'
  BY <1>1, <1>2, <1>3, <1>4 DEF IInv, WriterIsAlone
<1>7. LatestIsWhole'
  BY <1>1, <1>2, <1>3, <1>4 DEF IInv, LatestIsWhole
<1>8. FrontIsWhole'
  BY <1>1, <1>2, <1>3, <1>4 DEF IInv, FrontIsWhole, Serving
<1>9. JobsFollowMain'
  BY <1>1, <1>2, <1>3, <1>4
     DEF IInv, JobsFollowMain, JobFollowsMain, Given, WaitedFor, Stopping, Eyes
<1>10. GenerationsAgree'
  BY <1>1, <1>2, <1>3, <1>4 DEF IInv, GenerationsAgree
<1> QED
  BY <1>5, <1>6, <1>7, <1>8, <1>9, <1>10 DEF IInv

(* Main joins the capture thread.                                          *)
LEMMA JoinCaptureStep ==
  ASSUME IInv, JoinCapture
  PROVE  IInv'
<1>1. TypeOK /\ None \notin Slots
  BY NoneIsNoSlot DEF IInv
<1>2. main.pc = "join capture"
  BY DEF JoinCapture
<1>3. /\ main' \in MainType
      /\ main'.pc = "exited" /\ main'.eye = main.eye
      /\ main'.front = main.front /\ main'.last = main.last
  <2>1. "exited" \in MainPC /\ main \in MainType /\ main' = [main EXCEPT !.pc = "exited"]
    BY <1>1, MainFields DEF JoinCapture, MainPC
  <2> QED
    BY <2>1, MainMoved
<1>4. /\ capture' = capture /\ cap' = cap /\ slotSeq' = slotSeq
      /\ buf' = buf /\ skipped' = skipped /\ worker' = worker
      /\ handed' = handed
  BY DEF JoinCapture
<1>5. TypeOK'
  <2>1. /\ capture' \in CaptureType /\ cap' \in CapType /\ main' \in MainType
        /\ slotSeq' \in [Slots -> 0 .. MaxPairs]
        /\ buf' \in [Eyes -> [Slots -> -1 .. MaxPairs]]
        /\ skipped' \in Nat /\ worker' \in [Eyes -> WorkerType]
        /\ handed' \in Seq(1 .. MaxPairs)
    BY <1>1, <1>2, <1>3, <1>4, FoldedTypes
  <2> QED
    BY <2>1 DEF TypeOK, CaptureType, CapType, MainType, WorkerType, WorkerPC
<1>6. WriterIsAlone'
  BY <1>1, <1>2, <1>3, <1>4 DEF IInv, WriterIsAlone
<1>7. LatestIsWhole'
  BY <1>1, <1>2, <1>3, <1>4 DEF IInv, LatestIsWhole
<1>8. FrontIsWhole'
  BY <1>1, <1>2, <1>3, <1>4 DEF IInv, FrontIsWhole, Serving
<1>9. JobsFollowMain'
  BY <1>1, <1>2, <1>3, <1>4
     DEF IInv, JobsFollowMain, JobFollowsMain, Given, WaitedFor, Stopping, Eyes
<1>10. GenerationsAgree'
  BY <1>1, <1>2, <1>3, <1>4 DEF IInv, GenerationsAgree
<1> QED
  BY <1>5, <1>6, <1>7, <1>8, <1>9, <1>10 DEF IInv

(* A worker looks for a job.                                               *)
LEMMA LookForJobStep ==
  ASSUME IInv, NEW f \in Eyes, LookForJob(f)
  PROVE  IInv'
<1>1. TypeOK /\ None \notin Slots
  BY NoneIsNoSlot DEF IInv
<1>2. worker[f].pc = "idle" /\ worker[f] \in WorkerType /\ worker[f].job \in Job
  BY <1>1, WorkerFields DEF LookForJob
<1>3. PICK v \in WorkerType :
        /\ worker' = [worker EXCEPT ![f] = v]
        /\ v.job = worker[f].job /\ v.completed = worker[f].completed /\ v.stop = worker[f].stop
        /\ \/ v.pc = "ended" /\ worker[f].stop
           \/ v.pc = "asleep"
           \/ /\ v.pc = "encode" /\ v.serving = worker[f].job
              /\ worker[f].job.generation # worker[f].completed
  <2> DEFINE a == [worker[f] EXCEPT !.pc = "ended"]
             b == [worker[f] EXCEPT !.pc = "asleep"]
             c == [worker[f] EXCEPT !.pc = "encode", !.serving = worker[f].job]
  <2>0. "ended" \in WorkerPC /\ "asleep" \in WorkerPC /\ "encode" \in WorkerPC
    BY DEF WorkerPC
  <2>1. /\ a \in WorkerType /\ a.pc = "ended"
        /\ a.job = worker[f].job /\ a.completed = worker[f].completed /\ a.stop = worker[f].stop
    <3>1. a \in WorkerType
      BY <1>2, <2>0, WorkerMovedType
    <3>2. a.pc = "ended" /\ a.job = worker[f].job /\ a.completed = worker[f].completed
      BY <1>2, SMT DEF WorkerType
    <3>3. a.stop = worker[f].stop
      BY <1>2, Zenon DEF WorkerType
    <3> QED
      BY <3>1, <3>2, <3>3
  <2>2. /\ b \in WorkerType /\ b.pc = "asleep"
        /\ b.job = worker[f].job /\ b.completed = worker[f].completed /\ b.stop = worker[f].stop
    <3>1. b \in WorkerType
      BY <1>2, <2>0, WorkerMovedType
    <3>2. b.pc = "asleep" /\ b.job = worker[f].job /\ b.completed = worker[f].completed
      BY <1>2, SMT DEF WorkerType
    <3>3. b.stop = worker[f].stop
      BY <1>2, Zenon DEF WorkerType
    <3> QED
      BY <3>1, <3>2, <3>3
  <2>3. /\ c \in WorkerType /\ c.pc = "encode" /\ c.serving = worker[f].job
        /\ c.job = worker[f].job /\ c.completed = worker[f].completed /\ c.stop = worker[f].stop
    <3>1. c \in WorkerType
      BY <1>2, <2>0, WorkerStartedType
    <3>2. c.pc = "encode" /\ c.serving = worker[f].job
          /\ c.job = worker[f].job /\ c.completed = worker[f].completed
      BY <1>2, SMT DEF WorkerType
    <3>3. c.stop = worker[f].stop
      BY <1>2, Zenon DEF WorkerType
    <3> QED
      BY <3>1, <3>2, <3>3
  <2>4. worker' = [worker EXCEPT ![f] = IF worker[f].stop THEN a
                     ELSE IF worker[f].job.generation = worker[f].completed THEN b ELSE c]
    BY DEF LookForJob
  <2> HIDE DEF a, b, c
  <2>5. CASE worker[f].stop
    BY <2>1, <2>4, <2>5
  <2>6. CASE ~worker[f].stop /\ worker[f].job.generation = worker[f].completed
    BY <2>2, <2>4, <2>6
  <2>7. CASE ~worker[f].stop /\ worker[f].job.generation # worker[f].completed
    BY <2>3, <2>4, <2>7
  <2> QED
    BY <2>5, <2>6, <2>7
<1>4. /\ worker' \in [Eyes -> WorkerType] /\ worker'[f] = v
      /\ \A o \in Eyes : o # f => worker'[o] = worker[o]
  <2>1. worker' = [worker EXCEPT ![f] = v] /\ v \in WorkerType
    BY <1>3
  <2>2. worker \in [Eyes -> WorkerType]
    BY <1>1, FoldedTypes
  <2> QED
    BY <2>1, <2>2, WorkersUpdated
<1>5. /\ v.job = worker[f].job /\ v.completed = worker[f].completed /\ v.stop = worker[f].stop
      /\ \/ v.pc = "ended" /\ worker[f].stop
         \/ v.pc = "asleep"
         \/ /\ v.pc = "encode" /\ v.serving = worker[f].job
            /\ worker[f].job.generation # worker[f].completed
  BY <1>3
<1>6. /\ capture' = capture /\ cap' = cap /\ slotSeq' = slotSeq
      /\ buf' = buf /\ main' = main /\ skipped' = skipped
      /\ handed' = handed
  BY DEF LookForJob
<1>7. TypeOK'
  <2>1. /\ capture' \in CaptureType /\ cap' \in CapType /\ main' \in MainType
        /\ slotSeq' \in [Slots -> 0 .. MaxPairs]
        /\ buf' \in [Eyes -> [Slots -> -1 .. MaxPairs]]
        /\ skipped' \in Nat /\ worker' \in [Eyes -> WorkerType]
        /\ handed' \in Seq(1 .. MaxPairs)
    BY <1>1, <1>2, <1>4, <1>5, <1>6, FoldedTypes
  <2> QED
    BY <2>1 DEF TypeOK, CaptureType, CapType, MainType, WorkerType, WorkerPC
<1>8. WriterIsAlone'
  BY <1>1, <1>2, <1>4, <1>5, <1>6 DEF IInv, WriterIsAlone
<1>9. LatestIsWhole'
  BY <1>1, <1>2, <1>4, <1>5, <1>6 DEF IInv, LatestIsWhole
<1>10. FrontIsWhole'
  BY <1>1, <1>2, <1>4, <1>5, <1>6 DEF IInv, FrontIsWhole, Serving
<1>11. JobsFollowMain'
  <2> SUFFICES ASSUME NEW e \in Eyes PROVE JobFollowsMain(e)'
    BY DEF JobsFollowMain
  <2>1. JobFollowsMain(e)
    BY DEF IInv, JobsFollowMain
  <2>2. CASE e = f
    BY <1>1, <1>2, <1>4, <1>5, <1>6, <2>1, <2>2 DEF JobFollowsMain, Given, WaitedFor, Stopping
  <2>3. CASE e # f
    BY <1>1, <1>2, <1>4, <1>5, <1>6, <2>1, <2>3 DEF JobFollowsMain, Given, WaitedFor, Stopping
  <2> QED
    BY <2>2, <2>3
<1>12. GenerationsAgree'
  <2>1. worker'[1].job = worker[1].job /\ worker'[2].job = worker[2].job
    BY <1>1, <1>2, <1>4, <1>5, <1>6 DEF Eyes
  <2> QED
    BY <1>1, <1>2, <1>4, <1>5, <1>6, <2>1 DEF IInv, GenerationsAgree
<1> QED
  BY <1>7, <1>8, <1>9, <1>10, <1>11, <1>12 DEF IInv

(* A worker is done with its job.                                          *)
LEMMA FinishJobStep ==
  ASSUME IInv, NEW f \in Eyes, FinishJob(f)
  PROVE  IInv'
<1>1. TypeOK /\ None \notin Slots
  BY NoneIsNoSlot DEF IInv
<1>2. worker[f].pc = "encode" /\ worker[f] \in WorkerType
  BY <1>1, WorkerFields DEF FinishJob
<1>3. /\ worker[f].serving = worker[f].job /\ worker[f].job.generation \in Nat
  BY <1>1, <1>2, WorkerFields DEF IInv, JobsFollowMain, JobFollowsMain
<1> DEFINE n == worker[f].serving.generation
           v == [worker[f] EXCEPT !.pc = "idle", !.completed = n]
<1>4. n = worker[f].job.generation /\ n \in Nat
  BY <1>3
<1> HIDE DEF n
<1>5. v \in WorkerType /\ v.pc = "idle" /\ v.job = worker[f].job /\ v.completed = n
      /\ v.stop = worker[f].stop
  <2>1. v \in WorkerType
    BY <1>2, <1>4, WorkerFinishedType DEF WorkerPC
  <2>2. v.pc = "idle" /\ v.job = worker[f].job /\ v.completed = n
    BY <1>2, SMT DEF WorkerType
  <2>3. v.stop = worker[f].stop
    BY <1>2, Zenon DEF WorkerType
  <2> QED
    BY <2>1, <2>2, <2>3
<1>6. /\ worker' \in [Eyes -> WorkerType] /\ worker'[f] = v
      /\ \A o \in Eyes : o # f => worker'[o] = worker[o]
  <2>1. worker' = [worker EXCEPT ![f] = v] /\ worker \in [Eyes -> WorkerType]
    BY <1>1, FoldedTypes DEF FinishJob, v, n
  <2> HIDE DEF v
  <2> QED
    BY <1>5, <2>1, WorkersUpdated
<1> HIDE DEF v
<1>7. /\ main' \in MainType
      /\ main'.eye = main.eye /\ main'.front = main.front /\ main'.last = main.last
      /\ main'.pc = main.pc \/ (main.pc = "await asleep" /\ main'.pc = "await")
  BY <1>1, MainFields, MainAwoken DEF FinishJob
<1>8. /\ capture' = capture /\ cap' = cap /\ slotSeq' = slotSeq
      /\ buf' = buf /\ skipped' = skipped /\ handed' = handed
  BY DEF FinishJob
<1>9. TypeOK'
  <2>1. /\ capture' \in CaptureType /\ cap' \in CapType /\ main' \in MainType
        /\ slotSeq' \in [Slots -> 0 .. MaxPairs]
        /\ buf' \in [Eyes -> [Slots -> -1 .. MaxPairs]]
        /\ skipped' \in Nat /\ worker' \in [Eyes -> WorkerType]
        /\ handed' \in Seq(1 .. MaxPairs)
    BY <1>1, <1>2, <1>3, <1>4, <1>5, <1>6, <1>7, <1>8, FoldedTypes
  <2> QED
    BY <2>1 DEF TypeOK, CaptureType, CapType, MainType, WorkerType, WorkerPC
<1>10. WriterIsAlone'
  BY <1>1, <1>2, <1>3, <1>4, <1>5, <1>6, <1>7, <1>8 DEF IInv, WriterIsAlone
<1>11. LatestIsWhole'
  BY <1>1, <1>2, <1>3, <1>4, <1>5, <1>6, <1>7, <1>8 DEF IInv, LatestIsWhole
<1>12. FrontIsWhole'
  BY <1>1, <1>2, <1>3, <1>4, <1>5, <1>6, <1>7, <1>8 DEF IInv, FrontIsWhole, Serving
<1>13. JobsFollowMain'
  <2> SUFFICES ASSUME NEW e \in Eyes PROVE JobFollowsMain(e)'
    BY DEF JobsFollowMain
  <2>1. JobFollowsMain(e)
    BY DEF IInv, JobsFollowMain
  <2>2. /\ Given(e)' => Given(e)
        /\ Given(e) => Given(e)'
        /\ WaitedFor(e)' => WaitedFor(e)
        /\ main'.pc = "submit" => main.pc = "submit"
        /\ main.pc \in Stopping => main'.pc \in Stopping
    BY <1>7 DEF Given, WaitedFor, Stopping
  <2>3. CASE e = f
    <3>1. worker'[e] = v
      BY <1>6, <2>3
    <3>2. /\ worker'[e].job = worker[e].job /\ worker'[e].pc = "idle"
          /\ worker'[e].completed = worker'[e].job.generation
          /\ worker'[e].job.generation \in Nat
      BY <1>3, <1>4, <1>5, <2>3, <3>1
    <3>3. ~worker[e].stop
      BY <1>2, <2>1, <2>3 DEF JobFollowsMain, Given, Stopping
    <3>4. ~worker'[e].stop
      BY <1>5, <2>3, <3>1, <3>3, Zenon
    <3>5. /\ worker'[e].completed <= worker'[e].job.generation
          /\ worker'[e].job.generation <= worker'[e].completed + 1
      BY <3>2
    <3>6. worker'[e].job.seq <= main'.last
      BY <1>7, <2>1, <3>2 DEF JobFollowsMain
    <3>7. Given(e)' => worker'[e].job.slot = main'.front /\ worker'[e].job.seq = main'.last
      BY <1>7, <2>1, <2>2, <3>2 DEF JobFollowsMain
    <3>8. main'.pc = "submit" /\ ~Given(e)' => worker'[e].job.seq < main'.last
      BY <1>7, <2>1, <2>2, <3>2 DEF JobFollowsMain
    <3> QED
      BY <3>2, <3>4, <3>5, <3>6, <3>7, <3>8 DEF JobFollowsMain
  <2>4. CASE e # f
    <3>1. worker'[e] = worker[e]
      BY <1>6, <2>4
    <3> QED
      BY <1>7, <2>1, <2>2, <3>1 DEF JobFollowsMain, Stopping
  <2> QED
    BY <2>3, <2>4
<1>14. GenerationsAgree'
  <2>1. worker'[1].job = worker[1].job /\ worker'[2].job = worker[2].job
    BY <1>1, <1>2, <1>3, <1>4, <1>5, <1>6, <1>7, <1>8 DEF Eyes
  <2> QED
    BY <1>1, <1>2, <1>3, <1>4, <1>5, <1>6, <1>7, <1>8, <2>1 DEF IInv, GenerationsAgree
<1> QED
  BY <1>9, <1>10, <1>11, <1>12, <1>13, <1>14 DEF IInv

(* A sleeper wakes up for no reason.                                       *)
LEMMA WakeupStep ==
  ASSUME IInv, Wakeup
  PROVE  IInv'
<1>1. TypeOK /\ None \notin Slots
  BY NoneIsNoSlot DEF IInv
<1>2. /\ main' \in MainType
      /\ main'.eye = main.eye /\ main'.front = main.front /\ main'.last = main.last
      /\ \/ main'.pc = main.pc
         \/ main.pc = "take asleep" /\ main'.pc = "take"
         \/ main.pc = "await asleep" /\ main'.pc = "await"
  <2>1. main \in MainType /\ "take" \in MainPC /\ "await" \in MainPC
    BY <1>1, MainFields DEF MainPC
  <2>2. \/ main.pc = "take asleep" /\ main' = [main EXCEPT !.pc = "take"]
        \/ main.pc = "await asleep" /\ main' = [main EXCEPT !.pc = "await"]
        \/ main' = main
    BY DEF Wakeup, SpuriousWakeup
  <2>3. CASE main.pc = "take asleep" /\ main' = [main EXCEPT !.pc = "take"]
    <3>1. /\ main' \in MainType /\ main'.pc = "take" /\ main'.eye = main.eye
          /\ main'.front = main.front /\ main'.last = main.last
      BY <2>1, <2>3, MainMoved
    <3> QED
      BY <2>3, <3>1
  <2>4. CASE main.pc = "await asleep" /\ main' = [main EXCEPT !.pc = "await"]
    <3>1. /\ main' \in MainType /\ main'.pc = "await" /\ main'.eye = main.eye
          /\ main'.front = main.front /\ main'.last = main.last
      BY <2>1, <2>4, MainMoved
    <3> QED
      BY <2>4, <3>1
  <2>5. CASE main' = main
    BY <2>1, <2>5
  <2> QED
    BY <2>2, <2>3, <2>4, <2>5
<1>3. /\ worker' \in [Eyes -> WorkerType]
      /\ \A e \in Eyes : /\ worker'[e].job = worker[e].job
                         /\ worker'[e].completed = worker[e].completed
                         /\ worker'[e].stop = worker[e].stop
                         /\ \/ worker'[e] = worker[e]
                            \/ worker'[e].pc = "idle"
  <2>1. worker \in [Eyes -> WorkerType]
    BY <1>1, FoldedTypes
  <2>2. CASE worker' = worker
    BY <2>1, <2>2
  <2>3. CASE \E e \in Eyes : worker' = [worker EXCEPT ![e].pc = "idle"]
    <3>1. PICK f \in Eyes : worker' = [worker EXCEPT ![f].pc = "idle"]
      BY <2>3
    <3> DEFINE v == [worker[f] EXCEPT !.pc = "idle"]
    <3>2. v \in WorkerType /\ v.pc = "idle" /\ v.job = worker[f].job
          /\ v.completed = worker[f].completed /\ v.stop = worker[f].stop
      <4>1. worker[f] \in WorkerType
        BY <1>1, <3>1, WorkerFields
      <4>2. v \in WorkerType
        BY <4>1, WorkerMovedType DEF WorkerPC
      <4>3. v.pc = "idle" /\ v.job = worker[f].job /\ v.completed = worker[f].completed
        BY <4>1, SMT DEF WorkerType
      <4>4. v.stop = worker[f].stop
        BY <4>1, Zenon DEF WorkerType
      <4> QED
        BY <4>2, <4>3, <4>4
    <3>3. worker' = [worker EXCEPT ![f] = v] /\ f \in Eyes
      BY <3>1
    <3> HIDE DEF v
    <3>4. /\ worker' \in [Eyes -> WorkerType] /\ worker'[f] = v
          /\ \A o \in Eyes : o # f => worker'[o] = worker[o]
      BY <2>1, <3>2, <3>3, WorkersUpdated
    <3> QED
      BY <3>2, <3>4
  <2> QED
    BY <2>2, <2>3 DEF Wakeup, SpuriousWakeup
<1>4. /\ capture' = capture /\ cap' = cap /\ slotSeq' = slotSeq
      /\ buf' = buf /\ skipped' = skipped /\ handed' = handed
  BY DEF Wakeup
<1>5. TypeOK'
  <2>1. /\ capture' \in CaptureType /\ cap' \in CapType /\ main' \in MainType
        /\ slotSeq' \in [Slots -> 0 .. MaxPairs]
        /\ buf' \in [Eyes -> [Slots -> -1 .. MaxPairs]]
        /\ skipped' \in Nat /\ worker' \in [Eyes -> WorkerType]
        /\ handed' \in Seq(1 .. MaxPairs)
    BY <1>1, <1>2, <1>3, <1>4, FoldedTypes
  <2> QED
    BY <2>1 DEF TypeOK, CaptureType, CapType, MainType, WorkerType, WorkerPC
<1>6. WriterIsAlone'
  BY <1>1, <1>2, <1>3, <1>4 DEF IInv, WriterIsAlone
<1>7. LatestIsWhole'
  BY <1>1, <1>2, <1>3, <1>4 DEF IInv, LatestIsWhole
<1>8. FrontIsWhole'
  BY <1>1, <1>2, <1>3, <1>4 DEF IInv, FrontIsWhole, Serving
<1>9. JobsFollowMain'
  <2> SUFFICES ASSUME NEW e \in Eyes PROVE JobFollowsMain(e)'
    BY DEF JobsFollowMain
  <2>1. JobFollowsMain(e)
    BY DEF IInv, JobsFollowMain
  <2> QED
    BY <1>2, <1>3, <2>1 DEF JobFollowsMain, Given, WaitedFor, Stopping
<1>10. GenerationsAgree'
  <2>1. worker'[1].job = worker[1].job /\ worker'[2].job = worker[2].job
    BY <1>3 DEF Eyes
  <2> QED
    BY <1>2, <2>1 DEF IInv, GenerationsAgree
<1> QED
  BY <1>5, <1>6, <1>7, <1>8, <1>9, <1>10 DEF IInv

-----------------------------------------------------------------------------
(* It holds in the beginning, and every step keeps it.                     *)
LEMMA InitIInv == Init => IInv
<1> SUFFICES ASSUME Init PROVE IInv
  OBVIOUS
<1>1. /\ capture = [pc |-> "choose", slot |-> None]
      /\ cap = [write |-> 0, writer |-> None, latest |-> None, reader |-> None,
                seq |-> 0, stop |-> FALSE, error |-> FALSE]
      /\ slotSeq = [s \in Slots |-> 0] /\ buf = [e \in Eyes |-> [s \in Slots |-> 0]]
      /\ main = [pc |-> "take", eye |-> 1, front |-> None, last |-> 0]
      /\ skipped = 0 /\ handed = << >>
  BY DEF Init
<1>2. 0 \in Slots /\ 0 \in 0 .. MaxPairs /\ 0 \in -1 .. MaxPairs
  BY PipelineAssumption, SMT DEF Slots
<1>3. NoJob \in Job /\ NoJob.generation = 0 /\ NoJob.seq = 0
  BY <1>2 DEF NoJob, Job
<1> DEFINE v == [pc |-> "idle", job |-> NoJob, serving |-> NoJob,
                 completed |-> 0, stop |-> FALSE]
<1>4. worker = [e \in Eyes |-> v]
  BY DEF Init
<1>5. /\ v \in WorkerType /\ v.pc = "idle" /\ v.job = NoJob /\ v.completed = 0
      /\ v.stop = FALSE
  BY <1>3 DEF WorkerType, WorkerPC
<1> HIDE DEF v
<1>6. TypeOK
  <2>1. capture \in CaptureType
    BY <1>1 DEF CaptureType
  <2>2. cap \in CapType
    BY <1>1, <1>2 DEF CapType
  <2>3. main \in MainType
    BY <1>1, <1>2 DEF MainType, MainPC, Eyes
  <2>4. slotSeq \in [Slots -> 0 .. MaxPairs] /\ buf \in [Eyes -> [Slots -> -1 .. MaxPairs]]
    BY <1>1, <1>2
  <2>5. skipped \in Nat /\ handed \in Seq(1 .. MaxPairs) /\ worker \in [Eyes -> WorkerType]
    BY <1>1, <1>4, <1>5
  <2> QED
    BY <2>1, <2>2, <2>3, <2>4, <2>5, FoldedTypes
<1>7. WriterIsAlone /\ LatestIsWhole /\ FrontIsWhole
  BY <1>1 DEF WriterIsAlone, LatestIsWhole, FrontIsWhole, Serving
<1>8. JobsFollowMain
  <2> SUFFICES ASSUME NEW e \in Eyes PROVE JobFollowsMain(e)
    BY DEF JobsFollowMain
  <2>1. worker[e] = v
    BY <1>4
  <2>2. main.pc = "take" /\ main.last = 0
    BY <1>1
  <2>3. worker[e].completed = 0 /\ worker[e].job.generation = 0 /\ worker[e].job.seq = 0
    BY <1>3, <1>5, <2>1
  <2>4. worker[e].pc = "idle" /\ ~Given(e)
    BY <1>5, <2>1, <2>2 DEF Given
  <2>5. ~worker[e].stop
    BY <1>5, <2>1, Zenon
  <2> QED
    BY <2>2, <2>3, <2>4, <2>5 DEF JobFollowsMain
<1>9. GenerationsAgree
  <2>1. worker[1] = v /\ worker[2] = v
    BY <1>4 DEF Eyes
  <2>2. v.job.generation = 0 /\ main.pc = "take"
    BY <1>1, <1>3, <1>5
  <2> QED
    BY <2>1, <2>2 DEF GenerationsAgree
<1> QED
  BY <1>6, <1>7, <1>8, <1>9 DEF IInv

(* What changes nothing keeps it.                                          *)
LEMMA StutterIInv ==
  ASSUME IInv, UNCHANGED vars
  PROVE  IInv'
<1>1. /\ capture' = capture /\ cap' = cap /\ slotSeq' = slotSeq /\ buf' = buf
      /\ main' = main /\ skipped' = skipped /\ worker' = worker /\ handed' = handed
  BY DEF vars
<1>2. TypeOK' /\ WriterIsAlone' /\ LatestIsWhole' /\ FrontIsWhole'
  BY <1>1 DEF IInv, TypeOK, WriterIsAlone, LatestIsWhole, FrontIsWhole
<1>3. JobsFollowMain' /\ GenerationsAgree'
  BY <1>1 DEF IInv, JobsFollowMain, JobFollowsMain, Given, WaitedFor, GenerationsAgree
<1> QED
  BY <1>2, <1>3 DEF IInv

(* Every step keeps it: one lemma above for each action.                   *)
LEMMA NextIInv == IInv /\ [Next]_vars => IInv'
<1> SUFFICES ASSUME IInv, [Next]_vars PROVE IInv'
  OBVIOUS
<1>1. CASE ChooseWriteSlot
  BY <1>1, ChooseWriteSlotStep
<1>2. CASE \E f \in Eyes : ReadBytes(f)
  BY <1>2, ReadBytesStep
<1>3. CASE PublishPair
  BY <1>3, PublishPairStep
<1>4. CASE CameraFails
  BY <1>4, CameraFailsStep
<1>5. CASE MainStep
  <2>1. CASE SleepUntilCaptured
    BY <2>1, SleepUntilCapturedStep
  <2>2. CASE TakeLatest
    BY <2>2, TakeLatestStep
  <2>3. CASE GiveUp
    BY <2>3, GiveUpStep
  <2>4. CASE SubmitJob
    BY <2>4, SubmitJobStep
  <2>5. CASE AwaitJob
    BY <2>5, AwaitJobStep
  <2>6. CASE ReleaseSlot
    BY <2>6, ReleaseSlotStep
  <2>7. CASE StopWorker
    BY <2>7, StopWorkerStep
  <2>8. CASE JoinWorker
    BY <2>8, JoinWorkerStep
  <2>9. CASE JoinCapture
    BY <2>9, JoinCaptureStep
  <2> QED
    BY <1>5, <2>1, <2>2, <2>3, <2>4, <2>5, <2>6, <2>7, <2>8, <2>9 DEF MainStep
<1>6. CASE \E f \in Eyes : WorkerStep(f)
  <2>1. PICK f \in Eyes : LookForJob(f) \/ FinishJob(f)
    BY <1>6 DEF WorkerStep
  <2>2. CASE LookForJob(f)
    BY <2>2, LookForJobStep
  <2>3. CASE FinishJob(f)
    BY <2>3, FinishJobStep
  <2> QED
    BY <2>1, <2>2, <2>3
<1>7. CASE Wakeup
  BY <1>7, WakeupStep
<1>8. CASE UNCHANGED vars
  BY <1>8, StutterIInv
<1> QED
  BY <1>1, <1>2, <1>3, <1>4, <1>5, <1>6, <1>7, <1>8 DEF Next

(* The inductive invariant holds in every reachable state.                 *)
THEOREM Inductive == Spec => []IInv
  BY InitIInv, NextIInv, PTL DEF Spec

(* The state keeps its shape, with any number of slots.                    *)
THEOREM TypeCorrect == Spec => []TypeOK
<1>1. IInv => TypeOK
  BY DEF IInv
<1> QED
  BY <1>1, Inductive, PTL

-----------------------------------------------------------------------------
(* As long as a worker encodes, its buffer holds the pair it was given,    *)
(* whole: the capture thread never writes into the slot main has locked.   *)
THEOREM Untorn == Spec => []NoTearing
<1>1. IInv => NoTearing
  <2> SUFFICES ASSUME IInv, NEW e \in Eyes, worker[e].pc = "encode"
               PROVE  /\ worker[e].serving.slot \in Slots
                      /\ buf[e][worker[e].serving.slot] = worker[e].serving.seq
    BY DEF NoTearing
  <2>1. JobFollowsMain(e)
    BY DEF IInv, JobsFollowMain
  <2>2. worker[e].serving = worker[e].job /\ Given(e)
    BY <2>1 DEF JobFollowsMain
  <2>3. worker[e].job.slot = main.front /\ worker[e].job.seq = main.last
    BY <2>1, <2>2 DEF JobFollowsMain
  <2>4. main.pc \in Serving
    BY <2>2 DEF Given, Serving
  <2>5. main.front \in Slots /\ buf[e][main.front] = main.last
    BY <2>4 DEF IInv, FrontIsWhole
  <2> QED
    BY <2>2, <2>3, <2>5
<1> QED
  BY <1>1, Inductive, PTL

(* The two eyes are never encoded from different pairs, and neither is     *)
(* more than one pair ahead of the other.                                  *)
THEOREM Paired == Spec => []EyesStayPaired
<1>1. IInv => EyesStayPaired
  <2> SUFFICES ASSUME IInv, NEW e \in Eyes, NEW o \in Eyes, worker[e].pc = "encode"
               PROVE  /\ worker[o].pc = "encode" => worker[o].serving = worker[e].serving
                      /\ worker[o].completed >= worker[e].serving.generation - 1
    BY DEF EyesStayPaired
  <2>1. JobFollowsMain(e) /\ JobFollowsMain(o)
    BY DEF IInv, JobsFollowMain
  <2>2. worker[e].serving = worker[e].job /\ Given(e)
    BY <2>1 DEF JobFollowsMain
  <2>3. /\ worker[e].job \in Job /\ worker[o].job \in Job
        /\ worker[e].job.generation \in Nat /\ worker[o].job.generation \in Nat
        /\ worker[e].completed \in Nat /\ worker[o].completed \in Nat
    BY WorkerFields DEF IInv
  <2>4. CASE e = o
    BY <2>1, <2>2, <2>3, <2>4 DEF JobFollowsMain
  <2>5. CASE e # o
    <3>1. (e = 1 /\ o = 2) \/ (e = 2 /\ o = 1)
      BY <2>5 DEF Eyes
    <3>2. CASE Given(o)
      <4>1. main.pc # "submit"
        <5>1. main.pc \in {"await", "await asleep"} \/ e = 1
          BY <2>2 DEF Given
        <5>2. main.pc \in {"await", "await asleep"} \/ o = 1
          BY <3>2 DEF Given
        <5>3. main.pc \in {"await", "await asleep"}
          BY <2>5, <5>1, <5>2
        <5> QED
          BY <5>3
      <4>2. worker[e].job.generation = worker[o].job.generation
        <5>1. worker[1].job.generation = worker[2].job.generation
          BY <2>3, <3>1, <4>1 DEF IInv, GenerationsAgree
        <5> QED
          BY <3>1, <5>1
      <4>3. /\ worker[e].job.slot = worker[o].job.slot
            /\ worker[e].job.seq = worker[o].job.seq
        BY <2>1, <2>2, <3>2 DEF JobFollowsMain
      <4>4. worker[e].job = worker[o].job
        BY <2>3, <4>2, <4>3 DEF Job
      <4>5. worker[o].pc = "encode" => worker[o].serving = worker[o].job
        BY <2>1 DEF JobFollowsMain
      <4>6. worker[o].job.generation <= worker[o].completed + 1
        BY <2>1 DEF JobFollowsMain
      <4> QED
        BY <2>2, <2>3, <4>2, <4>4, <4>5, <4>6
    <3>3. CASE ~Given(o)
      <4>1. worker[o].pc # "encode" /\ worker[o].completed = worker[o].job.generation
        BY <2>1, <3>3 DEF JobFollowsMain
      <4>2. main.pc = "submit" /\ main.eye = 2 /\ e = 1 /\ o = 2
        BY <2>2, <3>1, <3>3 DEF Given
      <4>3. worker[1].job.generation = worker[2].job.generation + 1
        BY <4>2 DEF IInv, GenerationsAgree
      <4> QED
        BY <2>2, <2>3, <4>1, <4>2, <4>3
    <3> QED
      BY <3>2, <3>3
  <2> QED
    BY <2>4, <2>5
<1> QED
  BY <1>1, Inductive, PTL

-----------------------------------------------------------------------------
(* Going round n places from any of them, one comes to every other.        *)
LEMMA EveryPlaceIsReached ==
  ASSUME NEW n \in Nat, n > 0, NEW a \in 0 .. n - 1, NEW s \in 0 .. n - 1
  PROVE  \E i \in 0 .. n - 1 : ((a + i) % n) = s
<1>1. CASE a <= s
  <2>1. s - a \in 0 .. n - 1 /\ a + (s - a) = s
    BY <1>1, SMT
  <2>2. (s % n) = s
    BY SMT
  <2>3. ((a + (s - a)) % n) = s
    BY <2>1, <2>2
  <2> QED
    BY <2>1, <2>3
<1>2. CASE s < a
  <2>1. s + n - a \in 0 .. n - 1 /\ a + (s + n - a) = s + n
    BY <1>2, SMT
  <2>2. ((s + n) % n) = s
    BY SMT
  <2>3. ((a + (s + n - a)) % n) = s
    BY <2>1, <2>2
  <2> QED
    BY <2>1, <2>3
<1> QED
  BY <1>1, <1>2, SMT

(* With three slots or more the capture thread always finds a free one:    *)
(* only the newest and the one main reads can be taken while it looks.     *)
THEOREM NeverStalls == Spec => []CaptureNeverStalls
<1>1. IInv => CaptureNeverStalls
  <2> SUFFICES ASSUME IInv, capture.pc = "choose"
               PROVE  \E i \in Slots : Free(Candidate(i))
    BY DEF CaptureNeverStalls
  <2>1. cap.writer = None /\ None \notin Slots
    BY NoneIsNoSlot DEF IInv, WriterIsAlone
  <2>2. PICK s \in Slots : s # cap.latest /\ s # cap.reader
    <3>1. 0 \in Slots /\ 1 \in Slots /\ 2 \in Slots
      BY PipelineAssumption, SMT DEF Slots
    <3> QED
      BY <3>1
  <2>3. cap.write \in 0 .. SlotCount - 1 /\ s \in 0 .. SlotCount - 1
    BY <2>2, CaptureFields DEF IInv, Slots
  <2>4. SlotCount \in Nat /\ SlotCount > 0
    BY PipelineAssumption, SMT
  <2>5. \E i \in 0 .. SlotCount - 1 : ((cap.write + i) % SlotCount) = s
    BY <2>3, <2>4, EveryPlaceIsReached
  <2>6. \E i \in Slots : Candidate(i) = s
    BY <2>5 DEF Candidate, Slots
  <2>7. Free(s)
    BY <2>1, <2>2 DEF Free
  <2> QED
    BY <2>6, <2>7
<1> QED
  BY <1>1, Inductive, PTL

-----------------------------------------------------------------------------
(* What main remembers of the pairs changes when it takes one, and only    *)
(* then.                                                                   *)
LEMMA OnlyTakingCounts ==
  ASSUME TypeOK, [Next]_vars, ~TakeLatest
  PROVE  main'.last = main.last /\ skipped' = skipped /\ handed' = handed
<1>1. main \in MainType
  BY MainFields
<1>2. skipped' = skipped /\ handed' = handed
  BY DEF Next, MainStep, WorkerStep, ChooseWriteSlot, ReadBytes, PublishPair, CameraFails,
    SleepUntilCaptured, GiveUp, SubmitJob, AwaitJob, ReleaseSlot, StopWorker, JoinWorker,
    JoinCapture, LookForJob, FinishJob, Wakeup, vars
<1>3. main'.last = main.last
  <2>0. CASE PublishPair
    BY <1>1, <2>0, MainSignalled DEF PublishPair
  <2>1. CASE CameraFails
    BY <1>1, <2>1, MainSignalled DEF CameraFails
  <2>2. CASE SubmitJob
    BY <1>1, <2>2, MainTurned DEF SubmitJob, MainPC
  <2>3. CASE JoinWorker
    BY <1>1, <2>3, MainTurned DEF JoinWorker, MainPC
  <2>4. CASE AwaitJob
    <3>1. main' = [main EXCEPT !.pc = "await asleep"] \/ main' = NextEye("await", "release")
      BY <2>4 DEF AwaitJob
    <3>2. CASE main' = [main EXCEPT !.pc = "await asleep"]
      BY <1>1, <3>2, MainMoved DEF MainPC
    <3>3. CASE main' = NextEye("await", "release")
      BY <1>1, <3>3, MainTurned DEF MainPC
    <3> QED
      BY <3>1, <3>2, <3>3
  <2>5. CASE GiveUp
    <3>1. main' = [main EXCEPT !.pc = "stop", !.eye = 1]
      BY <2>5 DEF GiveUp
    <3> QED
      BY <1>1, <3>1, SMT DEF MainType
  <2>6. CASE \E e \in Eyes : FinishJob(e)
    BY <1>1, <2>6, MainAwoken DEF FinishJob
  <2>7. CASE \E p \in MainPC : main' = [main EXCEPT !.pc = p]
    BY <1>1, <2>7, MainMoved
  <2>8. CASE main' = main
    BY <2>8, Zenon
  <2>9. /\ SleepUntilCaptured => main' = [main EXCEPT !.pc = "take asleep"]
        /\ ReleaseSlot => main' = [main EXCEPT !.pc = "take"]
        /\ StopWorker => main' = [main EXCEPT !.pc = "join"]
        /\ JoinCapture => main' = [main EXCEPT !.pc = "exited"]
        /\ Wakeup => \/ main' = [main EXCEPT !.pc = "take"]
                     \/ main' = [main EXCEPT !.pc = "await"]
                     \/ main' = main
        /\ {"take asleep", "take", "join", "exited", "await"} \subseteq MainPC
    BY DEF SleepUntilCaptured, ReleaseSlot, StopWorker, JoinCapture, Wakeup,
           SpuriousWakeup, MainPC
  <2>10. CASE \/ SleepUntilCaptured \/ ReleaseSlot \/ StopWorker \/ JoinCapture \/ Wakeup
    BY <2>7, <2>8, <2>9, <2>10
  <2>11. CASE \/ ChooseWriteSlot \/ (\E e \in Eyes : ReadBytes(e) \/ LookForJob(e))
              \/ UNCHANGED vars
    BY <2>8, <2>11 DEF ChooseWriteSlot, ReadBytes, LookForJob, vars
  <2> QED
    BY <2>0, <2>1, <2>2, <2>3, <2>4, <2>5, <2>6, <2>10, <2>11 DEF Next, MainStep, WorkerStep
<1> QED
  BY <1>2, <1>3

-----------------------------------------------------------------------------
(* The whole of it is a mailbox: publishing offers, taking takes, and      *)
(* everything else is a stutter.                                           *)
LEMMA StepIsAMailboxStep ==
  ASSUME IInv, IInv', [Next]_vars
  PROVE  [Box!Next]_(Box!vars)
<1>1. cap.seq \in Nat /\ main.last \in Nat /\ cap \in CapType /\ main \in MainType
  BY CaptureFields, MainFields DEF IInv
<1>2. CASE PublishPair
  <2>1. cap' = [cap EXCEPT !.seq = cap.seq + 1, !.latest = capture.slot, !.writer = None,
                           !.write = (capture.slot + 1) % SlotCount]
    BY <1>2 DEF PublishPair
  <2>2. cap'.seq = cap.seq + 1
    BY <1>1, <2>1, SMT DEF CapType
  <2>3. main'.last = main.last
    BY <1>1, <1>2, MainSignalled DEF PublishPair
  <2>4. cap'.seq \in Nat /\ cap'.seq > cap.seq
    BY <1>1, <2>2, SMT
  <2> QED
    BY <2>3, <2>4 DEF Box!Next, Box!Offer, Box!vars
<1>3. CASE TakeLatest
  <2>1. /\ cap.latest # None /\ cap.seq # main.last
        /\ main' = [pc |-> "submit", eye |-> 1, front |-> cap.latest, last |-> slotSeq[cap.latest]]
        /\ cap' = [cap EXCEPT !.reader = cap.latest]
    BY <1>3 DEF TakeLatest, NothingNew
  <2>2. slotSeq[cap.latest] = cap.seq /\ main.last <= cap.seq
    BY <2>1 DEF IInv, LatestIsWhole
  <2>3. main'.last = cap.seq
    BY <2>1, <2>2
  <2>4. cap'.seq = cap.seq
    BY <1>1, <2>1, SMT DEF CapType
  <2>5. cap.seq # main.last
    BY <2>1
  <2>6. main'.last \in main.last + 1 .. cap.seq
    BY <1>1, <2>2, <2>3, <2>5
  <2> QED
    BY <2>4, <2>6 DEF Box!Next, Box!Take, Box!vars
<1>4. CASE ~PublishPair /\ ~TakeLatest
  <2>1. cap'.seq = cap.seq
    <3>1. CASE ChooseWriteSlot
      <4>1. PICK c : cap' = [cap EXCEPT !.write = c, !.writer = c]
        BY <3>1 DEF ChooseWriteSlot
      <4> QED
        BY <1>1, <4>1, SMT DEF CapType
    <3>2. CASE CameraFails
      <4>1. cap' = [cap EXCEPT !.error = TRUE, !.stop = TRUE]
        BY <3>2 DEF CameraFails
      <4> QED
        BY <1>1, <4>1, SMT DEF CapType
    <3>3. CASE ReleaseSlot
      <4>1. cap' = [cap EXCEPT !.reader = None] \/ cap' = cap
        BY <3>3 DEF ReleaseSlot
      <4>2. CASE cap' = [cap EXCEPT !.reader = None]
        BY <1>1, <4>2, SMT DEF CapType
      <4>3. CASE cap' = cap
        BY <4>3, Zenon
      <4> QED
        BY <4>1, <4>2, <4>3
    <3>4. CASE ~ChooseWriteSlot /\ ~CameraFails /\ ~ReleaseSlot
      <4>1. cap' = cap
        BY <1>4, <3>4 DEF Next, MainStep, WorkerStep, ReadBytes, SleepUntilCaptured, GiveUp,
             SubmitJob, AwaitJob, StopWorker, JoinWorker, JoinCapture, LookForJob, FinishJob,
             Wakeup, vars
      <4> QED
        BY <4>1, Zenon
    <3> QED
      BY <3>1, <3>2, <3>3, <3>4
  <2>2. main'.last = main.last
    BY <1>4, OnlyTakingCounts DEF IInv
  <2> QED
    BY <2>1, <2>2 DEF Box!vars
<1> QED
  BY <1>2, <1>3, <1>4

(* The triple buffer with its slots, locks and signals implements a        *)
(* mailbox: main is given pairs that were delivered, each newer than the   *)
(* one before.                                                             *)
THEOREM ImplementsMailbox == Spec => IsAMailbox
<1>1. Init => Box!Init
  BY DEF Init, Box!Init
<1> QED
  BY <1>1, Inductive, NextIInv, StepIsAMailboxStep, PTL DEF Spec, IsAMailbox, Box!Spec

-----------------------------------------------------------------------------
(* A worker whose record keeps its job has the job it had.                 *)
LEMMA JobKept ==
  ASSUME worker \in [Eyes -> WorkerType], NEW f \in Eyes, NEW e \in Eyes,
         NEW v, v.job = worker[f].job, worker' = [worker EXCEPT ![f] = v]
  PROVE  worker'[e].job = worker[e].job
<1>1. CASE e = f
  <2>1. worker'[e] = v
    BY <1>1
  <2> QED
    BY <1>1, <2>1
<1>2. CASE e # f
  <2>1. worker'[e] = worker[e]
    BY <1>2
  <2> QED
    BY <2>1
<1> QED
  BY <1>1, <1>2

(* Only eye_worker_submit changes a worker's job.                          *)
LEMMA WorkersKeepJobs ==
  ASSUME IInv, [Next]_vars, ~SubmitJob, NEW e \in Eyes
  PROVE  worker'[e].job = worker[e].job
<1>1. worker \in [Eyes -> WorkerType] /\ main.eye \in Eyes
  BY WorkerFields, MainFields DEF IInv, Eyes
<1>2. CASE StopWorker
  <2> DEFINE p == Woken(worker[main.eye])
             v == [worker[main.eye] EXCEPT !.stop = TRUE, !.pc = p]
  <2>1. worker' = [worker EXCEPT ![main.eye] = v]
    BY <1>2 DEF StopWorker
  <2> HIDE DEF p
  <2>2. v.job = worker[main.eye].job
    <3>1. worker[main.eye] \in WorkerType
      BY <1>1
    <3> QED
      BY <3>1, SMT DEF WorkerType
  <2> HIDE DEF v
  <2> QED
    BY <1>1, <2>1, <2>2, JobKept
<1>3. CASE \E f \in Eyes : LookForJob(f)
  <2>1. PICK f \in Eyes : LookForJob(f)
    BY <1>3
  <2> DEFINE v == IF worker[f].stop THEN [worker[f] EXCEPT !.pc = "ended"]
                  ELSE IF worker[f].job.generation = worker[f].completed
                       THEN [worker[f] EXCEPT !.pc = "asleep"]
                  ELSE [worker[f] EXCEPT !.pc = "encode", !.serving = worker[f].job]
  <2>2. worker' = [worker EXCEPT ![f] = v]
    BY <2>1 DEF LookForJob
  <2>3. v.job = worker[f].job
    <3>1. worker[f] \in WorkerType
      BY <1>1, <2>1
    <3>2. /\ [worker[f] EXCEPT !.pc = "ended"].job = worker[f].job
          /\ [worker[f] EXCEPT !.pc = "asleep"].job = worker[f].job
          /\ [worker[f] EXCEPT !.pc = "encode", !.serving = worker[f].job].job = worker[f].job
      BY <3>1, SMT DEF WorkerType
    <3> QED
      BY <3>2, Zenon
  <2> HIDE DEF v
  <2> QED
    BY <1>1, <2>1, <2>2, <2>3, JobKept
<1>4. CASE \E f \in Eyes : FinishJob(f)
  <2>1. PICK f \in Eyes : FinishJob(f)
    BY <1>4
  <2> DEFINE n == worker[f].serving.generation
             v == [worker[f] EXCEPT !.pc = "idle", !.completed = n]
  <2>2. worker' = [worker EXCEPT ![f] = v]
    BY <2>1 DEF FinishJob
  <2> HIDE DEF n
  <2>3. v.job = worker[f].job
    <3>1. worker[f] \in WorkerType
      BY <1>1, <2>1
    <3> QED
      BY <3>1, SMT DEF WorkerType
  <2> HIDE DEF v
  <2> QED
    BY <1>1, <2>1, <2>2, <2>3, JobKept
<1>5. CASE Wakeup
  <2>1. worker' = worker \/ \E f \in Eyes : worker' = [worker EXCEPT ![f].pc = "idle"]
    BY <1>5 DEF Wakeup, SpuriousWakeup
  <2>2. CASE worker' = worker
    BY <2>2, Zenon
  <2>3. CASE \E f \in Eyes : worker' = [worker EXCEPT ![f].pc = "idle"]
    <3>1. PICK f \in Eyes : worker' = [worker EXCEPT ![f].pc = "idle"]
      BY <2>3
    <3> DEFINE v == [worker[f] EXCEPT !.pc = "idle"]
    <3>2. worker' = [worker EXCEPT ![f] = v]
      BY <3>1
    <3>3. v.job = worker[f].job
      <4>1. worker[f] \in WorkerType
        BY <1>1, <3>1
      <4> QED
        BY <4>1, SMT DEF WorkerType
    <3> HIDE DEF v
    <3> QED
      BY <1>1, <3>1, <3>2, <3>3, JobKept
  <2> QED
    BY <2>1, <2>2, <2>3
<1>6. CASE /\ ~StopWorker /\ ~Wakeup
           /\ \A f \in Eyes : ~LookForJob(f) /\ ~FinishJob(f)
  <2>1. worker' = worker
    BY <1>6 DEF Next, MainStep, WorkerStep, ChooseWriteSlot, ReadBytes, PublishPair, CameraFails,
         SleepUntilCaptured, TakeLatest, GiveUp, AwaitJob, ReleaseSlot, JoinWorker, JoinCapture, vars
  <2> QED
    BY <2>1, Zenon
<1> QED
  BY <1>2, <1>3, <1>4, <1>5, <1>6

(* A new job comes from eye_worker_submit: to an idle worker, and newer.   *)
LEMMA JobsAreNewer ==
  ASSUME IInv, [Next]_vars, NEW e \in Eyes, worker'[e].job # worker[e].job
  PROVE  /\ worker[e].completed = worker[e].job.generation
         /\ worker[e].pc \in {"idle", "asleep"}
         /\ worker'[e].job.seq > worker[e].job.seq
<1>1. SubmitJob
  BY WorkersKeepJobs
<1>2. main.pc = "submit" /\ main.eye \in Eyes /\ main.last \in Nat
  BY <1>1, MainFields DEF SubmitJob, IInv, Eyes
<1>3. worker \in [Eyes -> WorkerType] /\ worker[e].pc \in WorkerPC /\ worker[e].job.seq \in Nat
  BY WorkerFields DEF IInv
<1> DEFINE j == [slot |-> main.front, seq |-> main.last,
                 generation |-> worker[main.eye].job.generation + 1]
           p == Woken(worker[main.eye])
           v == [worker[main.eye] EXCEPT !.job = j, !.pc = p]
<1>4. worker' = [worker EXCEPT ![main.eye] = v]
  BY <1>1 DEF SubmitJob
<1>5. j.seq = main.last
  OBVIOUS
<1> HIDE DEF j, p
<1>6. v.job = j
  <2>1. worker[main.eye] \in WorkerType
    BY <1>2, <1>3
  <2> QED
    BY <2>1, SMT DEF WorkerType
<1> HIDE DEF v
<1>7. e = main.eye
  <2>1. e # main.eye => worker'[e] = worker[e]
    BY <1>3, <1>4
  <2> QED
    BY <2>1
<1>8. worker'[e].job.seq = main.last
  <2>1. worker'[e] = v
    BY <1>3, <1>4, <1>7
  <2> QED
    BY <1>5, <1>6, <2>1
<1>9. ~Given(e) /\ JobFollowsMain(e)
  BY <1>2, <1>7 DEF Given, IInv, JobsFollowMain
<1>10. /\ worker[e].completed = worker[e].job.generation /\ worker[e].job.seq < main.last
       /\ worker[e].pc # "encode" /\ worker[e].pc # "ended"
  BY <1>2, <1>9 DEF JobFollowsMain, Stopping
<1>11. worker[e].pc \in {"idle", "asleep"}
  BY <1>3, <1>10 DEF WorkerPC
<1> QED
  BY <1>2, <1>3, <1>8, <1>10, <1>11

(* A worker is given a newer pair, and only when it is done with the last. *)
THEOREM GivenNewer == Spec => HandsOverNewer
<1>1. IInv /\ [Next]_vars =>
        [\A e \in Eyes : worker'[e].job # worker[e].job =>
           /\ worker[e].completed = worker[e].job.generation
           /\ worker[e].pc \in {"idle", "asleep"}
           /\ worker'[e].job.seq > worker[e].job.seq]_vars
  BY JobsAreNewer
<1> QED
  BY <1>1, Inductive, PTL DEF Spec, HandsOverNewer

-----------------------------------------------------------------------------
(* The triple buffer is safe: in any number of slots the camera always     *)
(* finds a free one, and no eye encodes from one that is being written.    *)
THEOREM Safe == Spec => []SlotsAreSafe
<1>1. TypeOK /\ CaptureNeverStalls /\ NoTearing /\ EyesStayPaired => SlotsAreSafe
  BY DEF SlotsAreSafe
<1> QED
  BY <1>1, TypeCorrect, NeverStalls, Untorn, Paired, PTL

(* The whole way of a pair, from the cameras to the encoders: each hand    *)
(* over is of something newer.                                             *)
THEOREM NewerThroughout == Spec => PassesOnNewer
BY ImplementsMailbox, GivenNewer DEF PassesOnNewer
-----------------------------------------------------------------------------
(* A pair beyond the last one adds the pairs in between to those that were *)
(* passed over.                                                            *)
LEMMA PassedOver ==
  ASSUME NEW a \in Nat, NEW b \in Nat, NEW c \in Nat, a <= b, b < c,
         NEW R \in SUBSET (a .. b), b \in R
  PROVE  Cardinality((a .. c) \ (R \cup {c})) = Cardinality((a .. b) \ R) + (c - b - 1)
<1> DEFINE S == (a .. b) \ R
           T == (b + 1) .. (c - 1)
<1>1. (a .. c) \ (R \cup {c}) = S \cup T
  OBVIOUS
<1>2. S \cap T = {}
  OBVIOUS
<1>3. IsFiniteSet(a .. b)
  BY FS_Interval
<1>4. IsFiniteSet(S)
  BY <1>3, FS_Difference
<1>5. IsFiniteSet(T) /\ Cardinality(T) = c - b - 1
  <2>1. b + 1 \in Int /\ c - 1 \in Int
    OBVIOUS
  <2>2. IsFiniteSet(T) /\ Cardinality(T) = IF b + 1 > c - 1 THEN 0 ELSE (c - 1) - (b + 1) + 1
    BY <2>1, FS_Interval
  <2> QED
    BY <2>2
<1>6. Cardinality(S) \in Nat
  BY <1>4, FS_CardinalityType
<1> HIDE DEF S, T
<1>7. Cardinality(S \cup T) = Cardinality(S) + Cardinality(T) - Cardinality({})
  BY <1>2, <1>4, <1>5, FS_Union
<1>8. Cardinality(S \cup T) = Cardinality(S) + (c - b - 1)
  BY <1>5, <1>6, <1>7, FS_EmptySet
<1> QED
  BY <1>1, <1>8 DEF S

(* A sequence over a set is one over any larger set.                       *)
LEMMA SeqWidens ==
  ASSUME NEW S, NEW T, S \subseteq T, NEW q \in Seq(S)
  PROVE  q \in Seq(T)
  OBVIOUS

(* What has been handed over ends with the last pair taken and lies        *)
(* between the first and that one.                                         *)
HandedUntilLast ==
  /\ main.last = 0 <=> handed = << >>
  /\ handed # << >> =>
       /\ handed[1] \in 1 .. main.last
       /\ Last(handed) = main.last /\ main.last \in Range(handed)
       /\ Range(handed) \subseteq handed[1] .. main.last

SkipInv == HandedUntilLast /\ SkippedIsExact

(* Taking a pair counts those between it and the one before.               *)
LEMMA TakingCounts ==
  ASSUME IInv, SkipInv, TakeLatest
  PROVE  SkipInv'
<1> DEFINE seq == slotSeq[cap.latest]
<1>1. /\ main'.last = seq /\ skipped' = skipped + NewlySkipped(seq)
      /\ handed' = Append(handed, seq)
      /\ cap.latest # None /\ cap.seq # main.last
  BY DEF TakeLatest, NothingNew
<1>2. /\ main.last \in Nat /\ cap.seq \in Nat /\ skipped \in Nat /\ handed \in Seq(1 .. MaxPairs)
      /\ seq = cap.seq /\ main.last <= cap.seq
  BY <1>1, CaptureFields, MainFields DEF IInv, LatestIsWhole, TypeOK
<1>3. seq \in Nat /\ main.last < seq
  BY <1>1, <1>2
<1> HIDE DEF seq
<1>4. /\ DOMAIN handed = 1 .. Len(handed) /\ DOMAIN handed' = 1 .. Len(handed) + 1
      /\ Len(handed) \in Nat /\ Len(handed') = Len(handed) + 1
      /\ handed'[Len(handed) + 1] = seq
      /\ \A i \in 1 .. Len(handed) : handed'[i] = handed[i]
      /\ handed' # << >>
  <2>1. 1 .. MaxPairs \subseteq Nat
    OBVIOUS
  <2>2. handed \in Seq(Nat)
    BY <1>2, <2>1, SeqWidens
  <2> QED
    BY <1>1, <1>3, <2>2
<1>5. Range(handed') = Range(handed) \cup {seq}
  BY <1>4 DEF Range
<1>6. Last(handed') = seq
  BY <1>4 DEF Last
<1>7. CASE main.last = 0
  <2>1. handed = << >> /\ Len(handed) = 0
    BY <1>7 DEF SkipInv, HandedUntilLast
  <2>2. skipped = 0 /\ NewlySkipped(seq) = 0
    BY <1>7, <2>1 DEF SkipInv, SkippedIsExact, NewlySkipped
  <2>3. Range(handed') = {seq} /\ handed'[1] = seq
    BY <1>4, <1>5, <2>1 DEF Range
  <2>4. (handed'[1] .. Last(handed')) \ Range(handed') = {}
    BY <1>3, <1>6, <2>3
  <2>5. skipped' = Cardinality((handed'[1] .. Last(handed')) \ Range(handed'))
    <3>1. skipped' = 0
      BY <1>1, <2>2
    <3>2. Cardinality((handed'[1] .. Last(handed')) \ Range(handed')) = 0
      BY <2>4, FS_EmptySet, Zenon
    <3> QED
      BY <3>1, <3>2, Zenon
  <2>6. SkippedIsExact'
    BY <1>4, <2>5 DEF SkippedIsExact
  <2>7. HandedUntilLast'
    BY <1>1, <1>2, <1>3, <1>4, <1>6, <2>3 DEF HandedUntilLast
  <2> QED
    BY <2>6, <2>7 DEF SkipInv
<1>8. CASE main.last # 0
  <2> DEFINE a == handed[1]
             R == Range(handed)
  <2>1. /\ handed # << >>
        /\ a \in 1 .. main.last /\ Last(handed) = main.last /\ main.last \in R
        /\ R \subseteq a .. main.last
    BY <1>8 DEF SkipInv, HandedUntilLast
  <2>2. Len(handed) > 0 /\ handed'[1] = a
    BY <1>2, <1>4, <2>1
  <2>3. skipped = Cardinality((a .. main.last) \ R)
    BY <2>1 DEF SkipInv, SkippedIsExact
  <2>4. Range(handed') = R \cup {seq}
    BY <1>5
  <2> HIDE DEF a, R
  <2>5. NewlySkipped(seq) = seq - main.last - 1
    BY <1>2, <1>3, <1>8 DEF NewlySkipped
  <2>6. a \in Nat /\ a <= main.last
    BY <1>2, <2>1
  <2>7. Cardinality((a .. seq) \ (R \cup {seq}))
          = Cardinality((a .. main.last) \ R) + (seq - main.last - 1)
    BY <1>2, <1>3, <2>1, <2>6, PassedOver
  <2>8. skipped' = Cardinality((handed'[1] .. Last(handed')) \ Range(handed'))
    BY <1>1, <1>6, <2>2, <2>3, <2>4, <2>5, <2>7
  <2>9. SkippedIsExact'
    BY <1>4, <2>8, Zenon DEF SkippedIsExact
  <2>10. R \cup {seq} \subseteq a .. seq
    <3>1. a .. main.last \subseteq a .. seq /\ seq \in a .. seq
      BY <1>2, <1>3, <2>6
    <3> QED
      BY <2>1, <3>1, Zenon
  <2>11. HandedUntilLast'
    <3>1. handed'[1] \in 1 .. seq
      BY <1>2, <1>3, <2>1, <2>2
    <3> QED
      BY <1>1, <1>3, <1>4, <1>6, <2>2, <2>4, <2>10, <3>1 DEF HandedUntilLast
  <2> QED
    BY <2>9, <2>11 DEF SkipInv
<1> QED
  BY <1>7, <1>8

(* The count of the pairs passed over is exact, however many the camera    *)
(* delivers while the workers encode.                                      *)
THEOREM CountsTheSkipped == Spec => []SkippedIsExact
<1>1. Init => SkipInv
  BY DEF Init, SkipInv, HandedUntilLast, SkippedIsExact
<1>2. IInv /\ SkipInv /\ [Next]_vars => SkipInv'
  <2> SUFFICES ASSUME IInv, SkipInv, [Next]_vars PROVE SkipInv'
    OBVIOUS
  <2>1. CASE TakeLatest
    BY <2>1, TakingCounts
  <2>2. CASE ~TakeLatest
    <3>1. main'.last = main.last /\ skipped' = skipped /\ handed' = handed
      BY <2>2, OnlyTakingCounts DEF IInv
    <3> QED
      BY <3>1 DEF SkipInv, HandedUntilLast, SkippedIsExact
  <2> QED
    BY <2>1, <2>2
<1>3. SkipInv => SkippedIsExact
  BY DEF SkipInv
<1> QED
  BY <1>1, <1>2, <1>3, Inductive, PTL DEF Spec

-----------------------------------------------------------------------------
(* MpControl.  The snapshot lock is held exactly while one thread's        *)
(* request is a snapshot.  Whoever has ended the old process holds the     *)
(* lock of the handle, and finds no process but one it has killed.         *)

ControlPC == {"idle", "look", "halt", "shoot", "check_params", "read_params", "set_params",
              "spawn", "forget", "launch"}
Section == {"forget", "launch"}
ControlOp == {"none", "start", "stop", "snapshot", "cameras", "fix_all", "watch"}
Asked == Params \cup {"none"}
LocalType == [op : ControlOp, was : BOOLEAN, params : Asked]
ProcType == {"none", "running", "killed"}

ControlTypes ==
  /\ pc \in [Service!Threads -> ControlPC] /\ local \in [Service!Threads -> LocalType]
  /\ proc \in ProcType /\ last_params \in Asked /\ snapshot_lock \in BOOLEAN
  /\ proc_lock \in Service!Threads \cup {"free"} /\ stray \subseteq {"killed"}

Snaps(t) == local[t].op = "snapshot" /\ pc[t] # "idle"

LockInv ==
  /\ \A t \in Service!Threads : Snaps(t) => snapshot_lock
  /\ \A t, u \in Service!Threads : Snaps(t) /\ Snaps(u) => t = u
  /\ snapshot_lock => \E t \in Service!Threads : Snaps(t)

HandleInv ==
  \A t \in Service!Threads : pc[t] \in Section => proc_lock = t /\ proc # "running"

ControlInv == ControlTypes /\ LockInv /\ HandleInv

(* No thread is called what stands for nobody.                             *)
LEMMA NobodyIsFree == \A t \in Service!Threads : t # "free"
  BY ServiceAssumption DEF Service!ControlAssumption, Service!Threads, Service!Watchdog

(* The snapshot lock, in a step of one thread.                             *)
LEMMA SnapshotStep ==
  ASSUME LockInv, NEW t \in Service!Threads, NEW now \in BOOLEAN,
         Snaps(t)' <=> now, \A u \in Service!Threads : u # t => (Snaps(u)' <=> Snaps(u)),
         \/ (now <=> Snaps(t)) /\ snapshot_lock' = snapshot_lock
         \/ ~snapshot_lock /\ snapshot_lock' = TRUE /\ now
         \/ Snaps(t) /\ ~now /\ snapshot_lock' = FALSE
  PROVE  LockInv'
<1>1. /\ \A u \in Service!Threads : Snaps(u) => snapshot_lock
      /\ \A u, v \in Service!Threads : Snaps(u) /\ Snaps(v) => u = v
      /\ snapshot_lock => \E u \in Service!Threads : Snaps(u)
  BY DEF LockInv
<1> SUFFICES /\ \A u \in Service!Threads : Snaps(u)' => snapshot_lock'
             /\ \A u, v \in Service!Threads : Snaps(u)' /\ Snaps(v)' => u = v
             /\ snapshot_lock' => \E u \in Service!Threads : Snaps(u)'
  BY DEF LockInv, Snaps, Service!Threads, Service!Watchdog
<1>2. CASE (now <=> Snaps(t)) /\ snapshot_lock' = snapshot_lock
  <2>1. \A u \in Service!Threads : Snaps(u)' <=> Snaps(u)
    BY <1>2, Zenon
  <2> QED
    BY <1>1, <1>2, <2>1, Zenon
<1>3. CASE ~snapshot_lock /\ snapshot_lock' = TRUE /\ now
  <2>1. \A u \in Service!Threads : ~Snaps(u)
    BY <1>1, <1>3, Zenon
  <2>2. Snaps(t)' /\ \A u \in Service!Threads : u # t => ~Snaps(u)'
    BY <1>3, <2>1, Zenon
  <2> QED
    BY <1>3, <2>2, Zenon
<1>4. CASE Snaps(t) /\ ~now /\ snapshot_lock' = FALSE
  <2>1. \A u \in Service!Threads : u # t => ~Snaps(u)
    BY <1>1, <1>4, Zenon
  <2>2. \A u \in Service!Threads : ~Snaps(u)'
    BY <1>4, <2>1, Zenon
  <2> QED
    BY <1>4, <2>2, Zenon
<1> QED
  BY <1>2, <1>3, <1>4

(* A step of one thread: its own place and what it does change, the locks  *)
(* only with what they are held for, and the process only while no other   *)
(* thread holds the handle.                                                *)
LEMMA ThreadStep ==
  ASSUME ControlInv, NEW t \in Service!Threads, NEW p \in ControlPC, NEW l \in LocalType,
         pc' = [pc EXCEPT ![t] = p], local' = [local EXCEPT ![t] = l],
         proc' \in ProcType, last_params' \in Asked, stray' \subseteq {"killed"},
         \/ pc[t] \notin Section /\ p \notin Section /\ proc' = proc /\ proc_lock' = proc_lock
         \/ p \in Section /\ proc_lock = "free" /\ proc_lock' = t /\ proc' # "running"
         \/ pc[t] \in Section /\ p \notin Section /\ proc_lock' = "free",
         \/ (l.op = "snapshot" /\ p # "idle" <=> Snaps(t)) /\ snapshot_lock' = snapshot_lock
         \/ ~snapshot_lock /\ snapshot_lock' = TRUE /\ l.op = "snapshot" /\ p # "idle"
         \/ Snaps(t) /\ p = "idle" /\ snapshot_lock' = FALSE
  PROVE  ControlInv'
<1>1. ControlTypes /\ LockInv /\ HandleInv
  BY DEF ControlInv
<1>2. /\ pc' \in [Service!Threads -> ControlPC] /\ local' \in [Service!Threads -> LocalType]
      /\ pc'[t] = p /\ local'[t] = l
      /\ \A u \in Service!Threads : u # t => pc'[u] = pc[u] /\ local'[u] = local[u]
  BY <1>1 DEF ControlTypes
<1>3. snapshot_lock' \in BOOLEAN
  BY <1>1, Zenon DEF ControlTypes
<1>4. proc_lock' \in Service!Threads \cup {"free"}
  BY <1>1 DEF ControlTypes
<1>5. ControlTypes'
  BY <1>2, <1>3, <1>4 DEF ControlTypes, Service!Threads, Service!Watchdog
<1>6. LockInv'
  <2> DEFINE now == l.op = "snapshot" /\ p # "idle"
  <2>1. now \in BOOLEAN
    OBVIOUS
  <2>2. Snaps(t)' <=> now
    BY <1>2 DEF Snaps
  <2>3. \A u \in Service!Threads : u # t => (Snaps(u)' <=> Snaps(u))
    BY <1>2 DEF Snaps
  <2>4. \/ (now <=> Snaps(t)) /\ snapshot_lock' = snapshot_lock
        \/ ~snapshot_lock /\ snapshot_lock' = TRUE /\ now
        \/ Snaps(t) /\ ~now /\ snapshot_lock' = FALSE
    BY Zenon
  <2> HIDE DEF now
  <2> QED
    BY <1>1, <2>1, <2>2, <2>3, <2>4, SnapshotStep
<1>7. HandleInv'
  <2> SUFFICES ASSUME NEW u \in Service!Threads, pc'[u] \in Section
               PROVE  proc_lock' = u /\ proc' # "running"
    BY DEF HandleInv, Service!Threads, Service!Watchdog
  <2>1. \A v \in Service!Threads : pc[v] \in Section => proc_lock = v /\ proc # "running"
    BY <1>1 DEF HandleInv
  <2>2. CASE pc[t] \notin Section /\ p \notin Section /\ proc' = proc /\ proc_lock' = proc_lock
    BY <1>2, <2>1, <2>2
  <2>3. CASE p \in Section /\ proc_lock = "free" /\ proc_lock' = t /\ proc' # "running"
    BY <1>2, <2>1, <2>3, NobodyIsFree
  <2>4. CASE pc[t] \in Section /\ p \notin Section /\ proc_lock' = "free"
    BY <1>2, <2>1, <2>4
  <2> QED
    BY <2>2, <2>3, <2>4
<1> QED
  BY <1>5, <1>6, <1>7 DEF ControlInv

(* The types of what a thread finds.                                       *)
LEMMA ControlFacts ==
  ASSUME ControlInv, NEW t \in Service!Threads
  PROVE  /\ pc[t] \in ControlPC /\ local[t] \in LocalType /\ local[t].op \in ControlOp
         /\ local[t].params \in Asked /\ local = [local EXCEPT ![t] = local[t]]
         /\ proc \in ProcType /\ last_params \in Asked /\ stray \subseteq {"killed"}
<1>1. /\ pc \in [Service!Threads -> ControlPC] /\ local \in [Service!Threads -> LocalType]
      /\ proc \in ProcType /\ last_params \in Asked /\ stray \subseteq {"killed"}
  BY DEF ControlInv, ControlTypes
<1>2. pc[t] \in ControlPC /\ local[t] \in LocalType /\ local = [local EXCEPT ![t] = local[t]]
  BY <1>1
<1>3. local[t].op \in ControlOp /\ local[t].params \in Asked
  BY <1>2 DEF LocalType
<1> QED
  BY <1>1, <1>2, <1>3

(* A request begins; only a snapshot takes the lock.                       *)
LEMMA BeginStep ==
  ASSUME ControlInv, NEW t \in Service!Threads, NEW op \in ControlOp, NEW at \in {"look", "halt"},
         Service!Begin(t, op, at),
         \/ op # "snapshot" /\ snapshot_lock' = snapshot_lock
         \/ op = "snapshot" /\ ~snapshot_lock /\ snapshot_lock' = TRUE
  PROVE  ControlInv'
<1> DEFINE l == [local[t] EXCEPT !.op = op]
<1>1. /\ pc[t] = "idle" /\ pc' = [pc EXCEPT ![t] = at] /\ local' = [local EXCEPT ![t] = l]
      /\ proc' = proc /\ proc_lock' = proc_lock /\ stray' = stray /\ last_params' = last_params
  BY DEF Service!Begin, Service!GoTo
<1>2. local[t] \in LocalType
  BY ControlFacts
<1>3. l \in LocalType
  BY <1>2, Zenon DEF LocalType
<1>4. l.op = op
  BY <1>2 DEF LocalType
<1> HIDE DEF l
<1>5. at \in ControlPC /\ at # "idle" /\ at \notin Section /\ pc[t] \notin Section /\ ~Snaps(t)
  BY <1>1 DEF ControlPC, Section, Snaps
<1>6. proc' \in ProcType /\ last_params' \in Asked /\ stray' \subseteq {"killed"}
  BY <1>1, ControlFacts
<1>7. \/ (l.op = "snapshot" /\ at # "idle" <=> Snaps(t)) /\ snapshot_lock' = snapshot_lock
      \/ ~snapshot_lock /\ snapshot_lock' = TRUE /\ l.op = "snapshot" /\ at # "idle"
  BY <1>4, <1>5, Zenon
<1> QED
  BY <1>1, <1>3, <1>5, <1>6, <1>7, ThreadStep

(* What is asked of the service.                                           *)
LEMMA AskStep ==
  ASSUME ControlInv, NEW t \in Service!Threads, Service!Ask(t) \/ (t = Service!Watchdog /\ Service!Watch)
  PROVE  ControlInv'
<1>1. CASE Service!Start(t)
  <2>1. PICK q \in Asked : local' = [local EXCEPT ![t] = [op |-> "start", was |-> FALSE, params |-> q]]
    BY <1>1 DEF Service!Start, Asked
  <2> DEFINE l == [op |-> "start", was |-> FALSE, params |-> q]
  <2>2. /\ pc[t] = "idle" /\ pc' = [pc EXCEPT ![t] = "set_params"]
        /\ proc' = proc /\ proc_lock' = proc_lock /\ stray' = stray /\ last_params' = last_params
        /\ snapshot_lock' = snapshot_lock
    BY <1>1 DEF Service!Start, Service!GoTo
  <2>3. l \in LocalType /\ l.op = "start"
    BY DEF LocalType, ControlOp
  <2>4. local' = [local EXCEPT ![t] = l]
    BY <2>1
  <2> HIDE DEF l
  <2>5. /\ "set_params" \in ControlPC /\ "set_params" \notin Section /\ pc[t] \notin Section
        /\ ~Snaps(t)
    BY <2>2 DEF ControlPC, Section, Snaps
  <2>6. proc' \in ProcType /\ last_params' \in Asked /\ stray' \subseteq {"killed"}
    BY <2>2, ControlFacts
  <2>7. (l.op = "snapshot" /\ "set_params" # "idle" <=> Snaps(t)) /\ snapshot_lock' = snapshot_lock
    BY <2>2, <2>3, <2>5
  <2> QED
    BY <2>2, <2>3, <2>4, <2>5, <2>6, <2>7, ThreadStep
<1>2. CASE Service!Stop(t)
  <2>1. Service!Begin(t, "stop", "halt") /\ snapshot_lock' = snapshot_lock
    BY <1>2 DEF Service!Stop
  <2>2. "stop" \in ControlOp /\ "halt" \in {"look", "halt"} /\ "stop" # "snapshot"
    BY DEF ControlOp
  <2> QED
    BY <2>1, <2>2, BeginStep
<1>3. CASE Service!Snapshot(t)
  <2>1. Service!Begin(t, "snapshot", "look") /\ ~snapshot_lock /\ snapshot_lock' = TRUE
    BY <1>3 DEF Service!Snapshot
  <2>2. "snapshot" \in ControlOp /\ "look" \in {"look", "halt"}
    BY DEF ControlOp
  <2> QED
    BY <2>1, <2>2, BeginStep
<1>4. CASE Service!Cameras(t)
  <2>1. Service!Begin(t, "cameras", "look") /\ snapshot_lock' = snapshot_lock
    BY <1>4 DEF Service!Cameras
  <2>2. "cameras" \in ControlOp /\ "look" \in {"look", "halt"} /\ "cameras" # "snapshot"
    BY DEF ControlOp
  <2> QED
    BY <2>1, <2>2, BeginStep
<1>5. CASE Service!FixAll(t)
  <2>1. Service!Begin(t, "fix_all", "look") /\ snapshot_lock' = snapshot_lock
    BY <1>5 DEF Service!FixAll
  <2>2. "fix_all" \in ControlOp /\ "look" \in {"look", "halt"} /\ "fix_all" # "snapshot"
    BY DEF ControlOp
  <2> QED
    BY <2>1, <2>2, BeginStep
<1>6. CASE t = Service!Watchdog /\ Service!Watch
  <2>1. Service!Begin(t, "watch", "look") /\ snapshot_lock' = snapshot_lock
    BY <1>6 DEF Service!Watch
  <2>2. "watch" \in ControlOp /\ "look" \in {"look", "halt"} /\ "watch" # "snapshot"
    BY DEF ControlOp
  <2> QED
    BY <2>1, <2>2, BeginStep
<1> QED
  BY <1>1, <1>2, <1>3, <1>4, <1>5, <1>6 DEF Service!Ask

(* A thread goes on with what it does, or is done; either way it leaves     *)
(* the handle to others.                                                   *)
LEMMA Proceeds ==
  ASSUME ControlInv, NEW t \in Service!Threads, NEW p \in ControlPC, NEW l \in LocalType,
         pc[t] # "idle", p # "idle", p \notin Section, l.op = local[t].op,
         Service!GoOn(t, p, l) \/ Service!Finish(t),
         proc' \in ProcType, last_params' \in Asked, stray' \subseteq {"killed"},
         \/ pc[t] \notin Section /\ proc' = proc /\ proc_lock' = proc_lock
         \/ pc[t] \in Section /\ proc_lock' = "free"
  PROVE  ControlInv'
<1>1. CASE Service!GoOn(t, p, l)
  <2>1. /\ pc' = [pc EXCEPT ![t] = p] /\ local' = [local EXCEPT ![t] = l]
        /\ snapshot_lock' = snapshot_lock
    BY <1>1 DEF Service!GoOn, Service!GoTo
  <2>2. (l.op = "snapshot" /\ p # "idle" <=> Snaps(t)) /\ snapshot_lock' = snapshot_lock
    BY <2>1 DEF Snaps
  <2> QED
    BY <2>1, <2>2, ThreadStep
<1>2. CASE Service!Finish(t)
  <2> DEFINE i == Service!Idle
  <2>1. /\ pc' = [pc EXCEPT ![t] = "idle"] /\ local' = [local EXCEPT ![t] = i]
        /\ snapshot_lock' = IF local[t].op = "snapshot" THEN FALSE ELSE snapshot_lock
    BY <1>2 DEF Service!Finish, Service!GoTo, Service!Unlocks
  <2>2. i \in LocalType
    BY Zenon DEF Service!Idle, LocalType, ControlOp, Asked
  <2> HIDE DEF i
  <2>3. "idle" \in ControlPC /\ "idle" \notin Section
    BY DEF ControlPC, Section
  <2>4. \/ (i.op = "snapshot" /\ "idle" # "idle" <=> Snaps(t)) /\ snapshot_lock' = snapshot_lock
        \/ Snaps(t) /\ "idle" = "idle" /\ snapshot_lock' = FALSE
    BY <2>1 DEF Snaps
  <2> QED
    BY <2>1, <2>2, <2>3, <2>4, ThreadStep
<1> QED
  BY <1>1, <1>2

(* proc_running, and what follows from it.                                 *)
LEMMA LookStep ==
  ASSUME ControlInv, NEW t \in Service!Threads, Service!Look(t)
  PROVE  ControlInv'
<1> DEFINE l == [local[t] EXCEPT !.was = proc \in Service!Running]
<1>1. /\ pc[t] = "look" /\ proc' = proc /\ proc_lock' = proc_lock /\ stray' = stray
      /\ last_params' = last_params
      /\ \/ \E p \in {"halt", "shoot", "check_params"} : Service!GoOn(t, p, l)
         \/ Service!Finish(t)
  BY DEF Service!Look
<1>2. local[t] \in LocalType /\ proc \in ProcType /\ last_params \in Asked /\ stray \subseteq {"killed"}
  BY ControlFacts
<1>3. l \in LocalType
  <2>1. (proc \in Service!Running) \in BOOLEAN
    OBVIOUS
  <2> QED
    BY <1>2, <2>1, Zenon DEF LocalType
<1>4. l.op = local[t].op
  BY <1>2, Zenon DEF LocalType
<1> HIDE DEF l
<1>5. PICK p \in {"halt", "shoot", "check_params"} : Service!GoOn(t, p, l) \/ Service!Finish(t)
  BY <1>1
<1>6. p \in ControlPC /\ p # "idle" /\ p \notin Section /\ pc[t] # "idle" /\ pc[t] \notin Section
  BY <1>1 DEF ControlPC, Section
<1> QED
  BY <1>1, <1>2, <1>3, <1>4, <1>5, <1>6, Proceeds

(* The cameras are used.                                                   *)
LEMMA ShootStep ==
  ASSUME ControlInv, NEW t \in Service!Threads, Service!Shoot(t)
  PROVE  ControlInv'
<1> DEFINE l == [local[t] EXCEPT !.was = FALSE]
<1>1. /\ pc[t] = "shoot" /\ proc' = proc /\ proc_lock' = proc_lock /\ stray' = stray
      /\ last_params' = last_params
      /\ Service!GoOn(t, "check_params", l) \/ Service!Finish(t)
  BY DEF Service!Shoot
<1>2. local[t] \in LocalType /\ proc \in ProcType /\ last_params \in Asked /\ stray \subseteq {"killed"}
  BY ControlFacts
<1>3. l \in LocalType /\ l.op = local[t].op
  BY <1>2, Zenon DEF LocalType
<1> HIDE DEF l
<1>4. /\ "check_params" \in ControlPC /\ "check_params" \notin Section
      /\ pc[t] # "idle" /\ pc[t] \notin Section
  BY <1>1 DEF ControlPC, Section
<1> QED
  BY <1>1, <1>2, <1>3, <1>4, Proceeds

(* The last parameters are looked at, read, and written back.              *)
LEMMA ParamsStep ==
  ASSUME ControlInv, NEW t \in Service!Threads,
         Service!CheckParams(t) \/ Service!ReadParams(t) \/ Service!SetParams(t)
  PROVE  ControlInv'
<1>1. /\ local[t] \in LocalType /\ local[t].params \in Asked /\ proc \in ProcType
      /\ last_params \in Asked /\ stray \subseteq {"killed"}
  BY ControlFacts
<1>2. /\ pc[t] \in {"check_params", "read_params", "set_params"}
      /\ proc' = proc /\ proc_lock' = proc_lock /\ stray' = stray
      /\ last_params' \in Asked
  BY <1>1 DEF Service!CheckParams, Service!ReadParams, Service!SetParams
<1>3. PICK p \in {"read_params", "set_params", "spawn"},
           l \in {local[t], [local[t] EXCEPT !.params = last_params], [local[t] EXCEPT !.params = "none"]} :
        Service!GoOn(t, p, l) \/ Service!Finish(t)
  BY DEF Service!CheckParams, Service!ReadParams, Service!SetParams
<1>4. "none" \in Asked
  BY DEF Asked
<1>5. l \in LocalType /\ l.op = local[t].op
  BY <1>1, <1>3, <1>4, Zenon DEF LocalType
<1>6. p \in ControlPC /\ p # "idle" /\ p \notin Section /\ pc[t] # "idle" /\ pc[t] \notin Section
  BY <1>2, <1>3 DEF ControlPC, Section
<1> QED
  BY <1>1, <1>2, <1>3, <1>5, <1>6, Proceeds

(* The lock is taken, and the old process ended or killed.                 *)
LEMMA TakeLockStep ==
  ASSUME ControlInv, NEW t \in Service!Threads, Service!TakeLock(t)
  PROVE  ControlInv'
<1>1. PICK p \in Section : pc' = [pc EXCEPT ![t] = p]
  BY DEF Service!TakeLock, Service!Enter, Service!GoTo, Section
<1>2. /\ pc[t] \in {"halt", "spawn"} /\ proc_lock = "free" /\ proc_lock' = t /\ local' = local
      /\ stray' = stray /\ last_params' = last_params /\ snapshot_lock' = snapshot_lock
      /\ IF proc \in Service!Running THEN proc' \in {"none", "killed"} ELSE proc' = proc
  BY DEF Service!TakeLock, Service!Enter, Service!Free
<1>3. /\ local[t] \in LocalType /\ local' = [local EXCEPT ![t] = local[t]] /\ proc \in ProcType
      /\ last_params' \in Asked /\ stray' \subseteq {"killed"}
  BY <1>2, ControlFacts
<1>4. proc' \in ProcType /\ proc' # "running"
  BY <1>2, <1>3 DEF ProcType, Service!Running
<1>5. p \in ControlPC /\ p # "idle" /\ pc[t] # "idle"
  BY <1>1, <1>2 DEF Section, ControlPC
<1>6. (local[t].op = "snapshot" /\ p # "idle" <=> Snaps(t)) /\ snapshot_lock' = snapshot_lock
  BY <1>2, <1>5 DEF Snaps
<1> QED
  BY <1>1, <1>2, <1>3, <1>4, <1>5, <1>6, ThreadStep

(* The handle is overwritten or, where that fails, left; and the lock       *)
(* released.                                                               *)
LEMMA ReleaseStep ==
  ASSUME ControlInv, NEW t \in Service!Threads,
         Service!Forget(t) \/ Service!Launch(t) \/ Service!LaunchFails(t)
  PROVE  ControlInv'
<1>1. /\ pc[t] \in Section /\ proc_lock' = "free" /\ last_params' = last_params
      /\ \/ proc' \in {"none", "running"}
            /\ stray' = IF proc \in Service!Running THEN stray \cup {proc} ELSE stray
         \/ proc' = proc /\ stray' = stray
      /\ Service!GoOn(t, "shoot", local[t]) \/ Service!Finish(t)
  BY DEF Service!Forget, Service!Launch, Service!LaunchFails, Service!Replace, Service!Free, Section
<1>2. local[t] \in LocalType /\ proc \in ProcType /\ last_params \in Asked /\ stray \subseteq {"killed"}
  BY ControlFacts
<1>3. proc # "running"
  BY <1>1 DEF ControlInv, HandleInv
<1>4. proc' \in ProcType /\ stray' \subseteq {"killed"} /\ last_params' \in Asked
  BY <1>1, <1>2, <1>3 DEF ProcType, Service!Running
<1>5. "shoot" \in ControlPC /\ "shoot" \notin Section /\ pc[t] # "idle"
  BY <1>1 DEF ControlPC, Section
<1> QED
  BY <1>1, <1>2, <1>4, <1>5, Proceeds

(* A process ends.                                                         *)
LEMMA DiesStep ==
  ASSUME ControlInv, Service!Dies \/ Service!StrayDies
  PROVE  ControlInv'
<1>1. /\ pc' = pc /\ local' = local /\ proc_lock' = proc_lock
      /\ last_params' = last_params /\ snapshot_lock' = snapshot_lock
      /\ proc' \in {"none", proc} /\ stray' \subseteq stray
  BY DEF Service!Dies, Service!StrayDies
<1>2. ControlTypes'
  <2>1. proc' \in ProcType /\ stray' \subseteq {"killed"}
    BY <1>1 DEF ControlInv, ControlTypes, ProcType
  <2> QED
    BY <1>1, <2>1 DEF ControlInv, ControlTypes, Service!Threads, Service!Watchdog
<1>3. LockInv'
  BY <1>1 DEF ControlInv, LockInv, Snaps, Service!Threads, Service!Watchdog
<1>4. HandleInv'
  BY <1>1 DEF ControlInv, HandleInv, Service!Threads, Service!Watchdog
<1> QED
  BY <1>2, <1>3, <1>4 DEF ControlInv

(* At the start nobody asks for anything.                                  *)
LEMMA ControlInit == Service!Init => ControlInv
<1> SUFFICES ASSUME Service!Init PROVE ControlInv
  OBVIOUS
<1>1. /\ pc = [t \in Service!Threads |-> "idle"] /\ local = [t \in Service!Threads |-> Service!Idle]
      /\ proc = "none" /\ proc_lock = "free" /\ stray = {} /\ last_params = "none"
      /\ snapshot_lock = FALSE
  BY DEF Service!Init, Service!Free
<1>2. Service!Idle \in LocalType
  BY Zenon DEF Service!Idle, LocalType, ControlOp, Asked
<1>3. ControlTypes
  <2>1. pc \in [Service!Threads -> ControlPC] /\ local \in [Service!Threads -> LocalType]
    BY <1>1, <1>2 DEF ControlPC
  <2>2. snapshot_lock \in BOOLEAN /\ last_params \in Asked /\ proc \in ProcType
    BY <1>1 DEF Asked, ProcType
  <2> QED
    BY <1>1, <2>1, <2>2 DEF ControlTypes
<1>4. \A t \in Service!Threads : pc[t] = "idle"
  BY <1>1
<1>5. LockInv /\ HandleInv
  BY <1>1, <1>4 DEF LockInv, HandleInv, Snaps, Section
<1> QED
  BY <1>3, <1>5 DEF ControlInv

(* Every step of the service keeps all that.                               *)
LEMMA ControlNext == ControlInv /\ [Service!Next]_controlVars => ControlInv'
<1> SUFFICES ASSUME ControlInv, [Service!Next]_controlVars PROVE ControlInv'
  OBVIOUS
<1>1. CASE \E t \in Requests : Service!Ask(t)
  <2>1. PICK t \in Requests : Service!Ask(t)
    BY <1>1
  <2>2. t \in Service!Threads
    BY DEF Service!Threads
  <2> QED
    BY <2>1, <2>2, AskStep
<1>2. CASE Service!Watch
  <2>1. Service!Watchdog \in Service!Threads
    BY DEF Service!Threads
  <2> QED
    BY <1>2, <2>1, AskStep
<1>3. CASE \E t \in Service!Threads : Service!Step(t)
  <2>1. PICK t \in Service!Threads : Service!Step(t)
    BY <1>3
  <2> QED
    BY <2>1, LookStep, ShootStep, ParamsStep, TakeLockStep, ReleaseStep DEF Service!Step
<1>4. CASE Service!Dies \/ Service!StrayDies
  BY <1>4, DiesStep
<1>5. CASE UNCHANGED controlVars
  <2>1. /\ proc' = proc /\ proc_lock' = proc_lock /\ pc' = pc /\ local' = local /\ stray' = stray
        /\ last_params' = last_params /\ snapshot_lock' = snapshot_lock
    BY <1>5 DEF controlVars
  <2> QED
    BY <2>1 DEF ControlInv, ControlTypes, LockInv, HandleInv, Snaps, Service!Threads,
       Service!Watchdog
<1> QED
  BY <1>1, <1>2, <1>3, <1>4, <1>5 DEF Service!Next

(* The instance's notion of cardinality is the library's.                  *)
LEMMA SameCardinality == \A S : Service!Cardinality(S) = Cardinality(S)
  BY Zenon DEF Service!Cardinality, Cardinality

(* It is what the run checks.                                              *)
LEMMA ControlIsOneAtATime == ControlInv => OneAtATime
<1> SUFFICES ASSUME ControlInv PROVE OneAtATime
  OBVIOUS
<1>1. ControlTypes /\ LockInv
  BY DEF ControlInv
<1>2. Service!TypeOK
  <2>1. snapshot_lock \in BOOLEAN
    BY <1>1, Zenon DEF ControlTypes
  <2>2. /\ pc \in [Service!Threads -> ControlPC] /\ last_params \in Asked /\ proc \in ProcType
        /\ proc_lock \in Service!Threads \cup {"free"} /\ stray \subseteq {"killed"}
    BY <1>1 DEF ControlTypes
  <2>3. proc \in Service!Running \cup {"none"} /\ stray \subseteq Service!Running
    BY <2>2 DEF ProcType, Service!Running
  <2> QED
    BY <2>1, <2>2, <2>3 DEF Service!TypeOK, ControlPC, Asked, Service!Free
<1>3. Service!OneSender
  BY <1>1 DEF ControlTypes, Service!OneSender
<1>4. Service!OneSnapshot
  <2>1. Service!Shooting = {t \in Service!Threads : Snaps(t)}
    BY DEF Service!Shooting, Snaps
  <2>2. CASE snapshot_lock
    <3>1. PICK t \in Service!Threads : Snaps(t)
      BY <1>1, <2>2 DEF LockInv
    <3>2. Service!Shooting = {t}
      BY <1>1, <2>1, <3>1 DEF LockInv
    <3>3. Service!Cardinality(Service!Shooting) = 1
      BY <3>2, FS_Singleton, SameCardinality
    <3> QED
      BY <2>2, <3>3 DEF Service!OneSnapshot
  <2>3. CASE ~snapshot_lock
    <3>1. Service!Shooting = {}
      BY <1>1, <2>1, <2>3 DEF LockInv
    <3>2. Service!Cardinality(Service!Shooting) = 0
      BY <3>1, FS_EmptySet, SameCardinality
    <3> QED
      BY <2>3, <3>2 DEF Service!OneSnapshot
  <2> QED
    BY <2>2, <2>3
<1> QED
  BY <1>2, <1>3, <1>4 DEF OneAtATime

(* A step is one of the service, or leaves it alone.                       *)
LEMMA PlaysControl == [MCNext]_allVars => [Service!Next]_controlVars
<1>1. ASSUME MCNext PROVE [Service!Next]_controlVars
  BY <1>1 DEF MCNext
<1>2. ASSUME UNCHANGED allVars PROVE UNCHANGED controlVars
  BY <1>2 DEF allVars
<1> QED
  BY <1>1, <1>2

(* However many browsers ask at once, whatever the watchdog does, and      *)
(* though a process outlives its handle: every sender but the one that a    *)
(* stop would end has been killed, and one snapshot is taken at a time.    *)
THEOREM OneOfEach == MCSpec => []OneAtATime
<1>1. MCInit => ControlInv
  BY ControlInit DEF MCInit
<1>2. ControlInv /\ [MCNext]_allVars => ControlInv'
  BY PlaysControl, ControlNext
<1> QED
  BY <1>1, <1>2, ControlIsOneAtATime, PTL DEF MCSpec

-----------------------------------------------------------------------------
(* ImtPace. *)

(* The larger factor makes the larger product.                             *)
LEMMA Products ==
  ASSUME NEW a \in Int, NEW b \in Int, NEW k \in Nat, a <= b
  PROVE  a * k <= b * k /\ a * k \in Int /\ b * k \in Int
<1>1. b - a \in Nat /\ (b - a) * k \in Nat
  OBVIOUS
<1>2. (b - a) * k = b * k - a * k /\ a * k \in Int /\ b * k \in Int
  OBVIOUS
<1> QED
  BY <1>1, <1>2

(* Division rounds down.                                                   *)
LEMMA Floor ==
  ASSUME NEW a \in Int, NEW p \in Nat, p > 0
  PROVE  a \div p \in Int /\ p * (a \div p) <= a /\ a < p * (a \div p) + p
<1>1. a \div p \in Int
  OBVIOUS
<1>2. p * (a \div p) <= a
  BY SMT
<1>3. a < p * (a \div p) + p
  BY SMT
<1> QED
  BY <1>1, <1>2, <1>3

(* What is at least q and less than q + 1 divisors is divided to q.        *)
LEMMA FloorIs ==
  ASSUME NEW a \in Int, NEW p \in Nat, p > 0, NEW q \in Int
  PROVE  /\ q * p <= a => q <= a \div p
         /\ a < q * p => a \div p < q
<1> DEFINE d == a \div p
<1>1. d \in Int /\ p * d <= a /\ a < p * d + p /\ p * d = d * p
  BY Floor
<1> HIDE DEF d
<1>2. ASSUME q * p <= a, d < q PROVE FALSE
  <2>1. (d + 1) * p <= q * p
    BY <1>1, <1>2, Products
  <2>2. (d + 1) * p = d * p + p /\ d * p \in Int /\ q * p \in Int
    BY <1>1
  <2> QED
    BY <1>1, <1>2, <2>1, <2>2
<1>3. ASSUME a < q * p, q <= d PROVE FALSE
  <2>1. q * p <= d * p /\ q * p \in Int /\ d * p \in Int
    BY <1>1, <1>3, Products
  <2> QED
    BY <1>1, <1>3, <2>1
<1> QED
  BY <1>1, <1>2, <1>3 DEF d

(* Division in C rounds towards 0.                                         *)
LEMMA Quotients ==
  ASSUME NEW a \in Int, NEW k \in Nat, k > 0
  PROVE  LET q == Pace!Quotient(a, k)
         IN  /\ q \in Int
             /\ a >= 0 => q >= 0 /\ k * q <= a /\ a < k * q + k
             /\ a < 0 => q <= 0 /\ a <= k * q /\ k * q < a + k
<1> DEFINE q == Pace!Quotient(a, k)
<1>1. CASE a >= 0
  <2>1. q = a \div k
    BY <1>1 DEF Pace!Quotient
  <2>2. q >= 0
    <3>1. 0 * k <= a
      BY <1>1
    <3> QED
      BY <2>1, <3>1, FloorIs
  <2> HIDE DEF q
  <2> QED
    BY <1>1, <2>1, <2>2, Floor DEF q
<1>2. CASE a < 0
  <2> DEFINE d == (-a) \div k
  <2>1. q = -d
    BY <1>2 DEF Pace!Quotient
  <2>2. -a \in Int /\ d \in Int /\ k * d <= -a /\ -a < k * d + k
    BY Floor
  <2>3. d >= 0
    <3>1. 0 * k <= -a
      BY <1>2
    <3> QED
      BY <2>2, <3>1, FloorIs
  <2> HIDE DEF d, q
  <2>4. k * q = -(k * d) /\ k * d \in Int /\ q \in Int
    BY <2>1, <2>2
  <2>5. q <= 0 /\ a <= k * q /\ k * q < a + k
    BY <2>1, <2>2, <2>3, <2>4
  <2> QED
    BY <1>2, <2>4, <2>5 DEF q
<1> QED
  BY <1>1, <1>2

(* The constants of the controller.                                        *)
LEMMA PaceConstants ==
  /\ One \in Nat /\ One > 0 /\ Kp \in Nat /\ Ki \in Nat /\ Ki > 0 /\ Ki <= One
  /\ RateMin \in Nat /\ RateMax \in Nat /\ RateMin <= One /\ One <= RateMax
  /\ Target \in Nat /\ Target > 0
  /\ Latencies \subseteq Nat /\ Steps \subseteq Nat /\ Bases \subseteq Nat
  BY ControllerAssumption DEF Pace!LawAssumption, Pace!PaceAssumption

(* The bounds of the integrator, and how far they reach.                   *)
LEMMA Bounds ==
  /\ Pace!IntegMax \in Nat /\ Ki * Pace!IntegMax <= (RateMax - One) * One
  /\ -Pace!IntegMin \in Nat /\ Pace!IntegMin \in Int
  /\ -((One - RateMin) * One) <= Ki * Pace!IntegMin
  /\ \A x \in Int : Ki * x <= (RateMax - One) * One => x <= Pace!IntegMax
  /\ \A x \in Int : -((One - RateMin) * One) <= Ki * x => Pace!IntegMin <= x
<1> DEFINE up == (RateMax - One) * One
           down == (One - RateMin) * One
           max == up \div Ki
           low == down \div Ki
<1>1. up \in Nat /\ down \in Nat
  <2>1. RateMax - One \in Nat /\ One - RateMin \in Nat
    BY PaceConstants
  <2> QED
    BY <2>1, PaceConstants
<1>2. Pace!IntegMax = max /\ Pace!IntegMin = -low
  BY DEF Pace!IntegMax, Pace!IntegMin
<1> HIDE DEF up, down
<1>3. max \in Int /\ Ki * max <= up /\ low \in Int /\ Ki * low <= down
  BY <1>1, PaceConstants, Floor
<1>4. max >= 0 /\ low >= 0
  <2>1. 0 * Ki <= up /\ 0 * Ki <= down
    BY <1>1, PaceConstants
  <2> QED
    BY <1>1, <2>1, PaceConstants, FloorIs
<1>5. ASSUME NEW x \in Int, Ki * x <= up PROVE x <= max
  <2>1. Ki * x = x * Ki
    BY PaceConstants
  <2> QED
    BY <1>1, <1>5, <2>1, PaceConstants, FloorIs
<1>6. ASSUME NEW x \in Int, -down <= Ki * x PROVE -low <= x
  <2>1. (-x) * Ki = -(Ki * x) /\ Ki * x \in Int
    BY PaceConstants
  <2>2. -x \in Int /\ (-x) * Ki <= down
    BY <1>1, <1>6, <2>1
  <2>3. -x <= low
    BY <1>1, <2>2, PaceConstants, FloorIs
  <2> QED
    BY <1>3, <2>3
<1> HIDE DEF max, low
<1>7. Ki * (-low) = -(Ki * low) /\ Ki * low \in Int
  BY <1>3, PaceConstants
<1>8. max \in Nat /\ -(-low) \in Nat /\ -low \in Int
  BY <1>3, <1>4
<1>9. -down <= Ki * (-low)
  BY <1>1, <1>3, <1>7
<1> QED
  BY <1>2, <1>3, <1>5, <1>6, <1>8, <1>9 DEF up, down

(* An integrator within its bounds leaves the rate within its own.         *)
LEMMA IntegratorHolds ==
  ASSUME NEW i \in Pace!IntegMin .. Pace!IntegMax
  PROVE  /\ Ki * i \in Int /\ Pace!Shifted(Ki * i) \in Int
         /\ RateMin - One <= Pace!Shifted(Ki * i) /\ Pace!Shifted(Ki * i) <= RateMax - One
<1> DEFINE min == Pace!IntegMin
           max == Pace!IntegMax
           up == (RateMax - One) * One
           down == (One - RateMin) * One
           sum == Ki * i
<1>1. /\ max \in Nat /\ Ki * max <= up /\ min \in Int /\ -down <= Ki * min
  BY Bounds
<1>2. up \in Nat /\ down \in Nat
  <2>1. RateMax - One \in Nat /\ One - RateMin \in Nat
    BY PaceConstants
  <2> QED
    BY <2>1, PaceConstants
<1> HIDE DEF up, down, min, max
<1>3. i \in Int /\ min <= i /\ i <= max
  BY <1>1 DEF min, max
<1>4. sum \in Int /\ sum <= up /\ -down <= sum
  <2>1. i * Ki <= max * Ki /\ min * Ki <= i * Ki
    BY <1>1, <1>3, PaceConstants, Products
  <2>2. /\ i * Ki = sum /\ max * Ki = Ki * max /\ min * Ki = Ki * min
        /\ sum \in Int /\ Ki * max \in Int /\ Ki * min \in Int
    BY <1>1, <1>3, PaceConstants
  <2> HIDE DEF sum
  <2> QED
    BY <1>1, <1>2, <2>1, <2>2
<1> HIDE DEF sum
<1>5. sum \div One < RateMax - One + 1
  <2>1. (RateMax - One + 1) * One = up + One /\ RateMax - One + 1 \in Int
    BY PaceConstants DEF up
  <2>2. sum < (RateMax - One + 1) * One
    BY <1>2, <1>4, <2>1, PaceConstants
  <2> QED
    BY <1>4, <2>1, <2>2, PaceConstants, FloorIs
<1>6. RateMin - One <= sum \div One
  <2>1. (RateMin - One) * One = -down /\ RateMin - One \in Int
    BY PaceConstants DEF down
  <2>2. (RateMin - One) * One <= sum
    BY <1>4, <2>1
  <2> QED
    BY <1>4, <2>1, <2>2, PaceConstants, FloorIs
<1>7. sum \div One \in Int
  BY <1>4, PaceConstants
<1>8. sum \div One <= RateMax - One
  BY <1>5, <1>7, PaceConstants
<1> QED
  BY <1>4, <1>6, <1>7, <1>8 DEF sum, Pace!Shifted

(* What is clamped is within its limits, and unchanged if it was.          *)
LEMMA Clamped ==
  ASSUME NEW x \in Int, NEW low \in Int, NEW high \in Int, low <= high
  PROVE  /\ Pace!Clamp(x, low, high) \in low .. high
         /\ x \in low .. high => Pace!Clamp(x, low, high) = x
         /\ \A y \in low .. high : y <= x => y <= Pace!Clamp(x, low, high)
         /\ \A y \in low .. high : x <= y => Pace!Clamp(x, low, high) <= y
  BY DEF Pace!Clamp

(* An error is a number, and 1.0 at most: a latency is never negative.     *)
LEMMA ErrorType == \A latency \in Nat : Pace!Error(latency) \in Int /\ Pace!Error(latency) <= One
<1> SUFFICES ASSUME NEW latency \in Nat
             PROVE  Pace!Error(latency) \in Int /\ Pace!Error(latency) <= One
  OBVIOUS
<1> DEFINE q == Pace!Quotient((Target - latency) * One, Target)
<1>1. (Target - latency) * One \in Int
  BY PaceConstants
<1>2. q \in Int
  BY <1>1, PaceConstants, Quotients
<1> HIDE DEF q
<1>3. -8 * One \in Int /\ -8 * One <= One
  BY PaceConstants
<1>4. Pace!Clamp(q, -8 * One, One) \in -8 * One .. One
  BY <1>2, <1>3, PaceConstants, Clamped
<1> QED
  BY <1>3, <1>4, PaceConstants DEF Pace!Error, q

(* An idle call takes the rate towards 1.0, by its step at most.           *)
LEMMA Gaps ==
  ASSUME NEW r \in RateMin .. RateMax, NEW step \in Nat
  PROVE  LET gap == Pace!Gap(r, step)
         IN  /\ gap \in Int /\ RateMin - One <= gap /\ gap <= RateMax - One
             /\ r >= One => 0 <= gap /\ gap <= r - One /\ r - One - gap <= step
             /\ r <= One => gap <= 0 /\ r - One <= gap /\ gap - (r - One) <= step
             /\ Pace!ClampRate(One + gap) = One + gap
<1> DEFINE gap == Pace!Gap(r, step)
<1>1. r \in Int /\ RateMin <= r /\ r <= RateMax
  BY PaceConstants
<1>2. /\ gap \in Int
      /\ r >= One => 0 <= gap /\ gap <= r - One /\ r - One - gap <= step
      /\ r <= One => gap <= 0 /\ r - One <= gap /\ gap - (r - One) <= step
  BY <1>1, PaceConstants DEF Pace!Gap
<1> HIDE DEF gap
<1>3. RateMin - One <= gap /\ gap <= RateMax - One
  BY <1>1, <1>2, PaceConstants
<1>4. One + gap \in RateMin .. RateMax /\ One + gap \in Int
  BY <1>2, <1>3, PaceConstants
<1>5. Pace!ClampRate(One + gap) = One + gap
  BY <1>4, PaceConstants, Clamped DEF Pace!ClampRate
<1> QED
  BY <1>2, <1>3, <1>5 DEF gap

(* The integrator that is set from a rate is within its bounds.            *)
LEMMA Refits ==
  ASSUME NEW gap \in Int, RateMin - One <= gap, gap <= RateMax - One
  PROVE  Pace!Refit(gap) \in Pace!IntegMin .. Pace!IntegMax
<1> DEFINE q == Pace!Refit(gap)
           up == (RateMax - One) * One
           down == (One - RateMin) * One
           goal == gap * One
<1>1. goal \in Int /\ goal <= up /\ -down <= goal /\ up \in Int /\ down \in Int
  <2>1. RateMax - One \in Int /\ RateMin - One \in Int /\ One - RateMin \in Int
    BY PaceConstants
  <2>2. gap * One <= (RateMax - One) * One /\ (RateMin - One) * One <= gap * One
    BY <2>1, PaceConstants, Products
  <2>3. (RateMin - One) * One = -down /\ down \in Int /\ up \in Int /\ goal \in Int
    BY PaceConstants
  <2> HIDE DEF up, down, goal
  <2> QED
    BY <2>2, <2>3 DEF up, goal
<1>2. /\ q \in Int
      /\ goal >= 0 => q >= 0 /\ Ki * q <= goal
      /\ goal < 0 => q <= 0 /\ goal <= Ki * q
  BY <1>1, PaceConstants, Quotients DEF Pace!Refit
<1>3. /\ Pace!IntegMax \in Nat /\ -Pace!IntegMin \in Nat /\ Pace!IntegMin \in Int
      /\ \A x \in Int : Ki * x <= up => x <= Pace!IntegMax
      /\ \A x \in Int : -down <= Ki * x => Pace!IntegMin <= x
  BY Bounds
<1> HIDE DEF q, up, down, goal
<1>4. Ki * q \in Int
  BY <1>2, PaceConstants
<1>5. CASE goal >= 0
  <2>1. Ki * q <= up
    BY <1>1, <1>2, <1>4, <1>5
  <2>2. q <= Pace!IntegMax /\ q >= 0
    BY <1>2, <1>3, <1>5, <2>1
  <2> QED
    BY <1>2, <1>3, <2>2 DEF q
<1>6. CASE goal < 0
  <2>1. -down <= Ki * q
    BY <1>1, <1>2, <1>4, <1>6
  <2>2. Pace!IntegMin <= q /\ q <= 0
    BY <1>2, <1>3, <1>6, <2>1
  <2> QED
    BY <1>2, <1>3, <2>2 DEF q
<1> QED
  BY <1>1, <1>5, <1>6

(* It gives the rate back, to within one unit.                             *)
LEMMA RefitResumes ==
  ASSUME NEW gap \in Int, RateMin - One <= gap, gap <= RateMax - One
  PROVE  Pace!RateFor(Pace!Refit(gap), 0) - (One + gap) \in -1 .. 1
<1> DEFINE q == Pace!Refit(gap)
           goal == gap * One
           sum == Ki * q
           s == sum \div One
<1>1. goal \in Int
  BY PaceConstants
<1>2. /\ q \in Int
      /\ goal >= 0 => sum <= goal /\ goal < sum + Ki
      /\ goal < 0 => goal <= sum /\ sum < goal + Ki
  BY <1>1, PaceConstants, Quotients DEF Pace!Refit
<1> HIDE DEF q
<1>3. sum \in Int
  BY <1>2, PaceConstants
<1>4. /\ (gap - 1) * One = goal - One /\ (gap + 1) * One = goal + One
      /\ gap - 1 \in Int /\ gap + 1 \in Int
  BY PaceConstants
<1> HIDE DEF goal, sum
<1>5. (gap - 1) * One <= sum /\ sum < (gap + 1) * One
  BY <1>1, <1>2, <1>3, <1>4, PaceConstants
<1>6. s \in Int /\ gap - 1 <= s /\ s < gap + 1
  BY <1>3, <1>4, <1>5, PaceConstants, FloorIs
<1> HIDE DEF s
<1>7. Pace!RateFor(q, 0) = Pace!ClampRate(One + s)
  <2>1. Kp * 0 = 0 /\ 0 \div One = 0
    BY PaceConstants
  <2>2. One + 0 + s = One + s
    BY <1>6, PaceConstants
  <2> QED
    BY <2>1, <2>2 DEF Pace!RateFor, Pace!Shifted, s, sum
<1>8. Pace!ClampRate(One + s) - (One + gap) \in -1 .. 1
  BY <1>6, PaceConstants DEF Pace!ClampRate, Pace!Clamp
<1> QED
  BY <1>7, <1>8 DEF q

(* Induction over the numbers, for sets.                                   *)
LEMMA Induction ==
  ASSUME NEW S, 0 \in S, \A n \in Nat : n \in S => n + 1 \in S
  PROVE  \A n \in Nat : n \in S
<1> DEFINE Less == {pair \in Nat \X Nat : pair[1] < pair[2]}
           Missing == Nat \ S
<1>1. SUFFICES ASSUME Missing # {} PROVE FALSE
  OBVIOUS
<1>2. IsWellFoundedOn(Less, Nat)
  BY NatLessThanWellFounded DEF OpToRel
<1> HIDE DEF Less
<1>3. PICK least \in Missing : \A n \in Missing : << n, least >> \notin Less
  BY <1>1, <1>2, WFMin
<1>4. least \in Nat /\ least # 0 /\ least - 1 \in Nat /\ (least - 1) + 1 = least
  OBVIOUS
<1>5. << least - 1, least >> \in Less
  BY <1>4 DEF Less
<1>6. least - 1 \in S
  BY <1>3, <1>4, <1>5
<1> QED
  BY <1>3, <1>4, <1>6

(* After as many good samples as undo a full integrator, it is not         *)
(* negative any more.                                                      *)
LEMMA GoodSamplesAddUp ==
  ASSUME NEW i \in Pace!IntegMin .. Pace!IntegMax, NEW e \in Nat, e > 0
  PROVE  LET run[n \in 0 .. (-Pace!IntegMin) + 1] ==
               IF n = 0 THEN i ELSE Pace!Accumulate(run[n - 1], e)
             last == ((-Pace!IntegMin) \div e) + 1
         IN  run[last] \in 0 .. Pace!IntegMax
<1> DEFINE low == -Pace!IntegMin
           max == Pace!IntegMax
           Body(f) == [n \in 0 .. low + 1 |-> IF n = 0 THEN i ELSE Pace!Accumulate(f[n - 1], e)]
           run == CHOOSE f : f = Body(f)
           sum(n) == IF i + n * e > max THEN max ELSE i + n * e
           last == (low \div e) + 1
<1>1. low \in Nat /\ max \in Nat /\ Pace!IntegMin = -low /\ i \in Int /\ -low <= i /\ i <= max
  BY Bounds
<1>2. \A n \in Nat : n * e \in Nat /\ (n + 1) * e = n * e + e
  OBVIOUS
<1>3. \A x \in Int : Pace!Accumulate(x, e) = IF x + e < -low THEN -low ELSE IF x + e > max THEN max ELSE x + e
  BY <1>1 DEF Pace!Accumulate, Pace!Clamp
<1> HIDE DEF low, max
<1>4. sum(0) = i
  <2>1. 0 * e = 0
    OBVIOUS
  <2> QED
    BY <1>1, <2>1
<1>5. ASSUME NEW n \in Nat
      PROVE  sum(n) \in Int /\ Pace!Accumulate(sum(n), e) = sum(n + 1)
  <2> DEFINE x == n * e
  <2>1. x \in Nat /\ (n + 1) * e = x + e
    BY <1>2
  <2>2. sum(n) = (IF i + x > max THEN max ELSE i + x)
    OBVIOUS
  <2>3. sum(n + 1) = (IF i + (x + e) > max THEN max ELSE i + (x + e))
    BY <2>1
  <2> HIDE DEF x, sum
  <2>4. sum(n) \in Int
    BY <1>1, <2>1, <2>2
  <2>5. Pace!Accumulate(sum(n), e)
          = IF sum(n) + e < -low THEN -low ELSE IF sum(n) + e > max THEN max ELSE sum(n) + e
    BY <1>3, <2>4
  <2> QED
    BY <1>1, <2>1, <2>2, <2>3, <2>4, <2>5
<1> HIDE DEF sum
<1>6. \E f : f = Body(f)
  <2> DEFINE f == [n \in 0 .. low + 1 |-> sum(n)]
  <2>1. ASSUME NEW n \in 0 .. low + 1
        PROVE  f[n] = IF n = 0 THEN i ELSE Pace!Accumulate(f[n - 1], e)
    <3>1. CASE n = 0
      BY <1>1, <1>4, <3>1
    <3>2. CASE n # 0
      <4>1. n - 1 \in Nat /\ n - 1 \in 0 .. low + 1 /\ (n - 1) + 1 = n
        BY <1>1, <3>2
      <4>2. f[n] = sum(n) /\ f[n - 1] = sum(n - 1)
        BY <4>1
      <4>3. Pace!Accumulate(sum(n - 1), e) = sum(n)
        BY <1>5, <4>1
      <4> QED
        BY <3>2, <4>2, <4>3
    <3> QED
      BY <3>1, <3>2
  <2>2. f = Body(f)
    BY <2>1
  <2> HIDE DEF f, Body
  <2> QED
    BY <2>2
<1>7. run = Body(run)
  <2> HIDE DEF Body
  <2> QED
    BY <1>6
<1> HIDE DEF run
<1>8. \A n \in Nat : n \in 0 .. low + 1 => run[n] = sum(n)
  <2> DEFINE S == {n \in Nat : n \in 0 .. low + 1 => run[n] = sum(n)}
  <2>1. 0 \in S
    BY <1>1, <1>4, <1>7
  <2>2. ASSUME NEW n \in Nat, n \in S PROVE n + 1 \in S
    <3> SUFFICES ASSUME n + 1 \in 0 .. low + 1 PROVE run[n + 1] = sum(n + 1)
      OBVIOUS
    <3>1. n \in 0 .. low + 1 /\ n + 1 # 0 /\ (n + 1) - 1 = n
      BY <1>1
    <3>2. run[n + 1] = Pace!Accumulate(run[n], e)
      BY <1>7, <3>1
    <3>3. run[n] = sum(n)
      BY <2>2, <3>1
    <3> QED
      BY <1>5, <3>2, <3>3
  <2> HIDE DEF S
  <2>3. \A n \in Nat : n \in S
    BY <2>1, <2>2, Induction
  <2> QED
    BY <2>3 DEF S
<1>9. last \in Nat /\ last \in 0 .. low + 1 /\ low < last * e
  <2> DEFINE d == low \div e
  <2>1. d \in Int /\ e * d <= low /\ low < e * d + e
    BY <1>1, Floor
  <2>2. d >= 0
    <3>1. 0 * e <= low
      BY <1>1
    <3> QED
      BY <1>1, <3>1, FloorIs
  <2>3. d <= low
    <3>1. d * 1 <= d * e
      <4>1. 1 * d <= e * d
        BY <2>1, <2>2, Products
      <4> QED
        BY <2>1, <4>1
    <3>2. d * e = e * d /\ e * d \in Int
      BY <2>1
    <3> QED
      BY <1>1, <2>1, <3>1, <3>2
  <2> HIDE DEF d
  <2>4. (d + 1) * e = e * d + e /\ e * d \in Int
    BY <2>1
  <2>5. last = d + 1
    BY DEF d
  <2> QED
    BY <1>1, <2>1, <2>2, <2>3, <2>4, <2>5
<1> HIDE DEF last
<1>10. sum(last) \in 0 .. max
  <2> DEFINE x == last * e
  <2>1. sum(last) = (IF i + x > max THEN max ELSE i + x) /\ x \in Nat /\ low < x
    BY <1>2, <1>9 DEF sum
  <2> HIDE DEF x
  <2> QED
    BY <1>1, <2>1
<1>11. run[last] \in 0 .. max
  BY <1>8, <1>9, <1>10
<1> QED
  BY <1>11 DEF run, last, low, max

(* With an integrator that is not negative, a good sample asks for 1.0 at  *)
(* least.                                                                  *)
LEMMA GoodRate ==
  ASSUME NEW i \in 0 .. Pace!IntegMax, NEW e \in Nat
  PROVE  Pace!RateFor(i, e) >= One
<1>1. i \in Nat
  BY Bounds
<1> DEFINE a == Kp * e
           b == Ki * i
<1>2. a \in Nat /\ b \in Nat
  BY <1>1, PaceConstants
<1> HIDE DEF a, b
<1>3. a \div One \in Int /\ b \div One \in Int /\ 0 <= a \div One /\ 0 <= b \div One
  <2>1. 0 * One <= a /\ 0 * One <= b
    BY <1>2, PaceConstants
  <2> QED
    BY <1>2, <2>1, PaceConstants, FloorIs
<1> DEFINE x == a \div One
           y == b \div One
<1> HIDE DEF x, y
<1>4. Pace!ClampRate(One + x + y) >= One
  BY <1>3, PaceConstants DEF Pace!ClampRate, Pace!Clamp, x, y
<1> QED
  BY <1>4 DEF Pace!RateFor, Pace!Shifted, a, b, x, y

(* Whichever part a behaviour plays, what it does of ImtPace is steps of   *)
(* it.                                                                     *)
LEMMA PlaysPace == [MCNext]_allVars => [Pace!Next]_paceVars
  BY DEF MCNext, allVars, paceVars

(* The controller starts within its bounds ...                             *)
LEMMA PaceInit == Pace!Init => Pace!TypeOK
<1>1. 0 \in Pace!IntegMin .. Pace!IntegMax
  BY Bounds
<1> QED
  BY <1>1, PaceConstants DEF Pace!Init, Pace!TypeOK

(* ... and keeps them.                                                     *)
LEMMA PaceKeeps == Pace!TypeOK /\ [Pace!Next]_paceVars => Pace!TypeOK'
<1> SUFFICES ASSUME Pace!TypeOK, [Pace!Next]_paceVars PROVE Pace!TypeOK'
  OBVIOUS
<1>1. Pace!IntegMin \in Int /\ Pace!IntegMax \in Int /\ Pace!IntegMin <= Pace!IntegMax
  BY Bounds
<1>2. integ \in Pace!IntegMin .. Pace!IntegMax /\ rate \in RateMin .. RateMax /\ base \in Bases \cup {0}
  BY DEF Pace!TypeOK
<1>3. ASSUME NEW latency \in Latencies, Pace!Update(latency) PROVE Pace!TypeOK'
  <2> DEFINE e == Pace!Error(latency)
  <2>1. latency \in Nat
    BY PaceConstants
  <2>2. e \in Int
    BY <2>1, ErrorType
  <2>3. integ' = Pace!Accumulate(integ, e) /\ rate' = Pace!RateFor(integ', e) /\ base' = base
    BY <1>3 DEF Pace!Update
  <2> HIDE DEF e
  <2>4. integ + e \in Int
    BY <1>1, <1>2, <2>2
  <2>5. integ' \in Pace!IntegMin .. Pace!IntegMax
    BY <1>1, <2>3, <2>4, Clamped DEF Pace!Accumulate
  <2>6. Pace!Shifted(Ki * integ') \in Int
    BY <2>5, IntegratorHolds
  <2>7. Pace!Shifted(Kp * e) \in Int
    BY <2>2, PaceConstants DEF Pace!Shifted
  <2> DEFINE sum == One + Pace!Shifted(Kp * e) + Pace!Shifted(Ki * integ')
  <2>8. sum \in Int
    BY <2>6, <2>7, PaceConstants
  <2>9. rate' \in RateMin .. RateMax
    <3>1. rate' = Pace!Clamp(sum, RateMin, RateMax)
      BY <2>3 DEF Pace!RateFor, Pace!ClampRate
    <3> HIDE DEF sum
    <3>2. RateMin \in Int /\ RateMax \in Int /\ RateMin <= RateMax
      BY PaceConstants
    <3> QED
      BY <2>8, <3>1, <3>2, Clamped
  <2> QED
    BY <1>2, <2>3, <2>5, <2>9 DEF Pace!TypeOK
<1>4. ASSUME NEW step \in Steps, Pace!Idle(step) PROVE Pace!TypeOK'
  <2> DEFINE gap == Pace!Gap(rate, step)
  <2>1. step \in Nat
    BY PaceConstants
  <2>2. /\ gap \in Int /\ RateMin - One <= gap /\ gap <= RateMax - One
        /\ Pace!ClampRate(One + gap) = One + gap
    BY <1>2, <2>1, Gaps
  <2>3. rate' = Pace!ClampRate(One + gap) /\ integ' = Pace!Refit(gap) /\ base' = base
    BY <1>4 DEF Pace!Idle
  <2> HIDE DEF gap
  <2>4. integ' \in Pace!IntegMin .. Pace!IntegMax
    BY <2>2, <2>3, Refits
  <2>5. rate' \in RateMin .. RateMax
    BY <2>2, <2>3, PaceConstants
  <2> QED
    BY <1>2, <2>3, <2>4, <2>5 DEF Pace!TypeOK
<1>5. CASE UNCHANGED paceVars
  BY <1>5 DEF paceVars, Pace!TypeOK
<1> QED
  BY <1>3, <1>4, <1>5 DEF Pace!Next

(* Within its bounds, the integrator alone does not push the rate out of   *)
(* its own, and good samples make up for it.                               *)
LEMMA PaceForgets == Pace!TypeOK => Pace!AntiWindup /\ Pace!UnwindsInTime
<1> SUFFICES ASSUME Pace!TypeOK PROVE Pace!AntiWindup /\ Pace!UnwindsInTime
  OBVIOUS
<1>1. integ \in Pace!IntegMin .. Pace!IntegMax
  BY DEF Pace!TypeOK
<1>2. Pace!AntiWindup
  <2> DEFINE s == Pace!Shifted(Ki * integ)
  <2>1. s \in Int /\ RateMin - One <= s /\ s <= RateMax - One
    BY <1>1, IntegratorHolds
  <2> HIDE DEF s
  <2>2. One + s \in RateMin .. RateMax
    BY <2>1, PaceConstants
  <2> QED
    BY <2>2 DEF Pace!AntiWindup, s
<1>3. Pace!UnwindsInTime
  <2> SUFFICES ASSUME NEW latency \in Latencies
               PROVE  LET error == Pace!Error(latency)
                          run[n \in 0 .. (-Pace!IntegMin) + 1] ==
                            IF n = 0 THEN integ ELSE Pace!Accumulate(run[n - 1], error)
                      IN  error > 0 =>
                            Pace!RateFor(run[((-Pace!IntegMin) \div error) + 1], error) >= One
    BY DEF Pace!UnwindsInTime
  <2> DEFINE error == Pace!Error(latency)
             run[n \in 0 .. (-Pace!IntegMin) + 1] ==
               IF n = 0 THEN integ ELSE Pace!Accumulate(run[n - 1], error)
             last == ((-Pace!IntegMin) \div error) + 1
  <2>1. SUFFICES ASSUME error > 0 PROVE Pace!RateFor(run[last], error) >= One
    OBVIOUS
  <2>2. error \in Nat
    <3>1. latency \in Nat
      BY PaceConstants
    <3>2. error \in Int
      BY <3>1, ErrorType
    <3> HIDE DEF error
    <3> QED
      BY <2>1, <3>2
  <2> HIDE DEF error
  <2>3. run[last] \in 0 .. Pace!IntegMax
    BY <1>1, <2>1, <2>2, GoodSamplesAddUp
  <2> HIDE DEF run, last
  <2> QED
    BY <2>2, <2>3, GoodRate
<1> QED
  BY <1>2, <1>3

(* An idle call leaves an integrator that goes on from the rate, and a     *)
(* rate that is nearer to 1.0 by its step or there.                        *)
LEMMA IdleIsGentle ==
  ASSUME Pace!TypeOK, NEW step \in Steps, Pace!Idle(step)
  PROVE  /\ Pace!RateFor(integ', 0) - rate' \in -1 .. 1
         /\ rate >= One => rate' \in One .. rate /\ rate - rate' <= step
         /\ rate <= One => rate' \in rate .. One /\ rate' - rate <= step
<1> DEFINE gap == Pace!Gap(rate, step)
<1>1. rate \in RateMin .. RateMax /\ rate \in Int /\ step \in Nat
  BY PaceConstants DEF Pace!TypeOK
<1>2. /\ gap \in Int /\ RateMin - One <= gap /\ gap <= RateMax - One
      /\ rate >= One => 0 <= gap /\ gap <= rate - One /\ rate - One - gap <= step
      /\ rate <= One => gap <= 0 /\ rate - One <= gap /\ gap - (rate - One) <= step
      /\ Pace!ClampRate(One + gap) = One + gap
  BY <1>1, Gaps
<1>3. rate' = One + gap /\ integ' = Pace!Refit(gap)
  BY <1>2 DEF Pace!Idle
<1> HIDE DEF gap
<1>4. Pace!RateFor(integ', 0) - rate' \in -1 .. 1
  BY <1>2, <1>3, RefitResumes
<1>5. /\ rate >= One => rate' \in One .. rate /\ rate - rate' <= step
      /\ rate <= One => rate' \in rate .. One /\ rate' - rate <= step
  BY <1>1, <1>2, <1>3, PaceConstants
<1> QED
  BY <1>4, <1>5

(* ImtPace: for all gains, bounds, latencies and steps, the controller     *)
(* keeps its bounds, cannot be wound up, forgets an overload in time, and  *)
(* approaches 1.0, step by step, while nothing is measured.                *)
THEOREM PaceSound == MCSpec => PaceIsSound
<1>1. MCInit => Pace!TypeOK
  BY PaceInit DEF MCInit
<1>2. Pace!TypeOK /\ [MCNext]_allVars => Pace!TypeOK'
  BY PlaysPace, PaceKeeps
<1>3. Pace!TypeOK /\ [MCNext]_allVars =>
        [\A step \in Steps :
           base = 0 /\ Pace!Idle(step) => Pace!RateFor(integ', 0) - rate' \in -1 .. 1]_Pace!vars
  BY IdleIsGentle
<1>4. Pace!TypeOK /\ [MCNext]_allVars =>
        [\A step \in Steps :
           base = 0 /\ Pace!Idle(step) =>
             /\ rate >= One => rate' \in One .. rate /\ rate - rate' <= step
             /\ rate <= One => rate' \in rate .. One /\ rate' - rate <= step]_Pace!vars
  BY IdleIsGentle
<1> QED
  BY <1>1, <1>2, <1>3, <1>4, PaceForgets, PTL
  DEF MCSpec, PaceIsSound, Pace!ResumesSmoothly, Pace!IdleApproaches
=============================================================================
