------------------------- MODULE StereoCaptureProofs -------------------------
(***************************************************************************)
(* Proofs about StereoCapture, for any number of requests, any skew and    *)
(* any number of frames: no buffer, request, count or wakeup is lost but   *)
(* where the code says so, and pairs only advance.                         *)
(*                                                                         *)
(* IInv has three parts that lean on each other only through main.pc: the  *)
(* frames of an eye (FramesFit), libcamera's side of it (CallsFit) and     *)
(* main's look at the notifications (SleepFits).                           *)
(***************************************************************************)
EXTENDS StereoCapture, TLAPS

-----------------------------------------------------------------------------
(* The frames of eye e: where its buffers are, and how far it is.          *)
FramesFit(e) ==
  /\ latest[e].valid =>
       /\ latest[e].has /\ e \notin broken
       /\ taken[e] < latest[e].stamp /\ latest[e].stamp <= shot[e].stamp
  /\ e \notin broken /\ latest[e].has => latest[e].valid
  /\ taken[e] <= shot[e].stamp
  /\ pool[e] + Count(latest[e].has) + Count(outstanding) <= PoolSize
  /\ e \notin broken =>
       /\ pool[e] + Count(latest[e].has) + Count(outstanding) = PoolSize
       /\ shot[e].count = pairs + dropped[e] + Count(latest[e].valid)

(* The encoders have a pair from acquire_pair to release_pair. *)
HeldWhileEncoding == outstanding <=> main.pc \in {"encode", "release"}

(* No callback, and none to come. *)
Quiet(e) == callback[e] = "idle" /\ ~running[e]

Released(e) == ~camera[e].acquired /\ ~camera[e].started /\ Quiet(e)

(* libcamera's side of both eyes, on the way up, at work and on the way    *)
(* down.                                                                   *)
CallsFit ==
  /\ \A e \in Eyes : camera[e].queued + Count(callback[e] # "idle") <= Requests
  /\ RequestsComeBack
  /\ main.pc \in {"open_left", "open_right", "start_right"} => Quiet(Left) /\ Quiet(Right)
  /\ main.pc = "start_left" => Quiet(Left)
  /\ main.pc = "left_stopping" => ~running[Left]
  /\ main.pc \in {"stop_right", "right_stopping", "ended"} => Released(Left)
  /\ main.pc = "right_stopping" => ~running[Right]
  /\ main.pc = "ended" => Released(Right)

Waiting == {"examine", "check", "drowsy", "asleep"}

(* Beside a pair that fits, main has the news still before it, or the news *)
(* is still to come, or it has missed them.                                *)
SleepFits ==
  /\ main.seen <= notify.generation
  /\ main.pc \in Waiting /\ BothValid /\ SkewFits =>
       \/ missed
       \/ \E e \in Eyes : callback[e] = "copied"
       \/ main.pc \in {"examine", "check"} /\ notify.generation # main.seen

IInv ==
  /\ TypeOK
  /\ \A e \in Eyes : FramesFit(e)
  /\ HeldWhileEncoding
  /\ CallsFit
  /\ SleepFits

-----------------------------------------------------------------------------
(* The fields of an eye, and of main. *)
LEMMA Fields ==
  ASSUME TypeOK
  PROVE  /\ Requests \in Nat /\ Requests > 0 /\ MaxSkew \in Nat /\ LastStamp \in Nat
         /\ \A e \in Eyes :
              /\ camera[e].acquired \in BOOLEAN /\ camera[e].started \in BOOLEAN
              /\ camera[e].queued \in Nat /\ camera[e].queued <= Requests
              /\ callback[e] \in {"idle", "copied", "notified"} /\ running[e] \in BOOLEAN
              /\ latest[e].has \in BOOLEAN /\ latest[e].valid \in BOOLEAN
              /\ latest[e].stamp \in Nat /\ latest[e].stamp <= LastStamp
              /\ pool[e] \in Nat /\ pool[e] <= PoolSize
              /\ dropped[e] \in Nat
              /\ shot[e].stamp \in Nat /\ shot[e].stamp <= LastStamp /\ shot[e].count \in Nat
              /\ taken[e] \in Nat /\ taken[e] <= LastStamp
         /\ main.pc \in MainPC /\ main.seen \in Nat
         /\ notify.generation \in Nat /\ notify.failed \in BOOLEAN
<1>1. Requests \in Nat /\ Requests > 0 /\ MaxSkew \in Nat /\ LastStamp \in Nat
  BY CaptureAssumption
<1>2. ASSUME NEW e \in Eyes
      PROVE  /\ camera[e] \in [acquired : BOOLEAN, started : BOOLEAN, queued : 0 .. Requests]
             /\ latest[e] \in [has : BOOLEAN, valid : BOOLEAN, stamp : 0 .. LastStamp]
             /\ shot[e] \in [stamp : 0 .. LastStamp, count : Nat]
             /\ pool[e] \in 0 .. PoolSize /\ taken[e] \in 0 .. LastStamp /\ dropped[e] \in Nat
             /\ callback[e] \in {"idle", "copied", "notified"} /\ running[e] \in BOOLEAN
  BY DEF TypeOK
<1>3. main \in [pc : MainPC, seen : Nat] /\ notify \in [generation : Nat, failed : BOOLEAN]
  BY DEF TypeOK
<1>4. ASSUME NEW e \in Eyes
      PROVE  /\ camera[e].acquired \in BOOLEAN /\ camera[e].started \in BOOLEAN
             /\ camera[e].queued \in 0 .. Requests
             /\ latest[e].has \in BOOLEAN /\ latest[e].valid \in BOOLEAN
             /\ latest[e].stamp \in 0 .. LastStamp
             /\ shot[e].stamp \in 0 .. LastStamp /\ shot[e].count \in Nat
  BY <1>2, Zenon
<1>5. PoolSize \in Nat
  BY DEF PoolSize
<1> QED
  BY <1>1, <1>2, <1>3, <1>4, <1>5

(* The capture object starts closed, with nothing held.                    *)
LEMMA Initially == Init => IInv
<1> SUFFICES ASSUME Init PROVE IInv
  OBVIOUS
<1>1. Requests \in Nat /\ LastStamp \in Nat
  BY CaptureAssumption
<1>2. \A e \in Eyes :
        /\ camera[e].queued = 0 /\ callback[e] = "idle" /\ ~running[e]
        /\ ~latest[e].has /\ ~latest[e].valid /\ pool[e] = PoolSize /\ dropped[e] = 0
        /\ shot[e].stamp = 0 /\ shot[e].count = 0 /\ taken[e] = 0
  BY DEF Init, NoFrame
<1>3. main.pc = "open_left" /\ main.seen = 0 /\ notify.generation = 0 /\ ~outstanding /\ pairs = 0
  BY DEF Init
<1>4. TypeOK
  <2>1. /\ [acquired |-> FALSE, started |-> FALSE, queued |-> 0]
             \in [acquired : BOOLEAN, started : BOOLEAN, queued : 0 .. Requests]
        /\ [stamp |-> 0, count |-> 0] \in [stamp : 0 .. LastStamp, count : Nat]
        /\ NoFrame \in [has : BOOLEAN, valid : BOOLEAN, stamp : 0 .. LastStamp]
    BY <1>1 DEF NoFrame
  <2>2. main \in [pc : MainPC, seen : Nat] /\ notify \in [generation : Nat, failed : BOOLEAN]
    BY DEF Init, MainPC
  <2>3. PoolSize \in 0 .. PoolSize /\ 0 \in 0 .. LastStamp
    BY <1>1 DEF PoolSize
  <2> QED
    BY <2>1, <2>2, <2>3 DEF Init, TypeOK
<1>5. \A e \in Eyes : FramesFit(e)
  BY <1>2, <1>3, <1>4, Fields DEF FramesFit, Count, PoolSize
<1>6. HeldWhileEncoding /\ SleepFits
  BY <1>3, <1>4, Fields DEF HeldWhileEncoding, SleepFits, Waiting
<1>7. CallsFit
  BY <1>2, <1>3, <1>4, Fields DEF CallsFit, RequestsComeBack, Quiet, Count, Left, Right, Eyes
<1> QED
  BY <1>4, <1>5, <1>6, <1>7 DEF IInv

-----------------------------------------------------------------------------
(* What a completed frame does to its eye, field by field; the other eye   *)
(* is left alone.                                                          *)
LEMMA CopyFrameFields ==
  ASSUME IInv, NEW e \in Eyes, CopyFrame(e)
  PROVE  /\ latest' \in [Eyes -> [has : BOOLEAN, valid : BOOLEAN, stamp : 0 .. LastStamp]]
         /\ shot' \in [Eyes -> [stamp : 0 .. LastStamp, count : Nat]]
         /\ shot'[e].stamp > shot[e].stamp /\ shot'[e].count = shot[e].count + 1
         /\ latest'[e].has = (latest[e].has \/ pool[e] # 0)
         /\ latest'[e].valid = (latest'[e].has /\ e \notin broken)
         /\ latest'[e].valid => latest'[e].stamp = shot'[e].stamp
         /\ \A f \in Eyes \ {e} : latest'[f] = latest[f] /\ shot'[f] = shot[f]
<1> TypeOK
  BY DEF IInv
<1>1. PICK stamp \in {shot[e].stamp + 1, shot[e].stamp + 2} :
        /\ stamp <= LastStamp
        /\ shot' = [shot EXCEPT ![e] = [stamp |-> stamp, count |-> @.count + 1]]
        /\ LET has == latest[e].has \/ pool[e] # 0
           IN  latest' = [latest EXCEPT ![e] =
                 IF has /\ e \notin broken THEN [has |-> TRUE, valid |-> TRUE, stamp |-> stamp]
                 ELSE [@ EXCEPT !.has = has, !.valid = FALSE]]
  BY DEF CopyFrame
<1>2. stamp \in 0 .. LastStamp /\ stamp > shot[e].stamp
  BY <1>1, Fields
<1> DEFINE has == latest[e].has \/ pool[e] # 0
           after == IF has /\ e \notin broken THEN [has |-> TRUE, valid |-> TRUE, stamp |-> stamp]
                    ELSE [latest[e] EXCEPT !.has = has, !.valid = FALSE]
<1>3. latest[e] \in [has : BOOLEAN, valid : BOOLEAN, stamp : 0 .. LastStamp] /\ has \in BOOLEAN
  BY DEF TypeOK
<1>4. latest' = [latest EXCEPT ![e] = after]
  BY <1>1
<1>5. /\ after \in [has : BOOLEAN, valid : BOOLEAN, stamp : 0 .. LastStamp]
      /\ after.has = has /\ after.valid = (has /\ e \notin broken)
      /\ after.valid => after.stamp = stamp
  <2> HIDE DEF has
  <2>1. CASE has /\ e \notin broken
    BY <1>2, <2>1
  <2>2. CASE ~(has /\ e \notin broken)
    BY <1>3, <2>2
  <2> QED
    BY <2>1, <2>2
<1> HIDE DEF after
<1>6. /\ latest' \in [Eyes -> [has : BOOLEAN, valid : BOOLEAN, stamp : 0 .. LastStamp]]
      /\ latest'[e] = after /\ \A f \in Eyes \ {e} : latest'[f] = latest[f]
  BY <1>4, <1>5 DEF TypeOK
<1>7. [stamp |-> stamp, count |-> shot[e].count + 1] \in [stamp : 0 .. LastStamp, count : Nat]
  BY <1>2, Fields
<1>8. /\ shot' \in [Eyes -> [stamp : 0 .. LastStamp, count : Nat]]
      /\ shot'[e] = [stamp |-> stamp, count |-> shot[e].count + 1]
      /\ \A f \in Eyes \ {e} : shot'[f] = shot[f]
  BY <1>1, <1>7 DEF TypeOK
<1>9. shot'[e].stamp = stamp /\ shot'[e].count = shot[e].count + 1
  BY <1>8
<1> QED
  BY <1>2, <1>5, <1>6, <1>8, <1>9

(* Copying a frame out keeps the frames that are held.                     *)
LEMMA CopyFrameKeepsFrames ==
  ASSUME IInv, NEW e \in Eyes, CopyFrame(e)
  PROVE  /\ \A f \in Eyes : FramesFit(f)'
         /\ pool' \in [Eyes -> 0 .. PoolSize] /\ dropped' \in [Eyes -> Nat]
<1> TypeOK /\ \A f \in Eyes : FramesFit(f)
  BY DEF IInv
<1>1. /\ dropped' = [dropped EXCEPT ![e] = IF CountsAsDropped(e) THEN @ + 1 ELSE @]
      /\ pool' = [pool EXCEPT ![e] = IF TakesFromPool(e) THEN @ - 1 ELSE @]
      /\ UNCHANGED << outstanding, taken, pairs, broken >>
  BY DEF CopyFrame
<1>2. /\ dropped'[e] = IF latest[e].valid \/ pool[e] = 0 THEN dropped[e] + 1 ELSE dropped[e]
      /\ pool'[e] = IF ~latest[e].valid /\ pool[e] # 0 THEN pool[e] - 1 ELSE pool[e]
      /\ \A f \in Eyes \ {e} : dropped'[f] = dropped[f] /\ pool'[f] = pool[f]
  BY <1>1, Fields DEF TypeOK, CountsAsDropped, TakesFromPool
<1>3. pool' \in [Eyes -> 0 .. PoolSize] /\ dropped' \in [Eyes -> Nat]
  <2>1. (IF CountsAsDropped(e) THEN dropped[e] + 1 ELSE dropped[e]) \in Nat
    BY Fields
  <2>2. (IF TakesFromPool(e) THEN pool[e] - 1 ELSE pool[e]) \in 0 .. PoolSize
    BY Fields DEF TakesFromPool, PoolSize
  <2> QED
    BY <1>1, <2>1, <2>2 DEF TypeOK
<1>4. FramesFit(e)'
  <2>1. /\ latest[e].has \in BOOLEAN /\ latest[e].valid \in BOOLEAN /\ pairs \in Nat
        /\ pool[e] \in Nat /\ dropped[e] \in Nat /\ taken[e] \in Nat
        /\ shot[e].stamp \in Nat /\ shot[e].count \in Nat
        /\ latest'[e].has \in BOOLEAN /\ latest'[e].valid \in BOOLEAN
        /\ latest'[e].stamp \in Nat /\ shot'[e].stamp \in Nat
    BY Fields, CopyFrameFields DEF TypeOK
  <2>2. /\ shot'[e].stamp > shot[e].stamp /\ shot'[e].count = shot[e].count + 1
        /\ latest'[e].has = (latest[e].has \/ pool[e] # 0)
        /\ latest'[e].valid = (latest'[e].has /\ e \notin broken)
        /\ latest'[e].valid => latest'[e].stamp = shot'[e].stamp
    BY CopyFrameFields
  <2>3. /\ latest'[e].valid =>
             /\ latest'[e].has /\ e \notin broken
             /\ taken[e] < latest'[e].stamp /\ latest'[e].stamp <= shot'[e].stamp
        /\ e \notin broken /\ latest'[e].has => latest'[e].valid
        /\ taken[e] <= shot'[e].stamp
    BY <2>1, <2>2 DEF FramesFit
  <2> DEFINE held == Count(outstanding)
  <2>4. held \in Nat
    BY DEF Count
  <2> HIDE DEF held
  <2>5. /\ pool[e] + Count(latest[e].has) + held <= PoolSize
        /\ latest[e].valid => latest[e].has
        /\ e \notin broken => /\ latest[e].has => latest[e].valid
                              /\ pool[e] + Count(latest[e].has) + held = PoolSize
                              /\ shot[e].count = pairs + dropped[e] + Count(latest[e].valid)
    BY DEF FramesFit, held
  <2>6. /\ pool'[e] + Count(latest'[e].has) + held <= PoolSize
        /\ e \notin broken => /\ pool'[e] + Count(latest'[e].has) + held = PoolSize
                              /\ shot'[e].count = pairs + dropped'[e] + Count(latest'[e].valid)
    <3>1. CASE latest[e].valid
      BY <1>2, <2>1, <2>2, <2>4, <2>5, <3>1 DEF Count, PoolSize
    <3>2. CASE ~latest[e].valid /\ pool[e] = 0
      BY <1>2, <2>1, <2>2, <2>4, <2>5, <3>2 DEF Count, PoolSize
    <3>3. CASE ~latest[e].valid /\ pool[e] # 0
      <4>1. pool'[e] = pool[e] - 1 /\ dropped'[e] = dropped[e] /\ latest'[e].has
        BY <1>2, <2>2, <3>3
      <4>2. Count(latest'[e].has) = 1 /\ Count(latest[e].has) \in {0, 1} /\ PoolSize \in Nat
        BY <4>1 DEF Count, PoolSize
      <4>3. e \notin broken =>
              Count(latest'[e].valid) = 1 /\ Count(latest[e].valid) = 0 /\ Count(latest[e].has) = 0
        BY <2>2, <2>5, <3>3, <4>1 DEF Count
      <4> QED
        BY <2>1, <2>2, <2>4, <2>5, <4>1, <4>2, <4>3
    <3> QED
      BY <3>1, <3>2, <3>3
  <2> QED
    BY <1>1, <2>3, <2>6 DEF FramesFit, held
<1>5. ASSUME NEW f \in Eyes \ {e} PROVE FramesFit(f)'
  BY <1>1, <1>2, CopyFrameFields DEF FramesFit
<1> QED
  BY <1>3, <1>4, <1>5

(* Taking a pair keeps the frames that are held.                           *)
LEMMA TakePairKeepsFrames ==
  ASSUME IInv, TakePair
  PROVE  /\ \A f \in Eyes : FramesFit(f)' /\ taken'[f] > taken[f] /\ taken'[f] <= shot[f].stamp
         /\ latest' \in [Eyes -> [has : BOOLEAN, valid : BOOLEAN, stamp : 0 .. LastStamp]]
         /\ taken' \in [Eyes -> 0 .. LastStamp]
<1> TypeOK /\ \A f \in Eyes : FramesFit(f)
  BY DEF IInv
<1>1. /\ \A f \in Eyes : latest[f].valid
      /\ taken' = [f \in Eyes |-> latest[f].stamp] /\ latest' = [f \in Eyes |-> NoFrame]
      /\ outstanding' = TRUE /\ pairs' = pairs + 1
      /\ UNCHANGED << pool, dropped, shot, broken >>
  BY DEF TakePair, BothValid, Eyes
<1>2. ~outstanding
  BY DEF IInv, HeldWhileEncoding, TakePair, At
<1>3. /\ NoFrame \in [has : BOOLEAN, valid : BOOLEAN, stamp : 0 .. LastStamp]
      /\ ~NoFrame.has /\ ~NoFrame.valid
  BY CaptureAssumption DEF NoFrame
<1>4. \A f \in Eyes : ~latest'[f].has /\ ~latest'[f].valid /\ taken'[f] = latest[f].stamp
  BY <1>1, <1>3
<1>5. ASSUME NEW f \in Eyes
      PROVE  FramesFit(f)' /\ taken'[f] > taken[f] /\ taken'[f] <= shot[f].stamp
  <2>1. /\ latest[f].has \in BOOLEAN /\ latest[f].valid \in BOOLEAN /\ pairs \in Nat
        /\ pool[f] \in Nat /\ dropped[f] \in Nat /\ taken[f] \in Nat
        /\ shot[f].stamp \in Nat /\ shot[f].count \in Nat /\ latest[f].stamp \in Nat
    BY Fields DEF TypeOK
  <2>2. /\ latest[f].has /\ f \notin broken
        /\ taken[f] < latest[f].stamp /\ latest[f].stamp <= shot[f].stamp
        /\ pool[f] + 1 + 0 = PoolSize
        /\ shot[f].count = pairs + dropped[f] + 1
    BY <1>1, <1>2 DEF FramesFit, Count
  <2>3. /\ pool'[f] + 0 + 1 = PoolSize /\ pool'[f] + 0 + 1 <= PoolSize
        /\ shot'[f].count = pairs' + dropped'[f] + 0
        /\ taken'[f] <= shot'[f].stamp /\ taken'[f] > taken[f] /\ taken'[f] <= shot[f].stamp
    BY <1>1, <1>4, <2>1, <2>2 DEF PoolSize
  <2> QED
    BY <1>1, <1>4, <2>3 DEF FramesFit, Count
<1> QED
  BY <1>1, <1>3, <1>5, Fields DEF TypeOK

(* The frame that is given up was whole, and its partner has been passed.  *)
LEMMA DiscardKeepsFrames ==
  ASSUME IInv, DiscardOlder
  PROVE  /\ \A f \in Eyes : FramesFit(f)'
         /\ latest' \in [Eyes -> [has : BOOLEAN, valid : BOOLEAN, stamp : 0 .. LastStamp]]
         /\ pool' \in [Eyes -> 0 .. PoolSize] /\ dropped' \in [Eyes -> Nat]
         /\ ~latest'[Older].valid /\ \A f \in Eyes \ {Older} : latest'[f] = latest[f]
<1> TypeOK /\ \A f \in Eyes : FramesFit(f)
  BY DEF IInv
<1>1. /\ \A f \in Eyes : latest[f].valid
      /\ Older \in Eyes
      /\ latest' = [latest EXCEPT ![Older] = NoFrame]
      /\ pool' = [pool EXCEPT ![Older] = @ + 1]
      /\ dropped' = [dropped EXCEPT ![Older] = @ + 1]
      /\ UNCHANGED << outstanding, shot, taken, pairs, broken >>
  BY DEF DiscardOlder, BothValid, Eyes, Older
<1>2. /\ NoFrame \in [has : BOOLEAN, valid : BOOLEAN, stamp : 0 .. LastStamp]
      /\ ~NoFrame.has /\ ~NoFrame.valid
  BY CaptureAssumption DEF NoFrame
<1>e. PICK e \in Eyes : e = Older
  BY <1>1
<1>3. /\ ~latest'[e].has /\ ~latest'[e].valid
      /\ pool'[e] = pool[e] + 1 /\ dropped'[e] = dropped[e] + 1
      /\ \A f \in Eyes \ {e} : latest'[f] = latest[f] /\ pool'[f] = pool[f] /\ dropped'[f] = dropped[f]
  BY <1>1, <1>2, <1>e DEF TypeOK
<1>4. /\ latest[e].has \in BOOLEAN /\ latest[e].valid \in BOOLEAN /\ pairs \in Nat
      /\ pool[e] \in Nat /\ dropped[e] \in Nat /\ taken[e] \in Nat
      /\ shot[e].stamp \in Nat /\ shot[e].count \in Nat
  BY Fields DEF TypeOK
<1>5. /\ latest[e].has /\ e \notin broken /\ taken[e] <= shot[e].stamp
      /\ pool[e] + 1 + Count(outstanding) = PoolSize
      /\ shot[e].count = pairs + dropped[e] + 1
  BY <1>1 DEF FramesFit, Count
<1>6. Count(outstanding) \in Nat /\ PoolSize \in Nat
  BY DEF Count, PoolSize
<1>7. /\ pool'[e] + 0 + Count(outstanding) = PoolSize
      /\ pool'[e] + 0 + Count(outstanding) <= PoolSize
      /\ shot[e].count = pairs + dropped'[e] + 0
      /\ pool[e] + 1 \in 0 .. PoolSize /\ dropped[e] + 1 \in Nat
  BY <1>3, <1>4, <1>5, <1>6
<1>8. FramesFit(e)'
  <2>1. Count(latest'[e].has) = 0 /\ Count(latest'[e].valid) = 0
    BY <1>3 DEF Count
  <2> QED
    BY <1>1, <1>3, <1>5, <1>7, <2>1 DEF FramesFit
<1>9. ASSUME NEW f \in Eyes \ {e} PROVE FramesFit(f)'
  BY <1>1, <1>3 DEF FramesFit
<1>10. pool' \in [Eyes -> 0 .. PoolSize] /\ dropped' \in [Eyes -> Nat]
  BY <1>1, <1>7, <1>e DEF TypeOK
<1>11. latest' \in [Eyes -> [has : BOOLEAN, valid : BOOLEAN, stamp : 0 .. LastStamp]]
  BY <1>1, <1>2 DEF TypeOK
<1> QED
  BY <1>e, <1>3, <1>8, <1>9, <1>10, <1>11

(* Releasing a frame keeps the others.                                     *)
LEMMA ReleaseKeepsFrames ==
  ASSUME IInv, ReleasePair
  PROVE  (\A f \in Eyes : FramesFit(f)') /\ pool' \in [Eyes -> 0 .. PoolSize]
<1> TypeOK /\ \A f \in Eyes : FramesFit(f)
  BY DEF IInv
<1>1. /\ pool' = [e \in Eyes |-> pool[e] + 1] /\ outstanding' = FALSE
      /\ UNCHANGED << latest, dropped, shot, taken, pairs, broken >>
  BY DEF ReleasePair
<1>2. outstanding
  BY DEF IInv, HeldWhileEncoding, ReleasePair, At
<1>3. Count(outstanding) = 1 /\ Count(outstanding') = 0 /\ PoolSize \in Nat
  BY <1>1, <1>2 DEF Count, PoolSize
<1>4. ASSUME NEW f \in Eyes PROVE FramesFit(f)' /\ pool'[f] \in 0 .. PoolSize
  <2>1. /\ pool[f] \in Nat /\ pool'[f] = pool[f] + 1 /\ Count(latest[f].has) \in Nat
    BY <1>1, Fields DEF Count
  <2>2. /\ pool[f] + Count(latest[f].has) + Count(outstanding) <= PoolSize
        /\ f \notin broken => pool[f] + Count(latest[f].has) + Count(outstanding) = PoolSize
    BY DEF FramesFit
  <2>3. /\ pool'[f] + Count(latest[f].has) + Count(outstanding') <= PoolSize
        /\ f \notin broken => pool'[f] + Count(latest[f].has) + Count(outstanding') = PoolSize
        /\ pool'[f] \in 0 .. PoolSize
    BY <1>3, <2>1, <2>2
  <2> QED
    BY <1>1, <2>3 DEF FramesFit
<1> QED
  BY <1>1, <1>4

-----------------------------------------------------------------------------
(* Whatever does not touch the frames keeps what is said of them. *)
LEMMA FramesUntouched ==
  ASSUME IInv, UNCHANGED << latest, pool, dropped, outstanding, shot, taken, pairs, broken >>
  PROVE  \A f \in Eyes : FramesFit(f)'
BY DEF IInv, FramesFit

(* Where main goes it takes along what it has seen.                        *)
LEMMA MainMoves ==
  ASSUME TypeOK, NEW pc \in MainPC, Goto(pc)
  PROVE  main' \in [pc : MainPC, seen : Nat] /\ main'.pc = pc /\ main'.seen = main.seen
BY DEF TypeOK, Goto

(* Where main neither starts nor stops the cameras. *)
Working ==
  {"acquire", "try", "examine", "check", "drowsy", "asleep", "encode", "release", "stop_left"}

(* Where main works and the capture object rests, the calls are as they    *)
(* were.                                                                   *)
LEMMA CallsUntouched ==
  ASSUME IInv, UNCHANGED << camera, callback, running, notify >>, main'.pc \in Working
  PROVE  CallsFit'
BY DEF IInv, CallsFit, RequestsComeBack, Working

(* How main moves while it looks for a pair: its own state only. *)
LEMMA LookingStep ==
  ASSUME IInv, CallAcquire \/ FindNoPair \/ Examine \/ Check \/ FallAsleep
               \/ WakeSpuriously \/ DeadlinePasses \/ Encoded
  PROVE  IInv'
<1> TypeOK
  BY DEF IInv
<1>1. UNCHANGED << camera, callback, running, latest, pool, dropped, outstanding, shot, taken,
                   pairs, notify, broken >>
  BY DEF CallAcquire, FindNoPair, Examine, Check, FallAsleep, WakeSpuriously, DeadlinePasses,
    Encoded, cameraVars, frameVars
<1>2. /\ main' \in [pc : MainPC, seen : Nat]
      /\ main'.pc \in Working
      /\ main'.seen \in {main.seen, notify.generation}
      /\ main'.pc = "release" <=> main.pc = "encode"
      /\ main.pc # "release" /\ main'.pc # "encode"
      /\ missed' \in BOOLEAN
  <2> \A seen \in Nat : [pc |-> "try", seen |-> seen] \in [pc : MainPC, seen : Nat]
    BY DEF MainPC
  <2>1. CASE CallAcquire
    <3>1. CASE outstanding
      <4>1. Goto("stop_left") /\ main.pc = "acquire"
        BY <2>1, <3>1 DEF CallAcquire, Goto, At
      <4> QED
        BY <2>1, <4>1, MainMoves DEF MainPC, Working, CallAcquire, TypeOK
    <3>2. CASE ~outstanding
      <4>1. main' = [pc |-> "try", seen |-> notify.generation] /\ main.pc = "acquire"
        BY <2>1, <3>2 DEF CallAcquire, At
      <4> QED
        BY <2>1, <4>1, Fields DEF Working, CallAcquire, TypeOK
    <3> QED
      BY <3>1, <3>2
  <2>2. CASE FindNoPair
    BY <2>2, MainMoves DEF FindNoPair, At, MainPC, Working, TypeOK
  <2>3. CASE Examine
    <3>1. main.pc = "examine" /\ (Goto("stop_left") \/ Goto("check")) /\ missed' = missed
      BY <2>3 DEF Examine, At
    <3> QED
      BY <3>1, MainMoves DEF MainPC, Working, TypeOK
  <2>4. CASE Check
    <3>1. main.pc = "check" /\ missed' = (missed /\ ~News)
      BY <2>4 DEF Check, At
    <3>2. CASE News
      <4>1. main' = [pc |-> "try", seen |-> notify.generation]
        BY <2>4, <3>2 DEF Check
      <4> QED
        BY <3>1, <4>1, Fields DEF Working
    <3>3. CASE ~News
      <4>1. Goto("drowsy")
        BY <2>4, <3>3 DEF Check, Goto
      <4> QED
        BY <3>1, <4>1, MainMoves DEF MainPC, Working
    <3> QED
      BY <3>2, <3>3
  <2>5. CASE FallAsleep
    BY <2>5, MainMoves DEF FallAsleep, At, MainPC, Working, TypeOK
  <2>6. CASE WakeSpuriously
    BY <2>6, MainMoves DEF WakeSpuriously, At, MainPC, Working, TypeOK
  <2>7. CASE DeadlinePasses
    <3>1. main.pc = "asleep" /\ missed' = FALSE
      BY <2>7 DEF DeadlinePasses, At
    <3>2. CASE News
      <4>1. main' = [pc |-> "try", seen |-> notify.generation]
        BY <2>7, <3>2 DEF DeadlinePasses
      <4> QED
        BY <3>1, <4>1, Fields DEF Working
    <3>3. CASE ~News
      <4>1. Goto("acquire")
        BY <2>7, <3>3 DEF DeadlinePasses, Goto
      <4> QED
        BY <3>1, <4>1, MainMoves DEF MainPC, Working
    <3> QED
      BY <3>2, <3>3
  <2>8. CASE Encoded
    BY <2>8, MainMoves DEF Encoded, At, MainPC, Working, TypeOK
  <2> QED
    BY <2>1, <2>2, <2>3, <2>4, <2>5, <2>6, <2>7, <2>8
<1>3. TypeOK'
  BY <1>1, <1>2 DEF TypeOK
<1>4. HeldWhileEncoding'
  BY <1>1, <1>2 DEF IInv, HeldWhileEncoding
<1>5. SleepFits'
  <2>1. main'.seen <= notify'.generation
    BY <1>1, <1>2, Fields DEF IInv, SleepFits
  <2>2. ASSUME main'.pc \in Waiting, BothValid, SkewFits
        PROVE  \/ missed'
               \/ \E e \in Eyes : callback[e] = "copied"
               \/ main'.pc \in {"examine", "check"} /\ notify.generation # main'.seen
    <3>1. ~FindNoPair
      BY <2>2 DEF FindNoPair
    <3>2. CASE Examine
      <4>1. Goto("check") /\ main.pc = "examine" /\ missed' = missed
        <5>1. ~Goto("stop_left")
          BY <2>2, MainMoves DEF Waiting, MainPC
        <5> QED
          BY <3>2, <5>1 DEF Examine, At
      <4> QED
        BY <2>2, <4>1, MainMoves DEF IInv, SleepFits, Waiting, MainPC
    <3>3. CASE Check
      <4>1. ~News
        <5>1. News => main'.pc = "try"
          BY <3>3 DEF Check
        <5> QED
          BY <2>2, <5>1 DEF Waiting
      <4> QED
        BY <2>2, <3>3, <4>1 DEF Check, News, At, IInv, SleepFits, Waiting
    <3>4. CASE FallAsleep
      BY <2>2, <3>4 DEF FallAsleep, At, IInv, SleepFits, Waiting
    <3>5. CASE WakeSpuriously
      BY <2>2, <3>5 DEF WakeSpuriously, At, IInv, SleepFits, Waiting
    <3>6. CASE DeadlinePasses \/ CallAcquire
      <4>1. main'.pc \in {"try", "acquire", "stop_left"}
        <5>1. main' = [pc |-> "try", seen |-> notify.generation] \/ Goto("acquire") \/ Goto("stop_left")
          BY <3>6 DEF DeadlinePasses, CallAcquire, Goto
        <5> QED
          BY <5>1, MainMoves DEF MainPC
      <4> QED
        BY <2>2, <4>1 DEF Waiting
    <3>7. CASE Encoded
      BY <1>2, <2>2, <3>7 DEF Encoded, At, Waiting
    <3> QED
      BY <3>1, <3>2, <3>3, <3>4, <3>5, <3>6, <3>7
  <2> QED
    BY <1>1, <2>1, <2>2 DEF SleepFits, BothValid, SkewFits, Skew
<1> QED
  BY <1>1, <1>2, <1>3, <1>4, <1>5, FramesUntouched, CallsUntouched DEF IInv

-----------------------------------------------------------------------------
(* A callback under way moves its own eye only, and may wake main. *)
LEMMA CallbackKeepsCalls ==
  ASSUME IInv, TypeOK', NEW e \in Eyes, ~Quiet(e), running' = running,
         \A f \in Eyes \ {e} : camera'[f] = camera[f] /\ callback'[f] = callback[f],
         notify.failed => notify'.failed,
         main'.pc = main.pc \/ (main'.pc \in Working /\ main.pc \in Working),
         camera'[e].queued + Count(callback'[e] # "idle") <= Requests,
         running[e] /\ ~notify'.failed =>
           camera'[e].queued + Count(callback'[e] # "idle") = Requests
  PROVE  CallsFit'
<1>1. \A f \in Eyes : camera'[f].queued + Count(callback'[f] # "idle") <= Requests
  BY DEF IInv, CallsFit
<1>2. RequestsComeBack'
  BY DEF IInv, CallsFit, RequestsComeBack
<1>3. CASE main'.pc \in Working
  BY <1>1, <1>2, <1>3 DEF CallsFit, Working
<1>4. CASE main'.pc = main.pc
  <2>1. \A f \in Eyes : Quiet(f) => f # e
    OBVIOUS
  <2>2. \A f \in Eyes : (Quiet(f) => Quiet(f)') /\ (Released(f) => Released(f)')
    BY <2>1 DEF Quiet, Released
  <2> QED
    BY <1>1, <1>2, <1>4, <2>2 DEF IInv, CallsFit, Eyes
<1> QED
  BY <1>3, <1>4

(* Waking main: asleep, it checks again; drowsy, it misses the call.       *)
LEMMA Waking ==
  ASSUME IInv, WakeMain
  PROVE  /\ main' \in [pc : MainPC, seen : Nat] /\ missed' \in BOOLEAN
         /\ main'.seen = main.seen
         /\ main'.pc = main.pc \/ (main'.pc \in Working /\ main.pc \in Working)
         /\ main'.pc = IF main.pc = "asleep" THEN "check" ELSE main.pc
         /\ missed' = (missed \/ main.pc = "drowsy")
<1> TypeOK
  BY DEF IInv
<1>1. main \in [pc : MainPC, seen : Nat] /\ missed \in BOOLEAN
  BY DEF TypeOK
<1>2. CASE main.pc = "asleep"
  BY <1>1, <1>2 DEF WakeMain, At, MainPC, Working
<1>3. CASE main.pc # "asleep"
  <2>1. main' = main
    BY <1>3 DEF WakeMain, At
  <2>2. missed' = (missed \/ main.pc = "drowsy") /\ missed' \in BOOLEAN
    BY <1>1, Zenon DEF WakeMain, At
  <2>3. /\ main' \in [pc : MainPC, seen : Nat] /\ main'.seen = main.seen
        /\ main'.pc = IF main.pc = "asleep" THEN "check" ELSE main.pc
        /\ main'.pc = main.pc
    BY <1>1, <1>3, <2>1
  <2> QED
    BY <2>2, <2>3, Zenon
<1> QED
  BY <1>2, <1>3

(* Copying a frame out keeps the invariant.                                *)
LEMMA CopyFrameStep ==
  ASSUME IInv, NEW e \in Eyes, CopyFrame(e)
  PROVE  IInv'
<1> TypeOK
  BY DEF IInv
<1>1. /\ callback[e] = "idle" /\ camera[e].queued > 0 /\ running[e]
      /\ camera' = [camera EXCEPT ![e].queued = @ - 1]
      /\ callback' = [callback EXCEPT ![e] = "copied"]
      /\ UNCHANGED << running, outstanding, taken, pairs, notify, main, broken, missed >>
  BY DEF CopyFrame
<1>2. /\ camera' \in [Eyes -> [acquired : BOOLEAN, started : BOOLEAN, queued : 0 .. Requests]]
      /\ camera'[e].queued = camera[e].queued - 1
      /\ \A f \in Eyes \ {e} : camera'[f] = camera[f]
  <2>1. camera[e].queued - 1 \in 0 .. Requests
    BY <1>1, Fields
  <2>2. camera[e] \in [acquired : BOOLEAN, started : BOOLEAN, queued : 0 .. Requests]
    BY DEF TypeOK
  <2>3. [camera[e] EXCEPT !.queued = camera[e].queued - 1]
          \in [acquired : BOOLEAN, started : BOOLEAN, queued : 0 .. Requests]
    BY <2>1, <2>2
  <2>4. camera' = [camera EXCEPT ![e] = [camera[e] EXCEPT !.queued = camera[e].queued - 1]]
    BY <1>1
  <2> QED
    BY <2>2, <2>3, <2>4 DEF TypeOK
<1>3. callback'[e] = "copied" /\ \A f \in Eyes \ {e} : callback'[f] = callback[f]
  BY <1>1 DEF TypeOK
<1>4. TypeOK'
  <2>1. callback' \in [Eyes -> {"idle", "copied", "notified"}]
    BY <1>1 DEF TypeOK
  <2> QED
    BY <1>1, <1>2, <2>1, CopyFrameFields, CopyFrameKeepsFrames DEF TypeOK
<1>5. CallsFit'
  <2>1. /\ camera[e].queued \in Nat
        /\ camera[e].queued + 0 <= Requests
        /\ ~notify.failed => camera[e].queued + 0 = Requests
    BY <1>1, Fields DEF IInv, CallsFit, RequestsComeBack, Count
  <2>2. /\ camera'[e].queued + 1 <= Requests
        /\ ~notify.failed => camera'[e].queued + 1 = Requests
    BY <1>2, <2>1, CaptureAssumption
  <2>3. Count(callback'[e] # "idle") = 1
    BY <1>3 DEF Count
  <2>4. ~Quiet(e)
    BY <1>1 DEF Quiet
  <2>5. /\ running' = running /\ main'.pc = main.pc
        /\ notify.failed => notify'.failed
        /\ \A f \in Eyes \ {e} : camera'[f] = camera[f] /\ callback'[f] = callback[f]
        /\ camera'[e].queued + Count(callback'[e] # "idle") <= Requests
        /\ running[e] /\ ~notify'.failed =>
             camera'[e].queued + Count(callback'[e] # "idle") = Requests
    BY <1>1, <1>2, <1>3, <2>2, <2>3
  <2> QED
    BY <1>4, <2>4, <2>5, CallbackKeepsCalls
<1>6. SleepFits' /\ HeldWhileEncoding'
  BY <1>1, <1>3 DEF IInv, SleepFits, HeldWhileEncoding
<1> QED
  BY <1>4, <1>5, <1>6, CopyFrameKeepsFrames DEF IInv

(* A new generation is announced, and a waiting main is woken.             *)
LEMMA NotifyStep ==
  ASSUME IInv, NEW e \in Eyes, NotifyGeneration(e)
  PROVE  IInv'
<1> TypeOK
  BY DEF IInv
<1>1. /\ callback[e] = "copied" /\ WakeMain
      /\ notify' = [notify EXCEPT !.generation = @ + 1]
      /\ callback' = [callback EXCEPT ![e] = "notified"]
      /\ UNCHANGED << camera, running, latest, pool, dropped, outstanding, shot, taken, pairs, broken >>
  BY DEF NotifyGeneration, frameVars
<1>2. /\ notify' \in [generation : Nat, failed : BOOLEAN]
      /\ notify'.generation = notify.generation + 1 /\ notify'.failed = notify.failed
  <2>1. notify \in [generation : Nat, failed : BOOLEAN] /\ notify.generation + 1 \in Nat
    BY Fields DEF TypeOK
  <2>2. notify' = [notify EXCEPT !.generation = notify.generation + 1]
    BY <1>1
  <2> QED
    BY <2>1, <2>2
<1>3. callback'[e] = "notified" /\ \A f \in Eyes \ {e} : callback'[f] = callback[f]
  BY <1>1 DEF TypeOK
<1>4. TypeOK'
  <2>1. callback' \in [Eyes -> {"idle", "copied", "notified"}]
    BY <1>1 DEF TypeOK
  <2> QED
    BY <1>1, <1>2, <2>1, Waking DEF TypeOK
<1>5. CallsFit'
  <2>1. Count(callback'[e] # "idle") = Count(callback[e] # "idle")
    BY <1>1, <1>3 DEF Count
  <2>2. /\ camera'[e].queued + Count(callback'[e] # "idle") <= Requests
        /\ running[e] /\ ~notify'.failed =>
             camera'[e].queued + Count(callback'[e] # "idle") = Requests
    BY <1>1, <1>2, <2>1 DEF IInv, CallsFit, RequestsComeBack
  <2>3. ~Quiet(e)
    BY <1>1 DEF Quiet
  <2> QED
    BY <1>1, <1>2, <1>3, <1>4, <2>2, <2>3, Waking, CallbackKeepsCalls
<1>6. SleepFits'
  <2>1. main'.seen <= notify'.generation /\ main'.seen # notify'.generation
    BY <1>1, <1>2, Waking, Fields DEF IInv, SleepFits
  <2>2. main'.pc \in Waiting => missed' \/ main'.pc \in {"examine", "check"}
    BY <1>1, Waking DEF Waiting
  <2> QED
    BY <2>1, <2>2 DEF SleepFits
<1>7. HeldWhileEncoding'
  BY <1>1, Waking DEF IInv, HeldWhileEncoding
<1> QED
  BY <1>1, <1>4, <1>5, <1>6, <1>7, FramesUntouched DEF IInv

(* The end of a callback: the request goes back, or cannot, or must not. *)
LEMMA CallbackEnds ==
  ASSUME IInv, NEW e \in Eyes, Requeue(e) \/ RequeueFails(e) \/ LeaveStopped(e)
  PROVE  IInv'
<1> TypeOK
  BY DEF IInv
<1>1. /\ callback[e] = "notified"
      /\ callback' = [callback EXCEPT ![e] = "idle"]
      /\ UNCHANGED << running, latest, pool, dropped, outstanding, shot, taken, pairs, broken >>
  BY DEF Requeue, RequeueFails, LeaveStopped, frameVars
<1>2. /\ notify' \in [generation : Nat, failed : BOOLEAN]
      /\ notify'.generation = notify.generation
      /\ notify.failed => notify'.failed
      /\ WakeMain \/ (main' = main /\ missed' = missed)
      /\ notify'.failed \/ notify' = notify
  <2>1. CASE RequeueFails(e)
    BY <2>1, Fields DEF RequeueFails, TypeOK
  <2>2. CASE Requeue(e) \/ LeaveStopped(e)
    BY <2>2 DEF Requeue, LeaveStopped, TypeOK
  <2> QED
    BY <2>1, <2>2
<1>3. callback'[e] = "idle" /\ \A f \in Eyes \ {e} : callback'[f] = callback[f]
  BY <1>1 DEF TypeOK
<1>4. /\ main' \in [pc : MainPC, seen : Nat] /\ missed' \in BOOLEAN
      /\ main'.seen = main.seen
      /\ main'.pc = main.pc \/ (main'.pc \in Working /\ main.pc \in Working)
      /\ main'.pc = main.pc \/ (main.pc = "asleep" /\ main'.pc = "check")
      /\ missed => missed'
      /\ main'.pc = "drowsy" => main.pc = "drowsy"
  <2>1. CASE WakeMain
    <3>1. /\ main' \in [pc : MainPC, seen : Nat] /\ missed' \in BOOLEAN
          /\ main'.seen = main.seen
          /\ main'.pc = main.pc \/ (main'.pc \in Working /\ main.pc \in Working)
          /\ main'.pc = IF main.pc = "asleep" THEN "check" ELSE main.pc
      BY <2>1, Waking
    <3>2. missed => missed'
      BY <2>1, Waking, Zenon
    <3>3. /\ main'.pc = main.pc \/ (main.pc = "asleep" /\ main'.pc = "check")
          /\ main'.pc = "drowsy" => main.pc = "drowsy"
      BY <3>1
    <3> QED
      BY <3>1, <3>2, <3>3
  <2>2. CASE main' = main /\ missed' = missed
    <3>1. main \in [pc : MainPC, seen : Nat] /\ missed \in BOOLEAN
      BY DEF TypeOK
    <3> QED
      BY <2>2, <3>1, Zenon
  <2> QED
    BY <1>2, <2>1, <2>2
<1>5. /\ camera[e].queued \in Nat
      /\ camera[e].queued + 1 <= Requests
      /\ running[e] /\ ~notify.failed => camera[e].queued + 1 = Requests
  BY <1>1, Fields DEF IInv, CallsFit, RequestsComeBack, Count
<1>6. /\ camera' \in [Eyes -> [acquired : BOOLEAN, started : BOOLEAN, queued : 0 .. Requests]]
      /\ \A f \in Eyes \ {e} : camera'[f] = camera[f]
      /\ camera'[e].queued + 0 <= Requests
      /\ running[e] /\ ~notify'.failed => camera'[e].queued + 0 = Requests
  <2>1. CASE Requeue(e)
    <3>1. camera[e] \in [acquired : BOOLEAN, started : BOOLEAN, queued : 0 .. Requests]
      BY DEF TypeOK
    <3>2. [camera[e] EXCEPT !.queued = camera[e].queued + 1]
            \in [acquired : BOOLEAN, started : BOOLEAN, queued : 0 .. Requests]
      BY <1>5, <3>1, CaptureAssumption
    <3>3. camera' = [camera EXCEPT ![e] = [camera[e] EXCEPT !.queued = camera[e].queued + 1]]
      BY <2>1 DEF Requeue
    <3>4. camera'[e].queued = camera[e].queued + 1 /\ \A f \in Eyes \ {e} : camera'[f] = camera[f]
      BY <3>1, <3>3 DEF TypeOK
    <3>5. notify' = notify
      BY <2>1 DEF Requeue
    <3>6. camera' \in [Eyes -> [acquired : BOOLEAN, started : BOOLEAN, queued : 0 .. Requests]]
      BY <3>2, <3>3 DEF TypeOK
    <3> QED
      BY <1>5, <3>4, <3>5, <3>6
  <2>2. CASE RequeueFails(e) \/ LeaveStopped(e)
    <3>1. camera' = camera /\ (notify'.failed \/ ~running[e])
      BY <2>2, <1>2, Fields DEF RequeueFails, LeaveStopped, TypeOK
    <3> QED
      BY <1>5, <3>1, CaptureAssumption DEF TypeOK
  <2> QED
    BY <2>1, <2>2
<1>7. TypeOK'
  <2>1. callback' \in [Eyes -> {"idle", "copied", "notified"}]
    BY <1>1 DEF TypeOK
  <2> QED
    BY <1>1, <1>2, <1>4, <1>6, <2>1 DEF TypeOK
<1>8. CallsFit'
  <2>1. Count(callback'[e] # "idle") = 0 /\ ~Quiet(e)
    BY <1>1, <1>3 DEF Count, Quiet
  <2> QED
    BY <1>1, <1>2, <1>3, <1>4, <1>6, <1>7, <2>1, CallbackKeepsCalls
<1>9. SleepFits'
  <2>1. \A f \in Eyes : callback[f] = "copied" => callback'[f] = "copied"
    BY <1>1, <1>3
  <2>2. BothValid' = BothValid /\ SkewFits' = SkewFits
    BY <1>1 DEF BothValid, SkewFits, Skew
  <2> QED
    BY <1>2, <1>4, <2>1, <2>2 DEF IInv, SleepFits, Waiting
<1>10. HeldWhileEncoding'
  BY <1>1, <1>4 DEF IInv, HeldWhileEncoding
<1> QED
  BY <1>1, <1>7, <1>8, <1>9, <1>10, FramesUntouched DEF IInv

-----------------------------------------------------------------------------
(* What main does to the two places: take both, give up one, give back.    *)
LEMMA PairStep ==
  ASSUME IInv, TakePair \/ DiscardOlder \/ ReleasePair
  PROVE  IInv'
<1> TypeOK
  BY DEF IInv
<1>1. UNCHANGED << camera, callback, running, notify, broken, missed, shot >>
  BY DEF TakePair, DiscardOlder, ReleasePair, cameraVars
<1>2. /\ main' \in [pc : MainPC, seen : Nat] /\ main'.seen = main.seen
      /\ main'.pc \in Working
      /\ TakePair => main'.pc = "encode" /\ main.pc = "try" /\ outstanding' = TRUE
      /\ DiscardOlder => main'.pc = "examine" /\ main.pc = "try" /\ outstanding' = outstanding
      /\ ReleasePair => main'.pc = "acquire" /\ main.pc = "release" /\ outstanding' = FALSE
  <2>1. CASE TakePair
    <3>1. Goto("encode") /\ main.pc = "try" /\ outstanding' = TRUE
      BY <2>1 DEF TakePair, At
    <3> QED
      BY <3>1, MainMoves DEF MainPC, Working, DiscardOlder, ReleasePair, At
  <2>2. CASE DiscardOlder
    <3>1. Goto("examine") /\ main.pc = "try" /\ outstanding' = outstanding
      BY <2>2 DEF DiscardOlder, At
    <3> QED
      BY <3>1, MainMoves DEF MainPC, Working, TakePair, ReleasePair, At
  <2>3. CASE ReleasePair
    <3>1. Goto("acquire") /\ main.pc = "release" /\ outstanding' = FALSE
      BY <2>3 DEF ReleasePair, At
    <3> QED
      BY <3>1, MainMoves DEF MainPC, Working, TakePair, DiscardOlder, At
  <2> QED
    BY <2>1, <2>2, <2>3
<1>3. TypeOK'
  <2>1. CASE TakePair
    <3>1. pairs' \in Nat /\ outstanding' \in BOOLEAN /\ UNCHANGED << pool, dropped >>
      BY <2>1 DEF TakePair, TypeOK
    <3> QED
      BY <1>1, <1>2, <2>1, <3>1, TakePairKeepsFrames DEF TypeOK
  <2>2. CASE DiscardOlder
    <3>1. UNCHANGED << outstanding, taken, pairs >>
      BY <2>2 DEF DiscardOlder
    <3> QED
      BY <1>1, <1>2, <2>2, <3>1, DiscardKeepsFrames DEF TypeOK
  <2>3. CASE ReleasePair
    <3>1. outstanding' \in BOOLEAN /\ UNCHANGED << latest, dropped, taken, pairs >>
      BY <2>3 DEF ReleasePair
    <3> QED
      BY <1>1, <1>2, <2>3, <3>1, ReleaseKeepsFrames DEF TypeOK
  <2> QED
    BY <2>1, <2>2, <2>3
<1>4. HeldWhileEncoding'
  BY <1>2 DEF IInv, HeldWhileEncoding
<1>5. SleepFits'
  <2>1. main'.seen <= notify'.generation
    BY <1>1, <1>2 DEF IInv, SleepFits
  <2>2. ~(main'.pc \in Waiting /\ BothValid')
    <3>1. CASE DiscardOlder
      BY <3>1, DiscardKeepsFrames DEF BothValid, Older
    <3>2. CASE TakePair \/ ReleasePair
      BY <3>2, <1>2 DEF Waiting
    <3> QED
      BY <3>1, <3>2
  <2> QED
    BY <2>1, <2>2 DEF SleepFits
<1> QED
  BY <1>1, <1>2, <1>3, <1>4, <1>5, TakePairKeepsFrames, DiscardKeepsFrames, ReleaseKeepsFrames,
     CallsUntouched DEF IInv

-----------------------------------------------------------------------------
(* What setting up and tearing down leave alone. *)
LEMMA OutsideOfWork ==
  ASSUME IInv, UNCHANGED << latest, pool, dropped, outstanding, shot, taken, pairs, broken, missed >>,
         notify' \in [generation : Nat, failed : BOOLEAN],
         notify'.generation = notify.generation,
         camera' \in [Eyes -> [acquired : BOOLEAN, started : BOOLEAN, queued : 0 .. Requests]],
         callback' = callback, running' \in [Eyes -> BOOLEAN],
         NEW next \in MainPC \ (Waiting \cup {"encode", "release"}), Goto(next),
         main.pc \notin {"encode", "release"}
  PROVE  /\ TypeOK' /\ (\A f \in Eyes : FramesFit(f)') /\ HeldWhileEncoding' /\ SleepFits'
         /\ main'.pc = next
<1> TypeOK
  BY DEF IInv
<1>1. main' \in [pc : MainPC, seen : Nat] /\ main'.pc = next /\ main'.seen = main.seen
  BY MainMoves
<1>2. TypeOK'
  BY <1>1 DEF TypeOK
<1>3. HeldWhileEncoding' /\ SleepFits'
  BY <1>1 DEF IInv, HeldWhileEncoding, SleepFits
<1> QED
  BY <1>1, <1>2, <1>3, FramesUntouched

(* Opening the cameras keeps the invariant.                                *)
LEMMA OpenStep ==
  ASSUME IInv, NEW e \in Eyes, NEW pc \in {"open_left", "open_right"},
         NEW next \in {"open_right", "start_right"}, Open(e, pc, next)
  PROVE  IInv'
<1> TypeOK
  BY DEF IInv
<1>1. /\ main.pc = pc
      /\ UNCHANGED << callback, running, latest, pool, dropped, outstanding, shot, taken, pairs,
                      notify, broken, missed >>
  BY DEF Open, At, frameVars
<1>2. /\ Goto(next) \/ Goto("stop_left")
      /\ \E acquired \in BOOLEAN : camera' = [camera EXCEPT ![e].acquired = acquired]
  BY DEF Open
<1>3. PICK acquired \in BOOLEAN : camera' = [camera EXCEPT ![e].acquired = acquired]
  BY <1>2
<1>4. camera[e] \in [acquired : BOOLEAN, started : BOOLEAN, queued : 0 .. Requests]
  BY DEF TypeOK
<1>5. /\ [camera[e] EXCEPT !.acquired = acquired]
            \in [acquired : BOOLEAN, started : BOOLEAN, queued : 0 .. Requests]
      /\ [camera[e] EXCEPT !.acquired = acquired].queued = camera[e].queued
  BY <1>4
<1>6. /\ camera' \in [Eyes -> [acquired : BOOLEAN, started : BOOLEAN, queued : 0 .. Requests]]
      /\ \A f \in Eyes : camera'[f].queued = camera[f].queued
  BY <1>3, <1>5 DEF TypeOK
<1>7. PICK to \in {next, "stop_left"} : Goto(to)
  BY <1>2
<1>8. /\ TypeOK' /\ (\A f \in Eyes : FramesFit(f)') /\ HeldWhileEncoding' /\ SleepFits'
      /\ main'.pc = to
  <2>1. to \in MainPC \ (Waiting \cup {"encode", "release"})
    BY <1>7 DEF MainPC, Waiting
  <2>2. notify \in [generation : Nat, failed : BOOLEAN] /\ running \in [Eyes -> BOOLEAN]
    BY DEF TypeOK
  <2> QED
    BY <1>1, <1>6, <1>7, <2>1, <2>2, OutsideOfWork
<1>9. CallsFit'
  BY <1>1, <1>6, <1>8 DEF IInv, CallsFit, RequestsComeBack, Quiet
<1> QED
  BY <1>8, <1>9 DEF IInv

(* The camera comes up whole, or not at all, or short of requests and with *)
(* the failure announced.                                                  *)
LEMMA StartStep ==
  ASSUME IInv, Start(Right, "start_right", "start_left") \/ Start(Left, "start_left", "acquire")
  PROVE  IInv'
<1> TypeOK
  BY DEF IInv
<1>1. PICK e \in Eyes, next \in {"start_left", "acquire"} :
        /\ \/ e = Right /\ main.pc = "start_right" /\ next = "start_left"
           \/ e = Left /\ main.pc = "start_left" /\ next = "acquire"
        /\ Start(e, main.pc, next)
  BY DEF Start, At, Eyes
<1>2. UNCHANGED << callback, latest, pool, dropped, outstanding, shot, taken, pairs, broken, missed >>
  BY <1>1 DEF Start, frameVars
<1>3. Quiet(e)
  BY <1>1 DEF IInv, CallsFit
<1>4. PICK n \in 0 .. Requests, up \in BOOLEAN, failed \in BOOLEAN, to \in {next, "stop_left"} :
        /\ running' = IF up THEN [running EXCEPT ![e] = TRUE] ELSE running
        /\ camera' = IF up THEN [camera EXCEPT ![e] = [@ EXCEPT !.started = TRUE, !.queued = n]]
                      ELSE camera
        /\ notify' = IF failed THEN [notify EXCEPT !.failed = TRUE] ELSE notify
        /\ up /\ ~failed => n = Requests
        /\ Goto(to)
  <2>1. Requests \in 0 .. Requests /\ 0 .. Requests - 1 \subseteq 0 .. Requests
    BY CaptureAssumption
  <2>2. CASE /\ running' = [running EXCEPT ![e] = TRUE]
             /\ camera' = [camera EXCEPT ![e] = [@ EXCEPT !.started = TRUE, !.queued = Requests]]
             /\ Goto(next) /\ UNCHANGED notify
    BY <2>1, <2>2
  <2>3. CASE Goto("stop_left") /\ UNCHANGED << running, camera, notify >>
    BY <2>1, <2>3
  <2>4. CASE /\ running' = [running EXCEPT ![e] = TRUE]
             /\ \E n \in 0 .. Requests - 1 :
                  camera' = [camera EXCEPT ![e] = [@ EXCEPT !.started = TRUE, !.queued = n]]
             /\ notify' = [notify EXCEPT !.failed = TRUE] /\ Goto("stop_left")
    BY <2>1, <2>4
  <2> QED
    BY <1>1, <2>2, <2>3, <2>4 DEF Start
<1>5. /\ camera' \in [Eyes -> [acquired : BOOLEAN, started : BOOLEAN, queued : 0 .. Requests]]
      /\ up => camera'[e].queued = n
      /\ ~up => camera' = camera
      /\ \A f \in Eyes \ {e} : camera'[f] = camera[f]
  <2>1. camera[e] \in [acquired : BOOLEAN, started : BOOLEAN, queued : 0 .. Requests]
    BY DEF TypeOK
  <2>2. /\ [camera[e] EXCEPT !.started = TRUE, !.queued = n]
              \in [acquired : BOOLEAN, started : BOOLEAN, queued : 0 .. Requests]
        /\ [camera[e] EXCEPT !.started = TRUE, !.queued = n].queued = n
    BY <2>1
  <2>3. up => camera' = [camera EXCEPT ![e] = [camera[e] EXCEPT !.started = TRUE, !.queued = n]]
    BY <1>4
  <2> QED
    BY <1>4, <2>2, <2>3 DEF TypeOK
<1>6. /\ running' \in [Eyes -> BOOLEAN]
      /\ \A f \in Eyes \ {e} : running'[f] = running[f]
      /\ ~up => running' = running
  BY <1>4 DEF TypeOK
<1>7. /\ notify' \in [generation : Nat, failed : BOOLEAN]
      /\ notify'.generation = notify.generation
      /\ ~notify'.failed => ~failed /\ ~notify.failed
  <2>1. notify \in [generation : Nat, failed : BOOLEAN]
    BY DEF TypeOK
  <2>2. CASE failed
    BY <1>4, <2>1, <2>2
  <2>3. CASE ~failed
    BY <1>4, <2>1, <2>3
  <2> QED
    BY <2>2, <2>3
<1>8. /\ TypeOK' /\ (\A f \in Eyes : FramesFit(f)') /\ HeldWhileEncoding' /\ SleepFits'
      /\ main'.pc = to
  <2>1. to \in MainPC \ (Waiting \cup {"encode", "release"})
    BY <1>4 DEF MainPC, Waiting
  <2>2. main.pc \notin {"encode", "release"}
    BY <1>1
  <2> QED
    BY <1>2, <1>4, <1>5, <1>6, <1>7, <2>1, <2>2, OutsideOfWork
<1>9. CallsFit'
  <2>1. ASSUME NEW f \in Eyes
        PROVE  /\ camera'[f].queued + Count(callback'[f] # "idle") <= Requests
               /\ running'[f] /\ ~notify'.failed =>
                    camera'[f].queued + Count(callback'[f] # "idle") = Requests
    <3>1. CASE f = e /\ up
      <4>1. Count(callback'[f] # "idle") = 0
        BY <1>2, <1>3, <3>1 DEF Quiet, Count
      <4> QED
        BY <1>4, <1>5, <1>7, <3>1, <4>1, CaptureAssumption
    <3>2. CASE f # e \/ ~up
      BY <1>2, <1>5, <1>6, <1>7, <3>2 DEF IInv, CallsFit, RequestsComeBack
    <3> QED
      BY <3>1, <3>2
  <2>2. to = "start_left" => Quiet(Left)'
    <3>1. to = "start_left" => e = Right /\ main.pc = "start_right"
      BY <1>1, <1>4
    <3> QED
      BY <1>2, <1>6, <3>1 DEF IInv, CallsFit, Quiet, Eyes, Left, Right
  <2> QED
    BY <1>1, <1>4, <1>8, <2>1, <2>2 DEF CallsFit, RequestsComeBack
<1> QED
  BY <1>8, <1>9 DEF IInv

(* Stopping a running capture keeps the invariant.                         *)
LEMMA StopRunningStep ==
  ASSUME IInv, StopRunning(Left, "stop_left", "left_stopping")
               \/ StopRunning(Right, "stop_right", "right_stopping")
  PROVE  IInv'
<1> TypeOK
  BY DEF IInv
<1>1. PICK e \in Eyes, next \in {"left_stopping", "right_stopping"} :
        /\ \/ e = Left /\ main.pc = "stop_left" /\ next = "left_stopping"
           \/ e = Right /\ main.pc = "stop_right" /\ next = "right_stopping"
        /\ StopRunning(e, main.pc, next)
  BY DEF StopRunning, At, Eyes
<1>2. /\ running' = [running EXCEPT ![e] = FALSE] /\ Goto(next)
      /\ UNCHANGED << camera, callback, latest, pool, dropped, outstanding, shot, taken, pairs,
                      notify, broken, missed >>
  BY <1>1 DEF StopRunning, frameVars
<1>3. /\ running' \in [Eyes -> BOOLEAN] /\ ~running'[e]
      /\ \A f \in Eyes : running'[f] => running[f]
  BY <1>2 DEF TypeOK
<1>4. /\ TypeOK' /\ (\A f \in Eyes : FramesFit(f)') /\ HeldWhileEncoding' /\ SleepFits'
      /\ main'.pc = next
  <2>1. next \in MainPC \ (Waiting \cup {"encode", "release"})
    BY <1>1 DEF MainPC, Waiting
  <2>2. main.pc \notin {"encode", "release"}
    BY <1>1
  <2>3. /\ notify \in [generation : Nat, failed : BOOLEAN]
        /\ camera \in [Eyes -> [acquired : BOOLEAN, started : BOOLEAN, queued : 0 .. Requests]]
    BY DEF TypeOK
  <2> QED
    BY <1>2, <1>3, <2>1, <2>2, <2>3, OutsideOfWork
<1>5. \A f \in Eyes : Released(f) => Released(f)'
  BY <1>2, <1>3 DEF Released, Quiet
<1>6. CallsFit'
  BY <1>1, <1>2, <1>3, <1>4, <1>5 DEF IInv, CallsFit, RequestsComeBack, Eyes
<1> QED
  BY <1>4, <1>6 DEF IInv

(* Stopping a camera keeps the invariant.                                  *)
LEMMA StopCameraStep ==
  ASSUME IInv, StopCamera(Left, "left_stopping", "stop_right")
               \/ StopCamera(Right, "right_stopping", "ended")
  PROVE  IInv'
<1> TypeOK
  BY DEF IInv
<1>1. PICK e \in Eyes, next \in {"stop_right", "ended"} :
        /\ \/ e = Left /\ main.pc = "left_stopping" /\ next = "stop_right"
           \/ e = Right /\ main.pc = "right_stopping" /\ next = "ended"
        /\ StopCamera(e, main.pc, next)
  BY DEF StopCamera, At, Eyes
<1>2. /\ callback[e] = "idle"
      /\ camera' = [camera EXCEPT ![e] = [acquired |-> FALSE, started |-> FALSE, queued |-> 0]]
      /\ Goto(next)
      /\ UNCHANGED << callback, running, latest, pool, dropped, outstanding, shot, taken, pairs,
                      notify, broken, missed >>
  BY <1>1 DEF StopCamera, frameVars
<1>3. /\ camera' \in [Eyes -> [acquired : BOOLEAN, started : BOOLEAN, queued : 0 .. Requests]]
      /\ ~camera'[e].acquired /\ ~camera'[e].started /\ camera'[e].queued = 0
      /\ \A f \in Eyes \ {e} : camera'[f] = camera[f]
  <2>1. [acquired |-> FALSE, started |-> FALSE, queued |-> 0]
          \in [acquired : BOOLEAN, started : BOOLEAN, queued : 0 .. Requests]
    BY CaptureAssumption
  <2> QED
    BY <1>2, <2>1 DEF TypeOK
<1>4. /\ TypeOK' /\ (\A f \in Eyes : FramesFit(f)') /\ HeldWhileEncoding' /\ SleepFits'
      /\ main'.pc = next
  <2>1. next \in MainPC \ (Waiting \cup {"encode", "release"})
    BY <1>1 DEF MainPC, Waiting
  <2>2. main.pc \notin {"encode", "release"}
    BY <1>1
  <2>3. notify \in [generation : Nat, failed : BOOLEAN] /\ running \in [Eyes -> BOOLEAN]
    BY DEF TypeOK
  <2> QED
    BY <1>2, <1>3, <2>1, <2>2, <2>3, OutsideOfWork
<1>5. Quiet(e)
  BY <1>1, <1>2 DEF IInv, CallsFit, Quiet
<1>6. Released(e)' /\ \A f \in Eyes : Released(f) => Released(f)'
  BY <1>2, <1>3, <1>5 DEF Released, Quiet
<1>7. ASSUME NEW f \in Eyes
      PROVE  /\ camera'[f].queued + Count(callback'[f] # "idle") <= Requests
             /\ running'[f] /\ ~notify'.failed =>
                  camera'[f].queued + Count(callback'[f] # "idle") = Requests
  <2>1. CASE f = e
    <3>1. Count(callback'[f] # "idle") = 0 /\ ~running'[f]
      BY <1>2, <1>5, <2>1 DEF Quiet, Count
    <3> QED
      BY <1>3, <2>1, <3>1, CaptureAssumption
  <2>2. CASE f # e
    BY <1>2, <1>3, <2>2 DEF IInv, CallsFit, RequestsComeBack
  <2> QED
    BY <2>1, <2>2
<1>8. CallsFit'
  BY <1>1, <1>2, <1>4, <1>6, <1>7 DEF IInv, CallsFit, RequestsComeBack, Eyes
<1> QED
  BY <1>4, <1>8 DEF IInv

-----------------------------------------------------------------------------
(* Every step of main, the cameras and the callbacks keeps the invariant.  *)
LEMMA NextStep == IInv /\ [Next]_vars => IInv'
<1> SUFFICES ASSUME IInv, [Next]_vars PROVE IInv'
  OBVIOUS
<1>1. CASE \E e \in Eyes : CopyFrame(e) \/ Callback(e)
  BY <1>1, CopyFrameStep, NotifyStep, CallbackEnds DEF Callback
<1>2. CASE SetUp
  BY <1>2, OpenStep, StartStep DEF SetUp, Eyes
<1>3. CASE Acquire \/ Encoded \/ WakeSpuriously
  BY <1>3, LookingStep, PairStep DEF Acquire
<1>4. CASE ReleasePair
  BY <1>4, PairStep
<1>5. CASE TearDown
  BY <1>5, StopRunningStep, StopCameraStep DEF TearDown
<1>6. CASE UNCHANGED vars
  BY <1>6 DEF vars, cameraVars, frameVars, IInv, TypeOK, FramesFit, HeldWhileEncoding, CallsFit,
    RequestsComeBack, Quiet, Released, SleepFits, BothValid, SkewFits, Skew
<1> QED
  BY <1>1, <1>2, <1>3, <1>4, <1>5, <1>6 DEF Next, MainStep

(* The inductive invariant holds throughout. *)
THEOREM Inductive == Spec => []IInv
BY Initially, NextStep, PTL DEF Spec

-----------------------------------------------------------------------------
(* Every part of what may go astray holds in every state of the invariant. *)
LEMMA InvariantSuffices == IInv => NothingGoesAstray
<1> SUFFICES ASSUME IInv PROVE NothingGoesAstray
  OBVIOUS
<1>1. TypeOK /\ RequestsComeBack
  BY DEF IInv, CallsFit
<1>2. BuffersAreKept /\ DropsAreExact
  BY DEF IInv, FramesFit, BuffersAreKept, DropsAreExact
<1>3. OnlyTheGapDelays
  BY DEF IInv, SleepFits, OnlyTheGapDelays, Waiting, At
<1>4. EndsReleased
  BY DEF IInv, CallsFit, EndsReleased, Released, Quiet, At, Eyes
<1> QED
  BY <1>1, <1>2, <1>3, <1>4 DEF NothingGoesAstray

(* No buffer of an eye that copies is lost or doubled, every frame is      *)
(* accounted for once, requests come back, main sleeps beside a pair only  *)
(* through the gap, and at the end both cameras are released: for any      *)
(* number of requests, any skew allowed and any run of frames.             *)
THEOREM NothingLost == Spec => []NothingGoesAstray
BY Inductive, InvariantSuffices, PTL

-----------------------------------------------------------------------------
(* What each step of the system does to the marks of the two hand-overs.   *)
LEMMA MarksMove ==
  ASSUME IInv, [Next]_vars
  PROVE  \/ TakePair
         \/ taken' = taken /\ DiscardOlder /\ shot' = shot
         \/ taken' = taken /\ \E e \in Eyes : CopyFrame(e)
         \/ taken' = taken /\ shot' = shot /\ latest' = latest
<1>1. CASE \E e \in Eyes : CopyFrame(e)
  BY <1>1 DEF CopyFrame
<1>2. CASE \E e \in Eyes : Callback(e)
  BY <1>2 DEF Callback, NotifyGeneration, Requeue, RequeueFails, LeaveStopped, frameVars
<1>3. CASE SetUp \/ TearDown
  BY <1>3 DEF SetUp, TearDown, Open, Start, StopRunning, StopCamera, frameVars
<1>4. CASE DiscardOlder
  BY <1>4 DEF DiscardOlder
<1>5. CASE CallAcquire \/ FindNoPair \/ Examine \/ Check \/ FallAsleep \/ DeadlinePasses \/ Encoded
           \/ WakeSpuriously \/ ReleasePair
  BY <1>5 DEF CallAcquire, FindNoPair, Examine, Check, FallAsleep, DeadlinePasses, Encoded,
    WakeSpuriously, ReleasePair, frameVars
<1>6. CASE UNCHANGED vars
  BY <1>6 DEF vars, frameVars
<1> QED
  BY <1>1, <1>2, <1>3, <1>4, <1>5, <1>6 DEF Next, MainStep, Acquire

(* No step moves a camera back in time.                                    *)
LEMMA StepAdvances ==
  ASSUME IInv, [Next]_vars, taken' # taken
  PROVE  /\ \A e \in Eyes : taken'[e] > taken[e]
         /\ MaxSkew # 0 => Difference(taken'[Left], taken'[Right]) <= MaxSkew
<1>1. TakePair
  BY MarksMove
<1>2. MaxSkew # 0 => Difference(taken'[Left], taken'[Right]) <= MaxSkew
  BY <1>1 DEF TakePair, SkewFits, Skew, Eyes
<1> QED
  BY <1>1, <1>2, TakePairKeepsFrames

(* The frames of each pair are close enough, and both newer than those of  *)
(* the pair before.                                                        *)
THEOREM Advancing == Spec => PairsAdvance
<1>1. IInv /\ [Next]_vars =>
        [taken' # taken =>
           /\ \A e \in Eyes : taken'[e] > taken[e]
           /\ MaxSkew # 0 => Difference(taken'[Left], taken'[Right]) <= MaxSkew]_vars
  BY StepAdvances
<1> QED
  BY <1>1, Inductive, PTL DEF Spec, PairsAdvance

(* A frame is only discarded when the other eye has moved on too far.      *)
LEMMA StepDiscardsTheHopeless ==
  ASSUME IInv, [Next]_vars, NEW e \in Eyes,
         latest[e].valid, ~latest'[e].valid, taken' = taken, shot' = shot
  PROVE  shot[IF e = Left THEN Right ELSE Left].stamp > latest[e].stamp + MaxSkew
<1> TypeOK
  BY DEF IInv
<1>1. ~TakePair
  BY TakePairKeepsFrames, Fields
<1>2. ~\E f \in Eyes : CopyFrame(f)
  <2>1. \A f \in Eyes : CopyFrame(f) => shot'[f].stamp > shot[f].stamp
    BY CopyFrameFields
  <2> QED
    BY <2>1, Fields
<1>3. DiscardOlder
  BY <1>1, <1>2, MarksMove
<1>4. e = Older
  BY <1>3, DiscardKeepsFrames
<1>5. latest[Left].valid /\ latest[Right].valid /\ MaxSkew # 0 /\ ~(Skew <= MaxSkew)
  BY <1>3 DEF DiscardOlder, BothValid, SkewFits
<1>6. /\ latest[Left].stamp \in Nat /\ latest[Right].stamp \in Nat /\ MaxSkew \in Nat
      /\ shot[Left].stamp \in Nat /\ shot[Right].stamp \in Nat
      /\ latest[Left].stamp <= shot[Left].stamp /\ latest[Right].stamp <= shot[Right].stamp
  BY <1>5, Fields DEF IInv, FramesFit, Eyes
<1>7. CASE latest[Left].stamp < latest[Right].stamp
  <2>1. e = Left /\ latest[Right].stamp - latest[Left].stamp > MaxSkew
    BY <1>4, <1>5, <1>6, <1>7 DEF Older, Skew, Difference
  <2> QED
    BY <1>6, <2>1
<1>8. CASE ~(latest[Left].stamp < latest[Right].stamp)
  <2>1. e = Right /\ latest[Left].stamp - latest[Right].stamp > MaxSkew
    BY <1>4, <1>5, <1>6, <1>8 DEF Older, Skew, Difference
  <2> QED
    BY <1>6, <2>1 DEF Left, Right
<1> QED
  BY <1>7, <1>8

(* A frame given up for its skew has no partner still to come. *)
THEOREM DiscardsTheHopeless == Spec => OnlyHopelessAreDiscarded
<1>1. IInv /\ [Next]_vars =>
        [\A e \in Eyes :
           latest[e].valid /\ ~latest'[e].valid /\ taken' = taken /\ shot' = shot =>
             shot[IF e = Left THEN Right ELSE Left].stamp > latest[e].stamp + MaxSkew]_vars
  BY StepDiscardsTheHopeless
<1> QED
  BY <1>1, Inductive, PTL DEF Spec, OnlyHopelessAreDiscarded

-----------------------------------------------------------------------------
(* Completing a frame offers, taking a pair takes, and the rest stutters.  *)
LEMMA MarksOfAnEye ==
  ASSUME IInv, [Next]_vars, NEW e \in Eyes
  PROVE  \/ shot'[e].stamp \in Nat /\ shot'[e].stamp > shot[e].stamp /\ taken'[e] = taken[e]
         \/ taken'[e] \in taken[e] + 1 .. shot[e].stamp /\ shot'[e].stamp = shot[e].stamp
         \/ taken'[e] = taken[e] /\ shot'[e].stamp = shot[e].stamp
<1> TypeOK
  BY DEF IInv
<1>1. CASE TakePair
  <2>1. taken' \in [Eyes -> 0 .. LastStamp] /\ taken'[e] > taken[e] /\ taken'[e] <= shot[e].stamp
    BY <1>1, TakePairKeepsFrames
  <2>2. shot' = shot
    BY <1>1 DEF TakePair
  <2> QED
    BY <2>1, <2>2, Fields
<1>2. CASE taken' = taken /\ \E f \in Eyes : CopyFrame(f)
  <2>1. PICK f \in Eyes : CopyFrame(f)
    BY <1>2
  <2>2. CASE f = e
    <3>1. shot' \in [Eyes -> [stamp : 0 .. LastStamp, count : Nat]] /\ shot'[e].stamp > shot[e].stamp
      BY <2>1, <2>2, CopyFrameFields
    <3>2. shot'[e].stamp \in 0 .. LastStamp
      BY <3>1
    <3> QED
      BY <1>2, <3>1, <3>2, CaptureAssumption
  <2>3. CASE f # e
    BY <1>2, <2>1, <2>3, CopyFrameFields
  <2> QED
    BY <2>2, <2>3
<1>3. CASE taken' = taken /\ shot' = shot
  BY <1>3
<1> QED
  BY <1>1, <1>2, <1>3, MarksMove

(* Each eye's hand-over implements a mailbox: what main gets has been      *)
(* completed by that camera, and is newer than what it got before.         *)
THEOREM ImplementsMailbox == Spec => HandsOverLatest
<1>1. Init => LeftBox!Init /\ RightBox!Init
  BY DEF Init, LeftBox!Init, RightBox!Init, Eyes
<1>2. IInv /\ [Next]_vars => [LeftBox!Next]_(LeftBox!vars) /\ [RightBox!Next]_(RightBox!vars)
  BY MarksOfAnEye DEF LeftBox!Next, LeftBox!Offer, LeftBox!Take, LeftBox!vars,
    RightBox!Next, RightBox!Offer, RightBox!Take, RightBox!vars, Eyes
<1> QED
  BY <1>1, <1>2, Inductive, PTL DEF Spec, HandsOverLatest, LeftBox!Spec, RightBox!Spec

(* What is paired and what is given up, step by step. *)
THEOREM PairsRight == Spec => PairsAreRight
BY Advancing, DiscardsTheHopeless, ImplementsMailbox DEF PairsAreRight
=============================================================================
