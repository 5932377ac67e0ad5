------------------------------ MODULE EyeStream ------------------------------
(***************************************************************************)
(* One eye of the stereo sender (EyeStream in mps_stereo_x264_sender.c):   *)
(* its worker encodes and sends the frames main submits and retransmits    *)
(* the last keyframe on request, while the NACK thread receives the        *)
(* requests.  The two share nack_lock; a step of the model is what happens *)
(* between two points where the other thread can intervene.                *)
(*                                                                         *)
(* Sending a frame is one step here: ImtPacketizer shows that the kernel   *)
(* gets a prefix of the frame's layout, the whole of it on success.        *)
(***************************************************************************)
EXTENDS ImtLayout

CONSTANTS
  LastSeq,     \* bound: the last frame main submits
  KeySizes,    \* sizes of encoded keyframes
  InterSizes,  \* sizes of encoded interframes
  TailBound    \* bound: datagrams of a frame's tail the kernel may refuse

StreamAssumption ==
  /\ LastSeq \in Nat
  /\ KeySizes \subseteq Nat \ {0} /\ InterSizes \subseteq Nat \ {0}
  /\ TailBound \in Nat

VARIABLES
  pc,        \* where the worker is
  job,       \* frame_seq of the frame being worked on, or worked on last
  nal,       \* the encoder's output for it
  bytes,     \* last_keyframe_nal: the frame whose bytes are in the cache
  capacity,  \* bytes and chunk weights the cache buffers can hold without growing
  cache,     \* last_keyframe_nal_size, _frame_seq, _retried (under nack_lock)
  pending,   \* pending_nack, pending_nack_frame_seq (under nack_lock)
  sent       \* what has gone out: frames, with how much of each

vars == << pc, job, nal, bytes, capacity, cache, pending, sent >>
cacheVars == << bytes, capacity, cache >>

-----------------------------------------------------------------------------
NoNal == [seq |-> 0, size |-> 0, keyframe |-> FALSE, weights |-> Uniform, content |-> 0]

Encoded(seq, size, keyframe) ==
  [seq |-> seq, size |-> size, keyframe |-> keyframe, weights |-> Uniform, content |-> seq]

(* The retry is packetized with every chunk at weight 255: groups of two.  *)
Dense(frame) == [frame EXCEPT !.weights = [c \in 1 .. ChunkCount(frame.size) |-> 255]]

Init ==
  /\ pc = "wait"
  /\ job = 0
  /\ nal = NoNal
  /\ bytes = NoNal
  /\ capacity = [bytes |-> 0, chunks |-> 0]
  /\ cache = [size |-> 0, seq |-> 0, retried |-> FALSE]
  /\ pending = [set |-> FALSE, seq |-> 0]
  /\ sent = << >>

(* main hands over a newer frame; it may have skipped some. *)
Submit ==
  /\ pc = "wait"
  /\ \E seq \in job + 1 .. LastSeq : job' = seq
  /\ pc' = "retry before"
  /\ UNCHANGED << nal, cacheVars, pending, sent >>

-----------------------------------------------------------------------------
(* imt_packetizer_send_frame and send_ctx_flush: all of the frame, or the  *)
(* datagrams the kernel accepted before a failure.                         *)
Transmit(frame) ==
  LET all == Len(FrameLayout(frame))
  IN  \E n \in (all - TailBound .. all) \cap Nat :
         sent' = Append(sent, [frame |-> frame, count |-> n])

AfterRetry == IF pc = "retry before" THEN "encode" ELSE "wait"

Matches(seq) == cache.size # 0 /\ cache.seq = seq /\ ~cache.retried

(* Defect: a request that no longer matches is kept. *)
TakeMatchingNack ==
  /\ pc \in {"retry before", "retry after"}
  /\ IF pending.set /\ Matches(pending.seq)
     THEN /\ pending' = [pending EXCEPT !.set = FALSE]
          /\ cache' = [cache EXCEPT !.retried = TRUE]
          /\ pc' = IF pc = "retry before" THEN "resend before" ELSE "resend after"
     ELSE /\ pc' = AfterRetry
          /\ UNCHANGED << cache, pending >>
  /\ UNCHANGED << job, nal, bytes, capacity, sent >>

(* eye_stream_retry_pending_keyframe, under the lock: the request is taken *)
(* and the keyframe's single retry is used up, or the request is ignored.  *)
TakeNack ==
  /\ pc \in {"retry before", "retry after"}
  /\ pending' = [pending EXCEPT !.set = FALSE]
  /\ IF pending.set /\ Matches(pending.seq)
     THEN /\ cache' = [cache EXCEPT !.retried = TRUE]
          /\ pc' = IF pc = "retry before" THEN "resend before" ELSE "resend after"
     ELSE /\ pc' = AfterRetry
          /\ UNCHANGED cache
  /\ UNCHANGED << job, nal, bytes, capacity, sent >>

(* Defect: the encoder's last output is sent instead of the cache. *)
ResendLastOutput ==
  /\ pc \in {"resend before", "resend after"}
  /\ Transmit(Dense([nal EXCEPT !.seq = cache.seq, !.size = cache.size]))
  /\ pc' = IF pc = "resend before" THEN "encode" ELSE "wait"
  /\ UNCHANGED << job, nal, cacheVars, pending >>

(* After the unlock: the cached bytes go out again, in groups of two. *)
Resend ==
  /\ pc \in {"resend before", "resend after"}
  /\ Transmit(Dense([bytes EXCEPT !.seq = cache.seq, !.size = cache.size]))
  /\ pc' = IF pc = "resend before" THEN "encode" ELSE "wait"
  /\ UNCHANGED << job, nal, cacheVars, pending >>

-----------------------------------------------------------------------------
(* eye_stream_encode_and_send. *)
EncodeFails ==
  /\ pc = "encode"
  /\ pc' = "retry after"
  /\ UNCHANGED << job, nal, cacheVars, pending, sent >>

Encode ==
  /\ pc = "encode"
  /\ \/ \E size \in KeySizes :
          nal' = Encoded(job, size, TRUE) /\ pc' = "cache"
     \/ \E size \in InterSizes :
          nal' = Encoded(job, size, FALSE) /\ pc' = "send"
  /\ UNCHANGED << job, cacheVars, pending, sent >>

(* eye_stream_cache_keyframe.  The bytes are copied outside the lock; one  *)
(* of the two buffers not growing disables the retry until the next        *)
(* keyframe.                                                               *)
Grown(n, size) == IF size > n THEN size ELSE n

CopyKeyframe ==
  /\ pc = "cache"
  /\ bytes' = nal
  /\ capacity' = [bytes |-> Grown(capacity.bytes, nal.size),
                  chunks |-> Grown(capacity.chunks, ChunkCount(nal.size))]
  /\ pc' = "publish"
  /\ UNCHANGED << job, nal, cache, pending, sent >>

CacheFails ==
  /\ pc = "cache"
  /\ \/ /\ nal.size > capacity.bytes
        /\ UNCHANGED capacity
     \/ /\ ChunkCount(nal.size) > capacity.chunks
        /\ capacity' = [capacity EXCEPT !.bytes = Grown(@, nal.size)]
  /\ cache' = [cache EXCEPT !.size = 0]
  /\ pc' = "send"
  /\ UNCHANGED << job, nal, bytes, pending, sent >>

PublishKeyframe ==
  /\ pc = "publish"
  /\ cache' = [size |-> nal.size, seq |-> nal.seq, retried |-> FALSE]
  /\ pc' = "send"
  /\ UNCHANGED << job, nal, bytes, capacity, pending, sent >>

Send ==
  /\ pc = "send"
  /\ Transmit(nal)
  /\ pc' = "retry after"
  /\ UNCHANGED << job, nal, cacheVars, pending >>

-----------------------------------------------------------------------------
(* The NACK thread, for a well-formed request: under the lock, the request *)
(* is remembered if it names the cached keyframe and its retry is unused.  *)
ReceiveNack(seq) ==
  /\ IF Matches(seq)
     THEN pending' = [set |-> TRUE, seq |-> seq]
     ELSE UNCHANGED pending
  /\ UNCHANGED << pc, job, nal, cacheVars, sent >>

Worker ==
  \/ TakeNack \/ Resend
  \/ EncodeFails \/ Encode
  \/ CopyKeyframe \/ CacheFails \/ PublishKeyframe
  \/ Send

Next == Submit \/ Worker \/ \E seq \in 0 .. LastSeq : ReceiveNack(seq)

(* The worker thread runs whenever it has something to do, and main goes   *)
(* on submitting frames as long as there are any.                          *)
Fairness == WF_vars(Worker) /\ WF_vars(Submit)

Spec == Init /\ [][Next]_vars /\ Fairness

-----------------------------------------------------------------------------
(* The shape of the state: what the worker holds at each point.            *)
TypeOK ==
  /\ pc \in {"wait", "retry before", "resend before", "encode", "cache", "publish",
             "send", "retry after", "resend after"}
  /\ job \in 0 .. LastSeq
  /\ nal.seq \in 0 .. job /\ bytes.seq \in 0 .. job
  /\ pc \in {"cache", "publish", "send"} => nal.seq = job
  /\ pc \in {"cache", "publish"} => nal.keyframe
  /\ bytes.size <= capacity.bytes
  /\ cache \in [size : Nat, seq : 0 .. LastSeq, retried : BOOLEAN]
  /\ pending \in [set : BOOLEAN, seq : 0 .. LastSeq]

IsRetry(t) == t.frame.weights # Uniform

(* R14.2: a keyframe is retried at most once, however often and whenever   *)
(* it is asked for.                                                        *)
OneRetryEach ==
  \A i, j \in DOMAIN sent :
    IsRetry(sent[i]) /\ IsRetry(sent[j]) /\ sent[i].frame.seq = sent[j].frame.seq => i = j

(* A retry is the frame that was sent under that number: same bytes, same  *)
(* size, same kind; and no newer keyframe had been sent in between.        *)
RetryIsTheKeyframe ==
  \A i \in DOMAIN sent : IsRetry(sent[i]) =>
    \E j \in 1 .. i - 1 :
      /\ ~IsRetry(sent[j])
      /\ sent[i].frame = Dense(sent[j].frame)
      /\ sent[j].frame.keyframe
      /\ \A k \in j + 1 .. i : sent[k].frame.keyframe => sent[k].frame.seq = sent[j].frame.seq

(* First transmissions go out in the order of their frames.                *)
SentInOrder ==
  \A i, j \in DOMAIN sent :
    i < j /\ ~IsRetry(sent[i]) /\ ~IsRetry(sent[j]) => sent[i].frame.seq < sent[j].frame.seq

(* Whoever takes nack_lock finds a description of the bytes in the cache;  *)
(* only the worker's own copy in progress may be ahead of it, and a        *)
(* request accepted meanwhile is not served from it.                       *)
CacheIsCoherent ==
  cache.size # 0 /\ pc # "publish" =>
    bytes.seq = cache.seq /\ bytes.size = cache.size /\ bytes.keyframe

(* Together: what is sent again was asked for, is what was sent before,    *)
(* and comes in its place.                                                 *)
RetriesAreRight == OneRetryEach /\ RetryIsTheKeyframe /\ SentInOrder /\ CacheIsCoherent

(* An accepted request is answered or superseded, as long as main has      *)
(* frames to submit: the worker only looks at requests around a frame.     *)
NackIsAnswered == pending.set /\ job < LastSeq ~> ~pending.set
=============================================================================
