--------------------------- MODULE EyeStreamProofs ---------------------------
(***************************************************************************)
(* Proofs about EyeStream, for every number of frames, all frame sizes and *)
(* any part of a frame the kernel may refuse: what is sent again was sent  *)
(* before, is the last keyframe, and goes out once.                        *)
(***************************************************************************)
EXTENDS EyeStream, TLAPS

-----------------------------------------------------------------------------
(* What the encoder puts out, and what is sent of it: the same, or dense.  *)
Outputs ==
  [seq : 0 .. LastSeq, size : Nat, keyframe : BOOLEAN, weights : {Uniform}, content : Nat]

Sent == [frame : Outputs \cup {Dense(f) : f \in Outputs}, count : Nat]

(* Before the frame at hand is sent. *)
Before == {"retry before", "resend before", "encode", "cache", "publish", "send"}

Resending == {"resend before", "resend after"}

Shape ==
  /\ TypeOK
  /\ nal \in Outputs /\ bytes \in Outputs
  /\ capacity \in [bytes : Nat, chunks : Nat]
  /\ sent \in Seq(Sent)
  /\ pc \in {"cache", "publish"} => nal.size > 0

(* Nothing sent is newer than the frame at hand, and before that is sent   *)
(* everything is older.                                                    *)
SentIsOlder ==
  \A i \in DOMAIN sent :
    sent[i].frame.seq <= job /\ (pc \in Before => sent[i].frame.seq < job)

(* The last keyframe sent: the one transmission i, and retries of it.      *)
LastKeyframe(i) ==
  /\ sent[i].frame = bytes
  /\ \A k \in DOMAIN sent :
       k > i /\ sent[k].frame.keyframe => sent[k].frame.seq = bytes.seq

(* The bytes in the cache are the last keyframe, sent or about to be sent. *)
CachedIsTheLast ==
  /\ pc = "publish" => bytes = nal
  /\ cache.size # 0 /\ pc # "publish" =>
       /\ bytes.seq = cache.seq /\ bytes.size = cache.size /\ bytes.keyframe
       /\ IF pc = "send" /\ nal.keyframe
          THEN bytes = nal
          ELSE \E i \in DOMAIN sent : LastKeyframe(i)

(* As long as the cached keyframe's retry is unused, or on its way, it has *)
(* not been sent.                                                          *)
RetryIsUnused ==
  /\ pc \in Resending => cache.size # 0 /\ cache.retried
  /\ cache.size # 0 /\ (~cache.retried \/ pc \in Resending) =>
       \A i \in DOMAIN sent : IsRetry(sent[i]) => sent[i].frame.seq # cache.seq

IInv ==
  /\ Shape
  /\ SentIsOlder
  /\ CachedIsTheLast
  /\ RetryIsUnused
  /\ OneRetryEach
  /\ RetryIsTheKeyframe
  /\ SentInOrder

-----------------------------------------------------------------------------
(* A frame of at least one byte has at least one chunk. *)
LEMMA ChunkCountPositive ==
  ASSUME NEW size \in Nat, size > 0
  PROVE  ChunkCount(size) \in Nat /\ ChunkCount(size) > 0
<1>1. MaxPayload \in Nat /\ MaxPayload > 0
  BY MaxPayloadAssumption
<1>2. size + MaxPayload - 1 \in Nat /\ size + MaxPayload - 1 >= MaxPayload
  BY <1>1
<1>3. ASSUME NEW a \in Nat, a >= MaxPayload
      PROVE  a \div MaxPayload \in Nat /\ a \div MaxPayload > 0
  BY <1>1, <1>3
<1> QED
  BY <1>2, <1>3 DEF ChunkCount

(* What the encoder puts out goes out in groups of the default size, and   *)
(* what is packetized densely does not.                                    *)
LEMMA DenseIsRetry ==
  ASSUME NEW f \in Outputs, f.size > 0
  PROVE  /\ f.weights = Uniform
         /\ Dense(f).weights # Uniform
         /\ Dense(f).seq = f.seq /\ Dense(f).keyframe = f.keyframe
<1>1. f.weights = Uniform /\ f.size \in Nat
  BY DEF Outputs
<1>2. Dense(f).weights = [c \in 1 .. ChunkCount(f.size) |-> 255]
  BY DEF Dense, Outputs
<1>3. 1 \in DOMAIN Dense(f).weights
  BY <1>1, <1>2, ChunkCountPositive
<1>4. DOMAIN Uniform = {}
  BY DEF Uniform
<1>5. Dense(f).seq = f.seq /\ Dense(f).keyframe = f.keyframe
  BY DEF Dense, Outputs
<1> QED
  BY <1>1, <1>3, <1>4, <1>5

(* Whatever the kernel refuses, what is sent grows by one transmission.    *)
LEMMA TransmitAppends ==
  ASSUME sent \in Seq(Sent), NEW frame, Transmit(frame),
         frame \in Outputs \cup {Dense(f) : f \in Outputs}
  PROVE  /\ sent' \in Seq(Sent)
         /\ DOMAIN sent = 1 .. Len(sent)
         /\ DOMAIN sent' = 1 .. Len(sent) + 1
         /\ Len(sent) \in Nat
         /\ \A i \in DOMAIN sent : sent'[i] = sent[i]
         /\ sent'[Len(sent) + 1].frame = frame
<1>1. PICK n \in Nat : sent' = Append(sent, [frame |-> frame, count |-> n])
  BY DEF Transmit
<1>2. [frame |-> frame, count |-> n] \in Sent
  BY DEF Sent
<1> QED
  BY <1>1, <1>2
-----------------------------------------------------------------------------
(* Nothing is cached, requested or sent at first.                          *)
LEMMA Initially ==
  ASSUME StreamAssumption, Init
  PROVE  IInv
<1>1. NoNal \in Outputs
  BY DEF StreamAssumption, NoNal, Outputs
<1>2. Shape
  BY <1>1 DEF StreamAssumption, Init, Shape, TypeOK, NoNal
<1> QED
  BY <1>2 DEF Init, IInv, SentIsOlder, CachedIsTheLast, RetryIsUnused, Resending,
    OneRetryEach, RetryIsTheKeyframe, SentInOrder

(* The types the steps need most. *)
LEMMA Numbers ==
  ASSUME StreamAssumption, IInv
  PROVE  /\ LastSeq \in Nat /\ job \in Nat /\ job <= LastSeq
         /\ nal.seq \in Nat /\ bytes.seq \in Nat
         /\ nal.size \in Nat /\ bytes.size \in Nat
         /\ \A i \in DOMAIN sent : sent[i].frame.seq \in Nat
<1>1. LastSeq \in Nat /\ job \in 0 .. LastSeq /\ nal \in Outputs /\ bytes \in Outputs
  BY DEF StreamAssumption, IInv, Shape, TypeOK
<1>2. ASSUME NEW f \in Outputs PROVE f.seq \in Nat /\ f.size \in Nat /\ Dense(f).seq = f.seq
  <2>1. f.seq \in 0 .. LastSeq /\ f.size \in Nat
    BY DEF Outputs
  <2>2. Dense(f).seq = f.seq
    BY DEF Dense, Outputs
  <2> QED
    BY <1>1, <2>1, <2>2
<1>3. ASSUME NEW i \in DOMAIN sent PROVE sent[i].frame.seq \in Nat
  <2>1. sent[i] \in Sent
    BY <1>3 DEF IInv, Shape
  <2>2. sent[i].frame \in Outputs \cup {Dense(f) : f \in Outputs}
    BY <2>1, Zenon DEF Sent
  <2> QED
    BY <1>2, <2>2
<1> QED
  BY <1>1, <1>2, <1>3

(* A step that sends nothing keeps what is said of the transmissions.      *)
LEMMA NothingSent ==
  ASSUME IInv, sent' = sent
  PROVE  OneRetryEach' /\ RetryIsTheKeyframe' /\ SentInOrder'
BY DEF IInv, OneRetryEach, RetryIsTheKeyframe, SentInOrder, IsRetry

(* main only hands over a number that is newer than the last.              *)
LEMMA SubmitStep ==
  ASSUME StreamAssumption, IInv, Submit
  PROVE  IInv'
<1>1. job' \in Nat /\ job' > job /\ job' <= LastSeq
  <2>1. job \in Nat /\ LastSeq \in Nat
    BY Numbers
  <2>2. PICK seq \in job + 1 .. LastSeq : job' = seq
    BY DEF Submit
  <2> QED
    BY <2>1, <2>2
<1>2. SentIsOlder'
  <2>1. sent' = sent
    BY DEF Submit
  <2> QED
    BY <1>1, <2>1, Numbers DEF IInv, SentIsOlder
<1>4. Shape'
  <2>1. UNCHANGED << nal, bytes, capacity, cache, pending, sent >> /\ pc' = "retry before"
    BY DEF Submit, cacheVars
  <2>2. job \in Nat /\ nal.seq \in 0 .. job /\ bytes.seq \in 0 .. job
    BY Numbers DEF IInv, Shape, TypeOK
  <2>3. job' \in 0 .. LastSeq /\ nal.seq \in 0 .. job' /\ bytes.seq \in 0 .. job'
    BY <1>1, <2>2
  <2> QED
    BY <2>1, <2>3 DEF IInv, Shape, TypeOK
<1>3. CachedIsTheLast' /\ RetryIsUnused'
  BY DEF IInv, CachedIsTheLast, LastKeyframe, RetryIsUnused, Resending, Submit, cacheVars, IsRetry
<1> QED
  BY <1>2, <1>3, <1>4, NothingSent DEF IInv, Submit

(* Taking a request uses up the retry it asks for.                         *)
LEMMA TakeNackStep ==
  ASSUME StreamAssumption, IInv, TakeNack
  PROVE  IInv'
<1>1. Shape'
  BY DEF StreamAssumption, IInv, Shape, TypeOK, TakeNack, AfterRetry
<1>2. SentIsOlder'
  BY DEF IInv, SentIsOlder, TakeNack, AfterRetry, Before
<1>3. CachedIsTheLast'
  BY DEF IInv, Shape, TypeOK, CachedIsTheLast, LastKeyframe, TakeNack, AfterRetry
<1>4. RetryIsUnused'
  BY DEF IInv, Shape, TypeOK, RetryIsUnused, Resending, TakeNack, AfterRetry, Matches, IsRetry
<1> QED
  BY <1>1, <1>2, <1>3, <1>4, NothingSent DEF IInv, TakeNack

(* The encoder puts out the frame of the job, or nothing.                  *)
LEMMA EncodeStep ==
  ASSUME StreamAssumption, IInv, Encode \/ EncodeFails
  PROVE  IInv'
<1>1. Shape'
  <2>1. CASE EncodeFails
    BY <2>1 DEF StreamAssumption, IInv, Shape, TypeOK, EncodeFails, cacheVars
  <2>2. ASSUME NEW size \in Nat \ {0}, NEW key \in BOOLEAN
        PROVE  Encoded(job, size, key) \in Outputs
    <3>1. job \in Nat /\ job \in 0 .. LastSeq
      BY Numbers
    <3> QED
      BY <2>2, <3>1, Zenon DEF Encoded, Outputs
  <2>3. CASE Encode
    <3>1. PICK size \in KeySizes \cup InterSizes, key \in BOOLEAN :
            nal' = Encoded(job, size, key) /\ pc' = IF key THEN "cache" ELSE "send"
      BY <2>3 DEF Encode
    <3>2. nal'.seq = job /\ nal'.size = size /\ nal'.keyframe = key /\ nal' \in Outputs
      <4>1. size \in Nat \ {0}
        BY DEF StreamAssumption
      <4> QED
        BY <2>2, <3>1, <4>1 DEF Encoded
    <3>3. size > 0 /\ UNCHANGED << job, bytes, capacity, cache, pending, sent >>
      BY <2>3 DEF StreamAssumption, Encode, cacheVars
    <3>4. job \in Nat /\ size \in Nat
      BY <3>3, Numbers DEF StreamAssumption
    <3>5. nal'.seq \in 0 .. job /\ nal'.size > 0
      BY <3>2, <3>3, <3>4
    <3> QED
      BY <3>1, <3>2, <3>3, <3>5 DEF IInv, Shape, TypeOK
  <2> QED
    BY <2>1, <2>3
<1>2. SentIsOlder'
  BY DEF IInv, SentIsOlder, Encode, EncodeFails, Before
<1>3. CachedIsTheLast'
  <2>1. UNCHANGED << bytes, cache, sent >> /\ pc = "encode" /\ pc' # "publish"
    BY DEF Encode, EncodeFails, cacheVars
  <2>2. pc' = "send" => ~nal'.keyframe
    BY DEF Encode, EncodeFails, Encoded
  <2> QED
    BY <2>1, <2>2 DEF IInv, CachedIsTheLast, LastKeyframe
<1>4. RetryIsUnused'
  BY DEF IInv, RetryIsUnused, Resending, Encode, EncodeFails, cacheVars, IsRetry
<1> QED
  BY <1>1, <1>2, <1>3, <1>4, NothingSent DEF IInv, Encode, EncodeFails

(* Copying, and failing to: nobody looks into the cache until it is        *)
(* published.                                                              *)
LEMMA CacheStep ==
  ASSUME StreamAssumption, IInv, CopyKeyframe \/ CacheFails
  PROVE  IInv'
<1>1. ASSUME NEW n \in Nat, NEW size \in Nat
      PROVE  Grown(n, size) \in Nat /\ Grown(n, size) >= n /\ Grown(n, size) >= size
  BY <1>1 DEF Grown
<1>2. nal.size \in Nat /\ ChunkCount(nal.size) \in Nat
  <2>1. nal.size \in Nat /\ nal.size > 0
    BY DEF IInv, Shape, Outputs, CopyKeyframe, CacheFails
  <2> QED
    BY <2>1, ChunkCountPositive
<1>3. Shape'
  <2>1. CASE CopyKeyframe
    <3>1. capacity' \in [bytes : Nat, chunks : Nat] /\ nal.size <= capacity'.bytes
      BY <1>1, <1>2, <2>1 DEF IInv, Shape, CopyKeyframe
    <3> QED
      BY <3>1, <2>1 DEF StreamAssumption, IInv, Shape, TypeOK, CopyKeyframe
  <2>2. CASE CacheFails
    <3>1. capacity' \in [bytes : Nat, chunks : Nat] /\ capacity'.bytes >= capacity.bytes
      BY <1>1, <1>2, <2>2 DEF IInv, Shape, CacheFails
    <3>2. bytes.size \in Nat /\ bytes' = bytes
      BY <2>2 DEF IInv, Shape, Outputs, CacheFails
    <3> QED
      BY <3>1, <3>2, <2>2, Numbers, SMTT(15), ZenonT(30) DEF IInv, Shape, TypeOK, CacheFails
  <2> QED
    BY <2>1, <2>2
<1>4. SentIsOlder'
  BY DEF IInv, SentIsOlder, CopyKeyframe, CacheFails, Before
<1>5. CachedIsTheLast'
  BY DEF IInv, Shape, TypeOK, CachedIsTheLast, CopyKeyframe, CacheFails
<1>6. RetryIsUnused'
  BY DEF IInv, Shape, TypeOK, RetryIsUnused, Resending, CopyKeyframe, CacheFails, IsRetry
<1> QED
  BY <1>3, <1>4, <1>5, <1>6, NothingSent DEF IInv, CopyKeyframe, CacheFails

(* The cache is described anew once the bytes are in it, its retry unused. *)
LEMMA PublishStep ==
  ASSUME StreamAssumption, IInv, PublishKeyframe
  PROVE  IInv'
<1>1. Shape'
  BY DEF StreamAssumption, IInv, Shape, TypeOK, Outputs, PublishKeyframe
<1>2. SentIsOlder'
  BY DEF IInv, SentIsOlder, PublishKeyframe, Before
<1>3. CachedIsTheLast'
  BY DEF IInv, Shape, TypeOK, CachedIsTheLast, PublishKeyframe
<1>4. RetryIsUnused'
  <2>1. \A i \in DOMAIN sent : sent[i].frame.seq < job
    BY DEF IInv, SentIsOlder, PublishKeyframe, Before
  <2>2. cache'.seq = job /\ job \in Int /\ sent' = sent /\ pc' = "send"
    BY DEF StreamAssumption, IInv, Shape, TypeOK, PublishKeyframe
  <2> QED
    BY <2>1, <2>2 DEF RetryIsUnused, Resending
<1> QED
  BY <1>1, <1>2, <1>3, <1>4, NothingSent DEF IInv, PublishKeyframe

(* A request remembered names what the cache holds.                        *)
LEMMA ReceiveNackStep ==
  ASSUME StreamAssumption, IInv, NEW seq \in 0 .. LastSeq, ReceiveNack(seq)
  PROVE  IInv'
<1>1. Shape'
  <2>1. UNCHANGED << pc, job, nal, bytes, capacity, cache, sent >>
    BY DEF ReceiveNack, cacheVars
  <2>2. pending' \in [set : BOOLEAN, seq : 0 .. LastSeq]
    <3>1. pending \in [set : BOOLEAN, seq : 0 .. LastSeq]
      BY DEF IInv, Shape, TypeOK
    <3>2. [set |-> TRUE, seq |-> seq] \in [set : BOOLEAN, seq : 0 .. LastSeq]
      BY Zenon
    <3> QED
      BY <3>1, <3>2 DEF ReceiveNack
  <2> QED
    BY <2>1, <2>2 DEF IInv, Shape, TypeOK
<1>2. SentIsOlder'
  BY DEF IInv, SentIsOlder, ReceiveNack
<1>3. CachedIsTheLast' /\ RetryIsUnused'
  BY DEF IInv, CachedIsTheLast, LastKeyframe, RetryIsUnused, ReceiveNack, cacheVars, IsRetry
<1> QED
  BY <1>1, <1>2, <1>3, NothingSent DEF IInv, ReceiveNack

-----------------------------------------------------------------------------
(* A frame goes out for the first time: it is newer than everything sent.  *)
LEMMA SendStep ==
  ASSUME StreamAssumption, IInv, Send
  PROVE  IInv'
<1> DEFINE n == Len(sent) + 1
<1>1. /\ UNCHANGED << job, nal, bytes, capacity, cache, pending >>
      /\ pc = "send" /\ pc' = "retry after"
  BY DEF Send, cacheVars
<1>2. /\ sent' \in Seq(Sent) /\ DOMAIN sent = 1 .. Len(sent) /\ DOMAIN sent' = 1 .. n
      /\ Len(sent) \in Nat /\ \A i \in DOMAIN sent : sent'[i] = sent[i]
      /\ sent'[n].frame = nal
  BY TransmitAppends DEF IInv, Shape, Send
<1> HIDE DEF n
<1>3. \A i \in DOMAIN sent' : i \in DOMAIN sent \/ i = n
  BY <1>2 DEF n
<1>4. n \notin DOMAIN sent /\ n \in DOMAIN sent' /\ n \in Nat /\ \A i \in DOMAIN sent : i < n
  BY <1>2 DEF n
<1>5. nal.seq = job /\ job \in Nat /\ nal.weights = Uniform /\ ~IsRetry(sent'[n])
  BY <1>1, <1>2, Numbers DEF IInv, Shape, TypeOK, Outputs, IsRetry
<1>6. \A i \in DOMAIN sent : sent[i].frame.seq < job /\ sent[i].frame.seq \in Nat
  BY <1>1, Numbers DEF IInv, SentIsOlder, Before
<1>7. Shape'
  BY <1>1, <1>2 DEF IInv, Shape, TypeOK
<1>8. SentIsOlder'
  <2>1. ASSUME NEW i \in DOMAIN sent' PROVE sent'[i].frame.seq <= job
    <3>1. CASE i = n
      BY <1>2, <1>5, <3>1
    <3>2. CASE i \in DOMAIN sent
      BY <1>2, <1>5, <1>6, <3>2
    <3> QED
      BY <1>3, <3>1, <3>2
  <2> QED
    BY <1>1, <2>1 DEF SentIsOlder, Before
<1>9. CachedIsTheLast'
  <2> SUFFICES ASSUME cache.size # 0
               PROVE  \E i \in DOMAIN sent' : LastKeyframe(i)'
    BY <1>1 DEF IInv, CachedIsTheLast
  <2>1. CASE nal.keyframe
    <3>1. bytes = nal
      BY <1>1, <2>1 DEF IInv, CachedIsTheLast
    <3>2. \A k \in DOMAIN sent' : ~(k > n)
      BY <1>2 DEF n
    <3> QED
      BY <1>1, <1>2, <1>4, <3>1, <3>2 DEF LastKeyframe
  <2>2. CASE ~nal.keyframe
    <3>1. PICK i \in DOMAIN sent : LastKeyframe(i)
      BY <1>1, <2>2 DEF IInv, CachedIsTheLast
    <3>2. LastKeyframe(i)'
      BY <1>1, <1>2, <1>3, <2>2, <3>1 DEF LastKeyframe
    <3> QED
      BY <1>2, <1>3, <1>4, <3>1, <3>2 DEF n
  <2> QED
    BY <2>1, <2>2
<1>10. RetryIsUnused'
  BY <1>1, <1>2, <1>3, <1>5 DEF IInv, RetryIsUnused, Resending, IsRetry
<1>11. OneRetryEach'
  BY <1>2, <1>3, <1>5 DEF IInv, OneRetryEach, IsRetry
<1>12. RetryIsTheKeyframe'
  <2> SUFFICES ASSUME NEW i \in DOMAIN sent', IsRetry(sent'[i])
               PROVE  \E j \in 1 .. i - 1 :
                        /\ ~IsRetry(sent'[j])
                        /\ sent'[i].frame = Dense(sent'[j].frame)
                        /\ sent'[j].frame.keyframe
                        /\ \A k \in j + 1 .. i :
                             sent'[k].frame.keyframe => sent'[k].frame.seq = sent'[j].frame.seq
    BY Zenon DEF RetryIsTheKeyframe
  <2>1. i \in DOMAIN sent /\ sent'[i] = sent[i]
    BY <1>2, <1>3, <1>5
  <2>2. PICK j \in 1 .. i - 1 :
          /\ ~IsRetry(sent[j])
          /\ sent[i].frame = Dense(sent[j].frame)
          /\ sent[j].frame.keyframe
          /\ \A k \in j + 1 .. i : sent[k].frame.keyframe => sent[k].frame.seq = sent[j].frame.seq
    BY <2>1 DEF IInv, RetryIsTheKeyframe
  <2>3. \A k \in j .. i : sent'[k] = sent[k]
    BY <1>2, <2>1
  <2>4. sent'[j] = sent[j] /\ \A k \in j + 1 .. i : sent'[k] = sent[k]
    BY <1>2, <2>1, <2>3
  <2> QED
    BY <2>1, <2>2, <2>4
<1>13. SentInOrder'
  BY <1>2, <1>3, <1>4, <1>5, <1>6 DEF IInv, SentInOrder
<1> QED
  BY <1>7, <1>8, <1>9, <1>10, <1>11, <1>12, <1>13 DEF IInv

(* The cached keyframe goes out again: it is the last keyframe sent, and   *)
(* this is its only retry.                                                 *)
LEMMA ResendStep ==
  ASSUME StreamAssumption, IInv, Resend
  PROVE  IInv'
<1> DEFINE n == Len(sent) + 1
<1>1. /\ UNCHANGED << job, nal, bytes, capacity, cache, pending >>
      /\ pc \in Resending /\ pc' = IF pc = "resend before" THEN "encode" ELSE "wait"
  BY DEF Resend, cacheVars, Resending
<1>2. /\ cache.size # 0 /\ cache.retried
      /\ \A i \in DOMAIN sent : IsRetry(sent[i]) => sent[i].frame.seq # cache.seq
      /\ bytes.seq = cache.seq /\ bytes.size = cache.size /\ bytes.keyframe
      /\ \E j \in DOMAIN sent : LastKeyframe(j)
  BY <1>1 DEF IInv, RetryIsUnused, CachedIsTheLast, Resending
<1>3. bytes \in Outputs /\ bytes.size > 0 /\ bytes.weights = Uniform
  <2>1. bytes \in Outputs /\ bytes.size \in Nat /\ bytes.size # 0
    BY <1>2, Numbers DEF IInv, Shape
  <2> QED
    BY <2>1 DEF Outputs
<1>4. [bytes EXCEPT !.seq = cache.seq, !.size = cache.size] = bytes
  BY <1>2, <1>3 DEF Outputs
<1>5. /\ sent' \in Seq(Sent) /\ DOMAIN sent = 1 .. Len(sent) /\ DOMAIN sent' = 1 .. n
      /\ Len(sent) \in Nat /\ \A i \in DOMAIN sent : sent'[i] = sent[i]
      /\ sent'[n].frame = Dense(bytes)
  BY <1>3, <1>4, TransmitAppends DEF IInv, Shape, Resend
<1> HIDE DEF n
<1>6. \A i \in DOMAIN sent' : i \in DOMAIN sent \/ i = n
  BY <1>5 DEF n
<1>7. n \notin DOMAIN sent /\ n \in DOMAIN sent' /\ n \in Nat /\ \A i \in DOMAIN sent : i < n
  BY <1>5 DEF n
<1>8. IsRetry(sent'[n]) /\ sent'[n].frame.seq = bytes.seq
  BY <1>3, <1>5, DenseIsRetry DEF IsRetry
<1>9. PICK j \in DOMAIN sent : LastKeyframe(j)
  BY <1>2
<1>10. /\ sent'[j].frame = bytes /\ ~IsRetry(sent'[j])
       /\ \A k \in DOMAIN sent' :
            k > j /\ sent'[k].frame.keyframe => sent'[k].frame.seq = bytes.seq
  BY <1>3, <1>5, <1>6, <1>8, <1>9 DEF LastKeyframe, IsRetry
<1>11. Shape'
  BY <1>1, <1>5 DEF IInv, Shape, TypeOK, Resending
<1>12. SentIsOlder'
  <2>1. sent[j].frame = bytes
    BY <1>9 DEF LastKeyframe
  <2>2. bytes.seq <= job /\ (pc \in Before => bytes.seq < job)
    BY <2>1 DEF IInv, SentIsOlder
  <2>3. pc' \in Before => pc \in Before
    BY <1>1 DEF Before
  <2> QED
    BY <1>1, <1>5, <1>6, <1>8, <2>2, <2>3 DEF IInv, SentIsOlder
<1>13. CachedIsTheLast'
  <2>1. LastKeyframe(j)'
    BY <1>1, <1>10 DEF LastKeyframe
  <2>2. j \in DOMAIN sent'
    BY <1>5, <1>9 DEF n
  <2>3. pc' # "publish" /\ pc' # "send"
    BY <1>1
  <2> QED
    BY <1>1, <1>2, <2>1, <2>2, <2>3 DEF CachedIsTheLast
<1>14. RetryIsUnused'
  BY <1>1, <1>2 DEF RetryIsUnused, Resending
<1>15. OneRetryEach'
  BY <1>2, <1>5, <1>6, <1>8 DEF IInv, OneRetryEach, IsRetry
<1>16. RetryIsTheKeyframe'
  <2> SUFFICES ASSUME NEW i \in DOMAIN sent', IsRetry(sent'[i])
               PROVE  \E m \in 1 .. i - 1 :
                        /\ ~IsRetry(sent'[m])
                        /\ sent'[i].frame = Dense(sent'[m].frame)
                        /\ sent'[m].frame.keyframe
                        /\ \A k \in m + 1 .. i :
                             sent'[k].frame.keyframe => sent'[k].frame.seq = sent'[m].frame.seq
    BY Zenon DEF RetryIsTheKeyframe
  <2>1. CASE i = n
    <3>1. j \in 1 .. i - 1 /\ \A k \in j + 1 .. i : k \in DOMAIN sent' /\ k > j
      BY <1>5, <1>7, <1>9, <2>1
    <3> QED
      BY <1>2, <1>5, <1>10, <2>1, <3>1
  <2>2. CASE i \in DOMAIN sent
    <3>1. PICK m \in 1 .. i - 1 :
            /\ ~IsRetry(sent[m])
            /\ sent[i].frame = Dense(sent[m].frame)
            /\ sent[m].frame.keyframe
            /\ \A k \in m + 1 .. i : sent[k].frame.keyframe => sent[k].frame.seq = sent[m].frame.seq
      BY <1>5, <2>2 DEF IInv, RetryIsTheKeyframe
    <3>2. sent'[i] = sent[i] /\ sent'[m] = sent[m] /\ \A k \in m + 1 .. i : sent'[k] = sent[k]
      BY <1>5, <2>2
    <3> QED
      BY <3>1, <3>2
  <2> QED
    BY <1>6, <2>1, <2>2
<1>17. SentInOrder'
  BY <1>5, <1>6, <1>8 DEF IInv, SentInOrder
<1> QED
  BY <1>11, <1>12, <1>13, <1>14, <1>15, <1>16, <1>17 DEF IInv

-----------------------------------------------------------------------------
(* Every step of main, the worker and the NACK thread keeps it.            *)
LEMMA NextIInv ==
  ASSUME StreamAssumption, IInv, [Next]_vars
  PROVE  IInv'
<1>1. CASE UNCHANGED vars
  <2>1. UNCHANGED << pc, job, nal, bytes, capacity, cache, pending, sent >>
    BY <1>1 DEF vars
  <2>2. Shape' /\ SentIsOlder'
    BY <2>1 DEF IInv, Shape, TypeOK, SentIsOlder
  <2>3. CachedIsTheLast' /\ RetryIsUnused'
    BY <2>1 DEF IInv, CachedIsTheLast, LastKeyframe, RetryIsUnused, IsRetry
  <2> QED
    BY <2>1, <2>2, <2>3, NothingSent DEF IInv
<1>2. CASE Next
  BY <1>2, SubmitStep, TakeNackStep, ResendStep, EncodeStep, CacheStep, PublishStep, SendStep,
    ReceiveNackStep DEF Next, Worker
<1> QED
  BY <1>1, <1>2

(* The inductive invariant holds throughout, fairness or not.              *)
LEMMA Invariant == ASSUME StreamAssumption PROVE Spec => []IInv
<1>1. IInv /\ [Next]_vars => IInv'
  BY NextIInv
<1> QED
  BY <1>1, Initially, PTL DEF Spec

(* EyeStream: a retry was sent before under its number, is the last        *)
(* keyframe, and is sent once; frames go out in order; and whoever takes   *)
(* nack_lock finds a description of the bytes in the cache.                *)
THEOREM RetriesRight == ASSUME StreamAssumption PROVE Spec => []RetriesAreRight
<1>1. IInv => RetriesAreRight
  BY DEF IInv, RetriesAreRight, CachedIsTheLast, CacheIsCoherent
<1> QED
  BY <1>1, Invariant, PTL

(* EyeStream: the worker's state has its shape at each point of its loop.  *)
THEOREM TypeCorrect == ASSUME StreamAssumption PROVE Spec => []TypeOK
<1>1. IInv => TypeOK
  BY DEF IInv, Shape
<1> QED
  BY <1>1, Invariant, PTL
=============================================================================
