------------------------- MODULE ImtTransportProofs -------------------------
(***************************************************************************)
(* Proofs about one eye end to end, for every number of frames, all frame  *)
(* and payload sizes and every loss, duplication and reordering: what is   *)
(* shown is what was encoded, the gate waits for what can come, and no     *)
(* interframe is shown while a lost keyframe is owed.                      *)
(*                                                                         *)
(* The sender and the receiver bring their own inductive invariants: SP    *)
(* and RP are their proof modules over this module's variables.  EP is the *)
(* receiver's without any datagram: what it says of the layout of a frame  *)
(* is what makes the datagrams here fit the receiver's assumption.  The    *)
(* senders those modules go on to are not used here: this module has its   *)
(* own.                                                                    *)
(***************************************************************************)
EXTENDS ImtTransport, TLAPS

SP == INSTANCE EyeStreamProofs

RP == INSTANCE ImtAssemblerProofs
  WITH MapCapacity <- 1, Datagrams <- AllDatagrams, Token <- (0 .. LastSeq) \X Nat,
       LastOld <- 0, LastNew <- LastSeq, RestartSizes <- KeySizes,
       SentOnce <- {}, SentAgain <- {}, SentWithMaps <- {}, Maps <- {},
       process <- 1, seq <- 0, network <- << >>, calm <- FALSE, encoded <- {}, traffic <- "none"

EP == INSTANCE ImtAssemblerProofs
  WITH MapCapacity <- 1, Datagrams <- {}, Token <- {},
       LastOld <- 0, LastNew <- LastSeq, RestartSizes <- KeySizes,
       SentOnce <- {}, SentAgain <- {}, SentWithMaps <- {}, Maps <- {},
       process <- 1, seq <- 0, network <- << >>, calm <- FALSE, encoded <- {}, traffic <- "none"

-----------------------------------------------------------------------------
(* Chunks are counted and sized alike in every instance of the layout.     *)
LEMMA SameChunks ==
  ASSUME NEW size
  PROVE  /\ Sender!ChunkCount(size) = ChunkCount(size)
         /\ SP!ChunkCount(size) = ChunkCount(size)
         /\ EP!ChunkCount(size) = ChunkCount(size)
         /\ RP!ChunkCount(size) = ChunkCount(size)
         /\ \A c : /\ Sender!ChunkSize(size, c) = ChunkSize(size, c)
                   /\ SP!ChunkSize(size, c) = ChunkSize(size, c)
                   /\ EP!ChunkSize(size, c) = ChunkSize(size, c)
                   /\ RP!ChunkSize(size, c) = ChunkSize(size, c)
BY DEF Sender!ChunkCount, SP!ChunkCount, EP!ChunkCount, RP!ChunkCount, ChunkCount,
  Sender!ChunkSize, SP!ChunkSize, EP!ChunkSize, RP!ChunkSize, ChunkSize

(* Counting is the same in every instance.                                 *)
LEMMA SameCardinality ==
  ASSUME NEW S
  PROVE  /\ Sender!Cardinality(S) = Cardinality(S) /\ SP!Cardinality(S) = Cardinality(S)
         /\ EP!Cardinality(S) = Cardinality(S) /\ RP!Cardinality(S) = Cardinality(S)
         /\ Receiver!Cardinality(S) = Cardinality(S)
BY DEF Sender!Cardinality, SP!Cardinality, EP!Cardinality, RP!Cardinality, Receiver!Cardinality, Cardinality

(* Chunk and parity bytes are the same in every instance of the layout.    *)
LEMMA SameBytes ==
  ASSUME NEW f
  PROVE  /\ \A c : /\ Sender!ChunkBytes(f, c) = ChunkBytes(f, c)
                   /\ SP!ChunkBytes(f, c) = ChunkBytes(f, c)
                   /\ EP!ChunkBytes(f, c) = ChunkBytes(f, c)
                   /\ RP!ChunkBytes(f, c) = ChunkBytes(f, c)
         /\ \A b, n : /\ Sender!ParityBytes(f, b, n) = ParityBytes(f, b, n)
                      /\ SP!ParityBytes(f, b, n) = ParityBytes(f, b, n)
                      /\ EP!ParityBytes(f, b, n) = ParityBytes(f, b, n)
                      /\ RP!ParityBytes(f, b, n) = ParityBytes(f, b, n)
<1>1. \A c : /\ Sender!ChunkBytes(f, c) = ChunkBytes(f, c)
             /\ SP!ChunkBytes(f, c) = ChunkBytes(f, c)
             /\ EP!ChunkBytes(f, c) = ChunkBytes(f, c)
             /\ RP!ChunkBytes(f, c) = ChunkBytes(f, c)
  BY SameChunks DEF Sender!ChunkBytes, SP!ChunkBytes, EP!ChunkBytes, RP!ChunkBytes, ChunkBytes
<1>2. \A p, j : /\ Sender!ByteAt(p, j) = ByteAt(p, j) /\ SP!ByteAt(p, j) = ByteAt(p, j)
                /\ EP!ByteAt(p, j) = ByteAt(p, j) /\ RP!ByteAt(p, j) = ByteAt(p, j)
  BY DEF Sender!ByteAt, SP!ByteAt, EP!ByteAt, RP!ByteAt, ByteAt
<1>3. \A g : /\ Sender!XorBytes(g) = XorBytes(g) /\ SP!XorBytes(g) = XorBytes(g)
             /\ EP!XorBytes(g) = XorBytes(g) /\ RP!XorBytes(g) = XorBytes(g)
  BY SameCardinality DEF Sender!XorBytes, SP!XorBytes, EP!XorBytes, RP!XorBytes, XorBytes
<1>4. ASSUME NEW b, NEW n
      PROVE  /\ Sender!ParityBytes(f, b, n) = ParityBytes(f, b, n)
             /\ SP!ParityBytes(f, b, n) = ParityBytes(f, b, n)
             /\ EP!ParityBytes(f, b, n) = ParityBytes(f, b, n)
             /\ RP!ParityBytes(f, b, n) = ParityBytes(f, b, n)
  BY <1>1, <1>2, <1>3, SameChunks
  DEF Sender!ParityBytes, SP!ParityBytes, EP!ParityBytes, RP!ParityBytes, ParityBytes
<1> QED
  BY <1>1, <1>4

(* Groups are formed alike in every instance of the layout.                *)
LEMMA SameGroups ==
  ASSUME NEW f
  PROVE  /\ \A c : Sender!GroupSize(f, c) = GroupSize(f, c) /\ SP!GroupSize(f, c) = GroupSize(f, c)
                /\ EP!GroupSize(f, c) = GroupSize(f, c)
         /\ Sender!GroupBase(f) = GroupBase(f) /\ SP!GroupBase(f) = GroupBase(f)
         /\ EP!GroupBase(f) = GroupBase(f)
         /\ Sender!Groups(f) = Groups(f) /\ SP!Groups(f) = Groups(f)
         /\ EP!Groups(f) = Groups(f)
<1>1. \A w : /\ Sender!FecGroupSize(w) = FecGroupSize(w) /\ SP!FecGroupSize(w) = FecGroupSize(w)
             /\ EP!FecGroupSize(w) = FecGroupSize(w)
  BY DEF Sender!FecGroupSize, SP!FecGroupSize, EP!FecGroupSize, FecGroupSize
<1>2. \A c : Sender!GroupSize(f, c) = GroupSize(f, c) /\ SP!GroupSize(f, c) = GroupSize(f, c)
             /\ EP!GroupSize(f, c) = GroupSize(f, c)
  BY <1>1, SameChunks DEF Sender!GroupSize, SP!GroupSize, EP!GroupSize, GroupSize,
    Sender!WantedGroupSize, SP!WantedGroupSize, EP!WantedGroupSize, WantedGroupSize,
    Sender!Uniform, SP!Uniform, EP!Uniform, Uniform
<1>3. Sender!GroupBase(f) = GroupBase(f) /\ SP!GroupBase(f) = GroupBase(f)
      /\ EP!GroupBase(f) = GroupBase(f)
  BY <1>2, SameChunks DEF Sender!GroupBase, SP!GroupBase, EP!GroupBase, GroupBase
<1>4. Sender!Groups(f) = Groups(f) /\ SP!Groups(f) = Groups(f) /\ EP!Groups(f) = Groups(f)
  BY <1>3, SameChunks DEF Sender!Groups, SP!Groups, EP!Groups, Groups
<1> QED
  BY <1>2, <1>3, <1>4

(* A frame has one layout, whichever instance lays it out.                 *)
LEMMA SameLayout ==
  ASSUME NEW f
  PROVE  Sender!FrameLayout(f) = FrameLayout(f) /\ SP!FrameLayout(f) = FrameLayout(f)
         /\ EP!FrameLayout(f) = FrameLayout(f)
<1>1. \A g, b, n, i : /\ Sender!Slice(f, g, b, n, i) = Slice(f, g, b, n, i)
                      /\ SP!Slice(f, g, b, n, i) = Slice(f, g, b, n, i)
                      /\ EP!Slice(f, g, b, n, i) = Slice(f, g, b, n, i)
  BY SameChunks, SameBytes DEF Sender!Slice, SP!Slice, EP!Slice, Slice
<1>2. \A g, b, n, p : /\ Sender!ParityOf(f, g, b, n, p) = ParityOf(f, g, b, n, p)
                      /\ SP!ParityOf(f, g, b, n, p) = ParityOf(f, g, b, n, p)
                      /\ EP!ParityOf(f, g, b, n, p) = ParityOf(f, g, b, n, p)
  BY SameChunks DEF Sender!ParityOf, SP!ParityOf, EP!ParityOf, ParityOf, Sender!ParityIndex,
    SP!ParityIndex, EP!ParityIndex, ParityIndex
<1>3. \A g : /\ Sender!GroupDatagrams(f, g) = GroupDatagrams(f, g)
             /\ SP!GroupDatagrams(f, g) = GroupDatagrams(f, g)
             /\ EP!GroupDatagrams(f, g) = GroupDatagrams(f, g)
  BY <1>1, <1>2, SameGroups, SameBytes
  DEF Sender!GroupDatagrams, SP!GroupDatagrams, EP!GroupDatagrams, GroupDatagrams
<1>4. \A s : /\ Sender!FlattenSeq(s) = FlattenSeq(s) /\ SP!FlattenSeq(s) = FlattenSeq(s)
             /\ EP!FlattenSeq(s) = FlattenSeq(s)
  BY DEF Sender!FlattenSeq, SP!FlattenSeq, EP!FlattenSeq, FlattenSeq
<1> QED
  BY <1>3, <1>4, SameGroups, SameCardinality
  DEF Sender!FrameLayout, SP!FrameLayout, EP!FrameLayout, FrameLayout

(* The receiver's steps are those its proofs are about.                    *)
LEMMA SameReceiver ==
  ASSUME NEW d
  PROVE  Receiver!PushDatagram(d) <=> RP!PushDatagram(d)
<1>1. \A size : /\ Receiver!ChunkCount(size) = RP!ChunkCount(size)
                /\ \A c : Receiver!ChunkSize(size, c) = RP!ChunkSize(size, c)
  BY DEF Receiver!ChunkCount, RP!ChunkCount, Receiver!ChunkSize, RP!ChunkSize
<1>2. /\ Receiver!MaxChunks = RP!MaxChunks /\ Receiver!MaxGroups = RP!MaxGroups
      /\ Receiver!ChunkIds = RP!ChunkIds /\ Receiver!GroupIds = RP!GroupIds
      /\ Receiver!Idle = RP!Idle /\ Receiver!ParityIndex = RP!ParityIndex
  BY <1>1 DEF Receiver!MaxChunks, RP!MaxChunks, Receiver!MaxGroups, RP!MaxGroups,
    Receiver!ChunkIds, RP!ChunkIds, Receiver!GroupIds, RP!GroupIds, Receiver!Idle, RP!Idle,
    Receiver!ParityIndex, RP!ParityIndex
<1>3. Receiver!NoGroups = RP!NoGroups /\ Receiver!NoBytes = RP!NoBytes
  BY <1>2 DEF Receiver!NoGroups, RP!NoGroups, Receiver!NoBytes, RP!NoBytes, Receiver!Unbound, RP!Unbound
<1>4. /\ Receiver!Gated(d) <=> RP!Gated(d)
      /\ Receiver!AcceptingNewerKeyframe(d) <=> RP!AcceptingNewerKeyframe(d)
      /\ Receiver!IsVideo(d) <=> RP!IsVideo(d)
      /\ Receiver!Stale(d) <=> RP!Stale(d)
      /\ Receiver!Supersedes(d) <=> RP!Supersedes(d)
  BY DEF Receiver!Gated, RP!Gated, Receiver!AcceptingNewerKeyframe, RP!AcceptingNewerKeyframe,
    Receiver!IsRequestedRetry, RP!IsRequestedRetry, Receiver!IsNewerNaturalKeyframe,
    RP!IsNewerNaturalKeyframe, Receiver!IsVideo, RP!IsVideo, Receiver!Stale, RP!Stale,
    Receiver!Supersedes, RP!Supersedes
<1>5. /\ Receiver!Admitted(d) <=> RP!Admitted(d)
      /\ Receiver!ClosesGate(d) <=> RP!ClosesGate(d)
      /\ Receiver!Opens(d) <=> RP!Opens(d)
  BY <1>4 DEF Receiver!Admitted, RP!Admitted, Receiver!ClosesGate, RP!ClosesGate,
    Receiver!Opens, RP!Opens
<1>6. /\ Receiver!Frame(d) = RP!Frame(d)
      /\ Receiver!Received(d) = RP!Received(d)
      /\ Receiver!Count(d) = RP!Count(d)
      /\ Receiver!Bound(d) = RP!Bound(d)
      /\ Receiver!Bytes(d) = RP!Bytes(d)
      /\ Receiver!BaseIndex(d) = RP!BaseIndex(d)
  BY <1>3, <1>5 DEF Receiver!Frame, RP!Frame, Receiver!Received, RP!Received, Receiver!Count,
    RP!Count, Receiver!Bound, RP!Bound, Receiver!Bytes, RP!Bytes, Receiver!BaseIndex, RP!BaseIndex
<1>7. Receiver!BoundGroups(d) = RP!BoundGroups(d)
  BY <1>6 DEF Receiver!BoundGroups, RP!BoundGroups
<1>8. Receiver!Consistent(d) <=> RP!Consistent(d)
  BY <1>1, <1>2, <1>5 DEF Receiver!Consistent, RP!Consistent, Receiver!Startable, RP!Startable
<1>9. Receiver!WellPlaced(d) <=> RP!WellPlaced(d)
  BY <1>1, <1>2, <1>6 DEF Receiver!WellPlaced, RP!WellPlaced, Receiver!Placed, RP!Placed,
    Receiver!Binds, RP!Binds
<1>10. Receiver!ResetActive <=> RP!ResetActive
  BY <1>2, <1>3 DEF Receiver!ResetActive, RP!ResetActive
<1>11. /\ Receiver!PassGate(d) <=> RP!PassGate(d)
       /\ Receiver!NoteIncomplete(d) <=> RP!NoteIncomplete(d)
  BY <1>4 DEF Receiver!PassGate, RP!PassGate, Receiver!NoteIncomplete, RP!NoteIncomplete
<1>12. \A recv, count, bts, grps :
         Receiver!Finish(d, recv, count, bts, grps) <=> RP!Finish(d, recv, count, bts, grps)
  <2>1. \A bts : Receiver!Publish(Receiver!Frame(d), bts) <=> RP!Publish(RP!Frame(d), bts)
    BY <1>6, <1>10 DEF Receiver!Publish, RP!Publish
  <2> QED
    BY <1>4, <1>6, <1>11, <2>1 DEF Receiver!Finish, RP!Finish
<1>13. \A group, missing, bts, size :
         Receiver!RecoveredBytes(group, missing, bts, size)
           = RP!RecoveredBytes(group, missing, bts, size)
  <2>1. \A f : Receiver!XorBytes(f) = RP!XorBytes(f)
    BY SameCardinality DEF Receiver!XorBytes, RP!XorBytes
  <2>2. \A p, j : Receiver!ByteAt(p, j) = RP!ByteAt(p, j)
    BY DEF Receiver!ByteAt, RP!ByteAt
  <2>3. \A group : Receiver!Members(group) = RP!Members(group)
    BY DEF Receiver!Members, RP!Members
  <2>4. TAKE group, missing, bts, size
  <2> QED
    BY <1>1, <2>1, <2>2, <2>3 DEF Receiver!RecoveredBytes, RP!RecoveredBytes
<1>14. \A group, recv :
         /\ Receiver!Recoverable(group, recv) <=> RP!Recoverable(group, recv)
         /\ Receiver!MissingOf(group, recv) = RP!MissingOf(group, recv)
  <2>1. TAKE group, recv
  <2>2. Receiver!Members(group) = RP!Members(group)
    BY DEF Receiver!Members, RP!Members
  <2>3. Receiver!Recoverable(group, recv) <=> RP!Recoverable(group, recv)
    BY <2>2, SameCardinality DEF Receiver!Recoverable, RP!Recoverable
  <2>4. Receiver!MissingOf(group, recv) = RP!MissingOf(group, recv)
    BY <2>2 DEF Receiver!MissingOf, RP!MissingOf
  <2> QED
    BY <2>3, <2>4
<1>15. \A recv, count, bts, grps :
         Receiver!Recover(d, recv, count, bts, grps) <=> RP!Recover(d, recv, count, bts, grps)
  <2>1. TAKE recv, count, bts, grps
  <2>2. DEFINE group == grps[d.group]
  <2>3. Receiver!MissingOf(group, recv) = RP!MissingOf(group, recv)
    BY <1>14
  <2>4. Receiver!Recoverable(group, recv) <=> RP!Recoverable(group, recv)
    BY <1>14
  <2>5. DEFINE m == RP!MissingOf(group, recv)
  <2>6. Receiver!ChunkSize(d.size, m) = RP!ChunkSize(d.size, m)
    BY <1>1
  <2>7. Receiver!RecoveredBytes(group, m, bts, d.size) = RP!RecoveredBytes(group, m, bts, d.size)
    BY <1>13
  <2>8. \A r, c, b : Receiver!Finish(d, r, c, b, grps) <=> RP!Finish(d, r, c, b, grps)
    BY <1>12
  <2> QED
    BY <2>3, <2>4, <2>6, <2>7, <2>8, Zenon DEF Receiver!Recover, RP!Recover
<1>16. Receiver!StoreParity(d) <=> RP!StoreParity(d)
  BY <1>5, <1>6, <1>7, <1>8, <1>9, <1>11, <1>15 DEF Receiver!StoreParity, RP!StoreParity
<1>17. Receiver!StoreSlice(d) <=> RP!StoreSlice(d)
  BY <1>5, <1>6, <1>7, <1>8, <1>9, <1>11, <1>15 DEF Receiver!StoreSlice, RP!StoreSlice
<1>18. Receiver!Refuse(d) <=> RP!Refuse(d)
  BY <1>5, <1>8, <1>9, <1>10, <1>11 DEF Receiver!Refuse, RP!Refuse
<1>19. Receiver!CloseGate(d) <=> RP!CloseGate(d)
  BY <1>5, <1>10, <1>11 DEF Receiver!CloseGate, RP!CloseGate
<1>20. /\ Receiver!DropStale(d) <=> RP!DropStale(d)
       /\ Receiver!DropGated(d) <=> RP!DropGated(d)
       /\ Receiver!HandleMap(d) <=> RP!HandleMap(d)
       /\ Receiver!IgnoreOther(d) <=> RP!IgnoreOther(d)
  BY <1>4, <1>11 DEF Receiver!DropStale, RP!DropStale, Receiver!DropGated, RP!DropGated,
    Receiver!HandleMap, RP!HandleMap, Receiver!IgnoreOther, RP!IgnoreOther, Receiver!vars,
    RP!vars, Receiver!frameVars, RP!frameVars, Receiver!gateVars, RP!gateVars,
    Receiver!MapWellFormed, RP!MapWellFormed, Receiver!TileCount, RP!TileCount
<1> QED
  BY <1>16, <1>17, <1>18, <1>19, <1>20 DEF Receiver!PushDatagram, RP!PushDatagram

-----------------------------------------------------------------------------
(* What the sender may put out: a frame with its default groups, or dense. *)
Frames == AllFrames \cup {Sender!Dense(f) : f \in AllFrames}

(* The frames the worker has at hand, and those it has sent.               *)
AtHand ==
  /\ pc # "wait" => job > 0
  /\ pc \in {"cache", "publish", "send"} => nal \in AllFrames
  /\ bytes \in AllFrames \cup {Sender!NoNal}
  /\ \A i \in DOMAIN sent :
       sent[i].frame \in Frames /\ sent[i].count \in 0 .. Len(FrameLayout(sent[i].frame))

IsSent(n) == \E i \in DOMAIN sent : sent[i].frame.seq = n
IsSentKeyframe(n) == \E i \in DOMAIN sent : sent[i].frame.keyframe /\ sent[i].frame.seq = n

(* What the receiver holds and shows under the number of a frame that was  *)
(* sent are bytes of that frame; and it holds nothing else.                *)
ServedAsSent ==
  /\ active.valid => IsSent(active.seq)
  /\ latest.size # 0 => IsSent(latest.seq)
  /\ \A i \in DOMAIN sent : RP!Staged(sent[i].frame, Nat) /\ RP!Shown(sent[i].frame, Nat)

(* Only keyframes that were sent are asked for, and only what was asked    *)
(* for is pending at the sender or on its way again.                       *)
AskedFor ==
  /\ \A n \in nacks : IsSentKeyframe(n)
  /\ incomplete.isNew /\ incomplete.keyframe => IsSentKeyframe(incomplete.seq)
  /\ pending.set => pending.seq \in nacks
  /\ pc \in SP!Resending => cache.seq \in nacks

TransportInv ==
  /\ SP!IInv
  /\ RP!IInv
  /\ AtHand
  /\ ServedAsSent
  /\ AskedFor
  /\ RequestsMeetRetries

(* The keyframes known to have been given up. *)
Noted == nacks \cup (IF incomplete.isNew /\ incomplete.keyframe THEN {incomplete.seq} ELSE {})

(* None of them is assembled again but as the one the gate waits for: only *)
(* then can two layouts of one frame meet.                                 *)
NotedIsPast ==
  \A n \in Noted :
    \/ latest.size # 0 /\ n <= latest.seq
    \/ retryPending /\ n <= retrySeq
    \/ active.valid /\ n < active.seq

(* The groups of the frame under assembly are bound as it was sent.        *)
BoundAsSent ==
  \A g \in RP!GroupIds : groups[g].known =>
    \E i \in DOMAIN sent :
      LET f == sent[i].frame
      IN  /\ f.seq = active.seq
          /\ groups[g].base = GroupBase(f)[g]
          /\ groups[g].size = GroupSize(f, groups[g].base)

(* An owed keyframe is awaited, or a newer one is under assembly.          *)
OwedIsAwaited ==
  owed # -1 =>
    /\ retryEnabled
    /\ owed \in Nat
    /\ latest.size # 0 => latest.seq < owed
    /\ IF retryPending THEN retrySeq = owed
       ELSE active.valid /\ active.keyframe /\ active.seq > owed

-----------------------------------------------------------------------------
(* Frames, their datagrams, and the assumptions of the two halves.         *)
LEMMA StreamFits == SP!StreamAssumption
BY TransportAssumption DEF SP!StreamAssumption

(* What the encoder may put out is a frame.                                *)
LEMMA EncodedIsFrame ==
  ASSUME NEW seq \in 1 .. LastSeq, NEW size, NEW keyframe \in BOOLEAN,
         size \in IF keyframe THEN KeySizes ELSE InterSizes
  PROVE  Sender!Encoded(seq, size, keyframe) \in AllFrames
<1> DEFINE Of(n) == {Sender!Encoded(n, s, TRUE) : s \in KeySizes}
                      \cup {Sender!Encoded(n, s, FALSE) : s \in InterSizes}
<1>1. Sender!Encoded(seq, size, keyframe) \in Of(seq)
  <2>1. CASE keyframe = TRUE
    BY <2>1
  <2>2. CASE keyframe = FALSE
    BY <2>2
  <2> QED
    BY <2>1, <2>2
<1>2. AllFrames = UNION {Of(n) : n \in 1 .. LastSeq}
  BY DEF AllFrames
<1> HIDE DEF Of
<1> QED
  BY <1>1, <1>2

(* What an encoded frame and its dense transmission have in common.        *)
LEMMA EncodedTypes ==
  ASSUME NEW g \in AllFrames
  PROVE  /\ g.seq \in 1 .. LastSeq /\ g.size \in KeySizes \cup InterSizes
         /\ g.keyframe \in BOOLEAN /\ g.weights = << >> /\ g.content = g.seq
         /\ Sender!Dense(g).seq = g.seq /\ Sender!Dense(g).size = g.size
         /\ Sender!Dense(g).keyframe = g.keyframe /\ Sender!Dense(g).content = g.content
         /\ Sender!Dense(g).weights = [c \in 1 .. ChunkCount(g.size) |-> 255]
<1>1. \/ \E seq \in 1 .. LastSeq, size \in KeySizes : g = Sender!Encoded(seq, size, TRUE)
      \/ \E seq \in 1 .. LastSeq, size \in InterSizes : g = Sender!Encoded(seq, size, FALSE)
  BY DEF AllFrames
<1>2. PICK seq \in 1 .. LastSeq, size \in KeySizes \cup InterSizes, keyframe \in BOOLEAN :
        g = [seq |-> seq, size |-> size, keyframe |-> keyframe, weights |-> << >>, content |-> seq]
  BY <1>1 DEF Sender!Encoded, Sender!Uniform
<1> DEFINE w == [c \in 1 .. ChunkCount(g.size) |-> 255]
<1>3. Sender!Dense(g) = [g EXCEPT !.weights = w]
  BY SameChunks DEF Sender!Dense
<1> HIDE DEF w
<1>4. /\ g.seq = seq /\ g.size = size /\ g.keyframe = keyframe /\ g.weights = << >> /\ g.content = seq
  BY <1>2
<1>5. /\ Sender!Dense(g).seq = g.seq /\ Sender!Dense(g).size = g.size
      /\ Sender!Dense(g).keyframe = g.keyframe /\ Sender!Dense(g).content = g.content
      /\ Sender!Dense(g).weights = w
  BY <1>2, <1>3
<1> QED
  BY <1>4, <1>5 DEF w

(* Every frame that may be sent can be laid out.                           *)
LEMMA FrameTypes ==
  ASSUME NEW f \in Frames
  PROVE  /\ f.seq \in 1 .. LastSeq /\ f.seq \in Nat
         /\ f.size \in KeySizes \cup InterSizes /\ f.size \in Nat /\ f.size > 0
         /\ f.keyframe \in BOOLEAN /\ f.content = f.seq
         /\ f.weights = << >> \/ f.weights = [c \in 1 .. ChunkCount(f.size) |-> 255]
         /\ EP!HandedOver(f) /\ RP!HandedOver(f)
<1>1. f \in AllFrames \/ \E g \in AllFrames : f = Sender!Dense(g)
  BY DEF Frames
<1>2. /\ f.seq \in 1 .. LastSeq /\ f.size \in KeySizes \cup InterSizes
      /\ f.keyframe \in BOOLEAN /\ f.content = f.seq
  <2>1. CASE f \in AllFrames
    BY <2>1, EncodedTypes
  <2>2. ASSUME NEW g \in AllFrames, f = Sender!Dense(g)
        PROVE  /\ f.seq \in 1 .. LastSeq /\ f.size \in KeySizes \cup InterSizes
               /\ f.keyframe \in BOOLEAN /\ f.content = f.seq
    BY <2>2, EncodedTypes, Zenon
  <2> QED
    BY <1>1, <2>1, <2>2, Zenon
<1>3. f.weights = << >> \/ f.weights = [c \in 1 .. ChunkCount(f.size) |-> 255]
  <2>1. CASE f \in AllFrames
    BY <2>1, EncodedTypes
  <2>2. ASSUME NEW g \in AllFrames, f = Sender!Dense(g)
        PROVE  f.weights = [c \in 1 .. ChunkCount(f.size) |-> 255]
    BY <2>2, EncodedTypes, ZenonT(60)
  <2> QED
    BY <1>1, <2>1, <2>2, Zenon
<1>4. f.seq \in Nat
  BY <1>2, TransportAssumption
<1>5. f.size \in Nat /\ f.size > 0
  <2>1. \A x \in KeySizes : x \in Nat \ {0}
    BY TransportAssumption
  <2>2. \A x \in InterSizes : x \in Nat \ {0}
    BY TransportAssumption
  <2> QED
    BY <1>2, <2>1, <2>2
<1>6. f.weights # << >> =>
        f.weights \in Seq(0 .. 255) /\ Len(f.weights) >= ChunkCount(f.size)
  <2> DEFINE n == ChunkCount(f.size)
             w == [c \in 1 .. n |-> 255]
  <2>1. n \in Nat
    BY <1>5, MaxPayloadAssumption DEF ChunkCount
  <2>2. f.weights # << >> => f.weights = w
    BY <1>3
  <2> HIDE DEF n
  <2>3. w \in Seq(0 .. 255) /\ Len(w) = n
    BY <2>1
  <2> HIDE DEF w
  <2>4. f.weights # << >> => f.weights \in Seq(0 .. 255) /\ Len(f.weights) >= n
    BY <2>1, <2>2, <2>3
  <2> QED
    BY <2>4 DEF n
<1>7. EP!HandedOver(f)
  BY <1>5, <1>6, SameChunks DEF EP!HandedOver, EP!Uniform
<1>8. RP!HandedOver(f)
  BY <1>5, <1>6, SameChunks DEF RP!HandedOver, RP!Uniform
<1> QED
  BY <1>2, <1>3, <1>4, <1>5, <1>7, <1>8

(* A datagram of frame f, as the receiver will judge it.                   *)
IsOf(d, f) ==
  /\ d \in RP!VideoDatagram
  /\ d.seq = f.seq /\ RP!Brings(d, f)
  /\ RP!Placed(d) /\ d.group \in Nat /\ 2 * d.group < ChunkCount(f.size)
  /\ RP!BaseIndex(d) = GroupBase(f)[d.group]
  /\ d.groupSize = GroupSize(f, RP!BaseIndex(d))

(* The bytes a datagram carries are bytes of its frame.                    *)
LEMMA PayloadOf ==
  ASSUME NEW f, NEW d \in EP!HeaderOf(f)
  PROVE  d.payload \in Seq(SUBSET ({f.content} \X Nat))
BY DEF EP!HeaderOf

(* Every datagram of a frame is one the receiver can place.                *)
LEMMA LayoutIsOf ==
  ASSUME NEW f \in Frames
  PROVE  /\ Len(FrameLayout(f)) \in Nat /\ DOMAIN FrameLayout(f) = 1 .. Len(FrameLayout(f))
         /\ \A k \in 1 .. Len(FrameLayout(f)) : IsOf(FrameLayout(f)[k], f)
<1> USE MaxPayloadAssumption
<1>0. MaxFrameSize \in Nat \ {0} /\ EP!HandedOver(f)
  BY TransportAssumption, FrameTypes
<1>1. /\ EP!Len(FrameLayout(f)) \in Nat /\ DOMAIN FrameLayout(f) = 1 .. EP!Len(FrameLayout(f))
      /\ \A k \in 1 .. EP!Len(FrameLayout(f)) :
           EP!Describes(FrameLayout(f)[k], f) /\ EP!Carries(FrameLayout(f)[k], f)
  BY <1>0, SameLayout, EP!LayoutFacts
<1>2. ASSUME NEW d, EP!Describes(d, f), EP!Carries(d, f)
      PROVE  IsOf(d, f)
  <2>1. /\ EP!Placed(d)
        /\ EP!BaseIndex(d) \in Nat /\ d.groupSize \in Nat /\ d.groupSize > 0
        /\ d.group \in Nat /\ 2 * d.group < ChunkCount(f.size)
        /\ d.chunk \in 0 .. ChunkCount(f.size) - 1
    BY <1>0, <1>2, SameChunks, EP!SentIsPlaced
  <2>2. d \in EP!HeaderOf(f) /\ EP!BaseIndex(d) = GroupBase(f)[d.group]
        /\ d.groupSize = GroupSize(f, EP!BaseIndex(d))
    BY <1>2, SameGroups DEF EP!Describes
  <2>3. EP!BaseIndex(d) = RP!BaseIndex(d)
    BY DEF EP!BaseIndex, RP!BaseIndex
  <2>4. RP!Placed(d)
    BY <2>1, <2>3, SameChunks DEF EP!Placed, RP!Placed, EP!ParityIndex, RP!ParityIndex
  <2>5. /\ d.seq = f.seq /\ d.size = f.size /\ d.keyframe = f.keyframe
        /\ d.chunks = ChunkCount(f.size) /\ d.type \in {"SLICE", "PARITY"}
    BY <2>2, SameChunks DEF EP!HeaderOf
  <2>6. /\ d.type = "SLICE" => d.payload = ChunkBytes(f, d.chunk)
        /\ d.type = "PARITY" => d.payload = ParityBytes(f, d.chunk, d.groupSize)
    BY <1>2, SameBytes DEF EP!Carries
  <2>7. RP!Brings(d, f)
    BY <2>5, <2>6, SameChunks, SameBytes DEF RP!Brings
  <2>8. d \in RP!VideoDatagram
    <3>1. d.payload \in RP!Payload
      <4>1. d.payload \in Seq(SUBSET ({f.content} \X Nat))
        BY <2>2, PayloadOf, Zenon
      <4>2. f.content \in 0 .. LastSeq
        <5>1. f.content = f.seq /\ f.seq \in 1 .. LastSeq
          BY FrameTypes, Zenon
        <5> QED
          BY <5>1, TransportAssumption
      <4>3. SUBSET ({f.content} \X Nat) \subseteq SUBSET ((0 .. LastSeq) \X Nat)
        BY <4>2
      <4>4. d.payload \in Seq(SUBSET ((0 .. LastSeq) \X Nat))
        BY <4>1, <4>3
      <4> QED
        BY <4>4 DEF RP!Payload
    <3>2. ChunkCount(f.size) \in Nat
      <4>1. f.size \in Nat /\ f.size > 0
        BY FrameTypes
      <4>2. EP!ChunkCount(f.size) \in Nat
        BY <1>0, <4>1, EP!ChunkCountFacts
      <4> QED
        BY <4>2, SameChunks
    <3>3. d = [type |-> d.type, seq |-> d.seq, keyframe |-> d.keyframe, size |-> d.size,
               chunks |-> d.chunks, chunk |-> d.chunk, group |-> d.group,
               groupSize |-> d.groupSize, index |-> d.index, payload |-> d.payload]
          /\ d.index \in Nat /\ d.chunk \in Nat
      BY <2>2 DEF EP!HeaderOf
    <3> QED
      BY <2>1, <2>5, <3>1, <3>2, <3>3, FrameTypes DEF RP!VideoDatagram
  <2> QED
    BY <2>1, <2>2, <2>3, <2>4, <2>5, <2>7, <2>8 DEF IsOf
<1> QED
  BY <1>1, <1>2

(* The datagrams here are datagrams the assembler is proved about.         *)
LEMMA ReceiverFits ==
  /\ RP!CapacityAssumption
  /\ RP!DatagramAssumption
<1>1. ASSUME NEW d \in AllDatagrams PROVE d \in RP!VideoDatagram
  <2>1. PICK f \in Frames : d \in FrameDatagrams(f)
    BY DEF AllDatagrams, Frames
  <2>2. PICK k \in DOMAIN FrameLayout(f) : d = FrameLayout(f)[k]
    BY <2>1 DEF FrameDatagrams, Range
  <2> QED
    BY <2>2, LayoutIsOf DEF IsOf
<1> QED
  BY <1>1, TransportAssumption DEF RP!CapacityAssumption, RP!DatagramAssumption

(* What is in flight belongs to a frame that was sent.                     *)
LEMMA FlightIsOf ==
  ASSUME NEW d \in InFlight, AtHand
  PROVE  d \in AllDatagrams /\ \E i \in DOMAIN sent : sent[i].frame \in Frames /\ IsOf(d, sent[i].frame)
<1>1. PICK i \in DOMAIN sent : \E k \in 1 .. sent[i].count : d = FrameLayout(sent[i].frame)[k]
  BY DEF InFlight, Range
<1> DEFINE f == sent[i].frame
<1>2. f \in Frames /\ sent[i].count \in 0 .. Len(FrameLayout(f))
  BY DEF AtHand
<1> HIDE DEF f
<1>3. PICK k \in 1 .. Len(FrameLayout(f)) : d = FrameLayout(f)[k]
  BY <1>1, <1>2, LayoutIsOf DEF f
<1>4. IsOf(d, f) /\ d \in FrameDatagrams(f)
  BY <1>2, <1>3, LayoutIsOf DEF FrameDatagrams, Range
<1>5. d \in AllDatagrams
  BY <1>2, <1>4 DEF AllDatagrams, Frames
<1> QED
  BY <1>2, <1>4, <1>5 DEF f

-----------------------------------------------------------------------------
(* The dense transmission is the same in both instances of the sender.     *)
LEMMA SameDense ==
  ASSUME NEW f
  PROVE  Sender!Dense(f) = SP!Dense(f)
BY SameChunks DEF Sender!Dense, SP!Dense

(* Only a frame as it was encoded has the default groups.                  *)
LEMMA DefaultIsEncoded ==
  ASSUME NEW f \in Frames
  PROVE  f.weights = << >> <=> f \in AllFrames
<1>1. ASSUME NEW g \in AllFrames
      PROVE  Sender!Dense(g).weights # << >>
  <2>1. g.size \in Nat /\ g.size > 0
    <3>1. g \in Frames
      BY DEF Frames
    <3> QED
      BY <3>1, FrameTypes
  <2>2. EP!ChunkCount(g.size) \in Nat /\ EP!ChunkCount(g.size) > 0
    BY <2>1, EP!ChunkCountFacts, TransportAssumption, MaxPayloadAssumption
  <2>3. Sender!Dense(g).weights = [c \in 1 .. ChunkCount(g.size) |-> 255]
    BY EncodedTypes
  <2>4. 1 \in 1 .. ChunkCount(g.size)
    BY <2>2, SameChunks
  <2>5. 1 \in DOMAIN Sender!Dense(g).weights
    BY <2>3, <2>4
  <2> QED
    BY <2>5
<1>2. \A g \in AllFrames : g.weights = << >>
  BY EncodedTypes
<1>3. f \in AllFrames \/ \E g \in AllFrames : f = Sender!Dense(g)
  BY DEF Frames
<1> QED
  BY <1>1, <1>2, <1>3

(* The sender's steps are those its proofs are about.                      *)
LEMMA SameSender ==
  /\ Sender!Init <=> SP!Init
  /\ Sender!Submit <=> SP!Submit
  /\ Sender!Worker <=> SP!Worker
  /\ \A n : Sender!ReceiveNack(n) <=> SP!ReceiveNack(n)
<1>1. Sender!NoNal = SP!NoNal /\ Sender!cacheVars = SP!cacheVars /\ Sender!AfterRetry = SP!AfterRetry
  BY DEF Sender!NoNal, SP!NoNal, Sender!Uniform, SP!Uniform, Sender!cacheVars, SP!cacheVars,
    Sender!AfterRetry, SP!AfterRetry
<1>2. \A n : Sender!Matches(n) <=> SP!Matches(n)
  BY DEF Sender!Matches, SP!Matches
<1>3. \A f : Sender!Transmit(f) <=> SP!Transmit(f)
  BY SameLayout DEF Sender!Transmit, SP!Transmit
<1>4. \A f : Sender!Dense(f) = SP!Dense(f)
  BY SameDense
<1>5. \A n, size, k : Sender!Encoded(n, size, k) = SP!Encoded(n, size, k)
  BY DEF Sender!Encoded, SP!Encoded, Sender!Uniform, SP!Uniform
<1>6. Sender!Init <=> SP!Init
  BY <1>1 DEF Sender!Init, SP!Init
<1>7. Sender!Submit <=> SP!Submit
  BY <1>1 DEF Sender!Submit, SP!Submit, Sender!cacheVars, SP!cacheVars
<1>8. \A n : Sender!ReceiveNack(n) <=> SP!ReceiveNack(n)
  BY <1>2 DEF Sender!ReceiveNack, SP!ReceiveNack, Sender!cacheVars, SP!cacheVars
<1>9. Sender!TakeNack <=> SP!TakeNack
  BY <1>1, <1>2 DEF Sender!TakeNack, SP!TakeNack
<1>10. Sender!Resend <=> SP!Resend
  <2>1. \A f : Sender!Transmit(Sender!Dense(f)) <=> SP!Transmit(SP!Dense(f))
    BY <1>3, <1>4
  <2> QED
    BY <2>1, Zenon DEF Sender!Resend, SP!Resend, Sender!cacheVars, SP!cacheVars
<1>11. Sender!EncodeFails <=> SP!EncodeFails
  BY DEF Sender!EncodeFails, SP!EncodeFails, Sender!cacheVars, SP!cacheVars
<1>12. Sender!Encode <=> SP!Encode
  BY <1>5 DEF Sender!Encode, SP!Encode, Sender!cacheVars, SP!cacheVars
<1>13. \A n, size : Sender!Grown(n, size) = SP!Grown(n, size)
  BY DEF Sender!Grown, SP!Grown
<1>14. Sender!CopyKeyframe <=> SP!CopyKeyframe
  BY <1>13, SameChunks DEF Sender!CopyKeyframe, SP!CopyKeyframe
<1>15. Sender!CacheFails <=> SP!CacheFails
  BY <1>13, SameChunks DEF Sender!CacheFails, SP!CacheFails
<1>16. Sender!PublishKeyframe <=> SP!PublishKeyframe
  BY DEF Sender!PublishKeyframe, SP!PublishKeyframe
<1>17. Sender!Send <=> SP!Send
  BY <1>3 DEF Sender!Send, SP!Send, Sender!cacheVars, SP!cacheVars
<1>18. Sender!Worker <=> SP!Worker
  BY <1>9, <1>10, <1>11, <1>12, <1>14, <1>15, <1>16, <1>17 DEF Sender!Worker, SP!Worker
<1> QED
  BY <1>6, <1>7, <1>8, <1>18

(* Two frames sent under one number are one frame, but for their groups.   *)
LEMMA OneFramePerNumber ==
  ASSUME SP!IInv, AtHand, NEW i \in DOMAIN sent, NEW j \in DOMAIN sent,
         sent[i].frame.seq = sent[j].frame.seq
  PROVE  /\ sent[i].frame.size = sent[j].frame.size
         /\ sent[i].frame.keyframe = sent[j].frame.keyframe
         /\ sent[i].frame.content = sent[j].frame.content
         /\ ~SP!IsRetry(sent[i]) /\ ~SP!IsRetry(sent[j]) => sent[i].frame = sent[j].frame
<1>1. /\ DOMAIN sent = 1 .. Len(sent) /\ Len(sent) \in Nat
      /\ SP!RetryIsTheKeyframe /\ SP!SentInOrder
  BY DEF SP!IInv, SP!Shape
<1>2. ASSUME NEW k \in DOMAIN sent
      PROVE  \E f \in DOMAIN sent :
               /\ ~SP!IsRetry(sent[f])
               /\ sent[f].frame.seq = sent[k].frame.seq /\ sent[f].frame.size = sent[k].frame.size
               /\ sent[f].frame.keyframe = sent[k].frame.keyframe
               /\ sent[f].frame.content = sent[k].frame.content
               /\ ~SP!IsRetry(sent[k]) => f = k
  <2>1. CASE SP!IsRetry(sent[k])
    <3>1. PICK f \in 1 .. k - 1 : ~SP!IsRetry(sent[f]) /\ sent[k].frame = SP!Dense(sent[f].frame)
      BY <1>1, <2>1 DEF SP!RetryIsTheKeyframe
    <3>2. f \in DOMAIN sent
      BY <1>1
    <3>3. sent[f].frame \in AllFrames
      <4>1. sent[f].frame \in Frames /\ sent[f].frame.weights = << >>
        BY <3>1, <3>2 DEF AtHand, SP!IsRetry, SP!Uniform
      <4> QED
        BY <4>1, DefaultIsEncoded
    <3>4. sent[k].frame = Sender!Dense(sent[f].frame)
      BY <3>1, SameDense
    <3>5. /\ sent[f].frame.seq = sent[k].frame.seq /\ sent[f].frame.size = sent[k].frame.size
          /\ sent[f].frame.keyframe = sent[k].frame.keyframe
          /\ sent[f].frame.content = sent[k].frame.content
      <4> DEFINE h == sent[f].frame
                 t == sent[k].frame
      <4>1. h \in AllFrames /\ t = Sender!Dense(h)
        BY <3>3, <3>4
      <4> HIDE DEF h, t
      <4>2. h.seq = t.seq /\ h.size = t.size /\ h.keyframe = t.keyframe /\ h.content = t.content
        BY <4>1, EncodedTypes, Zenon
      <4> QED
        BY <4>2 DEF h, t
    <3>6. ~SP!IsRetry(sent[f])
      BY <3>1
    <3> QED
      BY <2>1, <3>2, <3>5, <3>6, Zenon
  <2>2. CASE ~SP!IsRetry(sent[k])
    BY <2>2
  <2> QED
    BY <2>1, <2>2
<1>3. PICK f \in DOMAIN sent :
        /\ ~SP!IsRetry(sent[f])
        /\ sent[f].frame.seq = sent[i].frame.seq /\ sent[f].frame.size = sent[i].frame.size
        /\ sent[f].frame.keyframe = sent[i].frame.keyframe
        /\ sent[f].frame.content = sent[i].frame.content
        /\ ~SP!IsRetry(sent[i]) => f = i
  BY <1>2
<1>4. PICK g \in DOMAIN sent :
        /\ ~SP!IsRetry(sent[g])
        /\ sent[g].frame.seq = sent[j].frame.seq /\ sent[g].frame.size = sent[j].frame.size
        /\ sent[g].frame.keyframe = sent[j].frame.keyframe
        /\ sent[g].frame.content = sent[j].frame.content
        /\ ~SP!IsRetry(sent[j]) => g = j
  BY <1>2
<1>5. f = g
  <2>1. sent[f].frame.seq \in Nat /\ sent[g].frame.seq \in Nat
    BY SP!Numbers, StreamFits, MaxPayloadAssumption
  <2>2. ~(f < g) /\ ~(g < f)
    BY <1>1, <1>3, <1>4, <2>1 DEF SP!SentInOrder
  <2> QED
    BY <1>1, <2>2
<1> QED
  BY <1>3, <1>4, <1>5

-----------------------------------------------------------------------------
(* The initial state.                                                      *)
LEMMA SameStart == Receiver!Init <=> RP!Init
<1>1. Receiver!MaxChunks = RP!MaxChunks /\ Receiver!MaxGroups = RP!MaxGroups
  BY DEF Receiver!MaxChunks, RP!MaxChunks, Receiver!MaxGroups, RP!MaxGroups,
    Receiver!ChunkCount, RP!ChunkCount
<1>2. Receiver!NoGroups = RP!NoGroups /\ Receiver!NoBytes = RP!NoBytes
  BY <1>1 DEF Receiver!NoGroups, RP!NoGroups, Receiver!NoBytes, RP!NoBytes, Receiver!Unbound,
    RP!Unbound, Receiver!GroupIds, RP!GroupIds, Receiver!ChunkIds, RP!ChunkIds
<1> QED
  BY <1>2 DEF Receiver!Init, RP!Init, Receiver!NoFrame, RP!NoFrame, Receiver!Idle, RP!Idle

(* At first nothing is sent, held or asked for.                            *)
LEMMA InitTransport == Init => TransportInv
<1> SUFFICES ASSUME Init PROVE TransportInv
  OBVIOUS
<1>1. Sender!Init /\ Receiver!Init /\ nacks = {}
  BY DEF Init
<1>2. SP!IInv
  BY <1>1, SameSender, SP!Initially, StreamFits, MaxPayloadAssumption
<1>3. RP!IInv
  BY <1>1, SameStart, RP!InitIInv, ReceiverFits, MaxPayloadAssumption
<1>4. sent = << >> /\ DOMAIN sent = {} /\ pc = "wait" /\ ~pending.set /\ bytes = Sender!NoNal
  BY <1>1 DEF Sender!Init
<1>5. ~active.valid /\ latest.size = 0 /\ ~retryPending /\ ~incomplete.isNew
  BY <1>1 DEF Receiver!Init, Receiver!Idle, Receiver!NoFrame
<1>6. AtHand
  BY <1>4 DEF AtHand
<1>7. ServedAsSent
  BY <1>4, <1>5 DEF ServedAsSent
<1>8. AskedFor
  BY <1>1, <1>4, <1>5 DEF AskedFor, SP!Resending
<1>9. RequestsMeetRetries
  BY <1>4, <1>5 DEF RequestsMeetRetries, GateAwaitsAKeyframe, RetryOnlyOnRequest
<1> QED
  BY <1>2, <1>3, <1>6, <1>7, <1>8, <1>9 DEF TransportInv

-----------------------------------------------------------------------------
(* The sender's steps: each sends a frame, whole or in part, or nothing.   *)
Sends(frame) ==
  \E n \in 0 .. Len(FrameLayout(frame)) : sent' = Append(sent, [frame |-> frame, count |-> n])

(* The kernel gets a prefix of the layout, and nothing else.               *)
LEMMA TransmitSends ==
  ASSUME NEW frame \in Frames, Sender!Transmit(frame)
  PROVE  Sends(frame)
<1>1. Len(FrameLayout(frame)) \in Nat /\ Sender!FrameLayout(frame) = FrameLayout(frame)
  BY LayoutIsOf, SameLayout
<1> DEFINE all == Len(FrameLayout(frame))
<1>2. PICK n \in (all - TailBound .. all) \cap Nat : sent' = Append(sent, [frame |-> frame, count |-> n])
  BY <1>1 DEF Sender!Transmit
<1>3. n \in 0 .. all
  <2> HIDE DEF all
  <2> QED
    BY <1>2
<1> QED
  BY <1>2, <1>3 DEF Sends

(* What is sent again is the keyframe in the cache.                        *)
LEMMA ResentIsCached ==
  ASSUME SP!IInv, AtHand, Sender!Resend
  PROVE  /\ bytes \in AllFrames /\ bytes.seq = cache.seq /\ pc \in SP!Resending
         /\ Sends(Sender!Dense(bytes))
<1>1. pc \in SP!Resending /\ pc # "publish"
  BY DEF Sender!Resend, SP!Resending
<1>2. bytes.seq = cache.seq /\ bytes.size = cache.size /\ bytes.keyframe
  BY <1>1 DEF SP!IInv, SP!RetryIsUnused, SP!CachedIsTheLast
<1>3. bytes \in AllFrames
  BY <1>2 DEF AtHand, Sender!NoNal
<1>4. Sender!Transmit(Sender!Dense([bytes EXCEPT !.seq = cache.seq, !.size = cache.size]))
  BY DEF Sender!Resend
<1>5. [bytes EXCEPT !.seq = cache.seq, !.size = cache.size] = bytes
  <2>1. bytes \in SP!Outputs
    BY DEF SP!IInv, SP!Shape
  <2> QED
    BY <1>2, <2>1 DEF SP!Outputs
<1>6. Sender!Dense(bytes) \in Frames
  BY <1>3 DEF Frames
<1> QED
  BY <1>1, <1>2, <1>3, <1>4, <1>5, <1>6, TransmitSends

(* What a step of the sender does, seen from outside.                      *)
LEMMA SenderOutcome ==
  ASSUME SP!IInv, AtHand, Sender!Submit \/ Sender!Worker
  PROVE  /\ pc' # "wait" => job' > 0
         /\ pc' \in {"cache", "publish", "send"} => nal' \in AllFrames
         /\ bytes' \in AllFrames \cup {Sender!NoNal}
         /\ pc' \in SP!Resending => cache'.seq = cache.seq
              /\ (pc \in SP!Resending \/ (pending.set /\ pending.seq = cache.seq))
         /\ pending'.set => pending' = pending
         /\ \/ sent' = sent
            \/ Sends(nal) /\ nal \in AllFrames
            \/ Sends(Sender!Dense(bytes)) /\ bytes \in AllFrames
                 /\ bytes.seq = cache.seq /\ pc \in SP!Resending
<1>1. /\ job \in Nat /\ job <= LastSeq /\ LastSeq \in Nat
      /\ pc # "wait" => job > 0
      /\ pc \in {"cache", "publish", "send"} => nal \in AllFrames
      /\ bytes \in AllFrames \cup {Sender!NoNal}
      /\ pending.set \in BOOLEAN /\ cache \in [size : Nat, seq : 0 .. LastSeq, retried : BOOLEAN]
      /\ pending \in [set : BOOLEAN, seq : 0 .. LastSeq]
  BY SP!Numbers, StreamFits, MaxPayloadAssumption DEF AtHand, SP!IInv, SP!Shape, SP!TypeOK
<1>2. CASE Sender!Submit
  <2>1. PICK n \in job + 1 .. LastSeq : job' = n
    BY <1>2 DEF Sender!Submit
  <2>2. job' > 0
    BY <1>1, <2>1
  <2> QED
    BY <1>1, <1>2, <2>2 DEF Sender!Submit, Sender!cacheVars, SP!Resending
<1>3. CASE Sender!TakeNack
  <2>1. /\ job' = job /\ nal' = nal /\ bytes' = bytes /\ sent' = sent /\ job > 0
        /\ pc' \notin {"cache", "publish", "send"}
    BY <1>1, <1>3 DEF Sender!TakeNack, Sender!AfterRetry
  <2>2. pending'.set = FALSE
    BY <1>1, <1>3 DEF Sender!TakeNack
  <2>3. pc' \in SP!Resending => cache'.seq = cache.seq /\ pending.set /\ pending.seq = cache.seq
    BY <1>1, <1>3 DEF Sender!TakeNack, Sender!AfterRetry, Sender!Matches, SP!Resending
  <2> QED
    BY <1>1, <2>1, <2>2, <2>3
<1>4. CASE Sender!Resend
  <2>1. /\ job' = job /\ nal' = nal /\ bytes' = bytes /\ cache' = cache /\ pending' = pending
        /\ pc' \in {"encode", "wait"} /\ pc # "wait"
    BY <1>4 DEF Sender!Resend, Sender!cacheVars
  <2> QED
    BY <1>1, <1>4, <2>1, ResentIsCached DEF SP!Resending
<1>5. CASE Sender!EncodeFails
  BY <1>1, <1>5 DEF Sender!EncodeFails, Sender!cacheVars, SP!Resending
<1>6. CASE Sender!Encode
  <2>1. /\ job' = job /\ bytes' = bytes /\ cache' = cache /\ pending' = pending /\ sent' = sent
        /\ pc' \in {"cache", "send"} /\ pc = "encode"
    BY <1>6 DEF Sender!Encode, Sender!cacheVars
  <2>2. job \in 1 .. LastSeq
    BY <1>1, <2>1
  <2>3. nal' \in AllFrames
    <3>1. CASE \E size \in KeySizes : nal' = Sender!Encoded(job, size, TRUE)
      BY <2>2, <3>1, EncodedIsFrame
    <3>2. CASE \E size \in InterSizes : nal' = Sender!Encoded(job, size, FALSE)
      BY <2>2, <3>2, EncodedIsFrame
    <3> QED
      BY <1>6, <3>1, <3>2 DEF Sender!Encode
  <2> QED
    BY <1>1, <2>1, <2>3 DEF SP!Resending
<1>7. CASE Sender!CopyKeyframe
  BY <1>1, <1>7 DEF Sender!CopyKeyframe, SP!Resending
<1>8. CASE Sender!CacheFails
  BY <1>1, <1>8 DEF Sender!CacheFails, SP!Resending
<1>9. CASE Sender!PublishKeyframe
  BY <1>1, <1>9 DEF Sender!PublishKeyframe, SP!Resending
<1>10. CASE Sender!Send
  <2>1. /\ job' = job /\ nal' = nal /\ bytes' = bytes /\ cache' = cache /\ pending' = pending
        /\ pc' = "retry after" /\ pc = "send" /\ Sender!Transmit(nal)
    BY <1>10 DEF Sender!Send, Sender!cacheVars
  <2>2. nal \in AllFrames /\ nal \in Frames
    BY <1>1, <2>1 DEF Frames
  <2> QED
    BY <1>1, <2>1, <2>2, TransmitSends DEF SP!Resending
<1> QED
  BY <1>2, <1>3, <1>4, <1>5, <1>6, <1>7, <1>8, <1>9, <1>10 DEF Sender!Worker

(* A transmission is added behind those before it.                         *)
LEMMA SendsAppends ==
  ASSUME SP!IInv, NEW frame \in Frames, Sends(frame)
  PROVE  /\ Len(sent) \in Nat
         /\ DOMAIN sent = 1 .. Len(sent) /\ DOMAIN sent' = 1 .. Len(sent) + 1
         /\ \A i \in DOMAIN sent : i \in DOMAIN sent' /\ sent'[i] = sent[i]
         /\ \A i \in DOMAIN sent' : i \in DOMAIN sent \/ sent'[i].frame = frame
         /\ \A i \in DOMAIN sent' : i \in DOMAIN sent \/
              sent'[i].count \in 0 .. Len(FrameLayout(sent'[i].frame))
<1>1. sent \in Seq(SP!Sent)
  BY DEF SP!IInv, SP!Shape
<1>2. PICK n \in 0 .. Len(FrameLayout(frame)) : sent' = Append(sent, [frame |-> frame, count |-> n])
  BY DEF Sends
<1> DEFINE t == [frame |-> frame, count |-> n]
<1>3. t.frame = frame /\ t.count = n
  OBVIOUS
<1>4. sent' = Append(sent, t)
  BY <1>2
<1> HIDE DEF t
<1>5. /\ Len(sent) \in Nat
      /\ DOMAIN sent = 1 .. Len(sent) /\ DOMAIN sent' = 1 .. Len(sent) + 1
      /\ \A i \in DOMAIN sent : i \in DOMAIN sent' /\ sent'[i] = sent[i]
      /\ \A i \in DOMAIN sent' : i \in DOMAIN sent \/ sent'[i] = t
  BY <1>1, <1>4
<1> QED
  BY <1>3, <1>5

OneFrameEach ==
  \A x, y \in DOMAIN sent :
    sent[x].frame.seq = sent[y].frame.seq =>
      /\ sent[x].frame.size = sent[y].frame.size
      /\ sent[x].frame.keyframe = sent[y].frame.keyframe
      /\ sent[x].frame.content = sent[y].frame.content

(* One number, one frame: in every state of the sender.                    *)
LEMMA OneFrame == SP!IInv /\ AtHand => OneFrameEach
BY OneFramePerNumber DEF OneFrameEach

(* The same of the next state.                                             *)
LEMMA OneFrameNext == SP!IInv' /\ AtHand' => OneFrameEach'
BY OneFrame, PTL

(* What is said of the transmissions survives one more.                    *)
LEMMA MoreIsSent ==
  ASSUME TransportInv, SP!IInv', AtHand',
         sent' = sent \/ \E frame \in Frames : Sends(frame),
         UNCHANGED receiverVars
  PROVE  /\ ServedAsSent'
         /\ \A n : (IsSent(n) => IsSent(n)') /\ (IsSentKeyframe(n) => IsSentKeyframe(n)')
<1>1. \A i \in DOMAIN sent : i \in DOMAIN sent' /\ sent'[i] = sent[i]
  BY SendsAppends DEF TransportInv
<1>2. \A n : (IsSent(n) => IsSent(n)') /\ (IsSentKeyframe(n) => IsSentKeyframe(n)')
  BY <1>1 DEF IsSent, IsSentKeyframe
<1>3. UNCHANGED << latest, active, received, groups, staging >>
  BY DEF receiverVars
<1>4. ServedAsSent
  BY DEF TransportInv
<1>5. ASSUME NEW i \in DOMAIN sent'
      PROVE  (RP!Staged(sent[i].frame, Nat) /\ RP!Shown(sent[i].frame, Nat))'
  <2>1. SUFFICES ASSUME \/ active.valid /\ active.seq = sent'[i].frame.seq
                        \/ latest.size # 0 /\ latest.seq = sent'[i].frame.seq
                 PROVE  (RP!Staged(sent[i].frame, Nat) /\ RP!Shown(sent[i].frame, Nat))'
    BY <1>3 DEF RP!Staged, RP!Shown
  <2>2. PICK k \in DOMAIN sent : sent[k].frame.seq = sent'[i].frame.seq
    BY <1>4, <2>1 DEF ServedAsSent, IsSent
  <2> DEFINE g == sent[k].frame
  <2>3. /\ RP!Staged(g, Nat) /\ RP!Shown(g, Nat) /\ g.seq = sent'[i].frame.seq
    BY <1>4, <2>2 DEF ServedAsSent
  <2>4. /\ g.size = sent'[i].frame.size /\ g.keyframe = sent'[i].frame.keyframe
        /\ g.content = sent'[i].frame.content
    BY <1>1, <2>2, OneFrameNext DEF OneFrameEach
  <2> HIDE DEF g
  <2>5. /\ \A c : RP!ChunkBytes(g, c) = RP!ChunkBytes(sent'[i].frame, c)
        /\ \A b, n : RP!ParityBytes(g, b, n) = RP!ParityBytes(sent'[i].frame, b, n)
    <3>1. \A c : RP!ChunkBytes(g, c) = RP!ChunkBytes(sent'[i].frame, c)
      BY <2>4 DEF RP!ChunkBytes
    <3> QED
      BY <2>4, <3>1 DEF RP!ParityBytes
  <2>6. RP!Staged(sent[i].frame, Nat)'
    BY <1>3, <2>3, <2>4, <2>5 DEF RP!Staged, RP!HoldsOf
  <2>7. RP!Shown(sent[i].frame, Nat)'
    BY <1>3, <2>3, <2>4, <2>5 DEF RP!Shown
  <2> QED
    BY <2>6, <2>7
<1> QED
  BY <1>2, <1>3, <1>4, <1>5 DEF ServedAsSent

(* A step that leaves the receiver alone keeps its invariant.              *)
LEMMA ReceiverRests ==
  ASSUME RP!IInv, UNCHANGED receiverVars
  PROVE  RP!IInv'
<1>1. UNCHANGED RP!vars
  BY DEF receiverVars, RP!vars, RP!frameVars, RP!gateVars
<1> QED
  BY <1>1, RP!NextIInv, ReceiverFits, MaxPayloadAssumption

(* A step that leaves the sender alone keeps its invariant.                *)
LEMMA SenderRests ==
  ASSUME TransportInv, UNCHANGED senderVars
  PROVE  SP!IInv' /\ AtHand'
<1>1. SP!IInv'
  <2>1. UNCHANGED SP!vars
    BY DEF senderVars, SP!vars
  <2> QED
    BY <2>1, SP!NextIInv, StreamFits, MaxPayloadAssumption DEF TransportInv
<1>2. UNCHANGED << pc, job, nal, bytes, sent >>
  BY DEF senderVars
<1> QED
  BY <1>1, <1>2 DEF TransportInv, AtHand

(* A step of the sender sends a frame it has at hand, or a retry asked     *)
(* for.                                                                    *)
LEMMA SenderKeeps ==
  ASSUME TransportInv, SenderStep
  PROVE  TransportInv'
<1>1. /\ Sender!Submit \/ Sender!Worker
      /\ UNCHANGED receiverVars /\ nacks' = nacks
  BY DEF SenderStep
<1>2. SP!IInv /\ RP!IInv /\ AtHand /\ AskedFor /\ RequestsMeetRetries
  BY DEF TransportInv
<1>3. SP!IInv'
  <2>1. SP!Next
    BY <1>1, SameSender DEF SP!Next
  <2> QED
    BY <1>2, <2>1, SP!NextIInv, StreamFits, MaxPayloadAssumption
<1>4. RP!IInv'
  BY <1>1, <1>2, ReceiverRests
<1>5. /\ pc' # "wait" => job' > 0
      /\ pc' \in {"cache", "publish", "send"} => nal' \in AllFrames
      /\ bytes' \in AllFrames \cup {Sender!NoNal}
      /\ pc' \in SP!Resending => cache'.seq = cache.seq
           /\ (pc \in SP!Resending \/ (pending.set /\ pending.seq = cache.seq))
      /\ pending'.set => pending' = pending
  BY <1>1, <1>2, SenderOutcome
<1>6. \/ sent' = sent
      \/ \E frame \in Frames :
           /\ Sends(frame)
           /\ frame.weights # << >> => pc \in SP!Resending /\ frame.seq = cache.seq
  <2>1. CASE Sends(nal) /\ nal \in AllFrames
    <3>1. nal \in Frames /\ nal.weights = << >>
      BY <2>1, EncodedTypes DEF Frames
    <3> QED
      BY <2>1, <3>1
  <2>2. CASE Sends(Sender!Dense(bytes)) /\ bytes \in AllFrames
               /\ bytes.seq = cache.seq /\ pc \in SP!Resending
    <3>1. Sender!Dense(bytes) \in Frames /\ Sender!Dense(bytes).seq = bytes.seq
      BY <2>2, EncodedTypes DEF Frames
    <3> QED
      BY <2>2, <3>1
  <2> QED
    BY <1>1, <1>2, <2>1, <2>2, SenderOutcome
<1>7. /\ \A i \in DOMAIN sent' :
           \/ i \in DOMAIN sent /\ sent'[i] = sent[i]
           \/ /\ sent'[i].frame \in Frames
              /\ sent'[i].count \in 0 .. Len(FrameLayout(sent'[i].frame))
              /\ sent'[i].frame.weights # << >> => pc \in SP!Resending /\ sent'[i].frame.seq = cache.seq
  <2>1. CASE sent' = sent
    BY <2>1
  <2>2. ASSUME NEW frame \in Frames, Sends(frame),
               frame.weights # << >> => pc \in SP!Resending /\ frame.seq = cache.seq
        PROVE  \A i \in DOMAIN sent' :
                 \/ i \in DOMAIN sent /\ sent'[i] = sent[i]
                 \/ /\ sent'[i].frame \in Frames
                    /\ sent'[i].count \in 0 .. Len(FrameLayout(sent'[i].frame))
                    /\ sent'[i].frame.weights # << >> =>
                         pc \in SP!Resending /\ sent'[i].frame.seq = cache.seq
    BY <1>2, <2>2, SendsAppends
  <2> QED
    BY <1>6, <2>1, <2>2
<1>8. AtHand'
  <2>1. \A i \in DOMAIN sent' :
          sent'[i].frame \in Frames /\ sent'[i].count \in 0 .. Len(FrameLayout(sent'[i].frame))
    BY <1>2, <1>7 DEF AtHand
  <2> QED
    BY <1>5, <2>1 DEF AtHand
<1>9. /\ ServedAsSent'
      /\ \A n : (IsSent(n) => IsSent(n)') /\ (IsSentKeyframe(n) => IsSentKeyframe(n)')
  BY <1>1, <1>3, <1>6, <1>8, MoreIsSent
<1>10. UNCHANGED << incomplete, retryPending, retrySeq, nacks >>
  BY <1>1 DEF receiverVars
<1>11. AskedFor'
  <2>1. \A n \in nacks' : IsSentKeyframe(n)'
    BY <1>2, <1>9, <1>10 DEF AskedFor
  <2>2. incomplete'.isNew /\ incomplete'.keyframe => IsSentKeyframe(incomplete.seq)'
    <3>1. incomplete.isNew /\ incomplete.keyframe => IsSentKeyframe(incomplete.seq)
      BY <1>2 DEF AskedFor
    <3>2. \A n : n = incomplete.seq /\ IsSentKeyframe(n)' => IsSentKeyframe(incomplete.seq)'
      BY <1>10 DEF IsSentKeyframe
    <3> QED
      BY <1>9, <1>10, <3>1, <3>2
  <2>3. pending'.set => pending'.seq \in nacks'
    BY <1>2, <1>5, <1>10 DEF AskedFor
  <2>4. pc' \in SP!Resending => cache'.seq \in nacks'
    BY <1>2, <1>5, <1>10 DEF AskedFor
  <2> QED
    BY <2>1, <2>2, <2>3, <2>4 DEF AskedFor
<1>12. RequestsMeetRetries'
  <2>1. GateAwaitsAKeyframe'
    <3>1. retryPending => IsSentKeyframe(retrySeq)
      BY <1>2 DEF RequestsMeetRetries, GateAwaitsAKeyframe, IsSentKeyframe
    <3>2. retryPending' => \E i \in DOMAIN sent' :
            sent'[i].frame.keyframe /\ sent'[i].frame.seq = retrySeq'
      <4>1. ASSUME NEW n, IsSentKeyframe(n)
            PROVE  \E i \in DOMAIN sent' : sent'[i].frame.keyframe /\ sent'[i].frame.seq = n
        BY <1>9, <4>1 DEF IsSentKeyframe
      <4> QED
        BY <1>10, <3>1, <4>1
    <3> QED
      BY <1>2, <1>10, <3>2 DEF RequestsMeetRetries, GateAwaitsAKeyframe
  <2>2. RetryOnlyOnRequest'
    <3>1. ASSUME NEW i \in DOMAIN sent', sent'[i].frame.weights # << >>
          PROVE  sent'[i].frame.seq \in nacks
      <4>1. CASE i \in DOMAIN sent /\ sent'[i] = sent[i]
        BY <1>2, <3>1, <4>1
        DEF RequestsMeetRetries, RetryOnlyOnRequest, Sender!IsRetry, Sender!Uniform
      <4>2. CASE pc \in SP!Resending /\ sent'[i].frame.seq = cache.seq
        BY <1>2, <4>2 DEF AskedFor
      <4> QED
        BY <1>7, <3>1, <4>1, <4>2
    <3> QED
      BY <1>10, <3>1 DEF RetryOnlyOnRequest, Sender!IsRetry, Sender!Uniform
  <2> QED
    BY <2>1, <2>2 DEF RequestsMeetRetries
<1> QED
  BY <1>3, <1>4, <1>8, <1>9, <1>11, <1>12 DEF TransportInv

(* A request only ever names a keyframe that was sent.                     *)
LEMMA NackKeeps ==
  ASSUME TransportInv, NackArrives
  PROVE  TransportInv'
<1>1. PICK n \in nacks : Sender!ReceiveNack(n)
  BY DEF NackArrives
<1>2. UNCHANGED receiverVars /\ nacks' = nacks
  BY DEF NackArrives
<1>3. SP!IInv /\ RP!IInv /\ AtHand /\ AskedFor /\ RequestsMeetRetries
  BY DEF TransportInv
<1>4. UNCHANGED << pc, job, nal, bytes, cache, sent >>
      /\ (pending' = pending \/ pending' = [set |-> TRUE, seq |-> n])
  BY <1>1 DEF Sender!ReceiveNack, Sender!cacheVars
<1>5. SP!IInv'
  <2>1. IsSentKeyframe(n)
    BY <1>3 DEF AskedFor
  <2>2. n \in 0 .. LastSeq
    <3>1. PICK i \in DOMAIN sent : sent[i].frame.seq = n
      BY <2>1 DEF IsSentKeyframe
    <3>2. n \in 1 .. LastSeq
      BY <1>3, <3>1, FrameTypes DEF AtHand
    <3> QED
      BY <3>2, TransportAssumption
  <2>3. SP!Next
    BY <1>1, <2>2, SameSender DEF SP!Next
  <2> QED
    BY <1>3, <2>3, SP!NextIInv, StreamFits, MaxPayloadAssumption
<1>6. RP!IInv'
  BY <1>2, <1>3, ReceiverRests
<1>7. AtHand'
  BY <1>3, <1>4 DEF AtHand
<1>8. ServedAsSent'
  BY <1>2, <1>4, <1>5, <1>7, MoreIsSent
<1>9. AskedFor' /\ RequestsMeetRetries'
  <2>1. UNCHANGED << incomplete, retryPending, retrySeq, nacks >>
    BY <1>2 DEF receiverVars
  <2>2. pending'.set => pending'.seq \in nacks
    BY <1>3, <1>4 DEF AskedFor
  <2> QED
    BY <1>3, <1>4, <2>1, <2>2 DEF AskedFor, IsSentKeyframe, RequestsMeetRetries, GateAwaitsAKeyframe,
      RetryOnlyOnRequest, Sender!IsRetry
<1> QED
  BY <1>5, <1>6, <1>7, <1>8, <1>9 DEF TransportInv

(* Expecting retries changes nothing that is held or shown.                *)
LEMMA EnableKeeps ==
  ASSUME TransportInv, EnableRetry
  PROVE  TransportInv'
<1>1. /\ retryEnabled' = TRUE /\ retryPending' = (retryPending /\ TRUE) /\ retrySeq' = retrySeq
      /\ UNCHANGED << latest, active, received, chunksReceived, groups, staging, incomplete, map >>
      /\ UNCHANGED senderVars /\ nacks' = nacks
  BY DEF EnableRetry, Receiver!SetKeyframeRetryEnabled, Receiver!frameVars
<1>2. SP!IInv' /\ AtHand'
  BY <1>1, SenderRests
<1>3. RP!IInv'
  <2>1. RP!SetKeyframeRetryEnabled(TRUE)
    BY <1>1 DEF RP!SetKeyframeRetryEnabled, RP!frameVars
  <2>2. RP!IInv
    BY DEF TransportInv
  <2> QED
    BY <2>1, <2>2, RP!SetRetryKeeps, ReceiverFits, MaxPayloadAssumption
<1>4. UNCHANGED << pc, cache, pending, sent >>
  BY <1>1 DEF senderVars
<1>5. retryPending' => retryPending
  BY <1>1
<1>6. ServedAsSent'
  BY <1>1, <1>4 DEF TransportInv, ServedAsSent, IsSent, RP!Staged, RP!Shown, RP!HoldsOf
<1>7. AskedFor' /\ RequestsMeetRetries'
  BY <1>1, <1>4, <1>5 DEF TransportInv, AskedFor, IsSentKeyframe, RequestsMeetRetries,
    GateAwaitsAKeyframe, RetryOnlyOnRequest, Sender!IsRetry
<1> QED
  BY <1>2, <1>3, <1>6, <1>7 DEF TransportInv

(* The adapter turns a lost keyframe into a request and forgets nothing.   *)
LEMMA ReportKeeps ==
  ASSUME TransportInv, Report
  PROVE  TransportInv'
<1>1. /\ incomplete.isNew /\ incomplete' = [incomplete EXCEPT !.isNew = FALSE]
      /\ nacks' = IF incomplete.keyframe /\ retryEnabled THEN nacks \cup {incomplete.seq} ELSE nacks
      /\ UNCHANGED << latest, active, received, chunksReceived, groups, staging, retryEnabled,
                      retryPending, retrySeq, map >>
      /\ UNCHANGED senderVars
  BY DEF Report
<1>2. SP!IInv' /\ AtHand'
  BY <1>1, SenderRests
<1>3. RP!IInv
  BY DEF TransportInv
<1>4. RP!IInv'
  <2>1. UNCHANGED << latest, RP!frameVars, RP!gateVars, map >>
    BY <1>1 DEF RP!frameVars, RP!gateVars
  <2> QED
    BY <1>1, <1>3, <2>1, RP!ReadIncompleteKeeps, ReceiverFits, MaxPayloadAssumption
<1>5. UNCHANGED << pc, cache, pending, sent >>
  BY <1>1 DEF senderVars
<1>6. ServedAsSent'
  BY <1>1, <1>5 DEF TransportInv, ServedAsSent, IsSent, RP!Staged, RP!Shown, RP!HoldsOf
<1>7. ~incomplete'.isNew
  BY <1>1, <1>3 DEF RP!IInv, RP!TypeOK
<1>8. AskedFor'
  BY <1>1, <1>5, <1>7 DEF TransportInv, AskedFor, IsSentKeyframe
<1>9. RequestsMeetRetries'
  <2>1. retryPending => retryEnabled
    BY <1>3 DEF RP!IInv, RP!RetryIsReachable
  <2> QED
    BY <1>1, <1>5, <2>1 DEF TransportInv, RequestsMeetRetries, GateAwaitsAKeyframe,
      RetryOnlyOnRequest, Sender!IsRetry
<1> QED
  BY <1>2, <1>4, <1>6, <1>8, <1>9 DEF TransportInv

(* What is held and what is shown has a size.                              *)
LEMMA SizesAreNumbers ==
  ASSUME TransportInv
  PROVE  active.size \in Nat /\ latest.size \in Nat
BY DEF TransportInv, RP!IInv, RP!TypeOK, RP!FrameHeader

(* What is assembled was sent, with that size and as that kind of frame.   *)
LEMMA ActiveIsSent ==
  ASSUME TransportInv, active.valid
  PROVE  \E i \in DOMAIN sent :
           /\ sent[i].frame.seq = active.seq /\ sent[i].frame.size = active.size
           /\ sent[i].frame.keyframe = active.keyframe
<1>1. PICK i \in DOMAIN sent : sent[i].frame.seq = active.seq
  BY DEF TransportInv, ServedAsSent, IsSent
<1>2. RP!Staged(sent[i].frame, Nat)
  BY DEF TransportInv, ServedAsSent
<1> QED
  BY <1>1, <1>2, SizesAreNumbers DEF RP!Staged

(* A datagram on its way to the receiver.                                  *)
LEMMA DeliverFacts ==
  ASSUME TransportInv, NEW d \in InFlight, Deliver(d)
  PROVE  /\ d \in AllDatagrams /\ RP!PushDatagram(d)
         /\ \E i \in DOMAIN sent : sent[i].frame \in Frames /\ IsOf(d, sent[i].frame)
         /\ RP!IInv /\ ~incomplete.isNew /\ nacks' = nacks
         /\ UNCHANGED << pc, job, nal, bytes, capacity, cache, pending, sent >>
         /\ \/ UNCHANGED << latest, active, groups, incomplete, retryEnabled, retryPending, retrySeq >>
            \/ RP!Closes
            \/ RP!Refuse(d)
            \/ RP!StoreSlice(d) \/ RP!StoreParity(d)
<1>1. /\ ~incomplete.isNew /\ RP!PushDatagram(d) /\ nacks' = nacks
      /\ UNCHANGED << pc, job, nal, bytes, capacity, cache, pending, sent >>
  BY SameReceiver DEF Deliver, senderVars
<1>2. RP!IInv /\ AtHand
  BY DEF TransportInv
<1>3. d \in AllDatagrams /\ \E i \in DOMAIN sent : sent[i].frame \in Frames /\ IsOf(d, sent[i].frame)
  BY <1>2, FlightIsOf
<1>4. \/ UNCHANGED << latest, active, groups, incomplete, retryEnabled, retryPending, retrySeq >>
      \/ RP!Closes
      \/ RP!Refuse(d)
      \/ RP!StoreSlice(d) \/ RP!StoreParity(d)
  BY <1>1, <1>2, <1>3, RP!PushOutcome, ReceiverFits, MaxPayloadAssumption
<1> QED
  BY <1>1, <1>2, <1>3, <1>4

(* What a datagram brings, it brings of every frame of its number.         *)
LEMMA ServesAll ==
  ASSUME TransportInv, NEW i \in DOMAIN sent, NEW k \in DOMAIN sent,
         NEW d, IsOf(d, sent[i].frame)
  PROVE  RP!ServedAs(sent[k].frame, Nat, d)
<1> DEFINE f == sent[k].frame
           g == sent[i].frame
<1>1. f \in Frames /\ RP!HandedOver(f)
  BY FrameTypes DEF TransportInv, AtHand
<1>2. f.seq = g.seq => f.size = g.size /\ f.keyframe = g.keyframe /\ f.content = g.content
  BY OneFrame DEF TransportInv, OneFrameEach
<1> HIDE DEF f, g
<1>3. ASSUME f.seq = g.seq PROVE RP!Brings(d, f)
  <2>1. \A c : RP!ChunkBytes(g, c) = RP!ChunkBytes(f, c)
    BY <1>2, <1>3 DEF RP!ChunkBytes
  <2>2. \A b, n : RP!ParityBytes(g, b, n) = RP!ParityBytes(f, b, n)
    BY <1>2, <1>3, <2>1 DEF RP!ParityBytes
  <2>3. RP!Brings(d, g)
    BY DEF IsOf, g
  <2> QED
    BY <1>2, <1>3, <2>1, <2>2, <2>3 DEF RP!Brings
<1>4. d.seq = g.seq
  BY DEF IsOf, g
<1> QED
  BY <1>1, <1>3, <1>4 DEF RP!ServedAs, RP!HandedOver, f

(* A datagram brings bytes of the frame that was sent under its number.    *)
LEMMA DeliverKeeps ==
  ASSUME TransportInv, NEW d \in InFlight, Deliver(d)
  PROVE  TransportInv'
<1>1. /\ d \in AllDatagrams /\ RP!PushDatagram(d)
      /\ RP!IInv /\ ~incomplete.isNew /\ nacks' = nacks
      /\ UNCHANGED << pc, job, nal, bytes, capacity, cache, pending, sent >>
  BY DeliverFacts
<1>2. PICK i \in DOMAIN sent : sent[i].frame \in Frames /\ IsOf(d, sent[i].frame)
  BY DeliverFacts
<1>3. \/ UNCHANGED << latest, active, groups, incomplete, retryEnabled, retryPending, retrySeq >>
      \/ RP!Closes
      \/ RP!Refuse(d)
      \/ RP!StoreSlice(d) \/ RP!StoreParity(d)
  BY DeliverFacts
<1>4. SP!IInv' /\ AtHand'
  BY <1>1, SenderRests DEF senderVars
<1>5. RP!IInv'
  <2>1. RP!Next
    BY <1>1 DEF RP!Next
  <2> QED
    BY <1>1, <2>1, RP!NextIInv, ReceiverFits, MaxPayloadAssumption
<1>6. \A k \in DOMAIN sent : RP!Staged(sent[k].frame, Nat) /\ RP!Shown(sent[k].frame, Nat)
  BY DEF TransportInv, ServedAsSent
<1>7. ASSUME NEW k \in DOMAIN sent
      PROVE  (RP!Staged(sent[k].frame, Nat) /\ RP!Shown(sent[k].frame, Nat))'
  <2> DEFINE f == sent[k].frame
  <2>1. RP!ServedAs(f, Nat, d) /\ RP!Staged(f, Nat) /\ RP!Shown(f, Nat)
    BY <1>2, <1>6, ServesAll
  <2>2. \A g : RP!ServedAs(g, Nat, d) /\ RP!Staged(g, Nat) /\ RP!Shown(g, Nat)
                => RP!Staged(g, Nat)' /\ RP!Shown(g, Nat)'
    BY <1>1, RP!PushOwn, ReceiverFits, MaxPayloadAssumption
  <2>3. ASSUME NEW CONSTANT g, g = sent'[k].frame, RP!Staged(g, Nat)', RP!Shown(g, Nat)'
        PROVE  (RP!Staged(sent[k].frame, Nat) /\ RP!Shown(sent[k].frame, Nat))'
    BY <2>3 DEF RP!Staged, RP!Shown, RP!HoldsOf
  <2>4. f = sent'[k].frame
    BY <1>1
  <2> HIDE DEF f
  <2> QED
    BY <2>1, <2>2, <2>3, <2>4
<1>8. d.seq = sent[i].frame.seq /\ IsSent(d.seq)
  BY <1>2 DEF IsOf, IsSent
<1>9. /\ active'.valid => (active' = active \/ active'.seq = d.seq)
      /\ latest'.size # 0 => (latest' = latest \/ latest'.seq = d.seq)
  <2>1. CASE RP!Closes
    BY <2>1 DEF RP!Closes, RP!Idle
  <2>2. CASE RP!Refuse(d)
    BY <2>2 DEF RP!Refuse, RP!ResetActive, RP!Idle
  <2>3. CASE RP!StoreSlice(d) \/ RP!StoreParity(d)
    <3>1. RP!Shows(d) \/ RP!GoesOn(d)
      BY <1>1, <2>3, RP!StoreStep, ReceiverFits, MaxPayloadAssumption
    <3> QED
      BY <3>1 DEF RP!Shows, RP!GoesOn, RP!Idle
  <2> QED
    BY <1>3, <2>1, <2>2, <2>3
<1>10. ServedAsSent'
  <2>1. (active.valid => IsSent(active.seq)) /\ (latest.size # 0 => IsSent(latest.seq))
    BY DEF TransportInv, ServedAsSent
  <2>2. (active'.valid => IsSent(active'.seq)) /\ (latest'.size # 0 => IsSent(latest'.seq))
    BY <1>8, <1>9, <2>1
  <2> QED
    BY <1>1, <1>7, <2>2 DEF ServedAsSent, IsSent
<1>11. \/ incomplete' = incomplete
       \/ /\ active.valid
          /\ incomplete' = [seq |-> active.seq, keyframe |-> active.keyframe, isNew |-> TRUE]
  <2>1. CASE RP!Closes
    <3>1. active.keyframe = TRUE
      BY <1>1, <2>1 DEF RP!Closes, RP!IInv, RP!TypeOK, RP!FrameHeader
    <3> QED
      BY <2>1, <3>1 DEF RP!Closes
  <2>2. CASE RP!Refuse(d) \/ RP!StoreSlice(d) \/ RP!StoreParity(d)
    BY <1>1, <2>2, RP!NoteOutcome, ReceiverFits, MaxPayloadAssumption DEF RP!Supersedes
  <2> QED
    BY <1>3, <2>1, <2>2
<1>12. active.valid /\ active.keyframe => IsSentKeyframe(active.seq)
  BY ActiveIsSent DEF IsSentKeyframe
<1>13. AskedFor'
  <2>1. incomplete'.isNew /\ incomplete'.keyframe => IsSentKeyframe(incomplete'.seq)
    BY <1>1, <1>11, <1>12
  <2> QED
    BY <1>1, <2>1 DEF TransportInv, AskedFor, IsSentKeyframe
<1>14. retryPending' => \/ retryPending /\ retrySeq' = retrySeq
                        \/ RP!Closes
  <2>1. CASE RP!Refuse(d)
    BY <1>1, <2>1, RP!RefuseStep, ReceiverFits, MaxPayloadAssumption
  <2>2. CASE RP!StoreSlice(d) \/ RP!StoreParity(d)
    <3>1. RP!Shows(d) \/ RP!GoesOn(d)
      BY <1>1, <2>2, RP!StoreStep, ReceiverFits, MaxPayloadAssumption
    <3> QED
      BY <3>1 DEF RP!Shows, RP!GoesOn
  <2> QED
    BY <1>3, <2>1, <2>2
<1>15. RequestsMeetRetries'
  <2>1. GateAwaitsAKeyframe'
    <3>1. CASE retryPending /\ retrySeq' = retrySeq
      BY <1>1, <3>1 DEF TransportInv, RequestsMeetRetries, GateAwaitsAKeyframe
    <3>2. CASE RP!Closes
      <4>1. /\ retrySeq' = active.seq
            /\ incomplete' = [seq |-> active.seq, keyframe |-> TRUE, isNew |-> TRUE]
            /\ IsSentKeyframe(active.seq)
        BY <1>12, <3>2 DEF RP!Closes
      <4> QED
        BY <1>1, <4>1 DEF GateAwaitsAKeyframe, IsSentKeyframe
    <3> QED
      BY <1>14, <3>1, <3>2 DEF GateAwaitsAKeyframe
  <2> QED
    BY <1>1, <2>1 DEF TransportInv, RequestsMeetRetries, RetryOnlyOnRequest, Sender!IsRetry
<1> QED
  BY <1>4, <1>5, <1>10, <1>13, <1>15 DEF TransportInv

(* Every step of the two halves, the network and the adapter keeps the     *)
(* invariant.                                                              *)
LEMMA NextTransport == TransportInv /\ [Next]_vars => TransportInv'
<1> SUFFICES ASSUME TransportInv, [Next]_vars PROVE TransportInv'
  OBVIOUS
<1>1. CASE UNCHANGED vars
  <2>1. UNCHANGED << senderVars, receiverVars, nacks >>
    BY <1>1 DEF vars
  <2>2. SP!IInv' /\ AtHand'
    BY <2>1, SenderRests
  <2>3. RP!IInv'
    BY <2>1, ReceiverRests DEF TransportInv
  <2>4. UNCHANGED << pc, cache, pending, sent, latest, active, received, groups, staging, retryPending,
                     retrySeq, incomplete, nacks >>
    BY <2>1 DEF senderVars, receiverVars
  <2>5. ServedAsSent'
    BY <2>4 DEF TransportInv, ServedAsSent, IsSent, RP!Staged, RP!Shown, RP!HoldsOf
  <2>6. AskedFor' /\ RequestsMeetRetries'
    BY <2>4 DEF TransportInv, AskedFor, IsSentKeyframe, RequestsMeetRetries,
      GateAwaitsAKeyframe, RetryOnlyOnRequest, Sender!IsRetry
  <2> QED
    BY <2>2, <2>3, <2>5, <2>6 DEF TransportInv
<1> QED
  BY <1>1, SenderKeeps, NackKeeps, EnableKeeps, ReportKeeps, DeliverKeeps DEF Next

(* The inductive invariant of the two halves together.                     *)
THEOREM TransportInvariant == Spec => []TransportInv
BY InitTransport, NextTransport, PTL DEF Spec

(* End to end: what is shown under a number is, bit for bit, the frame     *)
(* that was encoded under that number.                                     *)
THEOREM ShownIsEncoded == Spec => []ShownAsEncoded
<1>1. TransportInv => ShownAsEncoded
  <2> SUFFICES ASSUME TransportInv, latest.size # 0
               PROVE  \E i \in DOMAIN sent :
                        LET f == sent[i].frame
                        IN  /\ f.seq = latest.seq /\ f.size = latest.size /\ f.keyframe = latest.keyframe
                            /\ latest.data = [c \in 0 .. ChunkCount(f.size) - 1 |-> ChunkBytes(f, c)]
    BY DEF ShownAsEncoded
  <2>1. PICK i \in DOMAIN sent : sent[i].frame.seq = latest.seq
    BY DEF TransportInv, ServedAsSent, IsSent
  <2> DEFINE f == sent[i].frame
  <2>2. RP!Shown(f, Nat) /\ f.seq = latest.seq
    BY <2>1 DEF TransportInv, ServedAsSent
  <2> HIDE DEF f
  <2>3. /\ f.size = latest.size /\ f.keyframe = latest.keyframe
        /\ latest.data = [c \in 0 .. RP!ChunkCount(f.size) - 1 |-> RP!ChunkBytes(f, c)]
    BY <2>2, SizesAreNumbers DEF RP!Shown
  <2>4. [c \in 0 .. RP!ChunkCount(f.size) - 1 |-> RP!ChunkBytes(f, c)]
          = [c \in 0 .. ChunkCount(f.size) - 1 |-> ChunkBytes(f, c)]
    BY SameChunks, SameBytes
  <2> QED
    BY <2>2, <2>3, <2>4 DEF f
<1> QED
  BY <1>1, TransportInvariant, PTL

(* The gate waits for a keyframe that was sent and asked for, and nothing  *)
(* is sent again unasked.                                                  *)
THEOREM RequestsMeet == Spec => []RequestsMeetRetries
<1>1. TransportInv => RequestsMeetRetries
  BY DEF TransportInv
<1> QED
  BY <1>1, TransportInvariant, PTL

-----------------------------------------------------------------------------
(* What is owed.  A receiver that is too small for a keyframe refuses it   *)
(* after the gate has been opened for it (GateYieldsToKeyframes), so what  *)
(* follows is about receivers dimensioned for the sender's frames.         *)
Fits == \A size \in KeySizes \cup InterSizes : size <= MaxFrameSize

GateInv == NotedIsPast /\ BoundAsSent /\ OwedIsAwaited

(* Every frame that may be sent can be started. *)
LEMMA ChunksFit ==
  ASSUME Fits, NEW f \in Frames
  PROVE  /\ f.size \in 1 .. MaxFrameSize
         /\ ChunkCount(f.size) \in Nat /\ ChunkCount(f.size) > 0
         /\ RP!MaxChunks \in Nat
         /\ ChunkCount(f.size) <= RP!MaxChunks
<1> DEFINE n == ChunkCount(f.size)
           m == RP!MaxChunks
<1>1. f.size \in Nat /\ f.size > 0 /\ f.size <= MaxFrameSize /\ MaxFrameSize \in Nat /\ MaxFrameSize > 0
  <2>1. f.size \in KeySizes \cup InterSizes /\ f.size \in Nat /\ f.size > 0
    BY FrameTypes
  <2>2. f.size <= MaxFrameSize
    BY <2>1, Zenon DEF Fits
  <2> QED
    BY <2>1, <2>2, TransportAssumption
<1>2. /\ RP!ChunkCount(f.size) \in Nat /\ RP!ChunkCount(f.size) > 0
      /\ (RP!ChunkCount(f.size) - 1) * MaxPayload < f.size
  BY <1>1, RP!ChunkCountFacts, ReceiverFits, MaxPayloadAssumption
<1>3. m \in Nat /\ MaxFrameSize <= m * MaxPayload
  BY <1>1, RP!ChunkCountFacts, ReceiverFits, MaxPayloadAssumption DEF RP!MaxChunks
<1>4. n \in Nat /\ n > 0 /\ (n - 1) * MaxPayload < f.size
  BY <1>2, SameChunks
<1> HIDE DEF n, m
<1>5. MaxPayload \in Nat /\ MaxPayload > 0
  BY MaxPayloadAssumption
<1>6. (n - 1) * MaxPayload < m * MaxPayload
  <2>1. (n - 1) * MaxPayload \in Int /\ m * MaxPayload \in Int
    BY <1>3, <1>4, <1>5
  <2> QED
    BY <1>1, <1>3, <1>4, <2>1
<1>7. ASSUME n > m PROVE FALSE
  <2>1. PICK k \in Nat : n - 1 = m + k
    <3>1. n - 1 - m \in Nat /\ n - 1 = m + (n - 1 - m)
      BY <1>3, <1>4, <1>7
    <3> QED
      BY <3>1
  <2>2. (m + k) * MaxPayload = m * MaxPayload + k * MaxPayload
    BY <1>3, <1>5
  <2>3. k * MaxPayload \in Nat /\ m * MaxPayload \in Nat
    BY <1>3, <1>5
  <2> QED
    BY <1>6, <2>1, <2>2, <2>3
<1> QED
  BY <1>1, <1>3, <1>4, <1>7 DEF n, m

(* While no retry is awaited, the frame under assembly has come in one     *)
(* layout only.                                                            *)
LEMMA OneLayout ==
  ASSUME TransportInv, NotedIsPast, active.valid, ~retryPending,
         NEW i \in DOMAIN sent, NEW k \in DOMAIN sent,
         sent[i].frame.seq = active.seq, sent[k].frame.seq = active.seq
  PROVE  sent[i].frame = sent[k].frame
<1>1. active.seq \in Nat /\ latest.seq \in Nat /\ RP!ActiveIsNewer
  BY DEF TransportInv, RP!IInv, RP!TypeOK, RP!FrameHeader
<1>2. active.seq \notin nacks
  BY <1>1 DEF NotedIsPast, Noted, RP!ActiveIsNewer
<1>3. ~SP!IsRetry(sent[i]) /\ ~SP!IsRetry(sent[k])
  BY <1>2 DEF TransportInv, RequestsMeetRetries, RetryOnlyOnRequest, SP!IsRetry, SP!Uniform,
    Sender!IsRetry, Sender!Uniform
<1> QED
  BY <1>3, OneFramePerNumber DEF TransportInv

(* Only a datagram of the awaited retry can be refused.                    *)
LEMMA RefuseOnlyAwaited ==
  ASSUME Fits, TransportInv, NotedIsPast, BoundAsSent, NEW d \in InFlight, Deliver(d), RP!Refuse(d)
  PROVE  /\ retryPending /\ ~RP!AcceptingNewerKeyframe(d)
         /\ active.valid /\ d.seq = active.seq
<1>1. PICK i \in DOMAIN sent : sent[i].frame \in Frames /\ IsOf(d, sent[i].frame)
  BY DeliverFacts
<1> DEFINE f == sent[i].frame
<1>2. /\ f.size \in 1 .. MaxFrameSize
      /\ ChunkCount(f.size) \in Nat /\ ChunkCount(f.size) > 0
      /\ RP!MaxChunks \in Nat
      /\ ChunkCount(f.size) <= RP!MaxChunks
  BY <1>1, ChunksFit
<1>3. /\ d.size = f.size /\ d.chunks = ChunkCount(f.size) /\ RP!Placed(d)
      /\ d.group \in Nat /\ 2 * d.group < ChunkCount(f.size) /\ d.seq = f.seq
      /\ RP!BaseIndex(d) = GroupBase(f)[d.group]
      /\ d.groupSize = GroupSize(f, RP!BaseIndex(d))
  BY <1>1, SameChunks DEF IsOf, RP!Brings
<1>4. ~(RP!Consistent(d) /\ RP!WellPlaced(d)) /\ RP!Admitted(d)
  BY DEF RP!Refuse
<1>5. RP!Staged(f, Nat)
  BY DEF TransportInv, ServedAsSent
<1> HIDE DEF f
<1>6. d.group < RP!MaxGroups
  BY <1>2, <1>3 DEF RP!MaxGroups
<1>7. d.group \in RP!GroupIds
  <2>1. RP!MaxGroups \in Int
    BY <1>2 DEF RP!MaxGroups
  <2> QED
    BY <1>3, <1>6, <2>1 DEF RP!GroupIds
<1>8. ASSUME RP!Opens(d) PROVE FALSE
  <2>1. RP!Consistent(d)
    BY <1>2, <1>3, <1>8, SameChunks DEF RP!Consistent, RP!Startable
  <2>2. ~RP!Bound(d)[d.group].known
    BY <1>7, <1>8 DEF RP!Bound, RP!NoGroups, RP!Unbound
  <2> QED
    BY <1>3, <1>4, <1>6, <2>1, <2>2 DEF RP!WellPlaced, RP!Binds
<1>9. active.valid /\ d.seq = active.seq /\ ~RP!Opens(d)
  BY <1>8 DEF RP!Opens, RP!Supersedes
<1>10. RP!Consistent(d)
  BY <1>3, <1>5, <1>9, SameChunks, SizesAreNumbers DEF RP!Consistent, RP!Staged
<1>11. ASSUME ~retryPending PROVE FALSE
  <2>1. ~RP!Binds(d)
    BY <1>3, <1>4, <1>10 DEF RP!WellPlaced
  <2>2. groups[d.group].known /\ ~(groups[d.group].base = RP!BaseIndex(d)
                                     /\ groups[d.group].size = d.groupSize)
    BY <1>6, <1>9, <2>1 DEF RP!Binds, RP!Bound
  <2>3. PICK k \in DOMAIN sent :
          /\ sent[k].frame.seq = active.seq
          /\ groups[d.group].base = GroupBase(sent[k].frame)[d.group]
          /\ groups[d.group].size = GroupSize(sent[k].frame, groups[d.group].base)
    BY <1>7, <2>2 DEF BoundAsSent
  <2>4. sent[k].frame = f
    BY <1>3, <1>9, <1>11, <2>3, OneLayout DEF f
  <2> QED
    BY <1>3, <2>2, <2>3, <2>4
<1>12. retryPending /\ ~RP!AcceptingNewerKeyframe(d)
  <2>1. retryPending
    BY <1>11
  <2>2. active.seq = retrySeq /\ retrySeq \in Nat
    BY <1>9, <2>1 DEF TransportInv, RP!IInv, RP!GateIsExclusive, RP!TypeOK
  <2> QED
    BY <1>9, <2>1, <2>2 DEF RP!AcceptingNewerKeyframe, RP!IsNewerNaturalKeyframe
<1> QED
  BY <1>9, <1>12

(* So the gate outlives a refusal. *)
LEMMA RefuseKeepsGate ==
  ASSUME Fits, TransportInv, NotedIsPast, BoundAsSent, NEW d \in InFlight, Deliver(d), RP!Refuse(d)
  PROVE  /\ UNCHANGED << latest, retryEnabled, retryPending, retrySeq, incomplete >>
         /\ retryPending /\ active.valid /\ active.seq = retrySeq
         /\ active' = RP!Idle /\ groups' = RP!NoGroups
<1>1. retryPending /\ ~RP!AcceptingNewerKeyframe(d) /\ active.valid /\ d.seq = active.seq
  BY RefuseOnlyAwaited
<1>2. retryPending = TRUE
  BY <1>1 DEF TransportInv, RP!IInv, RP!TypeOK
<1>3. RP!PassGate(d) /\ RP!NoteIncomplete(d) /\ RP!ResetActive /\ latest' = latest
  BY DEF RP!Refuse
<1>4. active.seq = retrySeq
  BY <1>1 DEF TransportInv, RP!IInv, RP!GateIsExclusive
<1> QED
  BY <1>1, <1>2, <1>3, <1>4 DEF RP!PassGate, RP!NoteIncomplete, RP!Supersedes, RP!ResetActive

(* What a datagram that finds its place says of order.                     *)
LEMMA PlacedIsNewer ==
  ASSUME TransportInv, NEW d \in InFlight, Deliver(d), RP!StoreSlice(d) \/ RP!StoreParity(d)
  PROVE  /\ RP!Shows(d) \/ RP!GoesOn(d)
         /\ d.seq \in Nat /\ active.seq \in Nat /\ latest.seq \in Nat /\ retrySeq \in Nat
         /\ active.keyframe \in BOOLEAN /\ retryPending \in BOOLEAN
         /\ active.valid => d.seq >= active.seq
         /\ latest.size # 0 => d.seq > latest.seq
         /\ retryEnabled' = retryEnabled
         /\ ~RP!ClosesGate(d)
         /\ IF RP!Supersedes(d)
            THEN incomplete' = [seq |-> active.seq, keyframe |-> active.keyframe, isNew |-> TRUE]
            ELSE incomplete' = incomplete
<1>1. d \in AllDatagrams /\ RP!IInv
  BY DeliverFacts
<1>2. d.seq \in Nat /\ (RP!Shows(d) \/ RP!GoesOn(d))
  BY <1>1, RP!StoreStep, ReceiverFits, MaxPayloadAssumption
<1>3. /\ active.seq \in Nat /\ latest.seq \in Nat /\ retrySeq \in Nat
      /\ active.keyframe \in BOOLEAN /\ retryPending \in BOOLEAN
  BY <1>1 DEF RP!IInv, RP!TypeOK, RP!FrameHeader
<1>4. /\ retryEnabled' = retryEnabled
      /\ RP!Admitted(d) /\ ~RP!ClosesGate(d)
      /\ IF RP!Supersedes(d)
         THEN incomplete' = [seq |-> active.seq, keyframe |-> active.keyframe, isNew |-> TRUE]
         ELSE incomplete' = incomplete
  BY <1>1, RP!NoteOutcome, ReceiverFits, MaxPayloadAssumption
<1>5. (active.valid => d.seq >= active.seq) /\ (latest.size # 0 => d.seq > latest.seq)
  BY <1>2, <1>3, <1>4 DEF RP!Admitted, RP!Stale
<1> QED
  BY <1>2, <1>3, <1>4, <1>5

(* What has been noted are numbers of frames.                              *)
LEMMA NackTypes ==
  ASSUME TransportInv
  PROVE  \A n \in Noted : n \in Nat
<1>1. ASSUME NEW n, IsSentKeyframe(n) PROVE n \in Nat
  <2>1. PICK i \in DOMAIN sent : sent[i].frame.seq = n
    BY <1>1 DEF IsSentKeyframe
  <2>2. sent[i].frame \in Frames
    BY DEF TransportInv, AtHand
  <2> QED
    BY <2>1, <2>2, FrameTypes
<1> QED
  BY <1>1 DEF TransportInv, AskedFor, Noted

-----------------------------------------------------------------------------
(* What has been noted stays past: what comes next in assembly is newer.   *)
LEMMA DeliverKeepsPast ==
  ASSUME Fits, TransportInv, NotedIsPast, BoundAsSent, NEW d \in InFlight, Deliver(d)
  PROVE  NotedIsPast'
<1>1. /\ ~incomplete.isNew /\ nacks' = nacks
      /\ \/ UNCHANGED << latest, active, groups, incomplete, retryEnabled, retryPending, retrySeq >>
         \/ RP!Closes
         \/ RP!Refuse(d)
         \/ RP!StoreSlice(d) \/ RP!StoreParity(d)
  BY DeliverFacts
<1>2. Noted = nacks
  BY <1>1 DEF Noted
<1>3. ASSUME NEW n \in nacks
      PROVE  \/ latest.size # 0 /\ n <= latest.seq
             \/ retryPending /\ n <= retrySeq
             \/ active.valid /\ n < active.seq
  BY <1>2 DEF NotedIsPast
<1>4. \A n \in nacks : n \in Nat
  BY <1>2, NackTypes
<1>5. CASE UNCHANGED << latest, active, groups, incomplete, retryEnabled, retryPending, retrySeq >>
  BY <1>1, <1>5 DEF NotedIsPast, Noted
<1>6. CASE RP!Closes
  <2>1. /\ active.valid /\ ~retryPending /\ retryPending' /\ retrySeq' = active.seq
        /\ latest' = latest /\ active.seq \in Nat
        /\ incomplete' = [seq |-> active.seq, keyframe |-> TRUE, isNew |-> TRUE]
    BY <1>6 DEF RP!Closes, TransportInv, RP!IInv, RP!TypeOK, RP!FrameHeader
  <2>2. ASSUME NEW n \in Noted'
        PROVE  (latest'.size # 0 /\ n <= latest'.seq) \/ (retryPending' /\ n <= retrySeq')
    <3>1. n \in nacks \/ n = active.seq
      BY <1>1, <2>1 DEF Noted
    <3>2. CASE n \in nacks
      BY <1>3, <1>4, <2>1, <3>2
    <3>3. CASE n = active.seq
      BY <2>1, <3>3
    <3> QED
      BY <3>1, <3>2, <3>3
  <2> QED
    BY <2>2 DEF NotedIsPast
<1>7. CASE RP!Refuse(d)
  <2>1. /\ UNCHANGED << latest, retryPending, retrySeq, incomplete >>
        /\ retryPending /\ active.seq = retrySeq
    BY <1>7, RefuseKeepsGate
  <2>2. Noted' = nacks /\ retrySeq \in Nat
    BY <1>1, <2>1 DEF Noted, TransportInv, RP!IInv, RP!TypeOK
  <2>3. ASSUME NEW n \in nacks
        PROVE  (latest'.size # 0 /\ n <= latest'.seq) \/ (retryPending' /\ n <= retrySeq')
    BY <1>3, <1>4, <2>1, <2>2
  <2> QED
    BY <2>2, <2>3 DEF NotedIsPast
<1>8. CASE RP!StoreSlice(d) \/ RP!StoreParity(d)
  <2>1. /\ RP!Shows(d) \/ RP!GoesOn(d)
        /\ d.seq \in Nat /\ active.seq \in Nat /\ latest.seq \in Nat /\ retrySeq \in Nat
        /\ active.valid => d.seq >= active.seq
        /\ latest.size # 0 => d.seq > latest.seq
        /\ IF RP!Supersedes(d)
           THEN incomplete' = [seq |-> active.seq, keyframe |-> active.keyframe, isNew |-> TRUE]
           ELSE incomplete' = incomplete
    BY <1>8, PlacedIsNewer
  <2>2. ASSUME NEW n \in Noted'
        PROVE  \/ n \in nacks
               \/ active.valid /\ n = active.seq /\ n < d.seq
    <3>1. CASE RP!Supersedes(d)
      <4>1. active.valid /\ active.seq < d.seq
        BY <2>1, <3>1 DEF RP!Supersedes
      <4>2. n \in nacks \/ n = active.seq
        BY <1>1, <2>1, <3>1 DEF Noted
      <4> QED
        BY <4>1, <4>2
    <3>2. CASE ~RP!Supersedes(d)
      BY <1>1, <2>1, <3>2 DEF Noted
    <3> QED
      BY <3>1, <3>2
  <2>3. ASSUME NEW n \in Noted'
        PROVE  \/ latest'.size # 0 /\ n <= latest'.seq
               \/ retryPending' /\ n <= retrySeq'
               \/ active'.valid /\ n < active'.seq
    <3>1. /\ n \in Nat
          /\ \/ latest.size # 0 /\ n <= latest.seq
             \/ retryPending /\ n <= retrySeq
             \/ active.valid /\ n < active.seq
             \/ n < d.seq
      BY <1>3, <1>4, <2>1, <2>2
    <3>2. CASE RP!Shows(d)
      <4>1. latest'.size # 0 /\ latest'.seq = d.seq /\ (retryPending => d.seq >= retrySeq)
        BY <3>2 DEF RP!Shows
      <4> QED
        BY <2>1, <3>1, <4>1
    <3>3. CASE RP!GoesOn(d)
      <4>1. /\ latest' = latest /\ active'.valid /\ active'.seq = d.seq
            /\ \/ retryPending' = retryPending /\ retrySeq' = retrySeq
               \/ active'.seq > retrySeq
        BY <3>3 DEF RP!GoesOn
      <4> QED
        BY <2>1, <3>1, <4>1
    <3> QED
      BY <2>1, <3>2, <3>3
  <2> QED
    BY <2>3 DEF NotedIsPast
<1> QED
  BY <1>1, <1>5, <1>6, <1>7, <1>8

(* The groups the receiver knows are groups of what was sent.              *)
LEMMA DeliverKeepsBindings ==
  ASSUME TransportInv, BoundAsSent, NEW d \in InFlight, Deliver(d)
  PROVE  BoundAsSent'
<1>1. /\ sent' = sent
      /\ \/ UNCHANGED << latest, active, groups, incomplete, retryEnabled, retryPending, retrySeq >>
         \/ RP!Closes
         \/ RP!Refuse(d)
         \/ RP!StoreSlice(d) \/ RP!StoreParity(d)
  BY DeliverFacts
<1>2. PICK i \in DOMAIN sent : sent[i].frame \in Frames /\ IsOf(d, sent[i].frame)
  BY DeliverFacts
<1>3. CASE UNCHANGED << active, groups >>
  BY <1>1, <1>3 DEF BoundAsSent
<1>4. CASE groups' = RP!NoGroups
  <2>1. \A g \in RP!GroupIds : ~groups'[g].known
    BY <1>4 DEF RP!NoGroups, RP!Unbound
  <2> QED
    BY <2>1 DEF BoundAsSent
<1>5. CASE RP!GoesOn(d)
  <2>1. active'.seq = d.seq /\ RP!Bindings(d, groups')
    BY <1>5 DEF RP!GoesOn
  <2>2. groups \in [RP!GroupIds -> RP!GroupState]
    BY DEF TransportInv, RP!IInv, RP!TypeOK
  <2>3. RP!Bound(d) \in [RP!GroupIds -> RP!GroupState] \/ RP!Bound(d) = RP!NoGroups
    BY <2>2 DEF RP!Bound
  <2>4. ASSUME NEW g \in RP!GroupIds, groups'[g].known
        PROVE  \E k \in DOMAIN sent :
                 LET f == sent[k].frame
                 IN  /\ f.seq = active'.seq
                     /\ groups'[g].base = GroupBase(f)[g]
                     /\ groups'[g].size = GroupSize(f, groups'[g].base)
    <3>1. /\ RP!BoundGroups(d)[g].known
          /\ groups'[g].base = RP!BoundGroups(d)[g].base
          /\ groups'[g].size = RP!BoundGroups(d)[g].size
      BY <2>1, <2>4 DEF RP!Bindings
    <3>2. CASE g = d.group
      <4>1. RP!BoundGroups(d)[g].base = RP!BaseIndex(d) /\ RP!BoundGroups(d)[g].size = d.groupSize
        <5>1. CASE RP!Bound(d) \in [RP!GroupIds -> RP!GroupState]
          BY <3>2, <5>1 DEF RP!BoundGroups, RP!GroupState
        <5>2. CASE RP!Bound(d) = RP!NoGroups
          BY <3>2, <5>2 DEF RP!BoundGroups, RP!NoGroups, RP!Unbound
        <5> QED
          BY <2>3, <5>1, <5>2
      <4>2. /\ d.seq = sent[i].frame.seq
            /\ RP!BaseIndex(d) = GroupBase(sent[i].frame)[g]
            /\ d.groupSize = GroupSize(sent[i].frame, RP!BaseIndex(d))
        BY <1>2, <3>2 DEF IsOf
      <4> QED
        BY <2>1, <3>1, <4>1, <4>2
    <3>3. CASE g # d.group
      <4>1. RP!BoundGroups(d)[g] = RP!Bound(d)[g]
        <5>1. DOMAIN RP!Bound(d) = RP!GroupIds
          BY <2>3 DEF RP!NoGroups
        <5> QED
          BY <3>3, <5>1 DEF RP!BoundGroups
      <4>2. ~RP!Opens(d)
        <5>1. RP!Opens(d) => ~RP!Bound(d)[g].known
          BY DEF RP!Bound, RP!NoGroups, RP!Unbound
        <5> QED
          BY <3>1, <4>1, <5>1
      <4>3. active.seq = d.seq /\ groups[g].known
            /\ groups'[g].base = groups[g].base /\ groups'[g].size = groups[g].size
        BY <3>1, <4>1, <4>2 DEF RP!Opens, RP!Supersedes, RP!Bound
      <4> QED
        BY <2>1, <4>3 DEF BoundAsSent
    <3> QED
      BY <3>2, <3>3
  <2> QED
    BY <1>1, <2>4 DEF BoundAsSent
<1>6. \/ UNCHANGED << active, groups >>
      \/ groups' = RP!NoGroups
      \/ RP!GoesOn(d)
  <2>1. RP!Closes \/ RP!Refuse(d) => groups' = RP!NoGroups
    BY DEF RP!Closes, RP!Refuse, RP!ResetActive
  <2>2. RP!StoreSlice(d) \/ RP!StoreParity(d) => groups' = RP!NoGroups \/ RP!GoesOn(d)
    BY PlacedIsNewer DEF RP!Shows
  <2> QED
    BY <1>1, <2>1, <2>2
<1> QED
  BY <1>3, <1>4, <1>5, <1>6

(* An owed keyframe is awaited until a newer one takes its place.          *)
LEMMA DeliverKeepsOwed ==
  ASSUME Fits, TransportInv, GateInv, NEW d \in InFlight, Deliver(d)
  PROVE  OwedIsAwaited'
<1>1. \/ UNCHANGED << latest, active, groups, incomplete, retryEnabled, retryPending, retrySeq >>
      \/ RP!Closes
      \/ RP!Refuse(d)
      \/ RP!StoreSlice(d) \/ RP!StoreParity(d)
  BY DeliverFacts
<1>2. owed' = IF latest' # latest /\ latest'.keyframe /\ latest'.seq >= owed THEN -1
              ELSE IF retryPending' /\ ~retryPending THEN retrySeq'
              ELSE owed
  BY DEF Deliver
<1>3. /\ active.seq \in Nat /\ latest.seq \in Nat /\ retrySeq \in Nat
      /\ active.keyframe \in BOOLEAN /\ retryPending \in BOOLEAN
      /\ active.valid /\ latest.size # 0 => active.seq > latest.seq
  BY DEF TransportInv, RP!IInv, RP!TypeOK, RP!FrameHeader, RP!ActiveIsNewer
<1>4. owed # -1 =>
        /\ retryEnabled
        /\ owed \in Nat
        /\ latest.size # 0 => latest.seq < owed
        /\ retryPending => retrySeq = owed
        /\ ~retryPending => active.valid /\ active.keyframe /\ active.seq > owed
  BY DEF GateInv, OwedIsAwaited
<1>5. CASE UNCHANGED << latest, active, groups, incomplete, retryEnabled, retryPending, retrySeq >>
  <2>1. owed' = owed
    BY <1>2, <1>5
  <2> QED
    BY <1>4, <1>5, <2>1 DEF OwedIsAwaited
<1>6. CASE RP!Closes
  <2>1. /\ active.valid /\ retryEnabled /\ ~retryPending /\ retryPending' /\ retrySeq' = active.seq
        /\ latest' = latest /\ retryEnabled' = retryEnabled
    BY <1>6 DEF RP!Closes
  <2>2. owed' = active.seq
    BY <1>2, <2>1
  <2> QED
    BY <1>3, <2>1, <2>2 DEF OwedIsAwaited
<1>7. CASE RP!Refuse(d)
  <2>1. UNCHANGED << latest, retryEnabled, retryPending, retrySeq >> /\ retryPending
    BY <1>7, RefuseKeepsGate DEF GateInv
  <2>2. owed' = owed
    BY <1>2, <2>1
  <2> QED
    BY <1>4, <2>1, <2>2 DEF OwedIsAwaited
<1>8. CASE RP!StoreSlice(d) \/ RP!StoreParity(d)
  <2>1. /\ RP!Shows(d) \/ RP!GoesOn(d)
        /\ d.seq \in Nat
        /\ latest.size # 0 => d.seq > latest.seq
        /\ retryEnabled' = retryEnabled
        /\ ~RP!ClosesGate(d)
    BY <1>8, PlacedIsNewer
  <2>2. owed # -1 /\ ~retryPending => RP!Frame(d) = active /\ d.seq = active.seq
    <3>1. SUFFICES ASSUME owed # -1, ~retryPending PROVE RP!Frame(d) = active /\ d.seq = active.seq
      OBVIOUS
    <3>2. active.valid /\ active.keyframe /\ retryEnabled
      BY <1>4, <3>1
    <3>3. ~RP!Supersedes(d)
      BY <2>1, <3>1, <3>2 DEF RP!ClosesGate, RP!AcceptingNewerKeyframe
    <3> QED
      BY <3>2, <3>3 DEF RP!Frame, RP!Opens, RP!Supersedes
  <2>3. CASE RP!Shows(d)
    <3>1. /\ latest'.size # 0 /\ latest'.seq = d.seq /\ ~retryPending'
          /\ latest'.keyframe = RP!Frame(d).keyframe
          /\ retryPending => latest'.keyframe /\ d.seq >= retrySeq
      BY <2>3 DEF RP!Shows
    <3>2. latest' # latest
      BY <1>3, <2>1, <3>1
    <3>3. owed # -1 => latest'.keyframe /\ latest'.seq >= owed
      BY <1>3, <1>4, <2>1, <2>2, <3>1
    <3>4. owed' = -1
      BY <1>2, <3>1, <3>2, <3>3
    <3> QED
      BY <3>4 DEF OwedIsAwaited
  <2>4. CASE RP!GoesOn(d)
    <3>1. /\ latest' = latest /\ active' = RP!Frame(d) /\ active'.valid
          /\ \/ retryPending' = retryPending /\ retrySeq' = retrySeq
             \/ retryPending' = FALSE /\ active'.keyframe /\ active'.seq > retrySeq
      BY <2>4 DEF RP!GoesOn
    <3>2. owed' = owed
      BY <1>2, <3>1
    <3>3. CASE retryPending' = retryPending /\ retrySeq' = retrySeq
      BY <1>3, <1>4, <2>1, <2>2, <3>1, <3>2, <3>3 DEF OwedIsAwaited
    <3>4. CASE retryPending' = FALSE /\ active'.keyframe /\ active'.seq > retrySeq
      <4>1. CASE retryPending
        BY <1>3, <1>4, <2>1, <3>1, <3>2, <3>4, <4>1 DEF OwedIsAwaited
      <4>2. CASE ~retryPending
        BY <1>3, <1>4, <2>1, <2>2, <3>1, <3>2, <3>4, <4>2 DEF OwedIsAwaited
      <4> QED
        BY <4>1, <4>2
    <3> QED
      BY <3>1, <3>3, <3>4
  <2> QED
    BY <2>1, <2>3, <2>4
<1> QED
  BY <1>1, <1>5, <1>6, <1>7, <1>8

(* Every step keeps the gate's bookkeeping. *)
LEMMA NextGate ==
  ASSUME Fits
  PROVE  TransportInv /\ GateInv /\ [Next]_vars => GateInv'
<1> SUFFICES ASSUME TransportInv, GateInv, [Next]_vars PROVE GateInv'
  OBVIOUS
<1>1. ASSUME UNCHANGED << latest, active, groups, incomplete, retryPending, retrySeq, nacks, owed >>,
             retryEnabled => retryEnabled',
             \A i \in DOMAIN sent : i \in DOMAIN sent' /\ sent'[i] = sent[i]
      PROVE  GateInv'
  <2>1. NotedIsPast'
    BY <1>1 DEF GateInv, NotedIsPast, Noted
  <2>2. BoundAsSent'
    <3>1. ASSUME NEW g \in RP!GroupIds, groups[g].known
          PROVE  \E i \in DOMAIN sent' :
                   LET f == sent'[i].frame
                   IN  /\ f.seq = active.seq
                       /\ groups[g].base = GroupBase(f)[g]
                       /\ groups[g].size = GroupSize(f, groups[g].base)
      <4>1. PICK i \in DOMAIN sent :
              /\ sent[i].frame.seq = active.seq
              /\ groups[g].base = GroupBase(sent[i].frame)[g]
              /\ groups[g].size = GroupSize(sent[i].frame, groups[g].base)
        BY <3>1 DEF GateInv, BoundAsSent
      <4>2. i \in DOMAIN sent' /\ sent'[i] = sent[i]
        BY <1>1
      <4> QED
        BY <4>1, <4>2
    <3> QED
      BY <1>1, <3>1 DEF BoundAsSent
  <2>3. OwedIsAwaited'
    BY <1>1 DEF GateInv, OwedIsAwaited
  <2> QED
    BY <2>1, <2>2, <2>3 DEF GateInv
<1>2. CASE UNCHANGED vars
  BY <1>1, <1>2 DEF vars, senderVars, receiverVars
<1>3. CASE SenderStep
  <2>1. SP!IInv /\ AtHand /\ (Sender!Submit \/ Sender!Worker)
    BY <1>3 DEF SenderStep, TransportInv
  <2>2. sent' = sent \/ \E frame \in Frames : Sends(frame)
    <3>1. ASSUME NEW f \in AllFrames PROVE f \in Frames /\ Sender!Dense(f) \in Frames
      BY DEF Frames
    <3> QED
      BY <2>1, <3>1, SenderOutcome
  <2>3. \A i \in DOMAIN sent : i \in DOMAIN sent' /\ sent'[i] = sent[i]
    BY <2>1, <2>2, SendsAppends
  <2> QED
    BY <1>1, <1>3, <2>3 DEF SenderStep, receiverVars
<1>4. CASE EnableRetry
  <2>1. /\ retryEnabled' = TRUE /\ retryPending' = (retryPending /\ TRUE) /\ retrySeq' = retrySeq
        /\ UNCHANGED << latest, active, groups, incomplete, nacks, owed, sent >>
    BY <1>4 DEF EnableRetry, Receiver!SetKeyframeRetryEnabled, Receiver!frameVars, senderVars
  <2>2. retryPending \in BOOLEAN
    BY DEF TransportInv, RP!IInv, RP!TypeOK
  <2> QED
    BY <1>1, <2>1, <2>2
<1>5. CASE NackArrives
  BY <1>1, <1>5 DEF NackArrives, Sender!ReceiveNack, receiverVars
<1>6. CASE Report
  <2>1. /\ incomplete.isNew /\ incomplete' = [incomplete EXCEPT !.isNew = FALSE]
        /\ nacks' = IF incomplete.keyframe /\ retryEnabled THEN nacks \cup {incomplete.seq} ELSE nacks
        /\ UNCHANGED << latest, active, groups, retryEnabled, retryPending, retrySeq, owed, sent >>
    BY <1>6 DEF Report, senderVars
  <2>2. ~incomplete'.isNew
    BY <2>1 DEF TransportInv, RP!IInv, RP!TypeOK
  <2>3. \A n : n \in Noted' => n \in Noted
    BY <2>1, <2>2 DEF Noted
  <2>4. NotedIsPast'
    BY <2>1, <2>3 DEF GateInv, NotedIsPast
  <2>5. BoundAsSent' /\ OwedIsAwaited'
    BY <2>1 DEF GateInv, BoundAsSent, OwedIsAwaited
  <2> QED
    BY <2>4, <2>5 DEF GateInv
<1>7. CASE \E d \in InFlight : Deliver(d)
  BY <1>7, DeliverKeepsPast, DeliverKeepsBindings, DeliverKeepsOwed DEF GateInv
<1> QED
  BY <1>2, <1>3, <1>4, <1>5, <1>6, <1>7 DEF Next

(* At first nothing is noted, bound or owed.                               *)
LEMMA InitGate == Init => GateInv
<1> SUFFICES ASSUME Init PROVE GateInv
  OBVIOUS
<1>1. nacks = {} /\ owed = -1 /\ RP!Init
  BY SameStart DEF Init
<1>2. ~incomplete.isNew /\ groups = RP!NoGroups
  BY <1>1 DEF RP!Init
<1>3. NotedIsPast
  BY <1>1, <1>2 DEF NotedIsPast, Noted
<1>4. BoundAsSent
  BY <1>2 DEF BoundAsSent, RP!NoGroups, RP!Unbound
<1>5. OwedIsAwaited
  BY <1>1 DEF OwedIsAwaited
<1> QED
  BY <1>3, <1>4, <1>5 DEF GateInv

(* R14.2, end to end: from the moment a keyframe is given up until it or a *)
(* newer one is shown, no interframe that follows it is shown, whatever    *)
(* the network loses, repeats or reorders and whenever the retry comes.    *)
THEOREM NothingShownWhileOwed ==
  ASSUME Fits
  PROVE  Spec => []NoInterframeWhileOwed
<1>1. TransportInv /\ GateInv /\ [Next]_vars => (TransportInv /\ GateInv)'
  BY NextTransport, NextGate
<1>2. Init => TransportInv /\ GateInv
  BY InitTransport, InitGate
<1>3. GateInv => NoInterframeWhileOwed
  BY DEF GateInv, OwedIsAwaited, NoInterframeWhileOwed
<1> QED
  BY <1>1, <1>2, <1>3, PTL DEF Spec

=============================================================================
