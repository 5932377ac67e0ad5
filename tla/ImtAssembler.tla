---------------------------- MODULE ImtAssembler ----------------------------
(***************************************************************************)
(* The receiving half of IMT (imt_assembler.c): datagrams arrive in any    *)
(* order, some twice, some never; the assembler rebuilds one frame at a    *)
(* time in a staging buffer, repairs single losses from parity, publishes  *)
(* complete frames and, when a keyframe is lost, closes a gate that only   *)
(* the retry of that keyframe or a newer keyframe may pass.                *)
(*                                                                         *)
(* imt_assembler_push_datagram is called by one thread, so each call is    *)
(* one step.  The statistics counters (drops, recoveries, completions) are *)
(* written only and never read here; they are left out, as are the capture *)
(* timestamp and the codec_config flag that travel with a frame.           *)
(***************************************************************************)
EXTENDS ImtLayout

CONSTANTS
  MaxFrameSize,   \* capacity of the staging buffer, in bytes
  MapCapacity,    \* tiles the stored importance map can hold
  Token,          \* names of frame bytes (see ImtLayout)
  Datagrams       \* the datagrams that may be pushed, already decoded

MaxChunks == ChunkCount(MaxFrameSize)

(* The smallest group holds two chunks, so this bounds the group ids. *)
MaxGroups == (MaxChunks + 1) \div 2

ChunkIds == 0 .. MaxChunks - 1
GroupIds == 0 .. MaxGroups - 1

Payload == Seq(SUBSET Token)

(* What a decoded header and its payload can be.  "INVALID" stands for     *)
(* everything imt_wire_decode_header refuses.  A MAP whose payload is too  *)
(* short for its own header is one with cols = 0.                          *)
VideoDatagram ==
  [type : {"SLICE", "PARITY"}, seq : Nat, keyframe : BOOLEAN, size : Nat,
   chunks : Nat, chunk : Nat, group : Nat, groupSize : Nat, index : Nat,
   payload : Payload]
MapDatagram == [type : {"MAP"}, seq : Nat, cols : Nat, rows : Nat, weights : Seq(0 .. 255)]
OtherDatagram == [type : {"KEYFRAME_NACK", "FEEDBACK", "INVALID"}]

ASSUME CapacityAssumption ==
  /\ MaxFrameSize \in Nat \ {0}
  /\ MapCapacity \in Nat \ {0}

ASSUME DatagramAssumption ==
  \A d \in Datagrams : d \in VideoDatagram \/ d \in MapDatagram \/ d \in OtherDatagram

VARIABLES
  latest,          \* the published frame; size = 0 before the first
  active,          \* header of the frame under assembly
  received,        \* the chunks of it that are present (received_chunks)
  chunksReceived,  \* active_chunks_received
  groups,          \* what is known of its FEC groups
  staging,         \* its bytes
  retryEnabled, retryPending, retrySeq,   \* the keyframe gate
  incomplete,      \* last_incomplete_*: the frame superseded while incomplete
  map              \* the last importance map and its dimensions

frameVars == << active, received, chunksReceived, groups, staging >>
gateVars  == << retryEnabled, retryPending, retrySeq >>
vars == << latest, frameVars, gateVars, incomplete, map >>

-----------------------------------------------------------------------------
NoFrame == [size |-> 0, seq |-> 0, keyframe |-> FALSE, data |-> << >>]
Idle    == [valid |-> FALSE, seq |-> 0, size |-> 0, chunks |-> 0, keyframe |-> FALSE]
Unbound == [known |-> FALSE, base |-> 0, size |-> 0, hasParity |-> FALSE, parity |-> << >>]

NoGroups == [g \in GroupIds |-> Unbound]
NoBytes  == [c \in ChunkIds |-> << >>]

Init ==
  /\ latest = NoFrame
  /\ active = Idle
  /\ received = {}
  /\ chunksReceived = 0
  /\ groups = NoGroups
  /\ staging = NoBytes
  /\ retryEnabled = FALSE
  /\ retryPending = FALSE
  /\ retrySeq = 0
  /\ incomplete = [seq |-> 0, keyframe |-> FALSE, isNew |-> FALSE]
  /\ map = [valid |-> FALSE, seq |-> 0, cols |-> 0, rows |-> 0,
            weights |-> [t \in 1 .. MapCapacity |-> 128]]

(* The bytes of an abandoned frame stay in the buffer; nothing reads a     *)
(* chunk that is not in received, so the model blanks them.                *)
ResetActive ==
  /\ active' = Idle
  /\ received' = {}
  /\ chunksReceived' = 0
  /\ groups' = NoGroups
  /\ staging' = NoBytes

(* Defect: switching the retry off leaves the gate closed. *)
SetEnabledOnly(enabled) ==
  /\ retryEnabled' = enabled
  /\ retrySeq' = IF enabled THEN retrySeq ELSE 0
  /\ UNCHANGED << latest, frameVars, incomplete, map, retryPending >>

SetKeyframeRetryEnabled(enabled) ==
  /\ retryEnabled' = enabled
  /\ retryPending' = (retryPending /\ enabled)
  /\ retrySeq' = IF enabled THEN retrySeq ELSE 0
  /\ UNCHANGED << latest, frameVars, incomplete, map >>

-----------------------------------------------------------------------------
(* Importance maps: stored whole, 0 read as 1, never replaced by an older. *)
TileCount(d) == d.cols * d.rows

MapWellFormed(d) ==
  /\ TileCount(d) \in 1 .. MapCapacity
  /\ Len(d.weights) = TileCount(d)

(* Defect: an older map replaces a newer one. *)
HandleAnyMap(d) ==
  /\ d.type = "MAP"
  /\ IF MapWellFormed(d)
     THEN map' = [valid |-> TRUE, seq |-> d.seq, cols |-> d.cols, rows |-> d.rows,
                  weights |-> [t \in 1 .. MapCapacity |->
                                 IF t > TileCount(d) THEN map.weights[t]
                                 ELSE IF d.weights[t] = 0 THEN 1 ELSE d.weights[t]]]
     ELSE UNCHANGED map
  /\ UNCHANGED << latest, frameVars, gateVars, incomplete >>

HandleMap(d) ==
  /\ d.type = "MAP"
  /\ IF MapWellFormed(d) /\ ~(map.valid /\ d.seq < map.seq)
     THEN map' = [valid |-> TRUE, seq |-> d.seq, cols |-> d.cols, rows |-> d.rows,
                  weights |-> [t \in 1 .. MapCapacity |->
                                 IF t > TileCount(d) THEN map.weights[t]
                                 ELSE IF d.weights[t] = 0 THEN 1 ELSE d.weights[t]]]
     ELSE UNCHANGED map
  /\ UNCHANGED << latest, frameVars, gateVars, incomplete >>

(* imt_assembler_get_map: the uniform fallback until a map has arrived. *)
MapView ==
  LET tiles == IF map.valid THEN map.cols * map.rows ELSE MapCapacity
  IN  [t \in 1 .. tiles |-> map.weights[t]]

(* Malformed headers and control packets never touch the video state. *)
IgnoreOther(d) ==
  /\ d.type \in {"KEYFRAME_NACK", "FEEDBACK", "INVALID"}
  /\ UNCHANGED vars

-----------------------------------------------------------------------------
(* The gate and the latest-wins rule, in the order the code applies them.  *)
IsVideo(d) == d.type \in {"SLICE", "PARITY"}

IsRequestedRetry(d)      == d.seq = retrySeq /\ d.keyframe
(* Defect: any newer frame counts as a newer keyframe. *)
IsNewerFrame(d) == d.seq > retrySeq

(* Defect: only the requested retry itself is waited for. *)
IsNobody(d) == d.seq > retrySeq /\ d.keyframe /\ d.type = "MAP"

IsNewerNaturalKeyframe(d) == d.seq > retrySeq /\ d.keyframe

(* Defect: the gate only stops frames older than the awaited keyframe. *)
GatedIfOlder(d) == retryPending /\ d.seq < retrySeq

Gated(d) == retryPending /\ ~IsRequestedRetry(d) /\ ~IsNewerNaturalKeyframe(d)

AcceptingNewerKeyframe(d) == retryPending /\ IsNewerNaturalKeyframe(d)

PassGate(d) ==
  /\ retryPending' = (retryPending /\ ~AcceptingNewerKeyframe(d))
  /\ retrySeq' = IF AcceptingNewerKeyframe(d) THEN 0 ELSE retrySeq
  /\ UNCHANGED retryEnabled

(* Defect: only the frame under assembly is compared with. *)
StaleIfAssembling(d) == active.valid /\ d.seq < active.seq

Stale(d) ==
  \/ latest.size # 0 /\ d.seq <= latest.seq
  \/ active.valid /\ d.seq < active.seq

Admitted(d) == IsVideo(d) /\ ~Gated(d) /\ ~Stale(d)

DropGated(d) ==
  /\ IsVideo(d) /\ Gated(d)
  /\ UNCHANGED vars

DropStale(d) ==
  /\ IsVideo(d) /\ ~Gated(d) /\ Stale(d)
  /\ PassGate(d)
  /\ UNCHANGED << latest, frameVars, incomplete, map >>

(* A frame is given up as soon as a datagram of a newer one is admitted. *)
Supersedes(d) == active.valid /\ d.seq # active.seq

(* Defect: the frame is noted after its header has been reset. *)
NoteAfterReset(d) ==
  incomplete' = IF Supersedes(d) THEN [seq |-> 0, keyframe |-> FALSE, isNew |-> TRUE]
                ELSE incomplete

NoteIncomplete(d) ==
  incomplete' = IF Supersedes(d)
                THEN [seq |-> active.seq, keyframe |-> active.keyframe, isNew |-> TRUE]
                ELSE incomplete

(* A superseded keyframe closes the gate; the datagram that superseded it  *)
(* is dropped with it.                                                     *)
ClosesGate(d) ==
  Supersedes(d) /\ active.keyframe /\ retryEnabled /\ ~AcceptingNewerKeyframe(d)

CloseGate(d) ==
  /\ Admitted(d) /\ ClosesGate(d)
  /\ retryPending' = TRUE
  /\ retrySeq' = active.seq
  /\ NoteIncomplete(d)
  /\ ResetActive
  /\ UNCHANGED << latest, retryEnabled, map >>

-----------------------------------------------------------------------------
(* The frame the datagram belongs to: the active one, or a new one.        *)
Opens(d) == ~active.valid \/ Supersedes(d)

Startable(d) ==
  /\ d.size \in 1 .. MaxFrameSize
  /\ d.chunks # 0
  /\ d.chunks = ChunkCount(d.size)
  /\ d.chunks <= MaxChunks

Consistent(d) ==
  IF Opens(d) THEN Startable(d)
  ELSE d.chunks = active.chunks /\ d.size = active.size

(* The assembly state once imt_assembler_start_frame has run if it had to. *)
Frame(d) ==
  IF Opens(d)
  THEN [valid |-> TRUE, seq |-> d.seq, size |-> d.size, chunks |-> d.chunks,
        keyframe |-> d.keyframe]
  ELSE active
Received(d) == IF Opens(d) THEN {} ELSE received
Count(d)    == IF Opens(d) THEN 0 ELSE chunksReceived
Bound(d)    == IF Opens(d) THEN NoGroups ELSE groups
Bytes(d)    == IF Opens(d) THEN NoBytes ELSE staging

(* Defect: a group is bound again by every datagram. *)
BindsAnew(d) == d.group < MaxGroups

(* imt_assembler_bind_group: the first datagram of a group fixes its base  *)
(* and size, the others must agree.                                        *)
Binds(d) ==
  /\ d.group < MaxGroups
  /\ Bound(d)[d.group].known =>
       /\ Bound(d)[d.group].base = BaseIndex(d)
       /\ Bound(d)[d.group].size = d.groupSize

WellPlaced(d) == Placed(d) /\ Binds(d)

(* start_frame refusing (-3), a header that disagrees with the frame (-4), *)
(* a chunk or parity that does not fit (-5): the frame is abandoned.       *)
Refuse(d) ==
  /\ Admitted(d) /\ ~ClosesGate(d)
  /\ ~(Consistent(d) /\ WellPlaced(d))
  /\ PassGate(d)
  /\ NoteIncomplete(d)
  /\ ResetActive
  /\ UNCHANGED << latest, map >>

-----------------------------------------------------------------------------
(* imt_assembler_try_recover_group.  parity XOR the other chunks, each     *)
(* zero-extended, is the missing one.                                      *)
Members(group) == group.base .. group.base + group.size - 1

Recoverable(group, recv) ==
  /\ group.known
  /\ group.hasParity
  /\ Cardinality(Members(group) \ recv) = 1

MissingOf(group, recv) == CHOOSE c \in Members(group) : c \notin recv

RecoveredBytes(group, missing, bytes, size) ==
  [j \in 1 .. ChunkSize(size, missing) |->
     XorBytes([c \in Members(group) |->
                 IF c = missing THEN ByteAt(group.parity, j) ELSE ByteAt(bytes[c], j)])]

Publish(frame, bytes) ==
  /\ latest' = [size |-> frame.size, seq |-> frame.seq, keyframe |-> frame.keyframe,
                data |-> [c \in 0 .. frame.chunks - 1 |-> bytes[c]]]
  /\ ResetActive

(* Publishing the requested keyframe opens the gate.  accepted is the      *)
(* gate as the datagram left it (PassGate).                                *)
Finish(d, recv, count, bytes, grps) ==
  LET accepted == retryPending /\ ~AcceptingNewerKeyframe(d)
      opens    == AcceptingNewerKeyframe(d) \/ (accepted /\ d.seq = retrySeq)
  IN  IF count = Frame(d).chunks
      THEN /\ Publish(Frame(d), bytes)
           /\ retryPending' = (retryPending /\ ~opens)
           /\ retrySeq' = IF opens THEN 0 ELSE retrySeq
           /\ UNCHANGED retryEnabled
      ELSE /\ active' = Frame(d)
           /\ received' = recv
           /\ chunksReceived' = count
           /\ staging' = bytes
           /\ groups' = grps
           /\ PassGate(d)
           /\ UNCHANGED latest

(* Defect: a rebuilt chunk is counted but not marked as received. *)
RecoverUnmarked(d, recv, count, bytes, grps) ==
  LET group   == grps[d.group]
      missing == MissingOf(group, recv)
  IN  IF Recoverable(group, recv) /\ ChunkSize(d.size, missing) <= Len(group.parity)
      THEN Finish(d, recv, count + 1,
                  [bytes EXCEPT ![missing] = RecoveredBytes(group, missing, bytes, d.size)],
                  grps)
      ELSE Finish(d, recv, count, bytes, grps)

(* Repair the datagram's group if it can be repaired, then finish. *)
Recover(d, recv, count, bytes, grps) ==
  LET group   == grps[d.group]
      missing == MissingOf(group, recv)
  IN  IF Recoverable(group, recv) /\ ChunkSize(d.size, missing) <= Len(group.parity)
      THEN Finish(d, recv \cup {missing}, count + 1,
                  [bytes EXCEPT ![missing] = RecoveredBytes(group, missing, bytes, d.size)],
                  grps)
      ELSE Finish(d, recv, count, bytes, grps)

BoundGroups(d) ==
  [Bound(d) EXCEPT ![d.group].known = TRUE,
                   ![d.group].base = BaseIndex(d),
                   ![d.group].size = d.groupSize]

StoreParity(d) ==
  /\ Admitted(d) /\ ~ClosesGate(d)
  /\ Consistent(d) /\ WellPlaced(d)
  /\ d.type = "PARITY"
  /\ Recover(d, Received(d), Count(d), Bytes(d),
             [BoundGroups(d) EXCEPT ![d.group].hasParity = TRUE,
                                    ![d.group].parity = d.payload])
  /\ NoteIncomplete(d)
  /\ UNCHANGED map

(* A chunk that is already present keeps its bytes. *)
StoreSlice(d) ==
  /\ Admitted(d) /\ ~ClosesGate(d)
  /\ Consistent(d) /\ WellPlaced(d)
  /\ d.type = "SLICE"
  /\ IF d.chunk \in Received(d)
     THEN Recover(d, Received(d), Count(d), Bytes(d), BoundGroups(d))
     ELSE Recover(d, Received(d) \cup {d.chunk}, Count(d) + 1,
                  [Bytes(d) EXCEPT ![d.chunk] = d.payload], BoundGroups(d))
  /\ NoteIncomplete(d)
  /\ UNCHANGED map

PushDatagram(d) ==
  \/ IgnoreOther(d)
  \/ HandleMap(d)
  \/ DropGated(d)
  \/ DropStale(d)
  \/ CloseGate(d)
  \/ Refuse(d)
  \/ StoreParity(d)
  \/ StoreSlice(d)

Next ==
  \/ \E d \in Datagrams : PushDatagram(d)
  \/ \E enabled \in BOOLEAN : SetKeyframeRetryEnabled(enabled)

Spec == Init /\ [][Next]_vars

-----------------------------------------------------------------------------
(* The shape of the state: the types the C structs give it, an idle        *)
(* assembler holding nothing of an earlier frame, and a frame under        *)
(* assembly whose chunk and group tables stay within its own chunks.       *)
FrameHeader == [valid : BOOLEAN, seq : Nat, size : Nat, chunks : Nat, keyframe : BOOLEAN]
GroupState  == [known : BOOLEAN, base : Nat, size : Nat, hasParity : BOOLEAN, parity : Payload]

TypeOK ==
  /\ latest.size \in Nat /\ latest.seq \in Nat /\ latest.keyframe \in BOOLEAN
  /\ active \in FrameHeader
  /\ active.valid =>
       active.size \in 1 .. MaxFrameSize /\ active.chunks \in 1 .. MaxChunks
  /\ ~active.valid => active = Idle
  /\ received \subseteq ChunkIds
  /\ chunksReceived \in Nat
  /\ groups \in [GroupIds -> GroupState]
  /\ staging \in [ChunkIds -> Payload]
  /\ retryEnabled \in BOOLEAN /\ retryPending \in BOOLEAN /\ retrySeq \in Nat
  /\ incomplete \in [seq : Nat, keyframe : BOOLEAN, isNew : BOOLEAN]
  /\ map.valid \in BOOLEAN /\ map.seq \in Nat
  /\ map.weights \in [1 .. MapCapacity -> 1 .. 255]

(* Latest wins: the frame under assembly is newer than the published one,  *)
(* so publishing never goes back in time.                                  *)
ActiveIsNewer ==
  active.valid /\ latest.size # 0 => active.seq > latest.seq

(* The keyframe the gate waits for is newer than the published frame:      *)
(* otherwise its retry would be refused as stale and the gate would only   *)
(* open at the next natural keyframe.                                      *)
RetryIsReachable ==
  retryPending => retryEnabled /\ (latest.size # 0 => retrySeq > latest.seq)

(* While the gate is closed nothing but the awaited keyframe is assembled. *)
GateIsExclusive ==
  retryPending /\ active.valid => active.keyframe /\ active.seq = retrySeq

(* active_chunks_received, which decides when the frame is published, is   *)
(* the number of chunks present: no duplicate and no recovery is counted   *)
(* twice; and a frame that has all its chunks has left assembly.           *)
CountIsExact ==
  /\ chunksReceived = Cardinality(received)
  /\ received \subseteq 0 .. active.chunks - 1
  /\ active.valid => chunksReceived < active.chunks

(* Recovery indexes the staging buffer through base and size of a group:   *)
(* they stay inside the frame, and no group outlives its frame.            *)
GroupsStayInside ==
  \A g \in GroupIds : groups[g].known =>
    /\ active.valid
    /\ groups[g].size > 0
    /\ groups[g].base + groups[g].size <= active.chunks

(* What a complete frame is decided by, and what recovery indexes memory    *)
(* with: the shape of the state, the count of the chunks present, and the  *)
(* groups, whatever arrives twice, never, or from another frame.           *)
WellFormed == TypeOK /\ CountIsExact /\ GroupsStayInside

(* Gate, frame under assembly and published frame agree: assembly only     *)
(* moves forward, the awaited keyframe can still be accepted, and nothing  *)
(* else is assembled meanwhile.                                            *)
GateAgrees == ActiveIsNewer /\ RetryIsReachable /\ GateIsExclusive

(* R7.2: a group with its parity and exactly one chunk missing has been    *)
(* repaired.                                                               *)
NothingLeftToRecover ==
  \A g \in GroupIds : ~Recoverable(groups[g], received)

(* Whatever the datagrams, a repair that is possible and not made is one   *)
(* of a chunk that came with another, overlapping group: the sender has    *)
(* grouped the frame in two ways.                                          *)
RepairsAreMade ==
  \A g \in GroupIds : Recoverable(groups[g], received) =>
    \E h \in GroupIds \ {g} :
      groups[h].known /\ Members(groups[g]) \cap Members(groups[h]) # {}

(* What is published is what was sent: every chunk, received or rebuilt    *)
(* from parity, has the bytes some sender put in it.                       *)
PublishedAsSent ==
  latest.size # 0 =>
    \A c \in DOMAIN latest.data :
      \E d \in Datagrams :
        /\ d.type = "SLICE" /\ d.seq = latest.seq /\ d.size = latest.size
        /\ d.chunk = c /\ d.payload = latest.data[c]

(* The map a reader gets is one sender's map whole, or the uniform         *)
(* fallback; never a mixture of two maps of different sizes.               *)
MapIsWhole ==
  IF map.valid
  THEN \E d \in Datagrams :
         /\ d.type = "MAP" /\ d.seq = map.seq /\ d.cols = map.cols /\ d.rows = map.rows
         /\ MapView = [t \in DOMAIN d.weights |-> IF d.weights[t] = 0 THEN 1 ELSE d.weights[t]]
  ELSE MapView = [t \in 1 .. MapCapacity |-> 128]

(* A closed gate opens because the retry is switched off, for a keyframe   *)
(* at least as new as the awaited one that is published or under assembly, *)
(* or for a newer keyframe that is then refused; never for an interframe,  *)
(* for a stale datagram or for an older keyframe.                          *)
GateYieldsToKeyframes ==
  [][retryPending /\ ~retryPending' =>
       \/ ~retryEnabled'
       \/ latest' # latest /\ latest'.keyframe /\ latest'.seq >= retrySeq
       \/ active'.valid /\ active'.keyframe /\ active'.seq > retrySeq
       \/ \E d \in Datagrams : Refuse(d) /\ d.keyframe /\ d.seq > retrySeq]_vars

(* The abstract promise: the published frame is the frame on show, the     *)
(* closed gate is the awaited keyframe.                                    *)
Promise == INSTANCE LatestWins WITH
  shown   <- [seq |-> IF latest.size = 0 THEN -1 ELSE latest.seq,
              keyframe |-> latest.keyframe],
  awaited <- IF retryPending THEN retrySeq ELSE -1

(* The assembler keeps the promise of LatestWins. *)
KeepsPromise == Promise!Spec

(* Importance maps never go back in time either. *)
MapOnlyAdvances == [][map.valid => map'.valid /\ map'.seq >= map.seq]_vars

(* So a reader sees one whole map after another, each newer.               *)
MapsAdvance == []MapIsWhole /\ MapOnlyAdvances
=============================================================================
