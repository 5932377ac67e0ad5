# Verification of rp-stereocam

TLA+ models, TLC runs and TLAPS proofs for the stereo camera sender, its
transport (IMT), the programs around it and the edge library. Paths are relative
to the repository root (`src/` below is the repository itself).

## 1. The system

Two cameras on a Raspberry Pi are captured in pairs, each eye is encoded by its
own x264 instance and sent over UDP as its own IMT stream; the receiver (on a PC,
not in this repository) rebuilds frames with the IMT assembler and asks once for
a lost keyframe. Other programs pack both eyes into one picture: over libcamera
and GStreamer with the older MPQ transport, or over rpicam-vid pipes with IMT. A
web service starts and stops the sender. The edge library pairs and checks frames
for a pipeline that is not wired up yet.

| Part | State | Operations | Talks to | Module |
|---|---|---|---|---|
| IMT assembler (`imt_assembler.c`) | frame under assembly (header, received chunks, FEC groups, staging), published frame, keyframe gate, incomplete-frame latch, importance map | `push_datagram`, `set_keyframe_retry_enabled`, `get_map`, `copy_latest` | called by the receiving adapter | ImtAssembler |
| IMT packetizer, FEC (`imt_packetize.c`, `imt_fec.c`) | parity scratch, datagram scratch | `send_frame`, `send_map` | calls `emit` per datagram | ImtPacketizer, ImtWire |
| Send batch (`SendCtx` in `mps_stereo_x264_sender.c`) | up to N datagrams | `emit_datagram`, `send_ctx_flush` | `sendmmsg` | ImtPacketizer |
| IMT wire format (`imt_wire.c`) | none | encode, decode of three formats | every reader of datagrams | ImtWire |
| Eye stream (`EyeStream`) | x264 context, packetizer, batch, cached keyframe, pending NACK | encode and send, cache keyframe, retry, NACK thread | its worker and the NACK thread share `nack_lock` | EyeStream |
| Capture, rpicam backend (`CaptureCtx`) | three slots per eye, latest/reader/writer, stop, error | `capture_loop`, slot choice | shares `CaptureCtx.lock`/`cond` with main | StereoPipeline |
| Eye workers (`EyeWorker`) | job, generations, stop | submit, wait, destroy, worker loop | `wake` and `done` with main | StereoPipeline |
| Capture, libcamera backend (`mps_libcamera_stereo_capture.cpp`) | buffer pools, latest frame per eye, notification | `requestComplete`, `acquire_pair`, `release_pair`, start, stop | libcamera's callback threads and main | StereoCapture |
| Start-up and teardown (`main` of the stereo sender) | what is owned and which threads run | every stage and every failing path | all threads | SenderLifecycle |
| Adaptive CRF (`AdaptiveControl`) | rate, integrator, CRF, enabled | update after each pair | main, both encoders | AdaptiveControl |
| PI pacer (`imt_pace.c`) | integrator, rate | update, idle | the two users above and below | ImtPaceLaw, ImtPace |
| SBS IMT sender (`mps_imt_rpicam_sbs_sender.c`) | two pipes, feedback socket, rate | frame loop, feedback thread | receiver's feedback | ImtRpicamSender |
| Importance (`imt_map.c`, `imt_qp.c`, `imt_sched.c`, `mps_rvm_importance.c`) | weights of the tiles | smoothing, normalising, QP offsets, protection, order | SBS IMT sender, x264 | ImtImportance |
| libcamera SBS sender (`mps_libcamera_sbs_sender.cpp`) | latest frame per eye, pending masks, sequence numbers | callbacks, loop, drain | GStreamer pipeline, MPQ | SbsSender |
| Latency gate (`mps_latency_gate.c`) | pushed, emitted, tags | accept, pushed, emitted | SBS sender | LatencyGate |
| MPQ transport (`mps_udp_sender.c`, `mps_packet_writer.c`) | packet and frame numbers | send with and without parity | UDP | MpqSender |
| Edge frame ring (`mp_frame_ring.c`) | slots with versions, two sequences | write, read latest | one writer, one reader, no lock | FrameRing |
| Edge clock sync (`mp_clock_sync.c`) | offset, delay, jitter, drift | update, convert | stereo pairing | ClockSync |
| Edge pairing and monitor (`mp_stereo_sync.c`, `mp_sync_monitor.c`, `mp_preprocess.c`) | lock state, counters, last pair | pair, observe, process | masking and packing | StereoIngest |
| Control service (`tools/mp_control.py`) | sender process, last parameters, snapshot lock | start, stop, snapshot, camera check, watchdog | HTTP threads and a watchdog thread | MpControl |

What is hard here: datagrams lost, duplicated and reordered; a retry that shares
its number with the original but not its FEC grouping; a gate that must agree
with a latest-wins rule; `sendmmsg` taking part of a batch; a keyframe cache
written by one thread while another describes it; three slots shared by three
threads; condition variables, and one notification without its mutex; a camera
that fails at any moment, also half way through start-up; teardown paths written
by hand six times; a controller that must let go again; a lock-free ring; an
encoder that drops frames without saying so; a sender that is restarted and
numbers its frames from 1. The complete list, by line, is in `PROJECT.json` under
"hazards".

## 2. Modules

    ImtLayout            chunks, FEC groups, datagrams: pure operators
      ImtPacketizer        the sender's loop, the batch, the kernel
      ImtAssembler         the receiver   ---- implements ----> LatestWins
        ImtRestart           two senders in a row + network + ImtAssembler
          ImtReceiver          sets of frames in any order, or ImtRestart
            ImtAssemblerProofs
      EyeStream            worker and NACK thread of one eye
        EyeStreamProofs
      ImtTransport         EyeStream + network + ImtAssembler + adapter
        ImtTransportProofs
      MpqSender            the older transport
    ImtWire              bytes of the datagrams and their three readers
    StereoPipeline       capture thread, main, two workers  -- implements --> Mailbox
    StereoCapture        libcamera backend and its loop     -- implements --> Mailbox, per eye
      StereoCaptureProofs
    SenderLifecycle      start-up and teardown of the stereo sender
    ImtPaceLaw           the PI law: pure operators
      ImtPace              the pacer, free and against a plant
      AdaptiveControl      the CRF controller and both encoders
      ImtRpicamSender      the SBS IMT sender and its feedback thread
    ImtImportance        weights, quantisers, protection, order
    LatencyGate          the gate: pure operators on its state
      SbsSender            cameras, gate, encoder, sending  -- implements --> Mailbox, per eye
        SbsSenderProofs
    FrameRing            the lock-free ring                 -- implements --> Mailbox
    ClockSync, StereoIngest   edge library
    MpControl            requests and watchdog over one process

Five MC modules put small instances together. A behaviour of one of them plays a
single part, chosen in its initial state (`part`, in MCReceiver `traffic`); the
variables of the other parts stand still, so the parts do not multiply, and the
properties of a part say what they said in its module. MCReceiver and MCDatagrams
are the two ends of the datagrams: MCStream extends both and runs them in one, a
behaviour being about one `end`:

| MC module | Parts | Proofs |
|---|---|---|
| MCReceiver | ImtReceiver: ImtAssembler with three sets of datagrams, ImtRestart | ImtAssemblerProofs |
| MCDatagrams | ImtPacketizer, EyeStream, MpqSender, ImtWire | DatagramsProofs, EyeStreamProofs |
| MCStereoSender | StereoPipeline, SenderLifecycle, MpControl, ImtPace with any samples | StereoSenderProofs |
| MCStream | what MCReceiver and MCDatagrams have, by the `end` that is played | |
| MCRateControl | ImtPace against a plant, AdaptiveControl, ImtRpicamSender, ImtImportance | |
| MCEdgeLibrary | FrameRing, ClockSync, StereoIngest | EdgeLibraryProofs |

StereoCapture, SbsSender and ImtTransport are checked as they are. Where parts are
proved about, the MC module keeps the constants of its parts open and the cfg gives
them their values, so that its proof module speaks of every value; elsewhere the
values stand in the instances. Either way the assumptions of an instantiated module
are restated by the MC module (`ASSUME Clock!ClockAssumption`), so that they are
evaluated too.

Each module ends with its properties; where several of them together say one
thing, a conjunction gives it a name (`GateAgrees`, `SlotsAreSafe`, ...), and a run
checks that. Definitions marked "Defect:" are not part of any specification: each
is a plausible mistake in the definition that follows it, and shows which property
would notice.

### ImtLayout
A byte is a set of tokens and XOR is symmetric difference: byte *o* of frame *f*
is `{<<f, o>>}`. Parity computed by the model is therefore right for every
content of the frame at once, and a wrong repair can never be right by chance.
`ChunkSize`, `FecGroupSize`, `GroupSize` follow `imt_packetize.c` and
`imt_fec.c`; `FrameLayout` is the reference transmission (a recursive function
over groups) that the packetizer's step-by-step loop is compared with.

### ImtAssembler
One action per way through `imt_assembler_push_datagram`, in the code's order:
`IgnoreOther`, `HandleMap`, `DropGated`, `DropStale`, `CloseGate` (a superseded
keyframe closes the gate; the datagram that revealed it is dropped), `Refuse`
(-3, -4, -5: the frame is abandoned), `StoreParity`, `StoreSlice`; the last two
include repair (`Recover`), publication and gate opening (`Finish`). The datagram
is a decoded header; whatever `imt_wire_decode_header` refuses is one value,
"INVALID". Left out: write-only statistics, the timestamp and codec_config flag
carried along, `copy_latest` (a copy). Bytes of an abandoned frame are blanked
(the code leaves them in the buffer, but reads no chunk that is not marked).

`LatestWins` is what a consumer is promised: the frame on show is only replaced
by a newer one; once a lost keyframe is awaited, only it or a newer keyframe may
be shown. `ImtAssembler` implements it with `shown` the published frame and
`awaited` the closed gate's keyframe.

### ImtPacketizer
`imt_packetizer_send_frame` with its caller's `emit_datagram` and
`send_ctx_flush`, one step per datagram: `EmitSlice`, `EmitParity`, `EmitFails`
(the kernel takes a proper prefix of a full batch), `FinalFlush`, `Reject`. `wire`
is what the kernel has accepted. Its initial state, next-state relation and typing
are called `PacketizeInit`, `PacketizeNext` and `PacketTypeOK`, so that one module
can extend it and the receiver.

### EyeStream
The worker of one eye between the points where the NACK thread can act (the
critical sections of `nack_lock` and the stretches between them). `Submit` is
main's hand-over, `TakeNack`/`Resend` are `eye_stream_retry_pending_keyframe`
(before and after each frame), `CopyKeyframe`/`CacheFails`/`PublishKeyframe` are
`eye_stream_cache_keyframe`, `ReceiveNack` the NACK thread. Sending a frame is one
step that puts a prefix of its layout on the wire, as ImtPacketizer justifies.

### ImtTransport
Everything together for one eye. The network delivers any sent datagram at any
time, any number of times, or never. The receiving adapter is external: it
pushes datagrams, and turns `last_incomplete_*` of a keyframe into a request
(`Report`), as docs/imt_requirements.md R14.2 asks of it. `owed` and `skipped` are
history variables that only the properties read.

### StereoPipeline
`CaptureCtx` and the two `EyeWorker`s: a step is a critical section or what a
thread does between two. `pthread_cond_wait` is falling asleep in the same step
that found the predicate false; `pthread_cond_signal` wakes the one thread that
can be waiting, or is lost; `SpuriousWakeup` is always possible. Reading a camera
pair overwrites the slot in several steps (`Torn`), so that anyone looking at it
too early would see that. What the worker does with the pair is EyeStream's
concern; `PassesOnNewer` is what EyeStream's `Submit` assumes of main,
and that all this is, to main, a `Mailbox`.

### Mailbox
What every hand-over from a camera to its consumer promises: each thing taken has
been offered and is newer than the last one taken; what lies between is lost. Four
modules implement it, each with its own means: three slots and a lock
(StereoPipeline), one place and a mutex per eye (StereoCapture, SbsSender), a
sequence lock (FrameRing).

### StereoCapture
The callbacks of both cameras (`requestComplete` in its three steps: copy under
the frame mutex, notify, queue the request again), main's `acquire_pair` with its
look at the atomics, its sleep and the pairing by skew, `release_pair`, start,
failure and teardown. The notification is sent without the mutex the waiter holds:
between main's look and its sleep ("drowsy") it is lost, and only the wait's time
limit helps. Buffers are counted, not named.

### SenderLifecycle
The stages main goes through for either backend, and for every failure the list
of what that path gives back, in its order (`todo`). `held` and `misused` are what
is really acquired; `owns` is what the structures say. Threads only hold on to
what they work with and end when told.

### AdaptiveControl, ImtPaceLaw, ImtPace, ImtRpicamSender
`ImtPaceLaw` is the arithmetic of `imt_pace.c` with `One` in place of 2^16: C's
division towards zero and arithmetic shifts are modelled as what they do.
`ImtPace` drives it with any samples (`Next`, a part of MCStereoSender, whose program
sets its rate by it) or with a linear plant (`PlantStep`, in MCRateControl).
`AdaptiveControl` is the hand-over of a frame to both workers and the controller
that runs between two frames, with both encoders' refusals. `ImtRpicamSender` is
the loop that reads two pipes and the thread that receives feedback. Setting the
receive timeout of its socket may fail unnoticed (`feedback.timed`); then `recv`
waits for a message as long as it takes, and so may the join: `feedback_state_stop`
does not shut the socket down, as the teardown of the stereo sender does for its
NACK thread. `EndsWithCamera` names that one exception. `IdleApproaches` bounds the
step of an idle call by what the call asks for, besides its direction.

### ImtImportance
One map of tiles for both eyes, smoothed by a call for each eye in turn: the tiles
of the other eye are pulled towards neutral. Where the width of an eye is no multiple
of the tile's, one column of tiles belongs to both eyes, and both calls weight it.
The scene the matting network sees is external; `Scenes` says which ones a run
looks at. Quantiser offsets, protection of a chunk and the counting sort are
operators over the weights; the picture is a few tiles, the weights are at their
real scale.

### LatencyGate, SbsSender
`SbsSender` has the cameras' callbacks, the loop that pairs the two latest frames,
the gate, and the GStreamer pipeline as four places for one frame each, all but
the coder letting the next frame overwrite the old one (`leaky=downstream`). The coder
may also put out nothing for a frame (`CoderDrops`), and a sample that is pulled may
have no buffer, not be mapped or be empty: `pullFrame` then returns false, nothing is
counted as emitted and the draining ends (`PullFails`). `lost` is a history variable
that tells whether any of this has happened. The loop's wait has no predicate and a
limit of 100 ms, so it may go on at any time. What is sent shows which frame, which
time and which mask went out under which number. When `main` returns, the pipeline is
destroyed before the cameras are stopped. The gate's counts of refused frames are
only logged and left out.

### FrameRing
Each step is one atomic access or half of a copy. The odd version is stored with
release order (`mp_frame_ring.c:86`), which does not hold the copy after it back:
marking and copying (`MarkOdd`, `BeginCopy`, `EndCopy`) become visible in either
order. What the code does order is ordered: the copy before the even version (the
fence), that before `write_sequence`, and, by the acquiring load of `read_sequence` in
between, one copy before the next (with the load and store instructions of ARMv8
that compilers use for it without further options; the build sets none). So the
reader cannot rely on getting whole frames (`NoTornRead` is violated); it can unless
the writer has lapped it (`WholeUnlessLapped`).

### ClockSync, StereoIngest
The estimate from two-way time samples with its truncating divisions and unsigned
elapsed time; pairing, the monitor's states and the counters of `mp_preprocess.c`.
Nothing feeds the edge library yet: StereoIngest takes a new frame for every side
the result says is used up, as its README describes.

### MpControl
Each request and the watchdog is a thread; the process handle (`proc`) is under a
lock (`proc_lock`), the last parameters are not. `start_sender` and `stop_sender` are
two steps each, taking the lock and leaving it. A process that does not end within
three seconds is killed and not waited for: it may still run, and hold the cameras,
when the handle is given to the next one. `stray` holds such processes, and any that
runs without its handle for another reason. A start request may come with an empty
body: the parameters stored are then `{}`, which `fix_all`, the snapshot and the
watchdog take for none, so that a sender started like this is not started again;
`SenderComesBack` says so. Other bodies are taken to be JSON objects.

### ImtRestart, ImtReceiver
The assembler, unchanged, in front of a sender that dies and comes back. The
network keeps the order and loses datagrams until it becomes calm. `ImtReceiver`
puts beside it three other ways to reach the assembler: the datagrams of a set of
frames, in any order, any number of times. The sets are constants; the frames of
one are sent in one grouping each, those of the others may share a number.

### MpqSender, ImtWire
Both ways of sending a frame over MPQ, datagram by datagram, with the refusals and
aborts. `ImtWire` encodes and decodes headers, feedback and map headers byte by
byte, a byte having `Base` values, and gives what it made, harmed in one way, to
the assembler's, the feedback thread's and the NACK thread's parsing.

## 3. Runs

| Run | Instance | Shows |
|---|---|---|
| stream | receiver's end: 4 frames (keyframe in 2 + 1 groups, interframe, keyframe, interframe), each datagram any number of times, retry switched at will; a keyframe in two groupings, two sizes under one number, a frame larger than the buffer; maps of 1 to 4 tiles, too large, truncated, empty, stale; a sender that dies after 2 frames and comes back with up to 5. Sender's end: 10 frames of 0 to 41 bytes, group sizes 1 to 16, weights at both sides of each threshold, batch of 3; 3 frames with keyframes of two sizes and requests for any number at any time; MPQ frames of 0 to 9 bytes in at most 4 chunks, refused or aborted anywhere; datagrams of all five types, cut, lengthened or one byte damaged | exact completion count (`WellFormed`), gate and latest-wins agree (`GateAgrees`), every possible repair made and bytes as sent, by one of the two processes (`RepairedAsSent`), refinement of LatestWins (`KeepsPromise`), the gate yields to keyframes only, maps are whole and never go back, the picture comes back after a restart; prefix of the reference layout, all or reported (`SentAsLaidOut`), the receiver can place it (`EverythingFits`), one retry each with the right bytes (`RetriesAreRight`), requests are answered, MPQ numbers without a gap and any single loss repaired, each reader gets what was written or refuses it (`ReadersAreExact`) |
| transport_lossy | 4 frames, loss, duplication, reordering | shown as encoded; no interframe while a keyframe is owed; the gate waits for something that was sent and asked for |
| stereo_sender | 3 slots, 4 pairs, camera failure at any time; start-up and teardown of both backends, with and without NACKs, a failure at each stage; two requests of any kind and the watchdog; the pacer at resolution 1/64 with samples from 0 to 12 targets and idle steps of every size | no tearing, eyes paired (`SlotsAreSafe`), exact skip count, a mailbox, no lost signal (`NewestIsTaken`), running threads keep what they use and all is given back once (`ResourcesAreKept`), every failure ends the program, a sender runs beyond reach only if it has been killed, one snapshot at a time (`OneAtATime`), a sender that was asked for with parameters comes back; integrator and rate within bounds, unwound in time, an idle call moves by its step at most (`PaceIsSound`) |
| capture_pairs | 2 requests per camera, 3 ticks, every libcamera call may fail, eyes whose copies fail | buffers and drop counts exact, only the gap in the notification delays, every failure ends released (`NothingGoesAstray`); pairs fit and advance, two mailboxes (`PairsAreRight`); main goes on |
| sbs_gate | one or two cameras, H.264 or raw pictures, 3 ticks, a limit of 2 pending frames or 1 tick of age | gate covers the pipeline and leaks alone never shut it (a frame that the coder drops or that cannot be pulled does, at the limit, for good), numbers lag behind frames by less than the limit, time and mask are those of the number (`GateIsTrue`); pairs advance, output drained, new frames seen (`SendsOnward`) |
| rate_control | pacer at resolution 1/1024 with six plants, from an integrator at rest or wound up to either end; CRF with three work times and every refusal of an encoder; pipes that end, feedback that fails to start, has no timeout, stops or never comes; six scenes on 2 x 5 tiles, the middle column shared by both eyes, one change or one failed inference | the rate settles within 5 % and the integrator is never wound up on the way (`PaceConverges`); eyes keep one CRF, overload reaches the limit, ease gives quality back (`CrfFollows`); pairs by count, held back less than one frame time, thread joined before its socket goes, the end of a camera ends the sender unless the feedback thread waits without a timeout (`FramesArePaired`); the order of the eyes' calls biases little, budget kept, blocks and chunks follow their tiles (`MapsFollowTheScene`) |
| edge_library | ring of 2 slots, 6 frames, a copy visible before or after its odd version; a remote clock ahead and behind, lopsided delays, samples twice or out of order; 5 periods with late and lost frames and frames that do not fit | the frame counted is the frame returned, whole unless the writer has lapped the reader (`RingIsSafe`), a mailbox, no frame counted as dropped more than twice, the reader catches up (`RingDelivers`); estimate within the samples (`ClockIsRight`), order of frames kept, settles (`ClockSettles`); only hopeless frames dropped, steady output, counters add up (`PairsAreJudged`) |
| transport_skipped, rpicam_silence, ingest_gap, control_cameras, ring_torn | as above; the ring with 3 frames | violated: see section 6 |

Bounds. Payloads are 2 bytes instead of 1200: a last chunk shorter than the
others needs two, and sizes only enter through division by the payload. A
keyframe of 5 chunks in groups of 2 gives full, cut and single-chunk groups;
supersession needs three frames, recovery by a newer keyframe a fourth. The
batch holds 3 instead of 16: a frame crosses it with every remainder. Four camera
pairs let main skip one and two, and reuse every slot. `TailBound` limits how much
of a frame's tail the kernel refuses in EyeStream: its properties do not look into
a frame, and in ImtTransport the network loses the same datagrams anyway (0 there).
Sequence numbers do not wrap: they are 64 bits wide.

Three ticks or pairs of camera time (capture_pairs, sbs_gate) let one eye lag, be
overtaken and catch up. The pipeline of SbsSender has four places, so a limit of
2 is below what it can hold: the gate closes while the pipeline could still take a
frame, and frames the queues drop push the numbers apart. The pacer's resolution is reduced
(`One` = 64 or 1024 instead of 65536): all its roundings still happen, and more
coarsely. AdaptiveControl counts in tenths for the same reason. ClockSync's remote clock
is off by a constant: what it estimates as drift comes from delays and truncation only,
and clocks that really drift are not looked at. It scales
2^64 down to `Modulus`, large enough that one old sample wraps and ordinary
products do not. FrameRing's six frames pass each of two slots three times, so a
reader can be overtaken by a whole turn twice; for the torn read three are enough. In StereoIngest five periods with a
warm-up of two let the monitor lock and degrade. ImtWire's bytes have 7 values: the
smallest base in which two bytes still hold the header's size and one the five
types. ImtRestart's second process sends past the numbers of the first, with frames
of equal and of different sizes. ImtImportance has a
picture of 20 by 7 pixels with tiles of 4, so that the middle column is half of either
eye, and tiles stand over the lower edge; its scenes are no
tile of an eye, all, one column, two columns, and two without a pattern, which give the
shared column different weights by the left and by the right eye's call.

CHECK_DEADLOCK is off where a run ends: the programs stop after a camera failure
(stereo_sender, capture_pairs, sbs_gate, rate_control with its pipes), and the
others after their bound of frames or datagrams (stream, transport_*, edge_library,
ingest_gap, ring_torn). Each cfg says so.

Fairness. Where an MC module plays a part, the fairness of that part is restated
for the behaviours that play it (`WF_vars(part = "ring" /\ Reader)`). EyeStream: the worker thread runs while it has work, and main submits
while there are frames (`NackIsAnswered` says "while there are"). StereoPipeline:
each thread runs when it can; reading from the camera is not fair (it may stall),
nor is its failure, nor a spurious wakeup. Nothing is assumed of the network.
The other modules likewise: threads that can run, do (main, callbacks, workers,
the NACK and feedback threads); cameras, requests, failures and feedback are not
fair. Beyond that: SbsSender's pipeline hands frames on; `recv` with a time limit
returns, where the limit could be set; ClockSync is given samples, AdaptiveControl frames; MpControl's watchdog
comes round and gets a lock that is free again and again, a spawn that keeps being
tried succeeds at some time (strong fairness: a program that can never be started
cannot come back), and a process that was killed ends. ImtRestart needs
the network only once it is calm.

## 4. Proofs

`ImtAssemblerProofs` proves for all payload sizes, buffer sizes and sets of
datagrams: `WellFormed` (theorem `Sound`), `GateAgrees` (`Agree`), the action
property `GateYieldsToKeyframes`, that maps are whole and only advance
(`MapsAdvance`), and that the assembler implements `LatestWins` (`KeepsPromise`).
All rest on one inductive invariant, `IInv`: typing, the bookkeeping of the frame
under assembly (`CountIsExact`, `GroupsStayInside`) and the agreement of gate,
active frame and published frame (`ActiveIsNewer`, `RetryIsReachable`,
`GateIsExclusive`). They are only inductive together: the gate's keyframe is newer
than what is published because it was the active frame when it was lost, and
publishing under a closed gate opens it because only the awaited keyframe can be
active then. A repair keeps the count exact because the missing chunk is a member
of a group inside the frame and not yet received. The step proof has one case per
action; the arithmetic of chunks and groups is in separate lemmas. That a map read
is a whole map (`MapIsWhole`) is inductive by itself, one lemma over the ways
`HandleMap` can go.

Theorem `RepairsMade` says of any well-formed datagrams that a repair is left
unmade only if its chunk also belongs to another known group (`RepairsAreMade`).
`RepairInv` adds to `IInv` that a stored parity has the length its group asks for:
else a group could be recoverable and its repair still be refused. When a chunk is
stored only its own group is tried, so a group that becomes recoverable without
being tried overlaps that one. `RepairsRight` is `RepairedAsSent`, for all sets of
frames that ImtReceiver may send and for the restart. Its invariant `SourceInv` says
what the datagrams come from: the number and the size under assembly, and of the
published frame, are those of a frame that was sent, and if no other frame goes by
them, the bytes are its bytes (`ComesFromSource`); if the restarted sender gave them
to two frames, both are in `encoded` and nothing else is claimed. Groups of one
grouping are apart (`GroupsApart`), so nothing is left to repair where each frame
comes in one.

The same module holds the lemmas about the layout of a frame. They speak of
recursive functions (where the groups begin, the datagrams of all groups in a row)
and of sums over a group (the XOR), so they are proved by induction: lemma
`Induction`, for a set of naturals instead of an operator, follows from the
well-foundedness of `<`. `RepairIsExact` says that parity XOR the other chunks of a
group is the missing chunk, whatever the sizes.

`ImtTransportProofs` proves for every number of frames, all frame, payload and
buffer sizes and any loss, duplication and reordering `ShownAsEncoded` (theorem
`ShownIsEncoded`), `RequestsMeetRetries` (`RequestsMeet`) and
`NoInterframeWhileOwed` (`NothingShownWhileOwed`). Sender and receiver bring their
own invariants: `SP` and `RP` are their proof modules over the variables of the
transport. `RP` assumes well-formed datagrams; that the sender's are is shown with
`EP`, the receiver's proof module without any datagram, whose layout lemmas assume
nothing. `TransportInv` adds what neither side can say alone: every byte the
receiver has stored or shows under a number is that of the frame sent under it
(`ServedAsSent`), also where an original and its retry, with other groups, meet in
one assembly; and only sent keyframes are asked for (`AskedFor`). For the gate that
is still too weak. A completed frame must be the one whose chunks were counted, so
`GateInv` says that the groups of the frame under assembly are bound as it was sent
(`BoundAsSent`), which holds because two groupings can only meet in the keyframe the
gate waits for (`NotedIsPast`), and that a keyframe that is owed is awaited, or that
a newer one is under assembly (`OwedIsAwaited`).

The last theorem has a hypothesis, `Fits`: no frame is larger than the receiver's
buffer. It is needed: with `KeySizes = {5, 7}` and `MaxFrameSize = 6` in
ImtTransport_Lossy.cfg TLC finds an interframe shown while a keyframe is owed. The
first datagram of a newer keyframe opens the gate, the keyframe is then refused for
its size, and nothing keeps the next interframe out (section 6).

`DatagramsProofs` proves of the packetizer `EverythingFits` (`PacketTypeOK`, `WireFits` and
`BatchIsBounded`) for all frames and batch sizes. `WireFits` needs that the current group never has fewer
than two chunks unless it is the frame's last, so that the group id is at most
half the chunk index; that is the strengthening in its invariant.
Theorem `LaidOutAsDefined` is `SentAsLaidOut`: the loop, with its running parity and
its batches, sends the layout that `FrameLayout` defines by recursion, or a
beginning of it. `LaidInv` says it while the loop runs (`InTheGroup`): the current
chunk begins the current group, the parity buffer is the XOR of the group's chunks so
far, and the datagrams sent and batched are those of all groups before (`Begun`) and
the first `index` of this one. `ParityGrows` is the step of the parity, by
`XorGrows`: bytes of different chunks have nothing in common. `BegunIsPrefix` goes
through the groups from the last one down. `AP`, the receiver's proof module with
anything in the place of its state, lends the layout lemmas, which hold for any
weights the sender accepts.

The same module proves of MPQ, for all frame and chunk sizes and wherever sending is
refused or breaks off, `NumbersAreTrue` (`NumbersTrue`) and `AnyLossIsRepaired`
(`LossRepaired`). That an end marker stands behind all chunks of its frame is not
inductive: `MpqInv` says of every datagram on the wire that the chunks before it
stand directly before it (`InRuns`), that a frame number is used for one such run
(`OneRunEach`), and where the run at hand has got to (`RunAtHand`). The repair needs
no invariant but the shape of the state: parity XOR all chunks but one is the one
that is missing, cut to the length it had. `RetriesRight` carries EyeStream's promise
over to the part of MCDatagrams that plays it.

`StereoSenderProofs` proves for every number of slots from three on and every
number of pairs `SlotsAreSafe` (`TypeOK`, `NoTearing`, `EyesStayPaired`,
`CaptureNeverStalls`) and `PassesOnNewer` (`HandsOverNewer`, and that the pipeline
implements `Mailbox`) and `SkippedIsExact` (`CountsTheSkipped`). The
inductive invariant `IInv` says who owns which slot at every program counter: the
slot that is written is neither the newest nor main's (`WriterIsAlone`), those two
are whole (`LatestIsWhole`, `FrontIsWhole`), each worker has main's pair or is done
with an older one (`JobFollowsMain`), and the generations of both eyes differ only
between the two submissions (`GenerationsAgree`). `NoTearing` alone is not
inductive: a worker is safe only because main holds its slot locked until both
workers have been waited for. `SkippedIsExact` rests on `SkipInv`: what has been
handed over lies between the first pair and the last, so a pair taken adds just the
pairs in between to those missing, and every other step leaves count and history
alone. One lemma per action; lemmas on the records keep the
steps free of arithmetic.

Of the control service the module proves `OneAtATime` (`OneOfEach`) for any number
of requests at once. A killed process may outlive its handle, so that "at most one
sender" is not what the code gives; what it gives is that a process nobody holds the
handle of has been killed. `ControlInv` says for it, besides the types and that the
snapshot lock is held exactly while one thread's request is a snapshot (`LockInv`),
that whoever is between taking and leaving the process lock holds it and that the
handle's process is then not running (`HandleInv`): it has ended or has been killed,
and nobody else can start one meanwhile.

Of the pacer it proves `PaceIsSound` (`PaceSound`) for every resolution, gain, bound
and target that `PaceAssumption` admits. The state alone is bounded at once; the work
is in the two action properties over runs of steps that have not happened yet:
`GoodSamplesAddUp` computes the run of `Accumulate` by induction (a sum, cut off
at the bound), and `RefitResumes` shows that dividing the rate back into an
integrator loses at most one unit of rate. Division and shifts enter through `Floor`.

`EdgeLibraryProofs` proves for every number of slots and frames, with copies visible
before or after their odd version, `RingIsSafe` (`TypeOK` and `WholeUnlessLapped`;
theorem `Safe`, with `TypeCorrect` and `WholeOrLapped`) and the refinement of `Mailbox`
(`ImplementsMailbox`). The argument is in `DataInv` and `ReaderInv`: an even version is
that of the newest complete frame of its slot (`Newest`), and while it stands the slot
holds that frame, or something of the frame one turn later, whose copy can only have
begun when the writer is a whole turn ahead (`Partial`). A reader that sees the version
unchanged after its copy has copied nothing else. That no frame is counted as dropped
more than twice (`CountedAtMostTwice`) is not inductive: writer and reader each store
`read_sequence` from what they loaded earlier, so `CountingInv` bounds the count by
what either of them may still store.

The same module proves of ClockSync `ClockIsRight` (`ClockRight`), `OldSampleCalms`
(`LateSamplesCalm`) and `FramesKeepOrder` (`OrderIsKept`), for all delays and ages of
the samples. `ClockInv` keeps the estimate between the extremes of what samples can
say (`WithinTheSamples`): an update goes an eighth of the way to the sample, and
truncation never carries it past. `LateSamplesCalm` takes from `ClockAssumption` that
twice the age of a sample is at most `Modulus`, 292 years in nanoseconds: a sample
older than that would look like a new one.

And of StereoIngest `PairsAreJudged` (`PairsJudged`) for every period, tolerance,
jitter and number of lost frames. `IngestInv` follows time: a side has moved past what
the monitor has last seen (`TimeInv`), so the unsigned difference of two pairs is the
time between them, and a frame given up for its skew stays hopeless because the other
side only moves on (`HopelessInv`); the counters are tied to each other in `CountInv`
and `MonitorInv`.

`EyeStreamProofs` proves for every number of frames, all sizes and whatever the
kernel refuses `RetriesAreRight` (`OneRetryEach`, `RetryIsTheKeyframe`,
`SentInOrder`, `CacheIsCoherent`). Its invariant says that everything sent is older
than the frame at hand (`SentIsOlder`), that the bytes in the cache are those of the
last keyframe on the wire or of the one about to be sent (`CachedIsTheLast`), and
that as long as `cache.retried` is not set, or the retry is on its way, none has
been sent (`RetryIsUnused`). The last two need the first: a cached keyframe can
only be the newest because nothing is ever sent out of order.

`StereoCaptureProofs` proves for every number of requests, every skew and any run
of frames `NothingGoesAstray` and `PairsAreRight`, with every failing call and
with eyes whose copies fail. The invariant has three parts that meet only in
main's program counter: the frames of an eye (`FramesFit`: where its buffers are,
how many frames it has lost, that the waiting one is newer than the last one
handed over), libcamera's side of it (`CallsFit`: no callback before its camera is
started or after it is stopped, and all requests accounted for until a failure is
announced), and main's sleep (`SleepFits`: beside a pair that fits, main has the
notification still before it, or it is still to come, or it has been missed).
`OnlyTheGapDelays` alone is not inductive: it speaks of the sleep, and must be
carried through the looks that lead to it.

`SbsSenderProofs` proves for one camera or two, H.264 or raw pictures, every limit,
skew, number of requests and size of the rings `GateIsTrue`, that pairs only advance
(`PairsAdvance`), and that each camera's hand-over implements `Mailbox`
(`HandsOverLatest`). The parts of its invariant follow a frame: callbacks and
cameras (`CamerasHold`), the loop's copies (`CopiesFollow`), the numbers
(`NumbersAreBounded`), the gate (`GateCounts`), the pipeline in order of numbers and
of times (`PipeIsInOrder`), and the rings of masks and tags (`TagsAreKept`). That
leaks leave room (`LeaksLeaveRoom`) is not inductive alone: the limit is only reached
while the newest frame is still in the pipeline, because a leaky place drops the
older of two frames and a frame that is sent counts as emitted; or else a frame was
lost on its way, by the coder or by a pull that failed, and counts as neither.
`LagIsBounded` is said with the condition the proof showed to be needed: the program
takes any `max_pending_frames`, and a limit above 64 outgrows the rings of tags and
masks.

Assumptions: `MaxPayloadAssumption`, `CapacityAssumption`, `DatagramAssumption`
(types of decoded headers; datagrams need not come from a correct sender),
`SenderAssumption`, `FramesAssumption`, `PipelineAssumption` (three slots or more:
with two the capture thread could find none), `RingAssumption`, `StreamAssumption`
(types of what the encoder puts out; a hypothesis of the theorems, stated by
MCDatagrams of its values), `MpqAssumption` (at least one byte and one chunk),
`ControlAssumption`, `LawAssumption` and `PaceAssumption` (the pacer's resolution,
gains, bounds and target), `ClockAssumption`, `IngestAssumption` (tolerances shorter
than a period), `CaptureAssumption` (at least one request per camera),
`SbsAssumption` (positive sizes and at least one tick of time),
`TransportAssumption` (no frame of size 0) and `SendersAssumption` (a hypothesis of
`RepairsRight`: frames that can be cut into chunks, and within one run of a sender
number and size tell two frames apart). TLC evaluates them. `Fits` is the
hypothesis of a single theorem.

Only model-checked:

- liveness and everything else under fairness, which the prover has no rules for:
  `NewestIsTaken`, `SendsOnward`, `MainGoesOn`, `FailuresEnd`, `SenderComesBack`,
  `NackIsAnswered`, `PictureComesBack`, `PaceConverges`, the settling in
  `ClockSettles` and the catching up in `RingDelivers` (the safety beside them is
  proved: `OldSampleCalms`, `FramesKeepOrder`, `HandsOverLatest`,
  `CountedTwiceAtMost`);
- `ResourcesAreKept`: SenderLifecycle has no constants and few states, so TLC's run
  is the complete check;
- `ReadersAreExact`: encoding and decoding are defined byte by byte, and TLC goes
  through every datagram of small bytes;
- `CrfFollows`, `FramesArePaired` and `MapsFollowTheScene`, whose parts are mostly
  about what follows in the end.

## 5. Not modelled, and the plan

Not modelled on purpose:

- the x264 wrapper (`mps_x264_encoder.c`) around an external encoder: its users'
  models have an output of some size, keyframe or not, or a failure; its
  reconfiguration is in AdaptiveControl, its quantiser offsets in ImtImportance;
- pixel algorithms: functions of single frames, right or wrong to the eye;
- the trace replay tool: an offline experiment over components modelled here;
- the rpicam and the test senders: loops in one thread over the same components;
- edge configuration, security and statistics, and the command-line scripts:
  parsing, comparisons and sums without an order of events;
- of the control service: network and WiFi commands, streams and the page; of MPQ:
  socket set-up and the bytes of the envelope; everywhere: logging, CPU affinity,
  options, command lines.

x264, GStreamer, libcamera, the matting network and the network are external.
`frame_seq` wrap-around (2^64) is out of reach of a run of the program.

Some hazards met on the way have no property here, because nothing in the
repository says what should happen:

- `mps_libcamera_sbs_sender.cpp:579`: a request that cannot be queued again is not
  noticed; the camera runs on with a buffer less (modelled in `Requeue`).
- `mps_stereo_x264_sender.c:771`: an encoder that returns nothing leaves the work
  time of the frame before in place, and the controller takes it for this frame's.
- `mps_rvm_importance.c:262`: both eyes go through one recurrent state of the
  network; what that does to the masks is a question about the network.
- `mps_udp_sender.c:26`: the destination is one static variable for all senders of
  the process; each program opens only one.
- `tools/mp_control.py:114`: the last parameters are written outside the lock that
  guards the process (modelled in MpControl); two requests at once may leave those
  of the sender that was refused, and the watchdog would use them.
- `mps_libcamera_sbs_sender.cpp:145`: a sample that cannot be used, like a frame the
  encoder drops, stays counted as pending; with `max_pending_frames` frames lost like
  this the gate refuses all that follow, and nothing resets it (modelled in `PullFails`
  and `CoderDrops`; `LeaksLeaveRoom` excepts it).
- `mps_imt_rpicam_sbs_sender.c:110`: where the receive timeout cannot be set and no
  feedback comes, the join at the end (line 138) waits for ever (modelled in
  `StartFeedback`; `EndsWithCamera` excepts it).
- `tools/mp_control.py:179`: a sender started by a request with an empty body is not
  restarted by the watchdog (line 83), which takes `{}` for nothing asked for.
- `tools/mp_control.py:131`: a sender that had to be killed is not waited for; the next
  one, or a snapshot, may find the cameras still in use.
- `tools/mp_control.py:171`: the process may be stopped between the question whether
  it runs and the reading of its number; the status request then fails.

Worth doing next: eye workers and StereoCapture in one composition; the safety half
of AdaptiveControl and ImtRpicamSender as invariants of their own, to be proved.

## 6. Where code and documents disagree

- *transport_skipped*: after the retry of a lost keyframe the receiver accepts the
  next interframe although the interframes in between were dropped by the gate
  itself, so P frames are decoded on missing references; R14.2 gives preventing
  that as the gate's purpose. What does hold is `NoInterframeWhileOwed`.
- *rpicam_silence*: R8.3 lets the rate return to 1.0 when feedback stops; nothing
  calls `imt_pace_idle`, and the rate stays where it was.
- *ingest_gap*: after one missing pair the sync monitor measures every later period
  from the last good pair and refuses a regular stream for ever.
- *control_cameras*: the watchdog restarts the sender that a snapshot has stopped,
  while the snapshot is using the cameras.
- *ring_torn*: the odd version of a slot is stored with release order
  (`mp_frame_ring.c:86`), which does not keep the copy after it from becoming visible
  first; on the Raspberry Pi, an ARM, a reader that the writer has lapped can return a
  torn frame, against the version check that the edge library's README names. What does
  hold, and is proved, is `WholeUnlessLapped`.

Three more, without a run of their own:

- The gate opens on the first datagram of a newer keyframe (`imt_assembler.c:355`),
  also when that keyframe is then refused; README.md:139-141 says recovery waits for
  the retry or the next natural keyframe. What does hold, and is proved, is
  `GateYieldsToKeyframes`, and `NoInterframeWhileOwed` as long as no frame is too
  large for the receiver.
- A chunk received or repaired through one group is not used to repair an
  overlapping group of the other transmission (`imt_assembler.c:442`), which R7.2
  read literally asks for. `RepairedAsSent` therefore asks for every possible repair
  only where each frame is sent in one grouping; elsewhere for those of chunks that
  are in no second known group.
- R8.4 promises monotone convergence of the pacer; the proportional term
  (`imt_pace.c:82`) makes the first answer overshoot. What does hold is `Converges`
  (within 5 %).

## 7. Running

    tlc -config MCStream.cfg MCStream
    tlc -config ImtTransport_Lossy.cfg ImtTransport
    tlapm StereoSenderProofs.tla     (about eight minutes for ImtTransportProofs)
