# TLA+ models of the zm-next worker

zm-next runs one worker process per camera ("monitor"). The worker loads a tree
of plugins, pumps frames through it, and serves media, events and control over
one Unix socket. These modules model the parts of the worker whose correctness
depends on interleaving, ordering and bounded resources. TLC checks them on
small instances; TLAPS proves the central results for every instance.

Source paths below are relative to the repository.

## 1. Inventory

### Core (`core/`, `src/zm-core.cpp`)

| Component | State | Operations | Threads |
|---|---|---|---|
| `ShmRing` | `head`, `tail`, slot sizes, slots, `cancelled_` | `push`, `pop`, `cancel` | threads of the input plugin push, the capture thread pops |
| `CaptureThread` | `running_` | `start`, `run`, `stop` | runs the input plugin; every popped frame goes to `WorkerLink::sendMedia` and to each child stage's `deliver` |
| `StageRunner` | bounded queue, `running_`, `dropped_`, `processed_` | `start`, `deliver`, `run`, `stop` | one worker per non-input plugin |
| `EventBus` | subscribers of the channel `plugin_event` | `subscribe`, `unsubscribe`, `publish` | callbacks run on the publisher's thread |
| `WorkerLink` | clients with queues, generation, sequences, cached Hellos, keyframe, snapshot | `start`, `stop`, `sendMedia`, `setStreamParams`, `publishEventJson`, the poll loop | one loop thread; producers are capture and stage threads |
| `PluginManager` | plugin instances, runners, ring, capture thread | `loadPipeline`, `startAll`, `stopAll` | main |
| `PipelineLoader`, stream socket protocol, plugin utilities | none | JSON and byte layouts | - |
| `zm-core` | `g_shutdown` | signals, command handler, event bridge | main; the handler runs on the link's loop |

Frames flow input plugin -> ring -> capture thread -> stage queue -> plugin ->
`host->on_frame` -> stage queue of the children. Events flow plugin ->
`publish_evt` -> bus -> every subscriber (plugins, and the bridge into the
link). Commands flow consumer -> link loop -> handler -> bus -> plugins.

### Plugins (`plugins/`)

| Plugin | State that can go wrong | Threads | Status |
|---|---|---|---|
| `capture_rtsp_multi` | map of streams, connection, retries, back-off | owner; one per stream, without the map's lock | modelled |
| `capture_file` | position, offset of the pass, pacing | replay thread | modelled |
| `decode_ffmpeg`, `decode_detect`, `encode_ffmpeg` | codec learnt from the bus, decoder, surfaces, scaler, announcement | stages; metadata on the publisher's thread | partly |
| `motion_gate`, `motion_pixel_diff`, `motion_hybrid` | last scene, gate; background, plate, once-only initialisation | stages | partly |
| `zones`, `privacy_mask` | zone list and spatial index | stage, callers | partly |
| `detect_onnx` | motion grid and sweep clock; the shared engine's queue and batch | stages of several cameras, engine thread | partly |
| other detectors | none between frames | stages | not modelled |
| `audio_detect` | codec learnt from the bus, decoder, sample window | stage; metadata on the publisher's thread | partly |
| `tracker`, `analytics_rules` | tracks and ids; zone occupancy, last position | publishers | partly |
| `alert_policy` | per-track rest, alert and cool-down | publisher, no lock | modelled |
| `store` | rolling pre-roll buffer, open clip, pending event-id assignment | stage and publishers | partly |
| `store_snapshot`, `review_export` | latest picture and throttle; frame ring, tubes, recording token | decoder's stage and publishers | partly |
| `describe_vlm`, `llm_event_review` | trigger and cool-down; debounce, jobs, stories | stage, publishers, worker, main | partly |
| `output_mqtt`, `output_webhook` | one handle that a stop destroys | publishers, main | modelled |
| `output_mse`, `output_webrtc` | size detection, muxer, segment queue; sessions, frame queue, clean-up | stage, server, service threads | partly |
| `overlay` | newest boxes of each stream | publishers, stage | modelled |

### What is hard, and what makes each component correct

* **StageRunner**: a condition variable with an atomic flag outside its mutex; a
  queue that drops. Correct: bounded, freshest frames in order, every frame
  accounted for, no lost wake-up, `stop()` returns.
* **ShmRing**: no lock. Correct: no slot is touched by two threads at once; a
  bounded FIFO; cancellation ends a waiting `pop`.
* **WorkerLink**: several producers and a loop with a stale descriptor snapshot,
  clients that are slow, partial or gone. Correct: what a consumer receives is
  decodable, in order, and includes every control message; departed consumers
  are found out; units survive being read in pieces.
* **Locks across components**: the bus calls into the recorder and the link from
  any thread, some with locks held. Correct: no cycle of waiting.
* **EventBus**: the list changes during a publish. Correct: each steady
  subscriber exactly once.
* **PluginManager**: plugins that do not load or start, a stop in any phase.
  Correct: `on_frame` runs only within its plugin's life, and a stop ends.
* **Sources**: connections come and go with other codecs, threads meet the
  configuration changing. Correct: media only after their metadata, contexts
  outlive their threads, retries end, time goes forward.
* **Media path**: codec parameters overtake or trail the packets; GPU frames are
  pointers. Correct: decoder, scaler and announcement fit what they get.
* **Outputs**: clients and servers that are slow or gone. Correct: segments are
  whole and in order, sessions settle, nothing is freed under a late callback.
* **Perception**: small state carried from frame to frame. Correct: what moves or
  stands is shown to the model, one object keeps one id, an alarm is deserved
  and raised once.
* **store and the other recorders**: threads that meet only in shared state and a
  remote party that answers late. Correct: clips cover what they promise, are
  contiguous, start decodable, carry their own id; assets, snapshots and
  descriptions belong to what they say they belong to.
* **Model workers**: queues, debounce, timed waits. Correct: each request is
  answered with its own rows, stories are told, stops join.

`PROJECT.json` lists the hazards with their lines and the properties aimed at them.

## 2. Modules

| Module | Models | Its state and actions |
|---|---|---|
| `DropQueue` | abstract: a stage's drop-oldest queue as an interval of frame numbers | |
| `StageRunner` | `core/src/StageRunner.cpp` | implements `DropQueue`; proofs in `StageRunnerProofs` |
| `FrameFifo` | abstract: a bounded FIFO that refuses when full | |
| `CaptureRing` | `ShmRing.cpp`, `CaptureThread.cpp` | implements `FrameFifo`; proofs in `CaptureRingProofs` |
| `EventBus` | `core/include/zm/EventBus.hpp` | subscribe, unsubscribe, and publish as copy and calls |
| `WorkerLink` | `core/src/WorkerLink.cpp`: data and protocol | producers' calls, the loop step by step, stop; proofs in `WorkerLinkProofs` |
| `StreamProtocol` | `stream_socket_protocol.cpp`, the reading loops of `WorkerLink` and `wl_dump` | bytes on the wire, a buffer, units taken out; `Read` is one `read` with its loop |
| `WorkerLocks` | capture, recorder, link loop and main, over two mutexes and blocking sockets | composes `CaptureThread`, `store`, bus, `WorkerLink`, `zm-core`, `PluginManager::stopAll`; proofs in `WorkerLocksProofs` |
| `Pipeline` | `PluginManager`, `PipelineLoader`, `zm-core`'s main | main's program counter; each plugin's instance and stage; capture thread; signal |
| `StreamManager` | `capture_rtsp_multi` | one record per stream with its thread; `SetupBegin`/`SetupEnd` and erasure in two steps, as the unlocked lookups see them |
| `CaptureFile` | `capture_file` | the replay thread: `LoopTop`, `Read`, `Chunk` of a pause, `Emit`, the next pass, start and stop |
| `MediaPath` | ring, `decode_ffmpeg`, `decode_detect`, `encode_ffmpeg`, announcement | one stream or several, of which some are wanted; input, capture, decoder and the stage below as four threads over FIFOs |
| `OutputMse` | `output_mse` | frames in, muxer, segment queue, readers |
| `OutputWebrtc` | `output_webrtc` | plugins, one service, viewers and their browsers |
| `EventSink` | `output_mqtt`, `output_webhook` | the callback's two tests around a mutex, and stop |
| `AudioDetect` | `audio_detect` | metadata of any camera in two stores, `OnFrame` with its filter and the loop over windows |
| `MotionGate`, `MotionPixelDiff` | `motion_gate`, `motion_pixel_diff` | one step per frame |
| `Zones` | `zones.cpp`: the ZoneManager | add, update, remove, clear, load; list and index |
| `Detector`, `InferenceEngine` | `detect_onnx`, `detect_engine` | one step per frame; callers, queue, batch and its thread |
| `Tracker`, `AnalyticsRules`, `AlertPolicy` | `tracker_core.hpp`, `analytics_rules` with `geometry.hpp`, `alert_policy` | one step per batch, per position, per frame |
| `PreRoll`, `Store` | `plugins/store/store.cpp`: buffer; clips and the id handshake | frame handler, triggers and stop in two steps each, answers; proofs in `StoreProofs` |
| `SnapshotStore`, `ReviewExport` | `store_snapshot`, `review_export` | `event_cb` in its locked parts; one step per handler |
| `SceneDescriber`, `EventReview` | `describe_vlm`, `llm_event_review` | worker threads with test, wait and wake-up apart; stop as flag, notification, join |
| `Overlay` | `overlay` | callback in two steps, frame, time, stop |
| `MediaPlugins` | suite: `EventBus`, `StreamManager`, `CaptureFile`, `MediaPath`, `Pipeline`, `OutputMse`, `OutputWebrtc`, `EventSink`, `AudioDetect`, `StreamProtocol` | the part looked at takes its steps, the others rest; proofs in `MediaProofs` |
| `EventPlugins` | suite: `MotionGate` to `Overlay` above, except `PreRoll` and `Store` | the same; proofs in `EventProofs` |
| `Extrema` | | lemmas: sets of naturals have least and, if bounded, greatest elements |

Each `MC...` module declares the model values of its configurations. `WorkerLink`
and `Store` take a set `Setups` of environments: a record of bounds and choices,
one of which `Init` puts into the variable `env` or `setup`, so that one run
explores several small systems, each rich in another direction.

`MediaPlugins` and `EventPlugins` are suites: each instantiates a number of
plugin modules, and `MCMediaPlugins` and `MCEventPlugins` give their instances. Those plugins share no state and meet only through frames and
events, which are inputs here, so interleaving them would multiply states and show
nothing. A behaviour is therefore one of one part, named by the variable `part`,
with the others at rest. A property of a suite conjoins
those properties of its parts that ask the same question. `MediaPath` and
`Pipeline` are the compositions in which the meeting of components matters, as
`WorkerLocks` is for locks.

### Correspondence

*Atomicity.* A critical section is one step when no other thread can see inside
it. Everything outside a mutex is a step per shared access. In `StageRunner`
the wait is two steps, `Check` (predicate, under the mutex) and `Block` (join
the wait set), since `stop()` clears the flag and notifies outside the mutex.
In `CaptureRing` each load and store is a step and a `memcpy` is two: a slot
under copy holds the value `Torn`. In `WorkerLink` a producer's call is one step
under `mutex_`; the loop's snapshot, `poll`, accept and each served descriptor
are steps, with `mutex_` held from the first served descriptor to the end of the
iteration. In `Store`, `handle_frame` is two steps under `StoreState::mtx`,
because an assignment needs only `assign_mtx` and may land in between. `event_cb` tests
`running` before it takes that mutex (`Enters`, then `Trigger` once `TakesMtx`), and
`handle_stop` clears it before it does (`Stop`, `StopLocked`), so a trigger may be in
flight over the stop.

*Data.* Frames and packets are numbered; a packet has a time in seconds and a
kind. A link message is its type, stream, sequence, generation, body and control
flag. A clip is the list of packets written.

*Plugins.* A handler that holds its plugin's mutex throughout is one step; one that
takes it twice, or lets it go around a publication, a post or an inference, is
several, with what it read before kept as its own. Time is a counter that the
environment moves, or an age where only differences matter, capped at the
largest that is compared with. Pictures are a row of cells or two pixels, a box
is a position on a line, a polygon lies on an integer grid; scores of `Tracker`
are the tenths the overlaps come to, and arithmetic whose rounding matters
(`MotionPixelDiff`'s background, `AlertPolicy`'s 64-bit differences) keeps its
width. Where the code uses a time of 0 for "none yet", so do the models. A network, a codec
or a muxer is what its caller can see of it.

*Environment (marked external in the map).* Consumers connect, ask, hang up and
read; the input plugin's threads end when the plugin is stopped; zm-api answers
in order, late or never; packet times do not decrease. The recorder is given
audio parameters before audio, so every packet has a track.

*Sockets.* `WorkerLink` lets `writev` complete, stop part way, would-block or
fail once the peer has gone. The accepted sockets are blocking, so part-way and
would-block come only from a signal interrupting the call; without one
the call waits, which is the subject of `WorkerLocks`. The `EINTR` branches
themselves and the loop's exit on a failing `poll` are left out.

*Mutations.* A definition commented "Mutation" is a wrong variant of the
definition after it. No specification uses it. Substituting it violates the
property `PROJECT.json` pairs it with, or, where it lists none, the property of its
module that it is named for; it shows that each conjunct of a combined property can
fail on its own.

## 3. Runs

| Run (cfg) | Question | Instance | Result |
|---|---|---|---|
| `StageRunner` | type, `Accounting`, refinement of `DropQueue`, `QueuedFrameMoves` | depth 2, 2 deliverers, 5 frames | holds |
| `StageRunnerStop` | `StopReturns` | depth 1, 1 deliverer, 1 frame | **violated** |
| `CaptureRing` | type, `NoDataRace`, refinement of `FrameFifo`, `PushedFramePopped`, `StopReturns` | 3 slots, 1 producer, 6 frames, one too large, one without payload | holds |
| `RingTwoStreams` | `PoppedWhole` | 2 producers, 3 frames | **violated** |
| `WorkerLink` | `HelloCoversMedia`, `SequencesGrow`, `StatusCurrent`, `ControlNeverDropped`, `PartialWriteFinishes`, `ConsumersSettled` | queue of 1 message; five setups: `Writing`, `Reconfiguring`, `Ordering`, `Crowding`, `Pair` | holds |
| `WorkerLocks` | type with mutex ownership; `NobodyWaitsForEver`: sending, shutting down and answering end | 2 consumers that read, sockets of 1 message, 2 records, 2 commands | holds |
| `LocksNamedCommand` | `CommandsAnswered` | `{"name": "assign_recording"}` | **violated** |
| `Store` | `ClipsInOrder`, `IdsMatch`, `AnswerInTimeCounts`, `ClipContiguous` of all; `EverythingRecorded`, `RotatesOnTime`, `SegmentsDecodable` of segments; `EventCovered`, `SpanBounded` of event clips | segments of 2 s, pre-roll and post-roll 1 s, cap 4 s; three setups: `Segments`, `Failing`, `Events` | holds |
| `PreRollCap` | `EventStartsDecodable` | setup `Trimmed`: one event, cap one second above the window | **violated** |
| `MediaPlugins` | `EachOnce`, `NothingUsedAfterFree`, `MediaKnown`, `CutAndShownRight`, `TimeGoesForward`, `RetriesEnd`, `EveryStopReturns` | ten parts, see below; 98,814 states | holds |
| `EventPlugins` | `OneIdEach`, `AlarmsDeserved`, `LookedAt`, `EvidenceFits`, `StillIsLearned`, `StepsInOrder`, `WorkersFinish` | thirteen parts, see below; 250,757 states | holds |
| `SurfaceFreed` | `SurfaceAlive` | part `media`, hardware decoding, detector in a stage of its own | **violated** |

The instances of `MediaPlugins`, `EventPlugins` and `Store` contain the cases in which claims of
the sources fail: several publishers, stores, streams, cameras, codecs and sizes, clocks
that start again, places on the tripwire, the default threshold, triggers in flight over a stop.
The runs check what holds in these cases too. So `EventPlugins` asks of snapshots that
each is of its camera (`NamedRight`), with the two publishers that may take
them too close together (`Spaced`). The claims that fail are listed under "Further instances";
TLC refutes all but two of them on the very instance of the run. Where a property holds on a
condition, the condition is part of it: `SegmentsCut`, `ScalerRemade`, `StillByTheClock`, `StridesReported`.

The setups of `WorkerLink` are: `Writing`, two producer calls and a statistics
round against writes that stop within a message; `Reconfiguring`, codec
parameters of both streams that change while a consumer joins and falls behind;
`Ordering`, the same while it narrows its subscription; `Crowding`, three
consumers for one place, some of which send garbage or hang up, and a
stop; `Pair`, two consumers at a time, events of both kinds, one hang-up. Those
of `Store`: `Segments`, undisturbed continuous recording of seven packets;
`Failing`, mode "both" with audio, a trigger and files that fail to open;
`Events`, event clips with two triggers, which may be in flight when the recorder is
stopped, and packets of equal time.

### The suites

| Part | Instance | Property, and the conjunct that is this part's |
|---|---|---|
| `bus` | 3 subscribers, 2 publishers, 2 events | `EachOnce` |
| `streams` | one stream with 2 retries, one without limit, two with an entry without URL between; sources come, go and change codec | `ContextsOutliveThread`, `MediaAnnounced`, `SettlesOrEnds`, `StreamsStop` |
| `file` | 5 packets, looped or once, paced or not, opening or not, 3 passes | `VideoForward`, `ReplayStops` |
| `media` | two connections of other frame sizes, for every output scale, or of one size; of another codec; a record-only stream of another codec before, after or between those of the wanted one; with and without conversion; on the CPU or with hardware decoding; detector, encoder or fused stage below | `SurfaceAlive`, `CodecAnnounced`, `ScalerRemade` |
| `pipe` | six files: chain, siblings with a flush, a plugin or the input that fails to start, no input, a library that does not load | `CallsWithinLife`, `ShutdownExits` |
| `mse` | 12 frames with and without parameter sets; 6 without any, the third a key frame, at which they are no longer waited for; 8 whose third is none; queue limit 2 | `SegmentsCut` |
| `webrtc` | 2 plugins, 1 viewer, 2 offers, time-out of one round | `ShownAsAsked`, `OffersSettle` |
| `sink` | 2 publishers | `HandleAlive`, `SinkStops` |
| `audio` | 2 cameras, one listened to; 4 packets of up to 7 samples, window 3, hop 2 | `CodecLearntFirst`, `WindowsHop` |
| `wire` | four dialogues: text at and over the longest length, a later version's field, a Hello without codec, a bad header to either reader; reads of 1, 2, 9, 40 or all bytes; base 4 | `AsSent` |
| `gate` | 2 scenes and opaque frames, 5 frames, cool-down 2 | `OpenForMotion` |
| `motion` | 2 pixels with the byte values around the default threshold of 25, 1 change; plates that are written or not | `PlateFresh`, `StillIsLearned` |
| `zones` | 2 ids, row of 3 points, 2 zones at a time; loaded with their key or as the bare list | `FoundWhereTheyAre` |
| `detector` | 2 objects, 3 cells, sweep 3; box, regions and whole gates, shared engine; inferences that fail | `StandingSeen`, `MovingSeen` |
| `engine` | 3 callers with 2 pictures, each of one of 2 input sizes, batches of 2 | `OwnAnswer`, `InferReturns` |
| `tracker` | 2 detections of a batch, 4 batches, `max_age` 1, `min_hits` 2 | `OneIdEach` |
| `rules` | one intrusion, loitering and line rule; 5 places on and off their edges, one on the tripwire; time stamps with a gap, and some that start again | `AlarmPerVisit`, `StridesReported` |
| `alert` | 1 object; 7 frames with a gap in which it is forgotten, 6 whose time stamps start again | `StillByTheClock` |
| `review` | 2 tracks, 3 alerts, debounce 1 | `DebounceHolds`, `EveryStoryTold`, `ReviewStops` |
| `export` | 2 stores, 2 objects, 3 frames, ring of 2, tubes of 2 samples | `AssetsOfTheClip` |
| `describe` | 2 streams, 3 triggers | `TriggerEmbedded`, `DescriberStops` |
| `snapshot` | 2 cameras, 2 publishers, clock to 4, interval 2 | `NamedRight` |
| `overlay` | 2 streams, 2 publishers, 3 events, time to live 1 | `OwnFreshBoxes` |

### Why the bounds are enough

* Queues: one more frame than fits, twice over, so a queue fills, drops, empties
  and fills again (depth 2 and 5 frames; 2 usable slots and 6 frames wrap the
  ring twice). The same holds of batches (3 callers for batches of 2), of the
  frame ring, tubes and segments.
* Link: a queue of one message overflows on the second; four calls allow
  both announcements, a reconfiguration and media of the other stream, with a
  join between any two; three consumers for one place make a
  descriptor be reused and a consumer be turned away.
* Locks: sockets of one message make every second write wait; two records and two
  commands let a thread come back to a lock while another waits for it.
* Store: six or seven packets give at least two rotations of 2 s, or two clips
  with pre-roll and post-roll of 1 s.
* Streams: two retries distinguish the first failure, one with a retry left and
  the last; back-off doubles, and a thread may be found in every phase by a stop.
* Time-outs, cool-downs and intervals of one to three ticks put an event
  before, at and after each.
* Wire: 4 stands for 256, so that a text of 15 bytes just fits a two-byte length
  and one of 16 is cut; reads of one byte split every unit at every byte.

### Fairness

Only what the code or its runtime schedules is fair: a thread that can run does,
a plugin's `on_frame` returns, `poll` has a 200 ms timeout, a sleep ends.
Frames, triggers, commands, connections, stops, answers and spurious wake-ups
are never assumed, with one exception: `StillIsLearned` and `StillIsQuiet` ask what a
still picture comes to, so frames of it keep coming. `WorkerLocks` uses strong fairness for
acquiring a mutex that is free again and again, as the loop sleeps in `poll`
between its uses; a consumer outside `Stalling` keeps reading. `EventSink` lets a post
end, as `CURLOPT_TIMEOUT_MS` makes it; `OutputWebrtc`'s clean-up comes round
every 30 s; `EventReview`'s worker waits with a time-out and time passes. In
`Pipeline` the capture thread is fair in what changes its own state and its
plugin's, so that a stop is not put off by frames that keep coming. A suite uses
the fairness of its modules, each for the part looked at. Deadlock checking is off
in all runs: each model stops when its bound is reached or its component is
stopped.

### What the violated runs show

1. `StageRunner.cpp:21` - `stop()` clears the flag and notifies without the
   mutex: a notification between the worker's test and its wait is lost, and
   `join` hangs. Taking `mutex_` around the store removes it.
2. `ShmRing.cpp:44` - two pushing threads fill the same slot; the multi-stream
   capture plugin has one thread per stream.
3. `zm-core.cpp:146` - `assign_recording` spelled with `name` comes back into the
   link under its own lock.
4. `store.cpp:294` - the hard trim cuts into the group of pictures the aligned
   trim kept, e.g. with a pre-roll of 13 s and the default cap of 15 s.
5. `decode_ffmpeg.cpp:423` - a GPU descriptor is queued by value while its surface
   is given back when `on_frame` returns (`zm_plugin.h:87`); `decode_detect`, which does
   both in one stage, keeps the rule.

### Further instances

These are not among the runs. Each is a listed configuration with constants changed
as said and, instead of its properties, the one named; TLC then reports it violated. The first
sixteen contradict a line of the sources, which is quoted; of these, naming the part in `Parts`
only saves time.

| Instance | Violated | Because |
|---|---|---|
| `WorkerLocks` with `Stalling` {c2} | `SendMediaReturns` | `WorkerLink.cpp:465`: a consumer that stops reading blocks `writev`, with the link's mutex held, and with it every producer; "Never blocks" (`WorkerLink.hpp:95`) |
| `Store` | `NoneOpenAfterStop` | `store.cpp:641`: a trigger that has passed the test of `running` takes the mutex after `handle_stop` has let it go, and opens a clip (`:705`) that nobody closes; "Lifetime gate for the host callback" (`store.cpp:123`) |
| `MediaPlugins`, part `media` | `WantedCodec` | `decode_ffmpeg.cpp:139`: the metadata of any stream are taken, so with a record-only stream of another codec the decoder is opened for whichever came last; "decode auto-detects H264/HEVC/etc" (`:128`) |
| `MediaPlugins`, part `media` | `ScalerFits` | `decode_ffmpeg.cpp:475`: a scaler is made again only if the output's size differs from the frame's; with `scale` "orig" it never does, with a fixed size not when frames come to have it; "Setup swscale context if needed" (`:470`) |
| `MediaPlugins`, part `media` | `HelloMatchesMedia` | `WorkerLink.cpp:509`: after a reconnection with another codec its Hello overtakes packets still in the ring; "The core turns it into the codec setup for downstream decode/store/Hello" (`capture_file.cpp:75`) |
| `MediaPlugins`, part `mse` | `SegmentsClean` | `output_mse.cpp:896`: the wait for parameter sets ends at any frame, and the first segment begins with it; "ensures clean segment boundaries" (`output_mse/README.md:157`) |
| `MediaPlugins`, part `audio` | `DecoderFits` | `audio_detect.cpp:152`: codec and extradata of any camera are taken, one by one; "so the decoder is auto-detected" (`:144`) |
| `MediaPlugins` with `Runs` {FALSE}, part `audio` | `BufferRolls` | `audio_detect.cpp:565`: nothing is erased when a window cannot be run, so samples add up for ever; "Rolling mono float PCM buffer" (`:100`) |
| `EventPlugins`, part `rules` | `PassesReported` | `analytics_rules.cpp:182`: a step from or to a place on the line has the direction "any", so a rule with a direction never reports an object seen on it in passing; "path crosses a tripwire line (with direction)" (`:6`) |
| `EventPlugins`, part `alert` | `StationaryIsStill` | `alert_policy.cpp:112`: the unsigned difference wraps when time stamps start again, and an object is stationary at once; "still this long => "stationary"" (`:15`) |
| `EventPlugins`, part `motion` | `StillIsQuiet` | `motion_pixel_diff.cpp:270`: the background is rounded down and stops up to 31 short of a brighter picture, which at the default threshold of 25 (`:466`) is motion for ever; "Adaptive background learning" (`docs/Motion_Architecture.md:66`) |
| `EventPlugins`, part `snapshot` | `Spaced` | `store_snapshot.cpp:330`: the interval is tested under one lock and reserved (`:261`) under another, so two publishers both pass; "returns false unless (now_ms - last_ms) >= min_interval_ms" (`snapshot_util.hpp:47`) |
| `EventPlugins`, part `describe` | `OneScene` | `describe_vlm.cpp:255`: the latest frame is shared by the streams, so a detection is described with pictures of another camera; "VLM text + what was detected" (`:256`) |
| `EventPlugins`, part `export` | `ClipsToken` | `review_export.cpp:105`: the token of the clip that ends is not compared with that of the one collected; "store is single-recording", which two stores are not |
| `EventPlugins`, part `engine` | `RightSize` | `detect_engine.cpp:99`: engines are found by model alone, so callers of another input size share the engine of the first; "Returns the decoded boxes for that tensor" (`detect_engine.hpp:36`) |
| `EventPlugins`, part `overlay` | `NewestBoxes` | `overlay.cpp:160`: an event's time is taken before the lock, so of two publishers the older boxes may be stored last; "caches the MOST RECENT set of boxes" (`:5`) |
| `WorkerLink` with `Setups <- Reuse`, `Fds` {1}, `Conns` {1, 2} | `DisconnectedOnlyIfGone` | `WorkerLink.cpp:300`: events of `poll` are matched by descriptor number; one closed and reused within an iteration passes its hang-up on |
| `MediaPlugins`, part `webrtc` | `GoneViewersDropped` | sending a frame counts as activity, so a viewer whose browser has gone stays (`output_webrtc/README.md:11`) |
| `Dialogues` with `cut` of 2 | `CutAndShownRight` | `WorkerLink.cpp:181`: Bye is written past the queue, after a half-written unit, and completes it |
| `Store` with `MaxBufferConfig` equal to `PreRollSec` | `EventCovered` | `store.cpp:278` compares with `<=`, so the aligned trim drops a packet exactly a pre-roll old, which the clip should have |
| `DetectorSetups <- Restarted` | `LookedAt` | `detect_onnx.cpp:481`: after time stamps restart, the next sweep waits for the old ones to be reached |
| `DetectorSetups <- SharedOnRgb` | `LookedAt` | `detect_onnx.cpp:534`: with the shared engine RGB frames pass undetected |
| `Debounce` 3 | `StepsInOrder` | `llm_event_review.cpp:879`: entries are pruned after 30 s though the debounce may be longer |

Five properties of modules no run lists fail as well, with the inputs named:
`StreamManager!EveryEntryAStream` for the entries [id 1, no id], since both become
stream 1 (`capture_rtsp_multi/README.md:52`); `CaptureFile!AudioForward` for a file whose
audio ends after its video; `OutputMse!AtMostMaxSegments`, as the queue trims before
it appends (`output_mse/README.md:111`); `Pipeline!NothingLeftRunning` with two input
plugins (`PluginManager.cpp:177`); `MotionPixelDiff!EveryCameraWatched` with two
instances, since `initialized` is static.

### Other observations

Where code and comments differ, or the code surprised, the models follow the code:

* `WorkerLink.cpp:249`: every event is a control message, so unsubscribing from events
  has no effect (`Wanted`). `WorkerLink.cpp:258`: control messages are not bounded.
  `stream_socket_protocol.cpp:67`: a JSON detail longer than 65535 bytes is cut
  (`Clamped`), and no longer JSON.
* `EventBus.hpp:58`: a callback copied before its `unsubscribe` can begin after it
  (`Call`), which `llm_event_review.cpp:1055` denies and `EventBus.hpp:34-36` allows for.
* `capture_rtsp_multi`: `max_retry_attempts` and `retry_delay_ms` are documented and not
  parsed; at the retry limit the thread ends and its stream stays listed; a
  stop publishes no `StreamDisconnected`; packets are not unreferenced per frame
  (`stream_manager.cpp:324`).
* `decode_ffmpeg.cpp:234`: once the decoder is open, later changes of codec are
  not learnt. `encode_ffmpeg` fixes its frame size at the first frame and flushes, on stop,
  into children that have already stopped.
* `PluginManager.cpp:156`: the result of `start()` is ignored; such a stage runs without
  an instance. A pipeline without input idles until a shutdown and then stops plugins it
  never started.
* `output_mse`: the last group of pictures is never emitted; the stream pointer is used
  after its lock is gone in `popSegment`. `output_webrtc`: `webrtc_stop` never ends the
  service; viewers that are still negotiating are dropped by the clean-up.
* `output_webhook` posts on the publisher's thread. `alert_policy`'s handler takes no
  lock. `analytics_rules` publishes with its mutex held.
* `zones.cpp:325`: `zones_start` hands `loadZones` the bare list of zones, in which it finds
  no key "zones" (`:153`), so none is loaded (`loadZones`).
* `motion_pixel_diff`: a plate that could not be written is tried again with the next
  frame; `detect_onnx.cpp:502`: a sweep whose inference fails counts as made.
* `motion_gate`, and the sweep of `detect_onnx`, keep one state for all streams.
  `motion_hybrid` neither publishes nor forwards.
* `llm_event_review` drops queued jobs on stop despite "Drain the worker", has no limit on
  jobs, notes a review before it succeeds, and tells no stories while jobs come.
  `describe_vlm` drops triggers during its cool-down.
* `store_snapshot`: the interval is used up though encoding or writing fails; a wall clock
  that is set back suppresses snapshots.
* `store`: a trigger that comes before the codec parameters is forgotten
  (`store.cpp:703`), and the post-roll is looked at only when a frame arrives (`:774`).

## 4. Proofs

`StageRunnerProofs` proves, for every `QueueDepth \in Nat`, every set of
delivering threads and every number of frames:

* `StageRunnerSafe`: `Spec => [](TypeOK /\ Freshest /\ Accounting)`.
* `StageRunnerRefines`: `Spec => ImplementsDropQueue`.

The assumptions are those of the module: depth and frame bound are natural
numbers. Depth 0 is allowed; the constructor turns it into 1 (`MaxDepthPos`).

The inductive invariant is `TypeOK`, `Freshest` and `Accounting` together with
two facts about the worker. `PopHasFrame`: between the wait and the pop the queue
is not empty unless the stage was stopped, because nobody else can take the
mutex; without it a pop of an empty queue would have to be considered.
`NoWorkerYet`: before `start()` there is no worker; without it a start could
abandon a frame in the worker's hand and break the accounting. `Deliver` and
`Pop` have lemmas of their own, since they alone change the queue; the others
are one lemma with a case per action. The refinement maps the queue to the
interval of frame numbers `delivered - Len(queue) + 1 .. delivered`; a delivery
maps to a put, a pop to a take and every other step to a stutter, which needs
`Freshest` to know that the popped frame is the oldest of the interval.

`CaptureRingProofs` proves `CaptureRingSafe`: for every `SlotCount >= 2` and every
number of frames, if at most one thread pushes (`SingleProducer`), then
`Spec => [](TypeOK /\ NoDataRace /\ PoppedWhole)`. The run `RingTwoStreams`
shows that the assumption is needed. `NoDataRace` alone is not inductive: that
`push` writes away from the slot `pop` reads rests on what it loaded earlier. The
invariant adds `HeadSeen` (since `push` loaded `head`, the capture thread has only
moved it towards `tail`), `RoomLeft` (so the room seen then is still there when
`tail` is stored) and `ReadsHead` (`pop` reads at `head`, and only while it
differs from `tail`). `PoppedWhole` needs the contents as well: `UsedWhole`, every
slot between `head` and `tail` holds a frame under its own size, and `Written` and
`ReadSoFar`, how far each copy has got. The lemmas `SuccSlot` and `Dist...` do the
arithmetic of the ring once, without the modulus. The step proof has a lemma
for `push` before its last store, one for that store, the same two for `pop`, and
one for the steps that leave the ring alone.

The same module proves `CaptureRingFifo`: `Spec => ImplementsFifo`, under the same
assumption. The frames kept are those between the indices, oldest first. The store
of `tail` maps to a put, the store of `head` to a take, a refusal to a refusal;
that no other step changes the sequence is where `UsedWhole` and `RoomLeft` are
needed again: a slot is written only while it is outside.

`WorkerLinkProofs` proves, for any finite sets of descriptors and connections, any
queue limit, any messages and numbers of reconfigurations:

* `LinkOrdered`: `Spec => [](HelloCoversMedia /\ SequencesGrow /\ StatusCurrent)`.
* `PartialWritesFinish`: `Spec => PartialWriteFinishes`, an action property.
* `ControlKept`: `Spec => ControlNeverDropped`, another.

The three invariants speak of what a live consumer has received followed by what is
queued for it, its view; that a view stays right depends on what the link caches.
`Inv` therefore ties views to caches: the announcements and the keyframe cached are of the
current generation (`Caches`), every number in a view is below the counters
(`Numbered`), and the last a view says of a stream or of the status is what is cached
(`Told`); then a new media message grows and is covered, whatever the consumer
missed. `enqueue` drops media from the middle of a view, the clean-up of a slot resets it,
stop appends: lemma `Mapped` says once which changes keep a view right - those
that lose media and keep all announcements, in order - and lemma `Pieces` that
writing moves messages without changing the view. What is left of each
handler is to name the map. `PartialWriteFinishes` follows from `Continued`: every step but
stop's Bye keeps what is on the wire, and what is partly on it, in front.
`ControlNeverDropped` says of each control message that one of the same rank among the
control messages follows it into the next view; the map of a step, which keeps them all
and in order, gives it.

`WorkerLocksProofs` proves, for any consumers, reading or not, and any socket size:

* `LocksOwned`: `Spec => []TypeOK`, in which each mutex has the owner the program places say.
* `ThreadsStopped`: once main has returned, no thread is left and no mutex held.
* `NoDeadlock`: no threads wait in a circle for mutexes and joins, if the command
  spelt with a name is not sent (`"assign_by_name" \notin Commands`); the run
  `LocksNamedCommand` shows that with it the loop waits for itself.

The invariant says at which places a mutex is owned (`Owned`), of both at once, as
the recorder publishes with both; that main is past a join only when the thread is gone
(`Joined`), so that `handle_stop` takes the store's mutex from nobody; and that the loop
locks twice for that command only (`Relocks`). Writing to a consumer that does not read is
not waiting for a thread, so the theorem says nothing of it (see "Further instances").

`StoreProofs` proves, for every camera, configuration, number of packets, triggers and
answers:

* `ClipsKept`: `Spec => [](ClipsInOrder /\ IdsMatch /\ AnswerInTimeCounts /\ ClipContiguous)`.
* `SegmentsKept`: `Spec => [](SegmentsDecodable /\ EverythingRecorded /\ (ClockSet => RotatesOnTime))`.
* `EventsCovered`: `Spec => []EventCovered`, if `MaxBufferConfig # PreRollSec`.
* `BufferBounded`: `Spec => []SpanBounded`.

`ClipsInOrder` says of the stop that it leaves no segment open. Of an event clip it cannot:
a trigger in flight may open one afterwards (`NoneOpenAfterStop` fails), and that too is the next in order.

Its invariant `Core` ties three lists together. The open clip and the pre-roll buffer
both end with the last packets received (`Seams`), so a clip that opens with
the buffer continues with the next packet. Tokens number the clips (`Tokens`), and the
requests still to be answered are younger than all answered ones (`Owing`), so
a late answer cannot rename a later clip (`Names`). On top of it each theorem has a
part of its own: `Decodable`, a new segment is empty only while its keyframe is in work;
`OnTime`, a keyframe in work is in time or would have rotated; `Gapless`, a segment begins
after the last packet of the one before; `Covering`, what left the buffer is older than
the pre-roll and time has passed the end of every closed clip. Two conditions are
the code's. `ClockSet`: the first packet's time is not 0, since a segment's
`start_ts` of 0 stands for "no packet yet" (`store.cpp:419`, `434`, `731`), and a
first packet at time 0 would be taken for none. And the cap differs from the pre-roll: where they
are equal the aligned trim loses a packet (`store.cpp:278`, see "Further instances").

`MediaProofs` and `EventProofs` take the parts of the two suites one by one. Each part has
an invariant of its own, kept by its steps (lemma `...Holds`), and the theorems about
`MediaSpec` and `EventSpec` conjoin them (`EachPart`), so that they state what the suites'
runs check, for all constants with the hypotheses named. The hypotheses hold of the
instances of the runs; "Further instances" shows that they, and the
conditions in the properties, are needed. In `MediaProofs`:

* `EventBusSafe` and `BusDelivers`: `[]EachOnce`, for any subscribers and publishers and any
  number of events. `EachOnce` speaks of a finished publish, so the invariant has to
  follow it: `NoneTwice`, nobody is in the list twice (a plugin subscribes once), so neither
  is anybody in a copy; `Apart`, the calls made and the calls to make are two parts of one
  copy; `FreshStart`, nothing is left of an earlier publish; `SteadyListed`, who was
  subscribed all along is in the list until the copy is made and in the copy from then on.
* `LifeSafe`: `Pipe!Spec => []Pipe!CallsWithinLife` for every set of non-empty
  pipelines (`PipelineLoader.cpp:87` refuses an empty one): any tree, whatever loads
  or starts, stopped at any moment. The invariant follows main: nothing is made before
  `startAll` (`Unmade`), a made runner's plugin has been started before runners run
  (`Starting`, `Living`), and no plugin stops before all runners are joined (`Stopping`,
  `Stopped`); a call is in progress only while its runner runs (`OnRunner`).
* `NothingLeft`: `Pipe!Spec => []Pipe!NothingLeftRunning`, if each pipeline has at most one input:
  the capture thread ends with its plugin stopped (`InputStopped`), and has ended
  before main stops the others (`Joined`). With two inputs TLC finds one left running.
* `SinkSafe`: `Sink!Spec => []Sink!HandleAlive`, for any number of publishing threads: who posts
  holds the mutex, which stop takes to destroy the handle.
* `NothingFreedIsUsed`: `MediaSpec => []NothingUsedAfterFree`, for any cameras, trees of
  plugins and posting threads, and media of which a decoder on the GPU has no queue before
  its detector (`Fused`). A stream's thread that reads is connected and has its input open
  (`Heard`); a surface is held while its frame is in hand and has not gone on (`Held`).
* `MediaAreKnown`: `MediaSpec => []MediaKnown`, for sources of any streams, codecs and sizes,
  wanted or not, and any cameras whose sound is on the bus. What has been announced is what the
  stream is connected with (`Heard`); nothing is decoded before there is a decoder, and it
  listens until then (`Undecoded`), so that the codec it has learnt is one the source announced
  (`Learned`). That it is the codec of the decoder's own stream is not claimed:
  `WantedCodec` and `DecoderFits` fail.
* `PlaysForward`: `MediaSpec => TimeGoesForward`, an action property, for any files whose video
  goes forward. The packets of a pass that are still to come are later than the last one
  shown, and the next pass begins later still (`PlayInv`).
* `CutRight`: `MediaSpec => [](part # "wire" => CutAndShownRight)`, for any feeds, sizes,
  outputs and samples. Of the segments: where a key frame settles the size (`SettledByKey`), the
  fragment begun goes from its key frame to the last frame and follows the last segment
  (`Cutting`), and until the size is settled nothing is kept (`Unsettled`). Of the scaler: it was
  made for a frame of the source (`FitInv`), and where all frames have one size, or the output
  one that no frame has, it is made for the frame's (`ScalerRemade`). Of the audio
  windows: what was let go is a whole number of hops, and less than a window is left if
  windows can be run (`WindowInv`); a hop is no longer than a window. Of viewers: what is in the
  frame queue is of the camera it is queued for (`ShownInv`), if no two plugins give one
  stream id to different cameras (`Unambiguous`).

In `EventProofs`:

* `AnswersOwn`: `Engine!Spec => []Engine!OwnAnswer`, for any callers, input sizes and batch
  size. A waiting caller is in the queue or in the unanswered part of the batch, and once
  (`Once`, `Awaited`), so its picture stays the one its row was copied from (`RowsRight`). That the
  picture is read with its own size is not claimed (`RightSize`).
* `ReviewsSpaced`: `Review!DebounceHolds`, an action property, if `Debounce <= Prune`: a track
  asked about within the debounce is still in `lastReview`, with that age (`Remembered`).
* `PicturesNamed`: `Snapshot!Spec => []Snapshot!NamedRight`, for any cameras and publishers.
* `LooksWhereItShould`: `EventSpec => []LookedAt`, for any scenes, light, zones and sweeps, if the
  detector is not given RGB frames with the shared engine, nor time stamps that restart
  with regions to look at. The gate is open until the cool-down after the last frame that differed
  (`Opened`); a plate is of a background that has been learned, and is the current one unless it
  could not be written; the zones are indexed each once, in the order of the list; where no
  inference fails, an object has been unseen no longer than the last sweep is ago (`SinceSweep`).
* `OneObjectOneId`: `EventSpec => []OneIdEach`, for any sequences of detections of one class or
  without one, any `max_age` and `min_hits`. Tracks have ids of their own that have been given
  out, and a pass assigns a track and a detection once (`IdsOwn`, `IdsGiven`, `Matching`), whatever
  the greedy passes choose. While one slow object is all that has been seen, there is one
  track, where it was last, as old as it has been unseen, or none, once it has aged out
  (`OnlyOne`); that the passes then find it is arithmetic on the overlap, with the predicted place in one
  pass and the last one seen in another.
* `AlarmsAreDeserved`: `EventSpec => []AlarmsDeserved`, for any rules, tracks and paths, over the
  tripwire or on it, and any clocks, which may start again. A rule's latch knows the visit its
  track is in and when it began (`Latch`), `alert_policy`'s track when its last stay began, and
  how long that was if the time stamps went forward (`Follows`, `Onward`). The property asks
  for a report of each stride from one side of the tripwire to the other, and of a track that has
  been still by time stamps that went forward; without these conditions `PassesReported` and
  `StationaryIsStill` fail. `Surveyed` states of the geometry what is needed at the places looked at: inside is on
  one side of every edge, and to pass from the left of a tripwire to its right is to cross it.
* `EvidenceIsItsOwn`: `EventSpec => []EvidenceFits`, for any callers and input sizes, stores,
  described streams, cameras and publishers. A row is the caller's own (above); while a clip is
  recorded the samples gathered are of its frames (`OfTheClip`) and are counted (`Buffered`); a
  description has been triggered (`Fired`); the latest picture and a box keep the camera or stream
  they came from (`Labelled`, `Own`). What needs one input size, store, stream or publisher is
  not in it (`RightSize`, `ClipsToken`, `OneScene`, `Spaced`, `NewestBoxes`).
* `NeverBack`: `EventSpec => StepsInOrder`, two action properties: reviews are spaced
  (`Debounce <= Prune`), and what moves is shown to the model at once where no inference
  fails (any row of cells; `Compared`).

`Extrema` proves that `Min` and `Max` of the community modules choose an element. Without
induction over data, this is taken from the well-foundedness of inclusion on finite
sets, applied to the intervals below the elements.

## 5. Model-checked only

* Liveness (`QueuedFrameMoves`, `PushedFramePopped`, `StopReturns`, `ConsumersSettled`,
  `NobodyWaitsForEver`, `RetriesEnd`, `EveryStopReturns`, `StillIsLearned`, `WorkersFinish`):
  out of the proof system's reach.
* The part `wire` of `CutAndShownRight`, `StreamProtocol!AsSent`: what a recursive parser finds in
  bytes split at will is induction over data.

## 6. Not modelled

* `store`: sidecar descriptions, file moves, stream filters, codec replacement in an open
  clip. `WorkerLink`: the byte limit of queues; `setSnapshotJson`, which only tests call;
  the creation of sockets and of the shared-memory segment. The Stats payload.
* JSON syntax, option parsing, `plugin_utils`, `host_api`: no state.
* Codecs, muxers, networks and their post-processing, drawing, masks, encoders' options,
  hardware back ends: state of a library, or none. The detectors other than
  `detect_onnx` turn one frame into one event.
* The control servers' JSON, statistics and FFI entry points of `output_mse` and
  `output_webrtc`; prompts and providers of the model plugins; embeddings;
  blobs and zones of `motion_pixel_diff`, which are given no zones; `MotionPersist` and
  `output_mse_refactored.cpp`, which nothing uses.
* Benchmarks and tests.

## 7. Plan

1. Done: the core with its locks, the pipeline's life, the sources, the media path, the
   recorders, outputs, perception and model workers. Every safety property that a passing
   run checks is a theorem, the wire protocol's apart.
2. Next: the refinement of an abstract link (each consumer a sequence of announcements
   and media, of which media may be lost) by `WorkerLink`, whose maps of views are the
   steps of it; the units of `StreamProtocol` with the parser's result as a fold.
3. Later: the byte limit of link queues, the control servers of the outputs, `store`'s
   file moves.
