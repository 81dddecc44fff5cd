# Sonitude: a TLA+ model

Sonitude is a hearing aid for conversations. Six microphones are captured, a
beamformer is steered to the person who is talking, and the result is played in
both ears, all in real time. Beside the runtime the repository holds a Qt test
bench, an edge runtime of a neural network ("Sound Bubble") and the firmware of
the microphone array. This directory models the parts whose correctness depends
on the order in which things happen.

## 1. Inventory

Paths are relative to the repository. The C++ runtime is `src/`.

| Part | State it keeps | Operations | Made by | What makes it correct |
| --- | --- | --- | --- | --- |
| SPSC ring, `src/rt/spsc_ring.hpp` | two atomic indices and the storage | `push`, `pop`, `size` | one producer, one consumer thread | FIFO; no slot is read and written at once; every access is ordered by the atomics; a size once seen can be relied on |
| Playback block pool, `src/audio/playback_block_pool.hpp` | preallocated blocks, free and filled ring, `queued_frames_` | `acquire`, `publish`, `consume`, `release` | DSP loop (main thread), playback thread | each block has one owner; no ring overflows; sound is played once and in order; the frame counter is exact |
| Snapshot buffer, `src/rt/param_snapshot.hpp` | sequence number, payload words | `publish`, `acquire` | control thread, DSP loop | a snapshot is whole and current; reading it ends |
| Control loop, `src/control/`, `src/spatial/source_tracker.cpp` | tracks, last observation time, conversation state, focus | `tick` = poll, ingest, best, resolve, update, publish | control thread, every 10 ms | steers on live evidence only, never into the ambient zone, after the activation hold, and comes back to rest |
| ODAS provider, `src/spatial/odas_*.cpp` | socket, health, backoff, text buffer | `poll`, `feed`, reconnection | control thread | observations in order; none lost while connected; recovers from a lost connection |
| Runtime, `src/main.cpp`, `src/rt/wake_event.cpp` | `g_running`, `runtime_failure`, wake event, four threads | start, audio loop, failure, signal, join | all threads | a failure stops everything and is reported; a control failure does not stop the audio |
| Playback worker, `src/audio/alsa/playback_worker.cpp`, `src/dsp/asrc_controller.hpp` | pending samples, integral and last ratio | `writeStereo`, `update`, `reset` | playback thread | bounded pending samples, the ratio brings the queue to its target |
| Capture worker and devices, `src/audio/alsa/` | PCM handles | `waitForData`, `readBlock`, recovery | DSP loop | outcome handled; the estimators are held after an overrun |
| DSP, `src/dsp/` | filter state | per-block processing | DSP loop | numerical |
| Test bench realtime, `testbench/app/ui/realtime_tab.py`, `app/controller/realtime_controller.py`, `app/audio_io/block_queue.py`, `app/processing/stream_adapter.py` | buttons and the current worker; drop-oldest queue, requests behind a lock, recording files, subprocess | START, STOP, RESTART, RECORD; `run`, `request_stop`, setters, `save_*` | GUI thread, worker threads, audio callback, subprocess | one worker at the sound card; newest blocks kept, answers matched with requests, recordings paired, stop ends |
| Test bench playback, `testbench/app/audio_io/playback_engine.py` | file, stream, position | `play`, `pause`, `stop`, `seek`, callback, timer | GUI thread, audio callback | one stream at a time, closed in the end |
| Edge controller, `Sound_Bubble/edge/controller/process_manager.py`, `server.py` | process, configuration, return code, logs | `start`, `stop`, `restart`, `status`, log readers | server threads, two readers per process | one process; status belongs to it; no line of a log lost; every request answered |
| Edge pipeline, `Sound_Bubble/edge/inference_pipeline.py`, `edge/realtime/` | capture queue, model, dry and output ring, resamplers, recurrent state, stop event | capture and playback callback, `pop_latest`, inference loop, trim, deferred reset; start, supervision, cleanup | two sound-card callbacks, worker, main thread | no block lost without a trace, order, bounded delay, state reset across gaps, shutdown |
| Firmware, `mic-array-pico2w-usb6ch/` | double DMA buffer, USB FIFO | DMA interrupt, USB task | interrupt, main loop | no buffer is read while the DMA fills it |
| Configuration, calibration, tools, training, GUI | files | - | - | sequential or numerical: not modelled |

How they interact, in the runtime:

```
 ODAS --socket--> OdasProvider --poll--> ControlLoop.tick --publish--> SnapshotBuffer
                                          (control thread)                  | acquire
 microphones --ALSA--> CaptureWorker --readBlock--> DSP loop (main thread) <+
                                                       | publish      ^ acquire
                                                       v filled ring  | free ring
                                                   PlaybackBlockPool
                                                       | consume      ^ release
                                                       v              |
                                   playback thread --writeStereo--> ALSA --> ears
```

and around the neural network, where the server threads keep one edge pipeline,
and the test bench starts a worker with a subprocess of its own:

```
 HTTP server threads --start/stop--> ProcessManager --Popen, signals--> edge pipeline
                                          ^ lock                             |
                                     log readers <------- stdout, stderr ----+
 in the edge pipeline:
 capture callback -> DropOldestBuffer -> worker: model ring -> model -> output ring
                                           |                              ^  | read_into
                                           +-> dry ring --(fill, mix)-----+  v
 main thread: supervision, stop, join                        playback callback

 in the test bench:
 buttons -> RealtimeTab --start, stop--> RealtimeWorker <-stdin/stdout-> subprocess
               ^--- posted `stopped' ---------|  ^ DropOldestQueue <- audio callback
                                              +-> raw and processed recording
```

The hard behaviours are the lock-free hand-overs (interleaving and memory
order), the sequence lock under preemption, five states of conversation with a
timer each, stale evidence and failing sensors, split messages and reconnection;
in the Python programs, work done in several sections of a lock with callbacks
between them, gaps in a stream whose consumer keeps state, restarts that overlap,
children that do not die, and shutdown with failures on any thread.
PROJECT.json lists each hazard at its line.

## 2. Modules

| Module | What it is |
| --- | --- |
| `BoundedQueue` | abstract: a FIFO queue with a bound, what a ring promises its users |
| `SpscRing` | the ring, one action per atomic access and two per element access |
| `MCSpscRing`, `SpscRing_proof` | instance; type invariant, three safety properties and the refinement of `BoundedQueue` proved |
| `PlaybackPool` | the pool and the two loops that use it; its rings are `BoundedQueue`s |
| `MCPlaybackPool`, `PlaybackPool_proof` | instance with `NextPow2`; type invariant, ownership, absence of failure, order of playback and the frame counter proved |
| `SnapshotBuffer`, `MCSnapshotBuffer` | the sequence lock, under two memory models |
| `SnapshotBuffer_proof` | whole and current snapshots proved for program order |
| `Control` | the control thread: tracker, zones, state machine and failsafe |
| `MCControl`, `Control_proof` | instance with four directions; type invariant, two safety properties and an action property proved |
| `OdasProvider`, `MCOdasProvider`, `OdasProvider_proof` | the ODAS socket, its reconnection, and the parser that cuts the stream into messages; type invariant and order of the observations proved |
| `EdgeRing` | the ring buffers of the edge pipeline as operators on records, with their index arithmetic |
| `EdgePipeline`, `MCEdgePipeline`, `EdgePipeline_proof` | callbacks, worker and main thread over those rings; instance with four command lines; type invariant, accounting, bound and order of the sound proved |
| `EdgeProcess`, `MCEdgeProcess`, `EdgeProcess_proof` | the process manager, its requests, child and readers; all four invariants proved |
| `TestbenchRealtime`, `MCTestbenchRealtime`, `TestbenchRealtime_proof` | the tab, its workers and their subprocesses; all four invariants proved |

**SpscRing.** `head`, `tail`, `storage` are the members of the class. `push` is
`PushFails` or `PushStarts`, `PushWrites`, `PushPublishes`; `pop` is `PopFails`
or `PopStarts`, `PopReads`, `PopReleases`; `size` is `SizeSeen`. A thread that
loads the other's index may be given any value the index had since its last
load (`Window`); what an acquire load of a release store orders is kept in
`handed` and `returned`; reading an element no write is ordered before yields
anything. A power-of-two capacity and a mask are the wrap-around of `Succ`.
`size` is modelled where the runtime uses it, on the consumer's thread.

**PlaybackPool.** The DSP loop is `Acquire`, `Copy`, `PublishAccounts`,
`PublishPushes`, the playback loop `StartPlayback`, `ConsumePops`,
`ConsumeAccounts`, `WriteStereo`, `Release`: a step for every access to what the
threads share. The counter and the ring are updated in two steps, as in the
code. A dropped block (overrun) and an empty ring (underrun) change nothing that
is modelled. Whether `writeStereo` succeeds makes no difference to the pool: the
block is released either way (`main.cpp:633` to `:646` count the failures, and end the
runtime after several, which is not modelled). The samples of a block are one member of `Audio`.

**SnapshotBuffer.** The stores of `publish` are issued together and become
visible one by one (`StoreOdd`, `StoreWord`, `StoreEven`), the loads of
`acquire` are performed one by one (`LoadBefore`, `LoadWord`, `LoadAfter`), then
`Return` or `Retry`. `Reorders` chooses which orders are possible: program
order, or what `memory_order_release`/`acquire`/`relaxed` leave open and an ARM
core does.

**Control.** `Tick` is the whole of `ControlLoop::tick`. `Sense` is the poll, the
ingest and the choice of a track; `Update` the switch of
`ConversationStateMachine::update`, with one operator per state; `Publish` the
output and the failsafe that overrides it. Time is kept as ages that stop at
`MaxAge`, beyond every timeout. An azimuth is a direction with a zone policy and
a set of directions within the stability threshold, not necessarily a
transitive relation: that is how a focus drifts. Confidence is reduced to
whether it passes for speech. The provider is external to this module: any
observations and any health the `IDoaProvider` interface allows.

**OdasProvider.** `Poll` is `OdasProviderImpl::poll`: its actions are the ways
through `ensureConnected` (`PollWaits`, `ConnectFails`, `Connect`) and the
outcomes of `recv` (`RecvNothing`, `Recv`, `RecvEnds`). `Feed` is
`OdasMessageParser::feed`: `Resync` the cut of a buffer that is too long, `Scan`
the loop over complete objects, `Rest` what the loop erases when it stops,
`EraseStart` the erase after it. The buffer is a sequence of pieces, each the
text up to a brace, since braces are all `feed` looks at; `MaxBuffer` and
`RecvLimit` stand for 256 KiB and 4096 bytes. A message carries its age instead
of a number, so that the state space is finite. The server (`Send`, `Die`,
`Restart`) is external: it sends whole messages until it dies in the middle of
one.

**EdgeRing.** `AudioPush`, `AudioPop`, `AudioContents` are `push`, `pop` and the
contents of `AudioRingBuffer`, which has no read index; `WriteDropOldest`,
`DropOldest`, `AfterTaking`/`Taken`, `Cleared` are `write`, `drop_oldest`,
`read_into` and `clear` of `OutputRingBuffer`, which `DryReferenceRing` wraps. The
storage is a function of the index and what was dropped stays in it, so that an
index that goes astray reads old sound.

**EdgePipeline.** `InputCallback` is the capture callback with
`DropOldestBuffer.push`, `OutputCallback` the playback callback with `read_into`.
An iteration of the worker is cut where it lets go of a lock that a callback
takes: `Pop`, `Drain` (one further pop of `pop_latest` each), `Admit` (gap and age
of the block, queue policy), `Feed` (input resampler, dry and model ring, reset on
overflow), `Infer` (step budget, inference loop, output resampler, mix and fill),
`Write`, `ReadAhead` and `Trim` (measured and trimmed in two sections of the
ring's lock), `Reset` (the deferred `reset_stream_timeline`). `Start`, `Supervise`,
`Signal`, `Cleanup` and `Join` are the main thread; `CallbackFails`,
`StreamDies` and `WorkerFails` what can go wrong. Sound is counted in units,
`Chunk` to a hop, and a unit is its position in the capture: what a resampler or the
model computes is abstracted to what it was fed, and a resampler to the units it
keeps back, at most `SrcDelay` of them: how many is chosen anew in each call from
the command line's `keeps` (`Keeps`, `Emitted`, `Held`), so that its output may come
in bursts. What the machine can afford in a block, which the code estimates
with moving averages, is any number of hops the command line's `affords`
allows. `fed` is the last position in the model's recurrent state. A command
line (`Args`) carries its own bounds, so that one run covers several. With a large
`--recover-ahead-multiplier` the target of a recovery lies above the bound of the
output ring: nothing in the code rules that out, and `OutputLimit` is the larger of
the two.

**EdgeProcess.** A request is a record: the operation, how far the handler is,
and the configuration. The manager's lock is held across two actions only, while
`stop` waits for the child (`Terminate` .. `Waited`, or `Kill` and `GiveUp` after
the timeouts) and between `Popen` and the status that `start` returns (`Spawn`,
`Status`); `restart` is a stop and a start with the lock free between them. A
child writes to two pipes, exits of itself or on a signal it may ignore, and is
`killed` until the system has carried the SIGKILL out. A reader is `ReadLine`,
`HandOver`, `EndOfFile`, and may be ended by an exception: `ReadFails` is text that
cannot be decoded, `ParseFails` a profile field that is no number, which is noticed
when the line is in the log already. Either closes the pipe, with what is in it.
`AppendLog` is the bounded logs, errors and last profile.

**TestbenchRealtime.** The GUI thread is `ClickStart`, `ClickStop`,
`ClickRestart`, `ToggleRecord` and the delivery of posted signals: `WorkerStopped`
and `RestartAfterStop` (`_on_worker_stopped`, `_restart_after_stop`), in the order
of the connections, once per connection, as Qt queues them. A
worker is `run` cut at what it shares with others: `Open`, `LoopHead` (the stop event
and `_sync_recording_state`: `StartRecording`, `EndRecording`), `Get`, `Send`, `Recv`,
`Play`, `WriteRaw`, `WriteProcessed`, `Finally` with `Wait` for the subprocess, `Emit`,
`ThreadEnds`. Each of them may fail where the code may: opening either recording file
or closing it, opening, stopping or closing a stream, writing. An error is caught by
`run`'s handlers (`Fails`), except in `Finally`, where the recording files are closed
without one: then the streams and the subprocess are left as they are, `stopped` is
not emitted, and the thread ends (`raised`, `crashed`). The subprocess, the message
loop of `stream_process.cpp`, answers in order, exits, or does neither.
`_stopping` and the widget states are the set `buttons`.

## 3. Runs

| Run | Question | Bounds |
| --- | --- | --- |
| `spsc_ring` | Is the ring a race-free FIFO queue under every interleaving and stale load? | 4 slots (3 usable): indices wrap, a view can be up to three behind, ring full and empty; 2 elements tell order and contents apart |
| `playback_pool` | Does each block have one owner, do the two failures of `main.cpp` never happen, is sound played in order, does the counter agree, does every block come back? | 3 blocks in rings of 4, as many as the places outside the rings plus one, so both rings are seen empty and full; blocks of 1 or 2 frames; 2 sounds |
| `snapshot_ordered` | In program order, are snapshots whole and current, does reading end, with a sequence that wraps? | 3 words; sequence modulo 8; at most 2 publications begin during one read |
| `snapshot_torn` | The same with the reorderings the source allows: a snapshot is torn (finding) | as above |
| `snapshot_wait_free` | The publisher is preempted: reading does not end (finding) | as above |
| `control` | Live evidence only, never the ambient zone, focus only after the hold, silence ends in rest, a talker is focused on | 2 sources; focus, assist, ambient and uncovered directions; timeouts of 1 or 2 ticks and ages to 3 |
| `odas_provider` | Do observations arrive in order and once, is the buffer bounded, do they resume after the server has died in the middle of messages? | messages of 1 or 2 sources (4 or 6 pieces), a buffer of 10, 6 pieces per recv, 8 in flight: messages are split everywhere, the buffer overflows with and without a message boundary in it |
| `odas_split` | On an unbroken connection, is every message observed when its last piece arrives? Not so (finding) | a buffer of 20 and 10 in flight: it does not take an overflow |
| `edge_pipeline` | Is every block accounted for, is sound played in order and with a bounded delay, does every stop end? | four command lines: adaptive with dry fill and strict with mix, 4 blocks and one failure of the output or the worker each; strict with mix and resamplers that burst, 4 blocks; strict, 7 blocks, so that the output ring of 24 units wraps. Hops of 2 units, 2 to a block, resamplers that hold 1 back, or none or one in turn: wet sound and blocks never line up. Capture queue of 2, model ring of 7 units: both overflow |
| `edge_coherence` | Is what the model is fed contiguous, or reset? Not so (finding) | adaptive, 6 blocks, capture queue of 1 |
| `edge_process` | One child, true status, no line lost but by a reader that fails, every request answered? | 2 overlapping handlers, 3 requests, 2 children, one valid and one invalid configuration; logs of 2 lines, errors and pipes of 1, 2 profile lines: pipes fill, logs rotate and readers fail at either place |
| `testbench_realtime` | One worker, newest blocks, paired recordings, and does a stop end? | 2 workers and 3 clicks: a restart clicked twice, or clicked into the end of a worker; a queue of 2 and 4 blocks: order in the queue, and two drops in a row |

The bound `Overlap` of the snapshot model stands for time: the control thread
sleeps 10 ms after each publication, and a read takes microseconds. `SeqMod`
stands for 2^32; the assumption `2 * (Overlap + 1) < SeqMod` is what keeps a
number from coming round within a read: a reader slow enough to see that is excluded,
not checked. `MaxGap` is the longest time between two
ticks; in the run every tick is one unit after the last, while the proofs hold
for any gap.

Every property has a mutant: an operator beside the one it replaces, changed the
way a bug would change it, with which TLC finds the property violated. They are
marked "Mutant of" in the modules and are not part of the specification.

**Fairness.** `PlaybackPool`: both threads run, because capture delivers as long
as the device does and the playback loop polls every millisecond.
`SnapshotBuffer`: the reader completes its steps and the writer a publication it
has begun; `PreemptedSpec` drops the second, since the writer is `SCHED_OTHER`
and the reader `SCHED_FIFO`. `Control`: the thread goes on ticking, nothing is
assumed of the provider; the two liveness properties state what the input must
do. `OdasProvider`: the control thread polls every tick (`PollFairness`, which is
weak fairness of `Poll` written so that TLC checks it quickly), time passes; that
a connected server goes on sending, and that it stops dying, are assumptions on
the environment, without which there is nothing to observe. `SpscRing`
needs none: its operations have no loops.
`EdgePipeline`: the main thread and the worker run; the sound card owes nothing, nor
does anything that fails. The worker's weak fairness is written out
(`WorkerReady`, `WorkerMoves`), for speed as well. `EdgeProcess`: handlers and
readers run, and a SIGKILL is carried out in the end; that a child obeys SIGTERM
is not assumed. A thread that waits for the lock could starve if others kept
taking it; the bounds on requests and lines exclude that, as does a real
server's load. `TestbenchRealtime`: the event loop delivers and the worker threads
run; the subprocess owes nothing. `recv_block` has no timeout, so a worker may wait
there for ever, and `Stops` says so: a worker that is told to stop, or has failed,
comes to its end or is at that one place (`Hangs`). The workers' weak fairness is
written out (`WorkerReady`, `WorkerMoves`).

Each of the edge and test bench modules fits its bounds to the interesting cases
and no further: a second lost device or a third overlapping restart repeats what
the first did. The theorems about them hold for every size.

## 4. Findings

* **A snapshot can be torn on a weakly ordered processor** (`snapshot_torn`).
  `publish` stores the odd number with release, which does not hold back the
  relaxed stores that follow it; `acquire` loads the words relaxed and the
  number again with acquire, which does not hold back the loads before it. Equal
  even numbers can therefore surround words of two snapshots. A release fence
  after the first store and an acquire fence before the second load would close
  both gaps. `tests/unit/snapshot_tests.cpp:67` requires that a read is never
  torn; x86, where the test passes, is the `snapshot_ordered` run.
* **Reading a snapshot is not wait-free** (`snapshot_wait_free`), although
  `docs/CodebaseState.md:59` says so: `acquire` spins while a publication is in
  progress. (The repository's README lists this as a known risk.)
* **A split message after a complete one is lost** (`odas_split`).
  When the loop of `feed` meets an object that is not complete it erases
  everything before it (`src/spatial/odas_message_parser.cpp:274`), and line 293
  then erases the length of the complete objects a second time: the beginning of
  the next message, or all of it that has arrived. `tests/unit/odas_parser_tests.cpp:33`
  requires that a split message is parsed, but splits only one that comes first.
  Since the loop has dealt with the other cases, the last erase is needed only
  when the buffer ends in a complete object.
* **After a gap the model is fed sound from both sides of it** (`edge_coherence`).
  `reset_stream_timeline` clears the model ring with
  `if hasattr(model_ring, "clear")` (`Sound_Bubble/edge/inference_pipeline.py:466`),
  and `AudioRingBuffer` has no `clear`. What a hurried worker left in the ring before
  a gap is therefore continued, in one stretch and with one recurrent state, by
  what came after it. `Sound_Bubble/edge/EDGE_RUNTIME.md:344` rules that out, and line
  258 says that this reset clears the ring.

Other observations made while modelling, none of them with a run of its own.

* Edge pipeline. The average of the inference time is updated only when a step ran
  (`inference_pipeline.py:581`, `:700`): once it says that no step fits, none is
  tried again. Dry sound is taken from its ring only for fills and for the mix
  (`:545`, `:659`), and after a clean hop without mix it ages there until the ring
  drops it. An overflow of the model ring resets the model but leaves the ring's
  contents (`:564`). `worker_exception` is flagged before its text is stored (`:768`).
* Test bench. A START or RESTART clicked while a restart or the end of the last
  worker is still pending can put two workers at one sound card: `OneWorker`
  excludes this for a patient user only, and without the history variable `impatient`
  TLC shows the two. `testbench/README.md:157` says that after a failure "START /
  RESTART remain usable"; when the recording files cannot be closed in `run`'s
  `finally` (`realtime_controller.py:304`), `stopped` is never emitted, and START stays
  disabled, as `Stops` admits. Applying pipeline files
  restarts a running stream whatever the argument `restart_if_running` of
  `apply_pipeline_files` says (`realtime_tab.py:243`), as the selection it sets
  signals a change; `testbench/README.md:104` describes the restart.
* Edge controller. A start that fails has cleared the return code of the last child
  (`process_manager.py:47`), which `StatusTrue` admits, and a late line of the last
  child's readers may reach the errors and the last profile of the next one, of which
  it says nothing. A reader that meets text it cannot decode, or a profile field
  that is no number, ends without a word and closes the pipe under the child (`:133`,
  `:148`). A request in progress when the server stops
  (`controller/server.py:125`) may start a child that nobody stops.
* `edge/dummy_realtime.py`, the older program, whose helpers the pipeline still
  uses: the loop of its worker ends at line 892, and the write to the output ring
  stands in the exception handler (line 923). What it processes is never played.

`Resumes` is weaker than one might like, for two reasons the model shows. When
every recv splits the message that follows a complete one, each is lost in turn.
And the buffer outlives the connection: half a message left by the old one keeps
the messages of the new one from being complete until 256 KiB have gathered.
When the buffer is full exactly, one byte is dropped, and messages that lay in it
may then be observed in one burst, in order but late.

While stating `SilenceReleases` one more thing came up: speech from a direction
no zone covers cannot start a focus, but keeps one, because
`ConversationStateMachine` asks for a focus zone when it enters a focus and only
for "not ambient" while it stays. And since `Held` is reached only when there is
no track, which means that the provider is unhealthy or silent, the failsafe
usually overrides a held direction before it is heard.

## 5. Proofs

`tlapm` checks all proofs; each holds for every value of the constants that the
named assumption of the module allows.

* **`SpscRing_proof`** (assumption `RingAssumption`: at least two slots).
  Invariant `Inv == TypeOK /\ Order /\ Checked /\ Handover`. The safety
  properties are not inductive: what matters is how the two threads' views lie
  on the ring. `Order` says that going round from the producer's view of `tail`
  one meets `tail`, the consumer's view of `head`, then `head`, within one turn;
  `Checked` what a thread past its check still knows; `Handover` that the views
  bound the slots handed over. Lemmas about `Dist` and `Arc` do the modular
  arithmetic. Theorems: `TypeCorrect`, `NeverShared`, `AccessesOrdered`,
  `SizeKeepsPromise` and `ImplementsFifo`, the refinement of `BoundedQueue`.
* **`PlaybackPool_proof`** (`PoolAssumption`: the rings have more slots than
  there are blocks). Invariant `TypeOK /\ OneOwner /\ Conserved /\ NeverFails`.
  That no ring overflows follows from `Conserved`, a strengthening that counts the
  blocks instead of naming them: the
  two rings and the two threads hold them all. It rests on the rings being
  queues, which is what `ImplementsFifo` proves of `SpscRing`.
  `SoundIsPlayedInOrder` looks at the sounds on their way (`Streamed`): a step
  leaves them, takes the first or appends one, and a filled block is not touched
  since it has one owner. `FramesAreAccounted` needs to know how `FramesIn`, a
  recursive function, changes when a block joins or leaves the queue; from it follows
  `CounterNeverWraps`, the assertion in `consume`.
* **`Control_proof`** (`ControlAssumption`: a failsafe timeout below `MaxAge`).
  Invariant `TypeOK /\ Evidence /\ AimOK /\ Timed` and the two safety
  properties. `Evidence` ties the youngest track to the time of the last
  observation: the loop tests one, the property speaks of the other. `AimOK`
  keeps a drifting focus out of the ambient zones. `Timed` compares the
  candidate's timer with the history variable `talking`.

* **`SnapshotBuffer_proof`** (`SnapshotAssumption`: a sequence number of even
  range that does not come round within a read). Invariant
  `TypeOK /\ Written /\ Untorn`, and `Loading` while words are loaded. `Written` says which words
  a publication in progress has stored, `Loading` what the words already
  loaded are as long as the sequence has not moved; in between lies the distance
  the sequence has gone, which the assumption keeps below its range
  (`DriftBound`). `TypeCorrect` holds for both memory models; `Whole` and `Latest`
  assume `~Reorders`, and `snapshot_torn` shows that they need to.
* **`EdgePipeline_proof`** (`SizesAssumption`, `ArgsAssumption`). `BlocksAreAccounted` rests on
  `Inv == Counts /\ Ordered /\ Counted /\ Accounted`: the gaps the worker reports add up
  because blocks are queued in the order of their capture. `OutputStaysBounded` rests
  on `Sized`: a block's output, wet sound and fill together, is a block and a resampler's
  delay at most (`InferSize`, for which the output resampler may not keep more than
  `SrcDelay`, in whatever bursts it gives it back), and what was measured before the
  trim can only shrink until it. Its limit, `OutputLimit`, is the bound of the ring or a
  recovery's target, whichever is larger, so that it holds for every command line.
  `SoundStaysInOrder` rests on `Flow == Typed /\ AtWork /\ InSequence` besides:
  along the whole way, from the sound played over what waits for the sound card, the
  output resampler, the model ring and the input resampler up to the block that
  is fed next (`Orderly`), positions rise. A step moves sound from one
  stretch of this way to the one before, or drops some of it. The dry sound that fills
  gaps has no place in this order, and needs none. `NothingOverwritten` is
  an action property no run states: `write_drop_oldest` never has to drop as long as the
  ring has room for a block above that limit, which is its hypothesis: sound in the ring stays there until
  it is played, trimmed or cleared. `TypeCorrect` adds `Placed`, the modes
  of the threads.
* **`EdgeProcess_proof`** (`CapacityAssumption`, `HandlersAssumption`: the
  word for a free lock names no handler). Invariant: `TypeOK`, `OneChild`, `StatusTrue`, and
  `Locked` (who waits for the child has the lock), `Born` (the child kept is the
  last one started), `Ends` (a reader ends when nothing is left), `Continues`,
  `Counted` and `InLog` (log, held line and pipe of a stream are one run of numbers). The
  lemmas say what a bounded deque keeps of such a run.
* **`OdasProvider_proof`** (`OdasAssumption`: messages of at least one source, limits
  of at least one piece). Invariant `IInv == TypeOK /\ InOrder /\ Arrives`.
  `Arrives` says of the whole stream, what the parser holds and then what is on its way,
  that messages end in it in the order of their sending, and all of them after the
  newest one observed. It is kept because `feed`, whatever it returns, leaves
  the end of what it had, and returns ends of messages from before that (`FeedIs`).
  For the loop this is `ScanFound`: what holds of every place where the loop may
  stand. A message is observed once, as its end cannot be on both sides of the cut. The
  theorems say nothing of messages that are lost; `odas_split` shows one.
* **`TestbenchRealtime_proof`** (`CapacityAssumption`, `BoundsAssumption`). Invariant
  `TypeOK /\ Created /\ Patient`, and `Local` for each worker: `Talk` (one request on
  its way, whose answer is the one awaited: the check of the sequence number never
  fails), `Released`, `Backlog`, `Recorded`. `Patient` is what `OneWorker` needs:
  until the user is impatient, a busy worker is the last one created, no signal
  is posted, and at most one restart is connected.

Recursive functions are reasoned about without the library's rules of induction,
whose parameter is an operator: `LeastElement` says that a set of numbers that is not empty
has a least one, and a lemma that holds for every length, or every place in
a buffer, holds because there is no least length, or no place nearest to the end, for which
it fails (`ScanExists` and `ScanFound` in `OdasProvider_proof`, the lemmas on `FramesIn`
in `PlaybackPool_proof`).

In all modules the bounds of a run (`MaxCalls`, `MaxBlocks`, ...) are constants of
the theorems too: they hold for every value of them.

Checked by TLC only are the liveness properties (`BlocksReturn`, `ReadReturns`,
`SilenceReleases`, `TalkerIsHeard`, `Resumes`, `Shutdown`, `Answered`, `Stops`), which
are out of the prover's reach, and the four runs that show a finding. Every
invariant and every other property of the passing runs is proved.

## 6. What is left

In the order of what it would add:

1. `Runtime`: main, playback, control and telemetry threads with `g_running`,
   `runtime_failure`, the wake event and the joins; composes the outcomes of the
   pool and of the workers. Properties: all threads end after a failure or a
   signal; a failure is reported; a control failure leaves the audio alone.
2. `PlaybackWorker`: pending samples, resampler consumption, recovery; the ASRC
   controller with integers, checked against a plant that fills and drains.
3. `PlaybackEngine` of the test bench, then the firmware's double buffer.
4. In `EdgeProcess` the end of `serve()`; in `TestbenchRealtime` the parameter
   setters and the copies of a recording; in `EdgePipeline` the moving averages
   behind the step budget, in integers.

The hazards of PROJECT.json that no property covers belong to these, but for two
at which the code does go wrong (section 4): clicks into a pending restart, and what
status and errors tell after a start that failed or a late reader.

## 7. Not modelled

* Signal processing (floating point, one thread), configuration, calibration and
  HRTF tools (sequential or numerical), ALSA, sockets, Qt and sounddevice themselves,
  which appear only as the outcomes the code handles.
* Most of the repository's Python: notebooks, training, dataset generation and
  models of the neural networks, evaluation, plots and the widgets of the test
  bench. They compute numbers or draw them, on one thread and without a state of
  their own whose order of changes matters. A model of them would be a copy of the
  formulas, about which a model checker has nothing to say. This is why the modules map
  to a small share of the lines, the ones where threads, processes and devices meet.
* Of the parts modelled in part:
  * Control: the branch of `tick` without a state machine, which only tests take,
    and the smoothing of angles.
  * ODAS: the numbers in a message, and a tcp endpoint without a port.
  * Edge pipeline: filters, levels, statistics and the moving averages; the age of
    a block matters only under the adaptive policy, as in the code; `stop_event.set()` and
    `in_buf.close()` are one step. What a streaming resampler emits is taken as a
    whole number of units, all but `SrcDelay` of what it was given at least; the
    clipping at the end is left out.
  * Edge controller: the fields of a configuration and of a profile line,
    reading the logs over HTTP, authorisation, and the end of `serve()`. The lines
    that a failing reader leaves unread stay in `pipe`, where nobody reads them: its
    close loses them.
  * Test bench: the setters and `set_suppression_focus`, saving a recording,
    closing the window, the layout of messages. A recording file counts as closed
    when its `close()` has raised, and keeps what was written to it. Streams left open by
    an error are forgotten when the thread ends: that their callbacks may come for a
    while yet has no effect but on a queue nobody reads. A subprocess left behind by such
    an error lives on. SIGKILL always works there.
* `edge/dummy_realtime.py` is an older form of `inference_pipeline.py`, and `EdgePipeline`
  stands for the latter only.
