---------------------------- MODULE EdgePipeline ----------------------------
(***************************************************************************)
(* The live pipeline of Sound_Bubble/edge/inference_pipeline.py: the two   *)
(* sound-card callbacks, the worker and the main thread, with the buffers  *)
(* of edge/realtime between them.                                          *)
(*                                                                         *)
(* Sound is counted in units; a hop of the model is Chunk units, a block   *)
(* of the sound card Hops hops, at every sample rate.  A unit is named by  *)
(* its position in the capture, so that block k holds the positions        *)
(* k*Block + 1 .. k*Block + Block.  What the filters and the model compute *)
(* is left out; what they were fed is not.                                 *)
(***************************************************************************)
EXTENDS EdgeRing

CONSTANTS
    Hops,            \* --hops-per-io
    Chunk,           \* units in a hop
    SrcDelay,        \* units a resampler may hold back, at most (0: polyphase)
    CaptureBlocks,   \* --max-capture-blocks
    ModelRingUnits,  \* capacity of the model ring
    MaxAheadArg,     \* --max-output-ahead-sec
    TargetAheadArg,  \* --target-output-ahead-sec
    RecoverArg,      \* --recover-ahead-multiplier: units above the target
    RecoverSteps,    \* --recover-steps-per-block
    MaxSteps,        \* --max-steps-per-block
    RingBlocks,      \* size of the output ring in blocks (64 in the code)
    Args,            \* the command lines: queue and overload policy, mix_dry; and for
                     \* each the bounds: blocks captured, hops the machine can afford
                     \* in a block, units a resampler may keep after a call, which of
                     \* "in", "out", "worker" may fail, one once
    MaxCapture       \* bound: blocks captured, at most

Block == Hops * Chunk

(* compute_output_ring_params *)
RingMaxAhead    == AtLeast(3 * Block, MaxAheadArg)
RingTargetAhead ==
    LET target == AtLeast(Block, TargetAheadArg)
    IN  IF target < RingMaxAhead THEN target ELSE AtLeast(Block, RingMaxAhead \div 2)
RingFrames      == AtLeast(RingBlocks * Block, 2 * RingMaxAhead)

\* The target of a trim, in a recovery above the ordinary one, and the sound that
\* may wait when a block is through: a recovery may aim above the bound.
RecoverAhead == RingTargetAhead + RecoverArg
OutputLimit  == AtLeast(RingMaxAhead, RecoverAhead)

ASSUME SizesAssumption ==
    /\ {Hops, Chunk, CaptureBlocks, ModelRingUnits, RingBlocks} \subseteq Nat \ {0}
    /\ {SrcDelay, MaxAheadArg, TargetAheadArg, RecoverArg} \subseteq Nat
    /\ {RecoverSteps, MaxSteps, MaxCapture} \subseteq Nat
ASSUME ArgsAssumption ==
    Args \subseteq [queue : {"fifo", "latest", "adaptive"},
                    overload : {"dry_fill", "silence_fill", "strict"},
                    mix : BOOLEAN,
                    blocks : 0 .. MaxCapture,
                    affords : SUBSET (0 .. Hops),
                    keeps : SUBSET (0 .. SrcDelay),
                    faulty : SUBSET {"in", "out", "worker"}]

None    == 0     \* no position
Nobody  == -1    \* last_capture_idx is None
Zero    == [kind |-> "zero", at |-> None]
Wet(p)  == [kind |-> "wet", at |-> p]
Dry(p)  == [kind |-> "dry", at |-> p]
Frames  == {Zero} \cup [kind : {"wet", "dry"}, at : 1 .. MaxCapture * Block]

Input(k) == [j \in 1 .. Block |-> k * Block + j]   \* the units of block k

VARIABLES
    args,        \* the command line
    inBuf,       \* DropOldestBuffer: capture indices
    closed,      \* its _closed
    capDropped,  \* its stats.dropped_oldest
    captured,    \* capture_frame_index
    refused,     \* history: blocks pushed after close()
    wpc,         \* where the worker is
    item,        \* the block it has taken
    drained,     \* blocks taken and passed over by this pop_latest
    pending,     \* pending_timeline_reset_reason
    mode,        \* queue_policy["mode"]
    lastIdx,     \* queue_policy["last_capture_idx"]
    age,         \* capture age: "fresh" (below half the limit), "aged", "stale"
    gapBlocks,   \* perf["capture_gap_blocks"]
    drainedBlocks, \* perf["capture_drained_blocks"]
    inSrc, outSrc, drySrc, \* what the three resamplers hold back
    modelRing, dryRing, outRing,
    fed,         \* last position in the recurrent state, None after a reset
    yOut,        \* y_out
    trim,        \* frames to trim, and the target in force
    stop,        \* stop_event
    failed,      \* runtime_flags: exceptions of input, output, worker
    mpc,         \* where the main thread is
    streams,     \* input and output stream
    first,       \* history: the first block processed
    processed,   \* history: number of blocks processed
    played,      \* history: last wet position handed to the sound card
    incoherent   \* history: the model continued across a gap

capture  == <<inBuf, closed, capDropped, captured, refused>>
taking   == <<item, drained>>
policy   == <<pending, mode, lastIdx, age, gapBlocks, drainedBlocks, first, processed>>
resample == <<inSrc, outSrc, drySrc>>
rings    == <<modelRing, dryRing, outRing>>
output   == <<yOut, trim, played>>
model    == <<fed, incoherent>>
control  == <<stop, failed, mpc, streams>>
vars == <<args, capture, wpc, taking, policy, resample, rings, output, model, control>>

-----------------------------------------------------------------------------
Init ==
    /\ args \in Args
    /\ inBuf = <<>> /\ closed = FALSE /\ capDropped = 0 /\ captured = 0 /\ refused = 0
    /\ wpc = "pop" /\ item = Nobody /\ drained = 0
    /\ pending = "none" /\ mode = "normal" /\ lastIdx = Nobody /\ age = "fresh"
    /\ gapBlocks = 0 /\ drainedBlocks = 0 /\ first = Nobody /\ processed = 0
    /\ inSrc = <<>> /\ outSrc = <<>> /\ drySrc = <<>>
    /\ modelRing = AudioRing(ModelRingUnits, None)
    /\ dryRing = OutputRing(RingFrames, None)
    /\ outRing = OutputRing(RingFrames, Zero)
    /\ yOut = <<>> /\ trim = 0 /\ played = None
    /\ fed = None /\ incoherent = FALSE
    /\ stop = FALSE /\ failed = {} /\ mpc = "preflight"
    /\ streams = [s \in {"in", "out"} |-> "none"]

-----------------------------------------------------------------------------
(* The callbacks of the sound card.                                        *)

InputCallback ==
    /\ streams["in"] = "active" /\ captured < args.blocks
    /\ captured' = captured + 1
    /\ IF closed
       THEN /\ refused' = refused + 1
            /\ UNCHANGED <<inBuf, capDropped>>
       ELSE /\ inBuf' = Append(IF Len(inBuf) >= CaptureBlocks THEN Tail(inBuf) ELSE inBuf, captured)
            /\ capDropped' = capDropped + (IF Len(inBuf) >= CaptureBlocks THEN 1 ELSE 0)
            /\ UNCHANGED refused
    /\ UNCHANGED <<args, closed, wpc, taking, policy, resample, rings, output, model, control>>

OutputCallback ==
    /\ streams["out"] = "active"
    /\ LET taken == Taken(outRing, RingFrames, Block)
           wet   == {taken[i].at : i \in {j \in DOMAIN taken : taken[j].kind = "wet"}}
       IN  /\ outRing' = AfterTaking(outRing, RingFrames, Block)
           /\ played' = IF wet = {} THEN played ELSE CHOOSE p \in wet : \A q \in wet : q <= p
    /\ UNCHANGED <<args, capture, wpc, taking, policy, resample, modelRing, dryRing,
                   yOut, trim, model, control>>

Lost == {s \in DOMAIN streams : streams[s] = "inactive"}

\* One thing goes wrong, and not after the stop request, when the main thread no
\* longer looks.
MayFail(t) == t \in args.faulty /\ failed = {} /\ Lost = {} /\ ~stop

\* An exception inside a callback, caught and flagged there.
CallbackFails(s) ==
    /\ MayFail(s)
    /\ streams[s] = "active"
    /\ failed' = failed \cup {s}
    /\ UNCHANGED <<args, capture, wpc, taking, policy, resample, rings, output, model,
                   stop, mpc, streams>>

\* A device that goes away: the stream is no longer active.
StreamDies(s) ==
    /\ MayFail(s)
    /\ streams[s] = "active"
    /\ streams' = [streams EXCEPT ![s] = "inactive"]
    /\ UNCHANGED <<args, capture, wpc, taking, policy, resample, rings, output, model,
                   stop, failed, mpc>>

-----------------------------------------------------------------------------
(* The worker.                                                             *)

\* in_buf.pop(): the first block; with `fifo' the only one.  The worker has
\* found stop_event clear before it came here; a stop does not take the block back.
Pop ==
    /\ wpc = "pop" /\ inBuf # <<>>
    /\ item' = Head(inBuf) /\ inBuf' = Tail(inBuf)
    /\ wpc' = IF args.queue = "fifo" THEN "admit" ELSE "drain"
    /\ UNCHANGED <<args, closed, capDropped, captured, refused, drained, policy, resample,
                   rings, output, model, control>>

\* pop_latest(): one further pop(timeout=0.0).
Drain ==
    /\ wpc = "drain"
    /\ IF inBuf = <<>>
       THEN wpc' = "admit" /\ UNCHANGED <<item, inBuf, drained>>
       ELSE /\ item' = Head(inBuf) /\ inBuf' = Tail(inBuf) /\ drained' = drained + 1
            /\ UNCHANGED wpc
    /\ UNCHANGED <<args, closed, capDropped, captured, refused, policy, resample, rings,
                   output, model, control>>

\* Mutant of Gap: the distance of two blocks, not what is missing between them.
GapDistance == IF lastIdx = Nobody THEN 0 ELSE item - lastIdx

Gap == IF lastIdx = Nobody THEN 0 ELSE AtLeast(0, item - lastIdx - 1)

\* The age of the block is measured, which only the adaptive policy looks at;
\* a discontinuity is recognised.
Admit ==
    /\ wpc = "admit"
    /\ \E a \in IF args.queue = "adaptive" THEN {"fresh", "aged", "stale"} ELSE {"fresh"} :
        LET discontinuity == drained > 0 \/ Gap > 0 \/ a = "stale"
        IN  /\ age' = a
            /\ mode' = IF discontinuity THEN "shed" ELSE "normal"
            /\ pending' = IF discontinuity THEN "capture-discontinuity" ELSE "none"
    /\ drainedBlocks' = drainedBlocks + drained
    /\ gapBlocks' = gapBlocks + Gap
    /\ lastIdx' = item
    /\ first' = IF first = Nobody THEN item ELSE first
    /\ processed' = processed + 1
    /\ wpc' = "feed"
    /\ UNCHANGED <<args, capture, taking, resample, rings, output, model, control>>

\* StreamingResampler.process(): all it was given but the last k units.  How many
\* it keeps may change from call to call.
Keeps(hold, xs)      == {AtMost(k, Len(hold \o xs)) : k \in args.keeps}
Emitted(hold, xs, k) == SubSeq(hold \o xs, 1, Len(hold \o xs) - k)
Held(hold, xs, k)    == NewestOf(hold \o xs, k)

(***************************************************************************)
(* reset_stream_timeline, its part that never touches the output and the   *)
(* dry ring: the resamplers and the model's state.  The model ring is      *)
(* left as it is, since AudioRingBuffer has no method `clear'.             *)
(***************************************************************************)
ResetStreams ==
    /\ inSrc' = <<>> /\ outSrc' = <<>>
    /\ fed' = None

\* The block goes to the dry and to the model ring; an overflow resets all.
Feed ==
    /\ wpc = "feed"
    /\ \E k \in Keeps(inSrc, Input(item)), d \in Keeps(drySrc, Input(item)) :
        LET ring == AudioPush(modelRing, ModelRingUnits, Emitted(inSrc, Input(item), k))
            dry  == WriteDropOldest(dryRing, RingFrames, Emitted(drySrc, Input(item), d))
        IN  /\ modelRing' = ring
            /\ IF ring.dropped > modelRing.dropped
               THEN /\ ResetStreams
                    /\ outRing' = Cleared(outRing)
                    /\ dryRing' = Cleared(dry) /\ drySrc' = <<>>
               ELSE /\ inSrc' = Held(inSrc, Input(item), k)
                    /\ dryRing' = dry /\ drySrc' = Held(drySrc, Input(item), d)
                    /\ UNCHANGED <<outSrc, outRing, fed>>
    /\ wpc' = "infer"
    /\ UNCHANGED <<args, capture, taking, policy, output, incoherent, control>>

\* The step budget under a measured cost that allows `sustainable' hops.
Recovering(sustainable) ==
    /\ args.queue = "adaptive" /\ mode # "shed" /\ age = "fresh"
    /\ outRing.size < RingTargetAhead
    /\ sustainable >= AtMost(RecoverSteps, AtMost(Hops, MaxSteps))

StepBudget(sustainable) ==
    IF Recovering(sustainable)
    THEN AtMost(RecoverSteps, AtMost(Hops, MaxSteps))
    ELSE AtMost(sustainable, AtMost(Hops, MaxSteps))

Contiguous(xs) == \A i \in 1 .. Len(xs) - 1 : xs[i + 1] = xs[i] + 1

\* n frames for the missing hops; the dry ring pays for them if it has to.
Fill(n, dry) ==
    CASE args.overload = "dry_fill" ->
            [i \in 1 .. n |-> IF i <= dry.size
                              THEN Dry(Slice(dry.buf, RingFrames, dry.read, n)[i]) ELSE Zero]
      [] args.overload = "silence_fill" -> [i \in 1 .. n |-> Zero]
      [] args.overload = "strict"       -> <<>>

\* The inference loop, the resampling and mixing of what it produced, the fill.
Infer ==
    /\ wpc = "infer"
    /\ \E sustainable \in args.affords :
        LET steps   == AtMost(StepBudget(sustainable), modelRing.size \div Chunk)
            frames  == AudioFront(modelRing, ModelRingUnits, steps * Chunk)
            missing == IF args.overload = "strict" THEN 0 ELSE (Hops - steps) * Chunk
            filled  == missing > 0
            across  == ~Contiguous(IF fed = None THEN frames ELSE <<fed>> \o frames)
        IN  /\ mode' = IF Recovering(sustainable) THEN "recover"
                       ELSE IF mode = "shed" THEN "shed" ELSE "normal"
            /\ trim' = IF Recovering(sustainable) THEN RecoverAhead ELSE RingTargetAhead
            /\ modelRing' = AudioPop(modelRing, steps * Chunk)
            /\ \E k \in Keeps(outSrc, frames) :
                LET wet   == IF steps > 0 THEN Emitted(outSrc, frames, k) ELSE <<>>
                    mixed == IF args.mix /\ steps > 0
                             THEN AfterTaking(dryRing, RingFrames, Len(wet)) ELSE dryRing
                IN  /\ outSrc' = IF steps > 0 THEN Held(outSrc, frames, k) ELSE outSrc
                    /\ yOut' = [i \in 1 .. Len(wet) |-> Wet(wet[i])] \o Fill(missing, mixed)
                    /\ dryRing' = IF filled /\ args.overload = "dry_fill"
                                  THEN AfterTaking(mixed, RingFrames, missing) ELSE mixed
            /\ fed' = IF steps > 0 THEN frames[steps * Chunk] ELSE fed
            /\ pending' = IF ~filled THEN pending
                          ELSE IF pending = "none" THEN "missing-wet-hops-filled"
                          ELSE "capture-discontinuity"
            /\ incoherent' = (incoherent \/ (across /\ pending' = "none"))
    /\ wpc' = "write"
    /\ UNCHANGED <<args, capture, taking, lastIdx, age, gapBlocks, drainedBlocks, first,
                   processed, inSrc, drySrc, outRing, played, control>>

Write ==
    /\ wpc = "write"
    /\ outRing' = WriteDropOldest(outRing, RingFrames, yOut)
    /\ wpc' = IF yOut = <<>> THEN "reset" ELSE "ahead"
    /\ UNCHANGED <<args, capture, taking, policy, resample, modelRing, dryRing, output,
                   model, control>>

\* Mutant of ReadAhead: the trim waits until the ring is about to be full.
ReadAheadLate ==
    /\ wpc = "ahead"
    /\ IF outRing.size > RingFrames - Block
       THEN trim' = outRing.size - trim /\ wpc' = "trim"
       ELSE wpc' = "reset" /\ UNCHANGED trim
    /\ UNCHANGED <<args, capture, taking, policy, resample, rings, yOut, played, model, control>>

\* ahead = output_ring.ahead_frames(); the callback may read before the trim.
ReadAhead ==
    /\ wpc = "ahead"
    /\ IF outRing.size > RingMaxAhead
       THEN trim' = outRing.size - trim /\ wpc' = "trim"
       ELSE wpc' = "reset" /\ UNCHANGED trim
    /\ UNCHANGED <<args, capture, taking, policy, resample, rings, yOut, played, model, control>>

Trim ==
    /\ wpc = "trim"
    /\ outRing' = DropOldest(outRing, RingFrames, trim)
    /\ dryRing' = DropOldest(dryRing, RingFrames, Dropping(outRing, trim))
    /\ wpc' = "reset"
    /\ UNCHANGED <<args, capture, taking, policy, resample, modelRing, output, model, control>>

\* The deferred reset, which leaves the output and the dry ring alone; the
\* variables local to an iteration return to their initial values, and the loop's
\* condition is tested.
Reset ==
    /\ wpc = "reset"
    /\ IF pending # "none" THEN ResetStreams ELSE UNCHANGED <<inSrc, outSrc, fed>>
    /\ yOut' = <<>> /\ trim' = 0 /\ drained' = 0 /\ pending' = "none" /\ age' = "fresh"
    /\ wpc' = IF stop THEN "done" ELSE "pop"
    /\ UNCHANGED <<args, capture, item, mode, lastIdx, gapBlocks, drainedBlocks, first, processed,
                   drySrc, rings, played, incoherent, control>>

\* An exception of the filters, of the model, of a ring or of the deferred reset.
WorkerFails ==
    /\ MayFail("worker")
    /\ wpc \in {"feed", "infer", "write", "reset"}
    /\ failed' = failed \cup {"worker"}
    /\ wpc' = "done"
    /\ UNCHANGED <<args, capture, taking, policy, resample, rings, output, model, stop, mpc, streams>>

\* while not stop_event.is_set(): left after at most one wait of 50 ms, or before
\* the pop if the stop came in between.
WorkerStops ==
    /\ wpc = "pop" /\ stop
    /\ wpc' = "done"
    /\ UNCHANGED <<args, capture, taking, policy, resample, rings, output, model, control>>

\* The worker has a step to take: it waits only for a block or for the stop.
WorkerReady == wpc # "done" /\ (wpc = "pop" => stop \/ inBuf # <<>>)
WorkerMoves == wpc' # wpc \/ item' # item

-----------------------------------------------------------------------------
(* The main thread.                                                        *)

\* stop_event.set() and in_buf.close(), as one step.
RequestStop == stop' = TRUE /\ closed' = TRUE

\* preflight_sounddevice and create_streams: either may fail.
Start ==
    /\ mpc \in {"preflight", "create"}
    /\ \/ mpc = "preflight" /\ mpc' = "create" /\ UNCHANGED streams
       \/ mpc = "create" /\ mpc' = "loop" /\ streams' = [s \in {"in", "out"} |-> "active"]
       \/ mpc' = "cleanup" /\ UNCHANGED streams
    /\ UNCHANGED <<args, capture, wpc, taking, policy, resample, rings, output, model, stop, failed>>

\* Mutant of Supervise: the worker's exceptions are not looked at.
SuperviseStreams ==
    /\ mpc = "loop"
    /\ \/ stop /\ UNCHANGED <<stop, closed>>
       \/ failed \ {"worker"} # {} /\ RequestStop
       \/ Lost # {} /\ UNCHANGED <<stop, closed>>
    /\ mpc' = "cleanup"
    /\ UNCHANGED <<args, inBuf, capDropped, captured, refused, wpc, taking, policy, resample,
                   rings, output, model, failed, streams>>

\* One round of the loop.
Supervise ==
    /\ mpc = "loop"
    /\ \/ stop /\ UNCHANGED <<stop, closed>>
       \/ failed # {} /\ RequestStop
       \/ Lost # {} /\ UNCHANGED <<stop, closed>>
    /\ mpc' = "cleanup"
    /\ UNCHANGED <<args, inBuf, capDropped, captured, refused, wpc, taking, policy, resample,
                   rings, output, model, failed, streams>>

\* SIGINT or SIGTERM, handled by the main thread.
Signal ==
    /\ mpc \notin {"join", "end"} /\ ~stop
    /\ RequestStop
    /\ UNCHANGED <<args, inBuf, capDropped, captured, refused, wpc, taking, policy, resample,
                   rings, output, model, failed, mpc, streams>>

Cleanup ==
    /\ mpc = "cleanup"
    /\ RequestStop
    /\ streams' = [s \in {"in", "out"} |-> "none"]
    /\ mpc' = "join"
    /\ UNCHANGED <<args, inBuf, capDropped, captured, refused, wpc, taking, policy, resample,
                   rings, output, model, failed>>

\* worker_thread.join(timeout=3.0): goes on in either case.
Join ==
    /\ mpc = "join"
    /\ mpc' = "end"
    /\ UNCHANGED <<args, capture, wpc, taking, policy, resample, rings, output, model, stop, failed, streams>>

Main == Start \/ Supervise \/ Cleanup \/ Join

Next ==
    \/ InputCallback \/ OutputCallback
    \/ \E s \in {"in", "out"} : CallbackFails(s) \/ StreamDies(s)
    \/ Pop \/ Drain \/ Admit \/ Feed \/ Infer \/ Write \/ ReadAhead \/ Trim \/ Reset
    \/ WorkerFails \/ WorkerStops
    \/ Start \/ Supervise \/ Signal \/ Cleanup \/ Join

Spec == Init /\ [][Next]_vars

\* The scheduler runs the main thread and the worker.  The second formula is
\* weak fairness of the worker's actions, its ENABLED written out.
FairSpec ==
    /\ Spec
    /\ WF_vars(Main)
    /\ []<>~WorkerReady \/ []<><<WorkerMoves>>_<<wpc, item>>

-----------------------------------------------------------------------------
(* The names of the worker's and of the main thread's places.              *)
WorkerAt == {"pop", "drain", "admit", "feed", "infer", "write", "ahead", "trim", "reset", "done"}
MainAt   == {"preflight", "create", "loop", "cleanup", "join", "end"}

WellFormed(r) ==
    /\ {r.read, r.write} \subseteq 0 .. RingFrames - 1
    /\ r.size \in 0 .. RingFrames
    /\ r.write = (r.read + r.size) % RingFrames

\* Every variable has its type and every ring is well formed: its indices are
\* inside the storage and it never holds more than its capacity.
TypeOK ==
    /\ args \in Args
    /\ inBuf \in Seq(0 .. MaxCapture - 1) /\ Len(inBuf) <= CaptureBlocks
    /\ closed \in BOOLEAN /\ stop \in BOOLEAN /\ incoherent \in BOOLEAN
    /\ {capDropped, captured, refused, gapBlocks, drainedBlocks, processed, drained} \subseteq 0 .. MaxCapture
    /\ {item, lastIdx, first} \subseteq -1 .. MaxCapture - 1
    /\ wpc \in WorkerAt /\ mpc \in MainAt
    /\ pending \in {"none", "capture-discontinuity", "missing-wet-hops-filled"}
    /\ mode \in {"normal", "recover", "shed"} /\ age \in {"fresh", "aged", "stale"}
    /\ {fed, played} \subseteq 0 .. MaxCapture * Block
    /\ modelRing.write \in 0 .. ModelRingUnits - 1 /\ modelRing.size \in 0 .. ModelRingUnits
    /\ WellFormed(dryRing) /\ WellFormed(outRing)
    /\ \A c \in 0 .. RingFrames - 1 : outRing.buf[c] \in Frames
    /\ failed \subseteq {"in", "out", "worker"}
    /\ streams \in [{"in", "out"} -> {"none", "active", "inactive"}]
    /\ trim \in Int /\ \A i \in DOMAIN yOut : yOut[i] \in Frames

\* No captured block gets lost without a trace: every block is queued,
\* processed, passed over by pop_latest and counted, dropped by the full
\* buffer and counted, or refused after close(); and the gaps the worker has
\* reported are exactly the blocks missing between those it processed.
Accounted ==
    /\ captured = refused + Len(inBuf) + capDropped + processed + drainedBlocks
                  + (IF wpc \in {"drain", "admit"} THEN 1 + drained ELSE 0)
    /\ lastIdx # Nobody => first + gapBlocks + processed = lastIdx + 1

\* The frames on their way to the sound card, the one to be played first first.
Coming == OutputContents(outRing, RingFrames) \o (IF wpc = "write" THEN yOut ELSE <<>>)

\* The processed sound is played in the order in which it was captured, and
\* no unit twice, whatever was dropped, trimmed, filled or reset on the way:
\* over what has been played, what is queued and what is about to be queued.
PlayedInOrder ==
    \A i \in DOMAIN Coming :
        Coming[i].kind = "wet" =>
            /\ played < Coming[i].at
            /\ \A j \in 1 .. i - 1 : Coming[j].kind = "wet" => Coming[j].at < Coming[i].at

\* Once a block is through, no more sound is waiting than the bound or the target
\* of a recovery allows, although the callback reads between the measurement and
\* the trim; and while it is in progress at most what one block brings more,
\* with what a resampler had kept.
OutputBounded ==
    /\ wpc \notin {"ahead", "trim"} => outRing.size <= OutputLimit
    /\ outRing.size <= OutputLimit + Block + SrcDelay

\* What reaches the model without a reset is contiguous: a hop that does not
\* continue what the model was fed is processed only in a block at whose end
\* the timeline is reset.
CoherentAfterGaps == ~incoherent

\* A stop request, a failed thread or a lost device ends in the end of both the
\* worker and the main thread.
Shutdown ==
    (stop \/ (mpc = "loop" /\ failed \cup Lost # {}))
        ~> (wpc = "done" /\ mpc = "end")
=============================================================================
