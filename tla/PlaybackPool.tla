---------------------------- MODULE PlaybackPool ----------------------------
(***************************************************************************)
(* sonitude::audio::PlaybackBlockPool (src/audio/playback_block_pool.hpp)  *)
(* with the two threads of src/main.cpp that use it: the capture/DSP loop  *)
(* acquires, fills and publishes blocks, the playback thread consumes,     *)
(* plays and releases them.  Blocks never move: their slot numbers go      *)
(* round through the free and the filled ring.                             *)
(*                                                                         *)
(* The rings are the queues that SpscRing is shown to implement, so an     *)
(* acquire on an empty pool (a ring overrun: the block is dropped) and a   *)
(* consume on an empty one (an underrun) change nothing and are stuttering *)
(* steps.                                                                  *)
(***************************************************************************)
EXTENDS Integers, Sequences, FiniteSets

CONSTANTS BlockCount,    \* kPlaybackRingSlots
          RingCapacity,  \* NextPow2(BlockCount + 1), the slots of either ring
          MaxFrames,     \* frames_per_block
          Audio,         \* what a block may sound like
          Silence,       \* a block's samples when the pool is built
          PrefillBlocks  \* kPrefillBlocks

ASSUME PoolAssumption == /\ BlockCount \in Nat \ {0}
                         /\ RingCapacity \in Nat
                         /\ RingCapacity > BlockCount
                         /\ MaxFrames \in Nat \ {0}
                         /\ Silence \in Audio
                         /\ PrefillBlocks \in 0 .. BlockCount

VARIABLES free,      \* free_blocks_
          filled,    \* filled_blocks_
          queued,    \* queued_frames_
          samples,   \* blocks_
          dsp,       \* the capture/DSP thread's place in its loop
          slot,      \* its write_slot
          frames,    \* its frame_count
          playing,   \* the playback thread's place in its loop
          block,     \* its block
          heard,     \* what it last wrote to the device
          started,   \* its playback_started
          failure    \* runtime_failure

dspVars == <<dsp, slot, frames>>
playVars == <<playing, block, heard, started>>
vars == <<free, filled, queued, samples, dspVars, playVars, failure>>

Slots == 0 .. BlockCount - 1
Blocks == [slot : Slots, frames : 0 .. MaxFrames]
NoBlock == [slot |-> 0, frames |-> 0]   \* PlaybackBlockRef{}
NoSound == [frames |-> 0, audio |-> Silence]

\* The rings, whose output arguments are write_slot and block.
Free == INSTANCE BoundedQueue WITH Data <- Slots, Zero <- 0, Bound <- RingCapacity - 1,
                                   queue <- free, delivered <- slot
Filled == INSTANCE BoundedQueue WITH Data <- Blocks, Zero <- NoBlock, Bound <- RingCapacity - 1,
                                     queue <- filled, delivered <- block

Init == /\ free = [i \in 1 .. BlockCount |-> i - 1]
        /\ filled = <<>>
        /\ queued = 0
        /\ samples = [s \in Slots |-> Silence]
        /\ dsp = "acquire" /\ slot = 0 /\ frames = 0
        /\ playing = "consume" /\ block = NoBlock /\ heard = NoSound /\ started = FALSE
        /\ failure = "None"
-----------------------------------------------------------------------------
\* The capture/DSP loop, from the point where a block has been processed.

\* Mutant of Acquire: the slot is read but not popped.
AcquirePeeks == /\ dsp = "acquire"
                /\ failure = "None"
                /\ free # <<>> /\ slot' = Head(free)
                /\ dsp' = "copy"
                /\ UNCHANGED <<free, filled, queued, samples, frames, playVars, failure>>

Acquire == /\ dsp = "acquire"
           /\ failure = "None"        \* g_running
           /\ Free!Dequeue
           /\ dsp' = "copy"
           /\ UNCHANGED <<filled, queued, samples, frames, playVars, failure>>

\* Mutant of Copy: the period is one frame longer than a block.
CopyTooMuch == /\ dsp = "copy"
               /\ frames' \in 1 .. MaxFrames + 1
               /\ \E a \in Audio : samples' = [samples EXCEPT ![slot] = a]
               /\ dsp' = "account"
               /\ UNCHANGED <<free, filled, queued, slot, playVars, failure>>

\* std::copy of the frame_count processed frames into writable(slot)
Copy == /\ dsp = "copy"
        /\ frames' \in 1 .. MaxFrames
        /\ \E a \in Audio : samples' = [samples EXCEPT ![slot] = a]
        /\ dsp' = "account"
        /\ UNCHANGED <<free, filled, queued, slot, playVars, failure>>

PublishFails == /\ failure' = "PlaybackQueuePublish"
                /\ UNCHANGED filled

\* publish(): the bounds check and the fetch_add that precedes the push
PublishAccounts ==
    /\ dsp = "account"
    /\ IF slot \in Slots /\ frames <= MaxFrames
       THEN /\ queued' = queued + frames
            /\ dsp' = "push"
            /\ UNCHANGED <<filled, failure>>
       ELSE /\ PublishFails
            /\ dsp' = "acquire"
            /\ UNCHANGED queued
    /\ UNCHANGED <<free, samples, slot, frames, playVars>>

\* Mutant of PublishPushes: a published block is published again.
PublishTwice ==
    /\ dsp = "push"
    /\ dsp' = "account"
    /\ Len(filled) < RingCapacity - 1
    /\ Filled!Enqueue([slot |-> slot, frames |-> frames])
    /\ UNCHANGED <<free, queued, samples, slot, frames, playing, heard, started, failure>>

\* publish(): the push, and the fetch_sub that takes the frames back when it fails
PublishPushes ==
    /\ dsp = "push"
    /\ dsp' = "acquire"
    /\ IF Len(filled) < RingCapacity - 1
       THEN /\ Filled!Enqueue([slot |-> slot, frames |-> frames])
            /\ UNCHANGED <<queued, failure>>
       ELSE /\ PublishFails
            /\ queued' = queued - frames
            /\ UNCHANGED block
    /\ UNCHANGED <<free, samples, slot, frames, playing, heard, started>>

\* The playback thread.

\* the prefill gate
StartPlayback == /\ ~started
                 /\ Len(filled) >= PrefillBlocks
                 /\ started' = TRUE
                 /\ UNCHANGED <<free, filled, queued, samples, dspVars,
                                playing, block, heard, failure>>

\* consume(): the pop
ConsumePops == /\ playing = "consume"
               /\ started
               /\ Filled!Dequeue
               /\ playing' = "account"
               /\ UNCHANGED <<free, queued, samples, dspVars, heard, started, failure>>

\* Mutant of ConsumeAccounts: a whole period is taken off, however short the block.
ConsumeAccountsPeriod == /\ playing = "account"
                         /\ queued' = queued - MaxFrames
                         /\ playing' = "write"
                         /\ UNCHANGED <<free, filled, samples, dspVars, block, heard, started, failure>>

\* consume(): the fetch_sub, whose old value is asserted to be at least block.frames
ConsumeAccounts == /\ playing = "account"
                   /\ queued' = queued - block.frames
                   /\ playing' = "write"
                   /\ UNCHANGED <<free, filled, samples, dspVars, block, heard, started, failure>>

\* Mutant of WriteStereo: the block the DSP thread is filling is played.
WriteWrongBlock == /\ playing = "write"
                   /\ heard' = [frames |-> block.frames, audio |-> samples[slot]]
                   /\ playing' = "release"
                   /\ UNCHANGED <<free, filled, queued, samples, dspVars, block, started, failure>>

\* writeStereo(readable(block), ...); a write that fails is counted, and the block
\* is released all the same.
WriteStereo == /\ playing = "write"
               /\ heard' = [frames |-> block.frames, audio |-> samples[block.slot]]
               /\ playing' = "release"
               /\ UNCHANGED <<free, filled, queued, samples, dspVars, block, started, failure>>

\* Mutant of Release: the slot does not come back.
ReleaseDropped == /\ playing = "release"
                  /\ playing' = "consume"
                  /\ UNCHANGED <<free, filled, queued, samples, dspVars, block, heard, started, failure>>

Release == /\ playing = "release"
           /\ playing' = "consume"
           /\ IF block.slot \in Slots /\ Len(free) < RingCapacity - 1
              THEN Free!Enqueue(block.slot) /\ UNCHANGED failure
              ELSE failure' = "PlaybackBlockRelease" /\ UNCHANGED <<free, slot>>
           /\ UNCHANGED <<filled, queued, samples, dsp, frames, block, heard, started>>
-----------------------------------------------------------------------------
Dsp == Acquire \/ Copy \/ PublishAccounts \/ PublishPushes
Play == StartPlayback \/ ConsumePops \/ ConsumeAccounts \/ WriteStereo \/ Release

Next == Dsp \/ Play

Spec == Init /\ [][Next]_vars

\* Both threads keep running: capture delivers periods as long as the device
\* does, and the playback loop polls.
FairSpec == Spec /\ WF_vars(Dsp) /\ WF_vars(Play)
-----------------------------------------------------------------------------
TypeOK == /\ free \in Seq(Slots)
          /\ filled \in Seq(Blocks)
          /\ queued \in Int
          /\ samples \in [Slots -> Audio]
          /\ dsp \in {"acquire", "copy", "account", "push"}
          /\ slot \in Slots
          /\ frames \in 0 .. MaxFrames
          /\ playing \in {"consume", "account", "write", "release"}
          /\ block \in Blocks
          /\ heard \in [frames : 0 .. MaxFrames, audio : Audio]
          /\ started \in BOOLEAN
          /\ failure \in {"None", "PlaybackQueuePublish", "PlaybackBlockRelease"}

\* Where a slot can be.
InFree(s) == \E i \in DOMAIN free : free[i] = s
InFilled(s) == \E i \in DOMAIN filled : filled[i].slot = s
AtDsp(s) == dsp # "acquire" /\ slot = s
AtPlay(s) == playing # "consume" /\ block.slot = s

\* Every block is in exactly one of the four places, and once: no block is
\* written while it is queued or played, and none is lost.
Exclusive == /\ \A i, j \in DOMAIN free : free[i] = free[j] => i = j
             /\ \A i, j \in DOMAIN filled : filled[i].slot = filled[j].slot => i = j
             /\ \A s \in Slots : /\ InFree(s) => ~InFilled(s) /\ ~AtDsp(s) /\ ~AtPlay(s)
                                 /\ InFilled(s) => ~AtDsp(s) /\ ~AtPlay(s)
                                 /\ AtDsp(s) => ~AtPlay(s)
NothingLost == \A s \in Slots : InFree(s) \/ InFilled(s) \/ AtDsp(s) \/ AtPlay(s)
OneOwner == Exclusive /\ NothingLost

\* The two "invariant failed" shutdowns of main.cpp are never taken: a publish
\* always finds room in the filled ring and a release in the free ring.
NeverFails == failure = "None"

\* queued_frames_ counts the frames in the filled ring, and those of a block
\* that is about to be pushed or has just been popped.  It therefore never
\* falls below zero and the assertion in consume() holds, although the counter
\* and the ring are updated one after the other by two threads.
FramesIn(q) == LET sum[i \in 0 .. Len(q)] == IF i = 0 THEN 0 ELSE sum[i - 1] + q[i].frames
               IN  sum[Len(q)]
FramesAccounted == queued = FramesIn(filled) + (IF dsp = "push" THEN frames ELSE 0)
                                             + (IF playing = "account" THEN block.frames ELSE 0)

\* The pool is a queue of blocks of sound: the blocks that reach the device
\* are those that were published, each once, in order and unchanged.
Sound(b) == [frames |-> b.frames, audio |-> samples[b.slot]]
Pending == (IF playing \in {"account", "write"} THEN <<block>> ELSE <<>>) \o filled
Stream == INSTANCE BoundedQueue WITH Data <- [frames : 1 .. MaxFrames, audio : Audio],
                                     Zero <- NoSound, Bound <- BlockCount,
                                     queue <- [i \in DOMAIN Pending |-> Sound(Pending[i])],
                                     delivered <- heard
PlaysInOrder == Stream!Spec

\* A block that has been published comes back to the free ring.
BlocksReturn == \A s \in Slots : InFilled(s) ~> InFree(s)
-----------------------------------------------------------------------------
\* The blocks are counted rather than named: the strengthening that shows the
\* rings never full.
Held(away) == IF away THEN 1 ELSE 0
Conserved == Len(free) + Len(filled) + Held(dsp # "acquire") + Held(playing # "consume")
                 = BlockCount

\* The inductive invariant of the proofs.
Inv == TypeOK /\ OneOwner /\ Conserved /\ NeverFails
=============================================================================
