------------------------- MODULE PlaybackPool_proof -------------------------
(***************************************************************************)
(* For every number of blocks: each block of the playback pool is in       *)
(* exactly one place, and neither ring is ever full when it is pushed to.  *)
(***************************************************************************)
EXTENDS PlaybackPool, SequenceTheorems, WellFoundedInduction, TLAPS

\* What the two ring operations do to membership.
LEMMA AppendFacts ==
  ASSUME NEW S, NEW q \in Seq(S), NEW e \in S
  PROVE  /\ Append(q, e) \in Seq(S)
         /\ Len(Append(q, e)) = Len(q) + 1
         /\ DOMAIN Append(q, e) = 1 .. Len(q) + 1
         /\ DOMAIN q = 1 .. Len(q)
         /\ \A i \in 1 .. Len(q) : Append(q, e)[i] = q[i]
         /\ Append(q, e)[Len(q) + 1] = e
OBVIOUS

LEMMA TailFacts ==
  ASSUME NEW S, NEW q \in Seq(S), q # <<>>
  PROVE  /\ Tail(q) \in Seq(S)
         /\ Len(Tail(q)) = Len(q) - 1
         /\ Len(q) \in Nat \ {0}
         /\ DOMAIN Tail(q) = 1 .. Len(q) - 1
         /\ DOMAIN q = 1 .. Len(q)
         /\ \A i \in 1 .. Len(q) - 1 : Tail(q)[i] = q[i + 1]
         /\ Head(q) = q[1]
         /\ Head(q) \in S
BY HeadTailProperties, EmptySeq

LEMMA InitInv == Init => Inv
<1> SUFFICES ASSUME Init PROVE Inv
  OBVIOUS
<1>. USE PoolAssumption
<1>1. /\ free \in Seq(Slots) /\ Len(free) = BlockCount /\ DOMAIN free = 1 .. BlockCount
      /\ \A i \in 1 .. BlockCount : free[i] = i - 1
  <2>1. free \in [1 .. BlockCount -> Slots]
    BY DEF Init, Slots
  <2>. QED BY <2>1 DEF Init
<1>2. filled \in Seq(Blocks) /\ Len(filled) = 0 /\ DOMAIN filled = {}
  BY DEF Init
<1>3. TypeOK
  <2>1. 0 \in Slots /\ NoBlock \in Blocks /\ NoSound \in [frames : 0 .. MaxFrames, audio : Audio]
    BY DEF Slots, NoBlock, Blocks, NoSound
  <2>2. started \in BOOLEAN
    BY DEF Init
  <2>3. samples \in [Slots -> Audio]
    BY DEF Init
  <2>4. filled \in Seq(Blocks) /\ queued \in Int /\ frames \in 0 .. MaxFrames
    BY <1>2 DEF Init
  <2>5. dsp = "acquire" /\ playing = "consume" /\ failure = "None"
    BY DEF Init
  <2>6. slot \in Slots /\ block \in Blocks /\ heard \in [frames : 0 .. MaxFrames, audio : Audio]
    BY <2>1 DEF Init
  <2>. QED BY <1>1, <2>2, <2>3, <2>4, <2>5, <2>6 DEF TypeOK
<1>4. Exclusive
  BY <1>1, <1>2 DEF Init, Exclusive, InFree, InFilled, AtDsp, AtPlay
<1>5. NothingLost
  <2>. SUFFICES ASSUME NEW s \in Slots PROVE InFree(s)
    BY DEF NothingLost
  <2>1. s + 1 \in 1 .. BlockCount /\ free[s + 1] = s
    BY <1>1 DEF Slots
  <2>. QED BY <1>1, <2>1 DEF InFree
<1>6. Conserved /\ NeverFails
  BY <1>1, <1>2 DEF Init, Conserved, NeverFails, Held
<1>. QED BY <1>3, <1>4, <1>5, <1>6 DEF Inv, OneOwner

\* Taking the first free block: it moves from the free ring to the DSP thread.
LEMMA AcquireInv == ASSUME Inv, Acquire PROVE Inv'
<1>1. /\ dsp = "acquire" /\ dsp' = "copy" /\ free # <<>>
      /\ slot' = Head(free) /\ free' = Tail(free)
      /\ UNCHANGED <<filled, queued, samples, frames, playVars, failure>>
  BY DEF Acquire, Free!Dequeue
<1>2. /\ free' \in Seq(Slots) /\ Len(free') = Len(free) - 1 /\ Len(free) \in Nat \ {0}
      /\ DOMAIN free' = 1 .. Len(free) - 1 /\ DOMAIN free = 1 .. Len(free)
      /\ \A i \in 1 .. Len(free) - 1 : free'[i] = free[i + 1]
      /\ slot' = free[1] /\ slot' \in Slots
  BY <1>1, TailFacts DEF Inv, TypeOK
<1>3. TypeOK'
  BY <1>1, <1>2 DEF Inv, TypeOK, playVars
<1>4. \A s \in Slots : InFree(s)' <=> InFree(s) /\ s # slot'
  <2>. SUFFICES ASSUME NEW s \in Slots PROVE InFree(s)' <=> InFree(s) /\ s # slot'
    OBVIOUS
  <2>1. ASSUME NEW i \in DOMAIN free', free'[i] = s PROVE InFree(s) /\ s # slot'
    <3>1. i + 1 \in DOMAIN free /\ 1 \in DOMAIN free /\ free[i + 1] = s /\ i + 1 # 1
      BY <1>2, <2>1
    <3>. QED BY <1>2, <3>1 DEF InFree, Inv, OneOwner, Exclusive
  <2>2. ASSUME NEW i \in DOMAIN free, free[i] = s, s # slot' PROVE InFree(s)'
    <3>1. i - 1 \in DOMAIN free' /\ free'[i - 1] = s
      BY <1>2, <2>2
    <3>. QED BY <3>1 DEF InFree
  <2>. QED BY <2>1, <2>2 DEF InFree
<1>5. InFree(slot')
  BY <1>2 DEF InFree
<1>6. \A s \in Slots : /\ InFilled(s)' <=> InFilled(s)
                       /\ AtPlay(s)' <=> AtPlay(s)
                       /\ AtDsp(s)' <=> s = slot'
                       /\ ~AtDsp(s)
  BY <1>1 DEF InFilled, AtPlay, AtDsp, playVars
<1>7. \A i, j \in DOMAIN free' : free'[i] = free'[j] => i = j
  <2>. SUFFICES ASSUME NEW i \in DOMAIN free', NEW j \in DOMAIN free', free'[i] = free'[j]
                PROVE  i = j
    OBVIOUS
  <2>1. i + 1 \in DOMAIN free /\ j + 1 \in DOMAIN free /\ free[i + 1] = free[j + 1]
    BY <1>2
  <2>2. i + 1 = j + 1
    BY <2>1 DEF Inv, OneOwner, Exclusive
  <2>. QED BY <1>2, <2>2
<1>8. OneOwner'
  BY <1>1, <1>2, <1>4, <1>5, <1>6, <1>7 DEF Inv, OneOwner, Exclusive, NothingLost
<1>9. Conserved' /\ NeverFails'
  BY <1>1, <1>2 DEF Inv, Conserved, NeverFails, Held, playVars
<1>. QED BY <1>3, <1>8, <1>9 DEF Inv

\* Publishing: the block moves from the DSP thread to the filled ring, which has
\* room because the blocks in it and this one are at most BlockCount.
LEMMA PushInv == ASSUME Inv, PublishPushes PROVE Inv'
<1>. USE PoolAssumption
<1>. DEFINE e == [slot |-> slot, frames |-> frames]
<1>1. Len(filled) < RingCapacity - 1
  <2>1. Len(free) \in Nat /\ Len(filled) \in Nat
    BY DEF Inv, TypeOK
  <2>. QED BY <2>1 DEF PublishPushes, Inv, Conserved, Held
<1>2. /\ dsp = "push" /\ dsp' = "acquire" /\ filled' = Append(filled, e)
      /\ UNCHANGED <<block, queued, failure, free, samples, slot, frames, playing, heard, started>>
  BY <1>1 DEF PublishPushes, Filled!Enqueue
<1>3. e \in Blocks /\ e.slot = slot
  BY DEF Blocks, Inv, TypeOK
<1>4. /\ filled' \in Seq(Blocks) /\ Len(filled') = Len(filled) + 1 /\ Len(filled) \in Nat
      /\ DOMAIN filled' = 1 .. Len(filled) + 1 /\ DOMAIN filled = 1 .. Len(filled)
      /\ \A i \in 1 .. Len(filled) : filled'[i] = filled[i]
      /\ filled'[Len(filled) + 1] = e
  BY <1>2, <1>3, AppendFacts DEF Inv, TypeOK
<1>5. TypeOK'
  BY <1>2, <1>4 DEF Inv, TypeOK
<1>6. \A s \in Slots : InFilled(s)' <=> InFilled(s) \/ s = slot
  BY <1>3, <1>4 DEF InFilled
<1>7. \A s \in Slots : /\ InFree(s)' <=> InFree(s)
                       /\ AtPlay(s)' <=> AtPlay(s)
                       /\ ~AtDsp(s)'
                       /\ AtDsp(s) <=> s = slot
  BY <1>2 DEF InFree, AtPlay, AtDsp
<1>8. \A i, j \in DOMAIN filled' : filled'[i].slot = filled'[j].slot => i = j
  <2>1. ASSUME NEW i \in 1 .. Len(filled) PROVE filled[i].slot # slot
    <3>1. filled[i] \in Blocks
      BY <1>4 DEF Inv, TypeOK
    <3>2. InFilled(filled[i].slot) /\ filled[i].slot \in Slots
      BY <1>4, <3>1 DEF InFilled, Blocks
    <3>. QED BY <1>7, <3>2 DEF Inv, OneOwner, Exclusive
  <2>. QED BY <1>3, <1>4, <2>1 DEF Inv, OneOwner, Exclusive
<1>9. Exclusive'
  BY <1>2, <1>6, <1>7, <1>8 DEF Inv, OneOwner, Exclusive
<1>10. NothingLost'
  BY <1>6, <1>7 DEF Inv, OneOwner, NothingLost
<1>11. Conserved' /\ NeverFails'
  BY <1>2, <1>4 DEF Inv, Conserved, NeverFails, Held
<1>. QED BY <1>5, <1>9, <1>10, <1>11 DEF Inv, OneOwner

\* Consuming: the first filled block moves to the playback thread.
LEMMA PopInv == ASSUME Inv, ConsumePops PROVE Inv'
<1>1. /\ playing = "consume" /\ playing' = "account" /\ filled # <<>>
      /\ block' = Head(filled) /\ filled' = Tail(filled)
      /\ UNCHANGED <<free, queued, samples, dspVars, heard, started, failure>>
  BY DEF ConsumePops, Filled!Dequeue
<1>2. /\ filled' \in Seq(Blocks) /\ Len(filled') = Len(filled) - 1 /\ Len(filled) \in Nat \ {0}
      /\ DOMAIN filled' = 1 .. Len(filled) - 1 /\ DOMAIN filled = 1 .. Len(filled)
      /\ \A i \in 1 .. Len(filled) - 1 : filled'[i] = filled[i + 1]
      /\ block' = filled[1] /\ block' \in Blocks
  BY <1>1, TailFacts DEF Inv, TypeOK
<1>3. TypeOK'
  BY <1>1, <1>2 DEF Inv, TypeOK, dspVars
<1>4. \A s \in Slots : InFilled(s)' <=> InFilled(s) /\ s # block'.slot
  <2>. SUFFICES ASSUME NEW s \in Slots PROVE InFilled(s)' <=> InFilled(s) /\ s # block'.slot
    OBVIOUS
  <2>1. ASSUME NEW i \in DOMAIN filled', filled'[i].slot = s
        PROVE  InFilled(s) /\ s # block'.slot
    <3>1. /\ i + 1 \in DOMAIN filled /\ 1 \in DOMAIN filled
          /\ filled[i + 1].slot = s /\ i + 1 # 1
      BY <1>2, <2>1
    <3>. QED BY <1>2, <3>1 DEF InFilled, Inv, OneOwner, Exclusive
  <2>2. ASSUME NEW i \in DOMAIN filled, filled[i].slot = s, s # block'.slot
        PROVE  InFilled(s)'
    <3>1. i - 1 \in DOMAIN filled' /\ filled'[i - 1].slot = s
      BY <1>2, <2>2
    <3>. QED BY <3>1 DEF InFilled
  <2>. QED BY <2>1, <2>2 DEF InFilled
<1>5. InFilled(block'.slot) /\ block'.slot \in Slots
  <2>1. 1 \in DOMAIN filled /\ filled[1].slot = block'.slot
    BY <1>2
  <2>2. block'.slot \in Slots
    BY <1>2 DEF Blocks
  <2>. QED BY <2>1, <2>2 DEF InFilled
<1>6. \A s \in Slots : /\ InFree(s)' <=> InFree(s)
                       /\ AtDsp(s)' <=> AtDsp(s)
                       /\ AtPlay(s)' <=> s = block'.slot
                       /\ ~AtPlay(s)
  BY <1>1 DEF InFree, AtPlay, AtDsp, dspVars
<1>7. \A i, j \in DOMAIN filled' : filled'[i].slot = filled'[j].slot => i = j
  <2>. SUFFICES ASSUME NEW i \in DOMAIN filled', NEW j \in DOMAIN filled',
                       filled'[i].slot = filled'[j].slot
                PROVE  i = j
    OBVIOUS
  <2>1. /\ i + 1 \in DOMAIN filled /\ j + 1 \in DOMAIN filled
        /\ filled[i + 1].slot = filled[j + 1].slot
    BY <1>2
  <2>2. i + 1 = j + 1
    BY <2>1 DEF Inv, OneOwner, Exclusive
  <2>. QED BY <1>2, <2>2
<1>8. OneOwner'
  BY <1>1, <1>2, <1>4, <1>5, <1>6, <1>7 DEF Inv, OneOwner, Exclusive, NothingLost
<1>9. Conserved' /\ NeverFails'
  BY <1>1, <1>2 DEF Inv, Conserved, NeverFails, Held, dspVars
<1>. QED BY <1>3, <1>8, <1>9 DEF Inv

\* Releasing: the block moves from the playback thread to the free ring.
LEMMA ReleaseInv == ASSUME Inv, Release PROVE Inv'
<1>. USE PoolAssumption
<1>1. block.slot \in Slots /\ Len(free) < RingCapacity - 1
  <2>1. Len(free) \in Nat /\ Len(filled) \in Nat /\ block.slot \in Slots
    BY DEF Inv, TypeOK, Blocks
  <2>. QED BY <2>1 DEF Release, Inv, Conserved, Held
<1>2. /\ playing = "release" /\ playing' = "consume" /\ free' = Append(free, block.slot)
      /\ UNCHANGED <<slot, failure, filled, queued, samples, dsp, frames, block, heard, started>>
  BY <1>1 DEF Release, Free!Enqueue
<1>3. /\ free' \in Seq(Slots) /\ Len(free') = Len(free) + 1 /\ Len(free) \in Nat
      /\ DOMAIN free' = 1 .. Len(free) + 1 /\ DOMAIN free = 1 .. Len(free)
      /\ \A i \in 1 .. Len(free) : free'[i] = free[i]
      /\ free'[Len(free) + 1] = block.slot
  BY <1>1, <1>2, AppendFacts DEF Inv, TypeOK
<1>4. TypeOK'
  BY <1>2, <1>3 DEF Inv, TypeOK
<1>5. \A s \in Slots : InFree(s)' <=> InFree(s) \/ s = block.slot
  BY <1>3 DEF InFree
<1>6. \A s \in Slots : /\ InFilled(s)' <=> InFilled(s)
                       /\ AtDsp(s)' <=> AtDsp(s)
                       /\ ~AtPlay(s)'
                       /\ AtPlay(s) <=> s = block.slot
  BY <1>2 DEF InFilled, AtPlay, AtDsp
<1>7. \A i, j \in DOMAIN free' : free'[i] = free'[j] => i = j
  <2>1. ASSUME NEW i \in 1 .. Len(free) PROVE free[i] # block.slot
    <3>1. i \in DOMAIN free
      BY <1>3
    <3>2. InFree(free[i])
      BY <3>1 DEF InFree
    <3>3. free[i] \in Slots
      BY <1>3, ElementOfSeq DEF Inv, TypeOK
    <3>. QED BY <1>6, <3>2, <3>3 DEF Inv, OneOwner, Exclusive
  <2>. QED BY <1>3, <2>1 DEF Inv, OneOwner, Exclusive
<1>8. Exclusive'
  BY <1>2, <1>5, <1>6, <1>7 DEF Inv, OneOwner, Exclusive
<1>9. NothingLost'
  BY <1>5, <1>6 DEF Inv, OneOwner, NothingLost
<1>10. Conserved' /\ NeverFails'
  BY <1>2, <1>3 DEF Inv, Conserved, NeverFails, Held
<1>. QED BY <1>4, <1>8, <1>9, <1>10 DEF Inv, OneOwner

\* The other steps move no block.
LEMMA StaysInv ==
  ASSUME Inv, TypeOK', UNCHANGED <<free, filled, failure>>,
         dsp # "acquire" <=> dsp' # "acquire", slot' = slot,
         playing # "consume" <=> playing' # "consume", block' = block
  PROVE  Inv'
<1>1. \A s : /\ InFree(s)' <=> InFree(s)
             /\ InFilled(s)' <=> InFilled(s)
             /\ AtDsp(s)' <=> AtDsp(s)
             /\ AtPlay(s)' <=> AtPlay(s)
  BY DEF InFree, InFilled, AtDsp, AtPlay
<1>2. OneOwner'
  BY <1>1 DEF Inv, OneOwner, Exclusive, NothingLost
<1>3. Conserved' /\ NeverFails'
  BY DEF Inv, Conserved, NeverFails, Held
<1>. QED BY <1>2, <1>3 DEF Inv

LEMMA StepInv == Inv /\ [Next]_vars => Inv'
<1> SUFFICES ASSUME Inv, [Next]_vars PROVE Inv'
  OBVIOUS
<1>. USE PoolAssumption
<1>1. CASE Acquire
  BY <1>1, AcquireInv
<1>2. CASE Copy
  <2>1. TypeOK'
    BY <1>2 DEF Copy, Inv, TypeOK, playVars
  <2>. QED BY <1>2, <2>1, StaysInv DEF Copy, playVars
<1>3. CASE PublishAccounts
  <2>1. slot \in Slots /\ frames <= MaxFrames
    BY DEF Inv, TypeOK
  <2>2. /\ dsp = "account" /\ dsp' = "push" /\ queued' = queued + frames
        /\ UNCHANGED <<free, filled, failure, samples, slot, frames, playVars>>
    BY <1>3, <2>1 DEF PublishAccounts
  <2>3. TypeOK'
    BY <2>2 DEF Inv, TypeOK, playVars
  <2>. QED BY <2>2, <2>3, StaysInv DEF playVars
<1>4. CASE PublishPushes
  BY <1>4, PushInv
<1>5. CASE StartPlayback
  <2>1. TypeOK'
    BY <1>5 DEF StartPlayback, Inv, TypeOK, dspVars
  <2>. QED BY <1>5, <2>1, StaysInv DEF StartPlayback, dspVars
<1>6. CASE ConsumePops
  BY <1>6, PopInv
<1>7. CASE ConsumeAccounts
  <2>1. TypeOK'
    BY <1>7 DEF ConsumeAccounts, Inv, TypeOK, dspVars, Blocks
  <2>. QED BY <1>7, <2>1, StaysInv DEF ConsumeAccounts, dspVars
<1>8. CASE WriteStereo
  <2>1. heard' \in [frames : 0 .. MaxFrames, audio : Audio]
    BY <1>8 DEF WriteStereo, Inv, TypeOK, Blocks
  <2>2. TypeOK'
    BY <1>8, <2>1 DEF WriteStereo, Inv, TypeOK, dspVars
  <2>. QED BY <1>8, <2>2, StaysInv DEF WriteStereo, dspVars
<1>9. CASE Release
  BY <1>9, ReleaseInv
<1>10. CASE UNCHANGED vars
  <2>1. TypeOK'
    BY <1>10 DEF vars, dspVars, playVars, Inv, TypeOK
  <2>. QED BY <1>10, <2>1, StaysInv DEF vars, dspVars, playVars
<1>. QED BY <1>1, <1>2, <1>3, <1>4, <1>5, <1>6, <1>7, <1>8, <1>9, <1>10 DEF Next, Dsp, Play
-----------------------------------------------------------------------------
LEMMA Invariance == Spec => []Inv
BY InitInv, StepInv, PTL DEF Spec

\* Slot numbers, block references and counters keep their types.
THEOREM TypeCorrect == Spec => []TypeOK
<1>1. Inv => TypeOK
  BY DEF Inv
<1>. QED BY <1>1, Invariance, PTL

\* Every block of the pool is at every moment in exactly one of the free ring,
\* the DSP thread, the filled ring and the playback thread.
THEOREM BlocksHaveOneOwner == Spec => []OneOwner
<1>1. Inv => OneOwner
  BY DEF Inv
<1>. QED BY <1>1, Invariance, PTL

\* publish() and release() never return false, so main.cpp's two ownership
\* failures are unreachable.
THEOREM RingsNeverOverflow == Spec => []NeverFails
<1>1. Inv => NeverFails
  BY DEF Inv
<1>. QED BY <1>1, Invariance, PTL

-----------------------------------------------------------------------------
(* The pool as a queue of sounds.                                          *)

\* A block on its way to the filled ring is not empty.
Filling == dsp \in {"account", "push"} => frames \in 1 .. MaxFrames

LEMMA FillingStep == Inv /\ Filling /\ [Next]_vars => Filling'
BY DEF Filling, Inv, TypeOK, Next, Dsp, Play, Acquire, Copy, PublishAccounts, PublishPushes,
       StartPlayback, ConsumePops, ConsumeAccounts, WriteStereo, Release, vars, dspVars, playVars

Streamed == [i \in DOMAIN Pending |-> Sound(Pending[i])]

\* The block in the playback thread's hands, if it still has to be heard, comes
\* before those in the filled ring.
LEMMA PendingFacts ==
  ASSUME Inv
  PROVE  /\ filled \in Seq(Blocks) /\ Len(filled) \in Nat /\ block \in Blocks
         /\ playing \in {"account", "write"} =>
              /\ Pending \in Seq(Blocks) /\ Len(Pending) = Len(filled) + 1
              /\ Pending[1] = block
              /\ \A i \in 1 .. Len(filled) : Pending[i + 1] = filled[i]
         /\ playing \notin {"account", "write"} => Pending = filled
         /\ Pending \in Seq(Blocks) /\ Len(Pending) \in Nat /\ DOMAIN Pending = 1 .. Len(Pending)
<1>1. filled \in Seq(Blocks) /\ Len(filled) \in Nat /\ block \in Blocks
  BY DEF Inv, TypeOK
<1>2. CASE playing \in {"account", "write"}
  <2>1. Pending = <<block>> \o filled
    BY <1>2 DEF Pending
  <2>2. <<block>> \in Seq(Blocks) /\ Len(<<block>>) = 1 /\ <<block>>[1] = block
    BY <1>1
  <2>3. /\ Pending \in Seq(Blocks) /\ Len(Pending) = 1 + Len(filled)
        /\ \A i \in 1 .. 1 + Len(filled) :
              Pending[i] = IF i <= 1 THEN <<block>>[i] ELSE filled[i - 1]
    BY <1>1, <2>1, <2>2, ConcatProperties
  <2>4. Pending[1] = block
    BY <1>1, <2>2, <2>3
  <2>5. ASSUME NEW i \in 1 .. Len(filled) PROVE Pending[i + 1] = filled[i]
    <3>1. i + 1 \in 1 .. 1 + Len(filled) /\ ~(i + 1 <= 1) /\ (i + 1) - 1 = i
      BY <1>1
    <3>. QED BY <2>3, <3>1
  <2>6. Len(Pending) = Len(filled) + 1 /\ Len(Pending) \in Nat /\ DOMAIN Pending = 1 .. Len(Pending)
    BY <1>1, <2>3
  <2>. QED BY <1>1, <1>2, <2>3, <2>4, <2>5, <2>6
<1>3. CASE playing \notin {"account", "write"}
  <2>1. Pending = <<>> \o filled
    BY <1>3 DEF Pending
  <2>2. Pending = filled
    BY <1>1, <2>1, ConcatEmptySeq
  <2>. QED BY <1>1, <1>3, <2>2
<1>. QED BY <1>2, <1>3

LEMMA AppendAfterPrefix ==
  ASSUME NEW S, NEW x \in S, NEW q \in Seq(S), NEW e \in S
  PROVE  <<x>> \o Append(q, e) = Append(<<x>> \o q, e)
<1>1. <<x>> \in Seq(S) /\ <<e>> \in Seq(S)
  OBVIOUS
<1>2. Append(q, e) = q \o <<e>> /\ Append(<<x>> \o q, e) = (<<x>> \o q) \o <<e>>
  BY <1>1
<1>. QED BY <1>1, <1>2

LEMMA HeadThenTail ==
  ASSUME NEW S, NEW q \in Seq(S), q # <<>>
  PROVE  <<Head(q)>> \o Tail(q) = q
OBVIOUS

\* Where the blocks that are pending are.
LEMMA PendingOwned ==
  ASSUME Inv, NEW i \in 1 .. Len(Pending)
  PROVE  Pending[i].slot \in Slots /\ ~AtDsp(Pending[i].slot)
<1>1. CASE playing \in {"account", "write"}
  <2>1. CASE i = 1
    <3>1. AtPlay(block.slot) /\ block.slot \in Slots
      BY <1>1, PendingFacts DEF AtPlay, Blocks
    <3>. QED BY <1>1, <2>1, <3>1, PendingFacts DEF Inv, OneOwner, Exclusive
  <2>2. CASE i # 1
    <3>. DEFINE n == Len(filled)
    <3>1. /\ n \in Nat /\ Len(Pending) = n + 1 /\ filled \in Seq(Blocks)
          /\ \A k \in 1 .. n : Pending[k + 1] = filled[k]
      BY <1>1, PendingFacts
    <3>2. i - 1 \in 1 .. n /\ (i - 1) + 1 = i
      <4>. HIDE DEF n
      <4>. QED BY <2>2, <3>1
    <3>3. Pending[i] = filled[i - 1] /\ i - 1 \in DOMAIN filled
      BY <3>1, <3>2
    <3>4. filled[i - 1] \in Blocks
      BY <3>1, <3>2, ElementOfSeq
    <3>5. InFilled(Pending[i].slot) /\ Pending[i].slot \in Slots
      BY <3>3, <3>4 DEF InFilled, Blocks
    <3>. QED BY <3>5 DEF Inv, OneOwner, Exclusive
  <2>. QED BY <2>1, <2>2
<1>2. CASE playing \notin {"account", "write"}
  <2>1. Pending = filled /\ i \in DOMAIN filled
    BY <1>2, PendingFacts
  <2>2. filled[i] \in Blocks
    BY <2>1, PendingFacts, ElementOfSeq
  <2>3. InFilled(Pending[i].slot) /\ Pending[i].slot \in Slots
    BY <2>1, <2>2 DEF InFilled, Blocks
  <2>. QED BY <2>3 DEF Inv, OneOwner, Exclusive
<1>. QED BY <1>1, <1>2

LEMMA StreamStutters ==
  ASSUME Pending' = Pending, heard' = heard,
         \A i \in DOMAIN Pending : samples'[Pending[i].slot] = samples[Pending[i].slot]
  PROVE  UNCHANGED <<Streamed, heard>>
BY DEF Streamed, Sound

\* A push appends the sound of the DSP thread's block, for which there is room.
LEMMA PushEnqueues ==
  ASSUME Inv, Filling, PublishPushes
  PROVE  \E v \in [frames : 1 .. MaxFrames, audio : Audio] : Stream!Enqueue(v)
<1>. USE PoolAssumption
<1>. DEFINE e == [slot |-> slot, frames |-> frames]
            v == [frames |-> frames, audio |-> samples[slot]]
            n == Len(Pending)
<1>1. Len(filled) < RingCapacity - 1
  <2>1. Len(free) \in Nat /\ Len(filled) \in Nat
    BY DEF Inv, TypeOK
  <2>. QED BY <2>1 DEF PublishPushes, Inv, Conserved, Held
<1>2. /\ dsp = "push" /\ filled' = Append(filled, e)
      /\ UNCHANGED <<block, samples, playing, heard>>
  BY <1>1 DEF PublishPushes, Filled!Enqueue
<1>3. e \in Blocks /\ v \in [frames : 1 .. MaxFrames, audio : Audio]
  BY <1>2 DEF Blocks, Inv, TypeOK, Filling
<1>4. Pending \in Seq(Blocks) /\ filled \in Seq(Blocks) /\ block \in Blocks
  BY PendingFacts
<1>5. Pending' = Append(Pending, e)
  <2>1. CASE playing \in {"account", "write"}
    <3>1. Pending = <<block>> \o filled /\ Pending' = <<block>> \o Append(filled, e)
      BY <1>2, <2>1 DEF Pending
    <3>. QED BY <1>3, <1>4, <3>1, AppendAfterPrefix
  <2>2. CASE playing \notin {"account", "write"}
    <3>1. Pending = <<>> \o filled /\ Pending' = <<>> \o Append(filled, e)
      BY <1>2, <2>2 DEF Pending
    <3>2. Append(filled, e) \in Seq(Blocks)
      BY <1>3, <1>4
    <3>. QED BY <1>4, <3>1, <3>2, ConcatEmptySeq
  <2>. QED BY <2>1, <2>2
<1>6. n < BlockCount
  <2>1. Len(free) \in Nat /\ Len(filled) \in Nat
    BY DEF Inv, TypeOK
  <2>2. n \in Nat /\ n <= Len(filled) + Held(playing # "consume")
    BY <2>1, PendingFacts DEF Held, Inv, TypeOK
  <2>3. Len(free) + Len(filled) + 1 + Held(playing # "consume") = BlockCount
    BY <1>2 DEF Inv, Conserved, Held
  <2>4. Held(playing # "consume") \in Nat
    BY DEF Held
  <2>. HIDE DEF n
  <2>. QED BY <2>1, <2>2, <2>3, <2>4
<1>7. Streamed' = Append(Streamed, v)
  <2>1. /\ n \in Nat /\ DOMAIN Pending = 1 .. n
        /\ DOMAIN Append(Pending, e) = 1 .. n + 1
        /\ \A i \in 1 .. n : Append(Pending, e)[i] = Pending[i]
        /\ Append(Pending, e)[n + 1] = e
    BY <1>3, <1>4, AppendFacts
  <2>2. Streamed' = [i \in 1 .. n + 1 |-> [frames |-> Append(Pending, e)[i].frames,
                                           audio |-> samples[Append(Pending, e)[i].slot]]]
    BY <1>2, <1>5, <2>1 DEF Streamed, Sound
  <2>3. Streamed = [i \in 1 .. n |-> Sound(Pending[i])]
    BY <2>1 DEF Streamed
  <2>4. Streamed \in Seq({Sound(Pending[i]) : i \in 1 .. n} \cup {v}) /\ Len(Streamed) = n
    BY <2>1, <2>3
  <2>5. Append(Streamed, v) = [i \in 1 .. n + 1 |-> IF i <= n THEN Sound(Pending[i]) ELSE v]
    BY <2>1, <2>3, <2>4
  <2>6. ASSUME NEW i \in 1 .. n + 1
        PROVE  [frames |-> Append(Pending, e)[i].frames, audio |-> samples[Append(Pending, e)[i].slot]]
                 = IF i <= n THEN Sound(Pending[i]) ELSE v
    <3>1. CASE i <= n
      <4>1. Append(Pending, e)[i] = Pending[i]
        BY <2>1, <3>1
      <4>. QED BY <3>1, <4>1 DEF Sound
    <3>2. CASE ~(i <= n)
      <4>1. i = n + 1
        BY <2>1, <3>2
      <4>2. Append(Pending, e)[i] = e
        BY <2>1, <4>1
      <4>. QED BY <3>2, <4>2
    <3>. QED BY <3>1, <3>2
  <2>. QED BY <2>2, <2>5, <2>6
<1>8. Len(Streamed) = n
  <2>1. n \in Nat /\ DOMAIN Pending = 1 .. n
    BY PendingFacts
  <2>. QED BY <2>1 DEF Streamed
<1>9. Stream!Enqueue(v)
  BY <1>2, <1>6, <1>7, <1>8 DEF Stream!Enqueue, Streamed
<1>. QED BY <1>3, <1>9

\* A write hears the first sound of the queue and takes it off.
LEMMA WriteDequeues == ASSUME Inv, WriteStereo PROVE Stream!Dequeue
<1>. DEFINE n == Len(filled)
<1>1. /\ playing = "write" /\ playing' = "release" /\ heard' = Sound(block)
      /\ UNCHANGED <<filled, block, samples>>
  BY DEF WriteStereo, Sound
<1>2. /\ filled \in Seq(Blocks) /\ n \in Nat /\ DOMAIN filled = 1 .. n
      /\ Pending \in Seq(Blocks) /\ DOMAIN Pending = 1 .. n + 1 /\ Pending[1] = block
      /\ \A i \in 1 .. n : Pending[i + 1] = filled[i]
  BY <1>1, PendingFacts
<1>3. Pending' = filled
  <2>1. Pending' = <<>> \o filled
    BY <1>1 DEF Pending
  <2>. QED BY <1>2, <2>1, ConcatEmptySeq
<1>4. Streamed = [i \in 1 .. n + 1 |-> Sound(Pending[i])]
  BY <1>2 DEF Streamed
<1>5. Streamed' = [i \in 1 .. n |-> Sound(Pending[i + 1])]
  BY <1>1, <1>2, <1>3 DEF Streamed, Sound
<1>6. Streamed \in Seq({Sound(Pending[i]) : i \in 1 .. n + 1}) /\ Len(Streamed) = n + 1
  BY <1>2, <1>4
<1>7. Streamed # <<>> /\ Head(Streamed) = Sound(block)
  BY <1>2, <1>4, <1>6
<1>8. Tail(Streamed) = [i \in 1 .. n |-> Sound(Pending[i + 1])]
  BY SMTT(30), <1>2, <1>4, <1>6
<1>. QED BY <1>1, <1>5, <1>7, <1>8 DEF Stream!Dequeue, Streamed

LEMMA StepStreams == ASSUME Inv, Filling, [Next]_vars PROVE [Stream!Next]_(Stream!vars)
<1>0. UNCHANGED <<Streamed, heard>> => UNCHANGED Stream!vars
  BY DEF Stream!vars, Streamed
<1>1. CASE PublishPushes
  BY <1>1, PushEnqueues DEF Stream!Next
<1>2. CASE WriteStereo
  BY <1>2, WriteDequeues DEF Stream!Next
<1>3. CASE Copy
  <2>1. UNCHANGED <<playing, block, filled, heard>> /\ AtDsp(slot)
    BY <1>3 DEF Copy, playVars, AtDsp
  <2>2. \A s \in Slots : s # slot => samples'[s] = samples[s]
    BY <1>3 DEF Copy, Inv, TypeOK
  <2>3. Pending' = Pending
    BY <2>1 DEF Pending
  <2>4. \A i \in DOMAIN Pending : samples'[Pending[i].slot] = samples[Pending[i].slot]
    BY <2>1, <2>2, PendingOwned, PendingFacts
  <2>. QED BY <1>0, <2>1, <2>3, <2>4, StreamStutters
<1>4. CASE ConsumePops
  <2>1. /\ playing = "consume" /\ playing' = "account" /\ filled # <<>>
        /\ block' = Head(filled) /\ filled' = Tail(filled) /\ UNCHANGED <<samples, heard>>
    BY <1>4 DEF ConsumePops, Filled!Dequeue, dspVars
  <2>2. filled \in Seq(Blocks) /\ Pending = filled
    BY <2>1, PendingFacts
  <2>3. Pending' = <<Head(filled)>> \o Tail(filled)
    BY <2>1 DEF Pending
  <2>4. Pending' = Pending
    BY <2>1, <2>2, <2>3, HeadThenTail
  <2>. QED BY <1>0, <2>1, <2>4, StreamStutters
<1>5. CASE Acquire \/ PublishAccounts \/ StartPlayback \/ UNCHANGED vars
  <2>1. UNCHANGED <<playing, block, filled, samples, heard>>
    BY <1>5 DEF Acquire, PublishAccounts, PublishFails, StartPlayback, vars, dspVars, playVars
  <2>2. Pending' = Pending
    BY <2>1 DEF Pending
  <2>. QED BY <1>0, <2>1, <2>2, StreamStutters
<1>6. CASE ConsumeAccounts \/ Release
  <2>1. /\ UNCHANGED <<block, filled, samples, heard>>
        /\ playing \in {"account", "write"} <=> playing' \in {"account", "write"}
    BY <1>6 DEF ConsumeAccounts, Release, dspVars
  <2>2. Pending' = Pending
    BY <2>1 DEF Pending
  <2>. QED BY <1>0, <2>1, <2>2, StreamStutters
<1>. QED BY <1>1, <1>2, <1>3, <1>4, <1>5, <1>6 DEF Next, Dsp, Play

\* The device hears what was published, each sound once, in order and unchanged,
\* and no more than the pool holds is ever waiting: the pool with both of its
\* threads implements the bounded queue of sounds.
THEOREM SoundIsPlayedInOrder == Spec => PlaysInOrder
<1>1. Init => Filling
  BY DEF Init, Filling
<1>2. Init => Stream!Init
  <2>. SUFFICES ASSUME Init PROVE Stream!Init
    OBVIOUS
  <2>1. Pending = <<>> \o <<>>
    BY DEF Init, Pending
  <2>2. Pending = <<>>
    BY <2>1, ConcatEmptySeq, EmptySeq
  <2>. QED BY <2>2 DEF Init, Stream!Init
<1>. QED BY <1>1, <1>2, InitInv, StepInv, FillingStep, StepStreams, PTL
         DEF Spec, PlaysInOrder, Stream!Spec
-----------------------------------------------------------------------------
(***************************************************************************)
(* The frame counter.  FramesIn is a recursive function over the queue, so *)
(* facts about it are proved by induction: a set of natural numbers that   *)
(* are counterexamples has a least element.                                *)
(***************************************************************************)
LEMMA LeastElement ==
  ASSUME NEW S \in SUBSET Nat, S # {}
  PROVE  \E m \in S : \A n \in S : m <= n
<1>. DEFINE Less == {ss \in Nat \X Nat : ss[1] < ss[2]}
<1>1. IsWellFoundedOn(Less, Nat)
  BY NatLessThanWellFounded DEF OpToRel
<1>2. PICK m \in S : \A n \in S : <<n, m>> \notin Less
  <2>. HIDE DEF Less
  <2>. QED BY <1>1, WFMin
<1>3. ASSUME NEW n \in S PROVE m <= n
  <2>1. <<n, m>> \notin Less
    BY <1>2
  <2>2. m \in Nat /\ n \in Nat
    OBVIOUS
  <2>. QED BY <2>1, <2>2
<1>. QED BY <1>3

\* sum[i] is the number of frames in the first i blocks of q.
IsSum(sum, q) == sum = [i \in 0 .. Len(q) |-> IF i = 0 THEN 0 ELSE sum[i - 1] + q[i].frames]

LEMMA BlockFrames ==
  ASSUME NEW q \in Seq(Blocks)
  PROVE  Len(q) \in Nat /\ \A i \in 1 .. Len(q) : q[i] \in Blocks /\ q[i].frames \in Nat
<1>1. Len(q) \in Nat /\ \A i \in 1 .. Len(q) : q[i] \in Blocks
  BY ElementOfSeq
<1>2. \A b \in Blocks : b.frames \in Nat
  BY PoolAssumption DEF Blocks
<1>. QED BY <1>1, <1>2

\* The equation has a solution ...
LEMMA SumExists ==
  ASSUME NEW q \in Seq(Blocks)
  PROVE  \E sum \in [0 .. Len(q) -> Nat] : IsSum(sum, q)
<1>. DEFINE Upto(f, n) == /\ f \in [0 .. n -> Nat]
                          /\ f[0] = 0
                          /\ \A i \in 1 .. n : f[i] = f[i - 1] + q[i].frames
            Solvable(n) == \E f : Upto(f, n)
            Bad == {n \in 0 .. Len(q) : ~Solvable(n)}
<1>1. Len(q) \in Nat /\ \A i \in 1 .. Len(q) : q[i].frames \in Nat
  BY BlockFrames
<1>2. Solvable(0)
  <2>1. Upto([i \in 0 .. 0 |-> 0], 0)
    OBVIOUS
  <2>. QED BY <2>1
<1>3. ASSUME NEW n \in 1 .. Len(q), Solvable(n - 1) PROVE Solvable(n)
  <2>1. PICK f : Upto(f, n - 1)
    BY <1>3
  <2>. DEFINE g == [i \in 0 .. n |-> IF i < n THEN f[i] ELSE f[n - 1] + q[n].frames]
  <2>2. Upto(g, n)
    BY <1>1, <2>1
  <2>. QED BY <2>2
<1>4. Solvable(Len(q))
  <2>. HIDE DEF Solvable
  <2>. SUFFICES ASSUME Bad # {} PROVE FALSE
    BY <1>1
  <2>1. Bad \in SUBSET Nat
    BY <1>1
  <2>2. PICK n \in Bad : \A m \in Bad : n <= m
    <3>. HIDE DEF Bad
    <3>. QED BY <2>1, LeastElement
  <2>3. n \in 1 .. Len(q) /\ n - 1 \in 0 .. Len(q)
    BY <2>2, <1>1, <1>2
  <2>. QED BY <2>2, <2>3, <1>3
<1>5. PICK f : Upto(f, Len(q))
  BY <1>4
<1>6. f = [i \in 0 .. Len(q) |-> IF i = 0 THEN 0 ELSE f[i - 1] + q[i].frames]
  BY <1>1, <1>5
<1>. QED BY <1>5, <1>6 DEF IsSum

\* ... and the sum of a prefix does not depend on what follows.
LEMMA SumOfPrefix ==
  ASSUME NEW q \in Seq(Blocks), NEW r \in Seq(Blocks), NEW f, NEW g,
         IsSum(f, q), IsSum(g, r),
         Len(q) <= Len(r), \A i \in 1 .. Len(q) : q[i] = r[i]
  PROVE  \A i \in 0 .. Len(q) : f[i] = g[i]
<1>. DEFINE Bad == {i \in 0 .. Len(q) : f[i] # g[i]}
<1>. SUFFICES ASSUME Bad # {} PROVE FALSE
  OBVIOUS
<1>1. Len(q) \in Nat /\ Len(r) \in Nat
  OBVIOUS
<1>2. PICK n \in Bad : \A m \in Bad : n <= m
  <2>1. Bad \in SUBSET Nat
    BY <1>1
  <2>. HIDE DEF Bad
  <2>. QED BY <2>1, LeastElement
<1>3. /\ f[n] = IF n = 0 THEN 0 ELSE f[n - 1] + q[n].frames
      /\ g[n] = IF n = 0 THEN 0 ELSE g[n - 1] + r[n].frames
  BY <1>1 DEF IsSum
<1>4. n # 0 => f[n - 1] = g[n - 1]
  BY <1>2, <1>1
<1>. QED BY <1>1, <1>3, <1>4

\* Taking the first block off takes its frames off every sum.
LEMMA SumOfTail ==
  ASSUME NEW q \in Seq(Blocks), q # <<>>, NEW f, NEW g, IsSum(f, q), IsSum(g, Tail(q)),
         f \in [0 .. Len(q) -> Nat], g \in [0 .. Len(Tail(q)) -> Nat]
  PROVE  \A i \in 0 .. Len(q) - 1 : f[i + 1] = q[1].frames + g[i]
<1>. DEFINE Bad == {i \in 0 .. Len(q) - 1 : f[i + 1] # q[1].frames + g[i]}
<1>. SUFFICES ASSUME Bad # {} PROVE FALSE
  OBVIOUS
<1>1. /\ Len(q) \in Nat /\ Len(Tail(q)) = Len(q) - 1
      /\ \A i \in 1 .. Len(q) - 1 : Tail(q)[i] = q[i + 1]
      /\ \A i \in 1 .. Len(q) : q[i].frames \in Nat
  BY TailFacts, BlockFrames
<1>2. PICK n \in Bad : \A m \in Bad : n <= m
  <2>1. Bad \in SUBSET Nat
    BY <1>1
  <2>. HIDE DEF Bad
  <2>. QED BY <2>1, LeastElement
<1>3. /\ f[0] = 0
      /\ f[n + 1] = f[n] + q[n + 1].frames
      /\ g[n] = IF n = 0 THEN 0 ELSE g[n - 1] + q[n + 1].frames
  BY <1>1 DEF IsSum
<1>4. n # 0 => n - 1 \in 0 .. Len(q) - 1 /\ f[n] = q[1].frames + g[n - 1]
  BY <1>2, <1>1
<1>5. n # 0 => g[n - 1] \in Nat /\ q[n + 1].frames \in Nat
  <2>1. n + 1 \in 1 .. Len(q) /\ (n # 0 => n - 1 \in 0 .. Len(Tail(q)))
    BY <1>1
  <2>. HIDE DEF Bad
  <2>. QED BY <1>1, <2>1
<1>6. q[1].frames \in Nat
  BY <1>1
<1>. QED BY <1>1, <1>3, <1>4, <1>5, <1>6

LEMMA FramesInIsSum ==
  ASSUME NEW q \in Seq(Blocks)
  PROVE  \E sum \in [0 .. Len(q) -> Nat] : IsSum(sum, q) /\ FramesIn(q) = sum[Len(q)]
<1>. DEFINE chosen == CHOOSE sum : IsSum(sum, q)
<1>1. FramesIn(q) = chosen[Len(q)]
  BY DEF FramesIn, IsSum
<1>2. PICK f \in [0 .. Len(q) -> Nat] : IsSum(f, q)
  BY SumExists
<1>3. IsSum(chosen, q)
  BY <1>2
<1>4. Len(q) \in Nat
  OBVIOUS
<1>5. chosen[Len(q)] = f[Len(q)]
  <2>. HIDE DEF chosen
  <2>. QED BY <1>2, <1>3, <1>4, SumOfPrefix
<1>. QED BY <1>1, <1>2, <1>5

LEMMA FramesInEmpty == FramesIn(<<>>) = 0
<1>1. <<>> \in Seq(Blocks) /\ Len(<<>>) = 0
  OBVIOUS
<1>2. PICK sum : IsSum(sum, <<>>) /\ FramesIn(<<>>) = sum[0]
  BY <1>1, FramesInIsSum
<1>. QED BY <1>1, <1>2 DEF IsSum

LEMMA FramesInNat == ASSUME NEW q \in Seq(Blocks) PROVE FramesIn(q) \in Nat
BY FramesInIsSum

LEMMA FramesInAppend ==
  ASSUME NEW q \in Seq(Blocks), NEW b \in Blocks
  PROVE  FramesIn(Append(q, b)) = FramesIn(q) + b.frames
<1>. DEFINE r == Append(q, b)
            n == Len(q)
<1>1. /\ r \in Seq(Blocks) /\ Len(r) = n + 1 /\ n \in Nat
      /\ \A i \in 1 .. n : q[i] = r[i]
      /\ r[n + 1] = b
  BY AppendFacts
<1>2. PICK f : IsSum(f, q) /\ FramesIn(q) = f[n]
  BY FramesInIsSum
<1>3. PICK g : IsSum(g, r) /\ FramesIn(r) = g[n + 1]
  BY <1>1, FramesInIsSum
<1>. HIDE DEF r, n
<1>4. \A i \in 0 .. n : f[i] = g[i]
  <2>1. Len(q) = n
    BY DEF n
  <2>. QED BY <2>1, <1>1, <1>2, <1>3, SumOfPrefix
<1>5. g[n + 1] = g[n] + b.frames
  BY <1>1, <1>3 DEF IsSum
<1>6. g[n] = f[n]
  BY <1>1, <1>4
<1>. QED BY <1>2, <1>3, <1>5, <1>6 DEF r

LEMMA FramesInTail ==
  ASSUME NEW q \in Seq(Blocks), q # <<>>
  PROVE  FramesIn(q) = Head(q).frames + FramesIn(Tail(q))
<1>1. /\ Tail(q) \in Seq(Blocks) /\ Len(Tail(q)) = Len(q) - 1
      /\ Len(q) \in Nat \ {0} /\ Head(q) = q[1]
  BY TailFacts
<1>2. PICK f \in [0 .. Len(q) -> Nat] : IsSum(f, q) /\ FramesIn(q) = f[Len(q)]
  BY FramesInIsSum
<1>3. PICK g \in [0 .. Len(Tail(q)) -> Nat] :
         IsSum(g, Tail(q)) /\ FramesIn(Tail(q)) = g[Len(Tail(q))]
  BY <1>1, FramesInIsSum
<1>4. f[(Len(q) - 1) + 1] = q[1].frames + g[Len(q) - 1]
  BY <1>1, <1>2, <1>3, SumOfTail
<1>. QED BY <1>1, <1>2, <1>3, <1>4
-----------------------------------------------------------------------------
LEMMA AccountFacts ==
  ASSUME Inv
  PROVE  /\ filled \in Seq(Blocks) /\ FramesIn(filled) \in Nat
         /\ frames \in Nat /\ block.frames \in Nat /\ queued \in Int
<1>1. filled \in Seq(Blocks) /\ block \in Blocks /\ queued \in Int
  BY DEF Inv, TypeOK
<1>2. frames \in Nat
  BY PoolAssumption DEF Inv, TypeOK
<1>3. block.frames \in Nat
  BY <1>1, PoolAssumption DEF Blocks
<1>. QED BY <1>1, <1>2, <1>3, FramesInNat

\* The counter moves before a push and after a pop: what it is ahead of the ring
\* is in the hands of the two threads.
LEMMA StepAccounts == ASSUME Inv, FramesAccounted, [Next]_vars PROVE FramesAccounted'
<1>. DEFINE atDsp == IF dsp = "push" THEN frames ELSE 0
            atPlay == IF playing = "account" THEN block.frames ELSE 0
<1>0. /\ filled \in Seq(Blocks) /\ FramesIn(filled) \in Nat
      /\ queued = FramesIn(filled) + atDsp + atPlay
      /\ frames \in Nat /\ block.frames \in Nat /\ queued \in Int
  BY AccountFacts DEF FramesAccounted
<1>1. CASE PublishAccounts
  <2>1. slot \in Slots /\ frames <= MaxFrames
    BY PoolAssumption DEF Inv, TypeOK
  <2>2. /\ dsp = "account" /\ dsp' = "push" /\ queued' = queued + frames
        /\ UNCHANGED <<filled, frames, playing, block>>
    BY <1>1, <2>1 DEF PublishAccounts, playVars
  <2>. QED BY <1>0, <2>2 DEF FramesAccounted
<1>2. CASE PublishPushes
  <2>. DEFINE b == [slot |-> slot, frames |-> frames]
  <2>1. Len(filled) < RingCapacity - 1
    <3>1. Len(free) \in Nat /\ Len(filled) \in Nat
      BY DEF Inv, TypeOK
    <3>. QED BY <1>2, <3>1, PoolAssumption DEF PublishPushes, Inv, Conserved, Held
  <2>2. /\ dsp = "push" /\ dsp' = "acquire" /\ filled' = Append(filled, b)
        /\ UNCHANGED <<queued, frames, playing, block>>
    BY <1>2, <2>1 DEF PublishPushes, Filled!Enqueue
  <2>3. b \in Blocks /\ b.frames = frames
    BY DEF Inv, TypeOK, Blocks
  <2>4. FramesIn(filled') = FramesIn(filled) + frames
    BY <1>0, <2>2, <2>3, FramesInAppend
  <2>. QED BY <1>0, <2>2, <2>4 DEF FramesAccounted
<1>3. CASE ConsumePops
  <2>1. /\ playing = "consume" /\ playing' = "account" /\ filled # <<>>
        /\ block' = Head(filled) /\ filled' = Tail(filled)
        /\ UNCHANGED <<queued, dsp, frames>>
    BY <1>3 DEF ConsumePops, Filled!Dequeue, dspVars
  <2>2. /\ FramesIn(filled) = block'.frames + FramesIn(filled')
        /\ FramesIn(filled') \in Nat /\ block'.frames \in Nat
    <3>1. Tail(filled) \in Seq(Blocks) /\ Head(filled) \in Blocks
      BY <1>0, <2>1, TailFacts
    <3>2. \A b \in Blocks : b.frames \in Nat
      BY PoolAssumption DEF Blocks
    <3>. QED BY <1>0, <2>1, <3>1, <3>2, FramesInTail, FramesInNat
  <2>. QED BY <1>0, <2>1, <2>2 DEF FramesAccounted
<1>4. CASE ConsumeAccounts
  <2>1. /\ playing = "account" /\ playing' = "write" /\ queued' = queued - block.frames
        /\ UNCHANGED <<filled, dsp, frames, block>>
    BY <1>4 DEF ConsumeAccounts, dspVars
  <2>. QED BY <1>0, <2>1 DEF FramesAccounted
<1>5. CASE Copy
  <2>1. dsp = "copy" /\ dsp' = "account" /\ UNCHANGED <<filled, queued, playing, block>>
    BY <1>5 DEF Copy, playVars
  <2>. QED BY <1>0, <2>1 DEF FramesAccounted
<1>6. CASE Acquire \/ StartPlayback \/ WriteStereo \/ Release \/ UNCHANGED vars
  <2>1. /\ UNCHANGED <<filled, queued, frames, block>>
        /\ dsp = "push" <=> dsp' = "push"
        /\ playing = "account" <=> playing' = "account"
    BY <1>6 DEF Acquire, StartPlayback, WriteStereo, Release, vars, dspVars, playVars
  <2>. QED BY <1>0, <2>1 DEF FramesAccounted
<1>. QED BY <1>1, <1>2, <1>3, <1>4, <1>5, <1>6 DEF Next, Dsp, Play

\* queued_frames_ is the number of frames in the filled ring, but for a block on
\* its way into it or just out of it.
THEOREM FramesAreAccounted == Spec => []FramesAccounted
<1>1. Init => FramesAccounted
  BY FramesInEmpty DEF Init, FramesAccounted
<1>. QED BY <1>1, InitInv, StepInv, StepAccounts, PTL DEF Spec

\* consume() subtracts no more than there is: its assertion holds, and the
\* unsigned counter never wraps below zero.
CounterCovers == queued \in Nat /\ (playing = "account" => queued >= block.frames)

THEOREM CounterNeverWraps == Spec => []CounterCovers
<1>1. Inv /\ FramesAccounted => CounterCovers
  <2>. SUFFICES ASSUME Inv, FramesAccounted PROVE CounterCovers
    OBVIOUS
  <2>. QED BY AccountFacts DEF FramesAccounted, CounterCovers
<1>. QED BY <1>1, Invariance, FramesAreAccounted, PTL
=============================================================================
