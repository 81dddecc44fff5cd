--------------------------- MODULE SnapshotBuffer ---------------------------
(***************************************************************************)
(* sonitude::rt::SnapshotBuffer<T> (src/rt/param_snapshot.hpp): the        *)
(* sequence lock over which the control thread publishes a steering        *)
(* snapshot and the audio thread acquires one.                             *)
(*                                                                         *)
(* A store of publish() is pending from the call until other threads can   *)
(* see it.  Reorders says in which order that may happen:                  *)
(*  - FALSE: in program order, and loads are performed in program order    *)
(*    (x86-TSO);                                                           *)
(*  - TRUE: as the memory orders in the source allow and an ARM core does: *)
(*    a release store waits for the stores before it but lets the relaxed  *)
(*    ones after it pass, and an acquire load holds back the loads after   *)
(*    it but may itself pass the relaxed ones before it.                   *)
(***************************************************************************)
EXTENDS Naturals, FiniteSets

CONSTANTS WordCount,  \* kWords
          Values,     \* the snapshots that may be published
          Initial,    \* the constructor's argument
          SeqMod,     \* 2^32, where sequence_ wraps
          Overlap,    \* bound: publications that begin during one acquire(); the
                      \* control thread sleeps 10 ms after each (main.cpp:538)
          Reorders    \* the memory model

ASSUME SnapshotAssumption == /\ WordCount \in Nat \ {0}
                             /\ Initial \in Values
                             /\ SeqMod \in Nat /\ SeqMod % 2 = 0
                             /\ Overlap \in Nat /\ 2 * (Overlap + 1) < SeqMod
                             /\ Reorders \in BOOLEAN

VARIABLES sequence,   \* sequence_
          payload,    \* payload_: the snapshot that each word belongs to
          pending,    \* the stores of publish() that are not visible yet
          publishing, \* its argument
          latest,     \* the last snapshot whose publication is complete
          reading,    \* the reader's place in acquire()
          before, after, words,  \* its local variables
          loaded,     \* the loads it has performed since it loaded before
          current,    \* the latest snapshot when it loaded before
          result,     \* what acquire() last returned
          overlap     \* publications begun since acquire() was called

writer == <<sequence, payload, pending, publishing, latest>>
reader == <<reading, before, after, words, loaded, current, result>>
vars == <<writer, reader, overlap>>

Words == 1 .. WordCount
Odd == 0                \* the store of seq + 1
Even == WordCount + 1   \* the store of seq + 2
After == WordCount + 1  \* the second load of sequence_
Stores == Odd .. Even

Init == /\ sequence = 0
        /\ payload = [w \in Words |-> Initial]
        /\ pending = {} /\ publishing = Initial /\ latest = Initial
        /\ reading = "idle"
        /\ before = 0 /\ after = 0 /\ words = [w \in Words |-> Initial]
        /\ loaded = {} /\ current = Initial
        /\ result = [w \in Words |-> Initial]
        /\ overlap = 0
-----------------------------------------------------------------------------
\* publish(v) is called: all its stores are issued.
Publish(v) == /\ pending = {}
              /\ reading # "idle" => overlap < Overlap
              /\ pending' = Stores
              /\ publishing' = v
              /\ overlap' = IF reading # "idle" THEN overlap + 1 ELSE overlap
              /\ UNCHANGED <<sequence, payload, latest, reader>>

\* The store s may become visible now.
MayStore(s) == /\ s \in pending
               /\ (~Reorders \/ s = Even) => \A t \in pending : s <= t

\* sequence_.store(seq + 1, release)
StoreOdd == /\ MayStore(Odd)
            /\ sequence' = (sequence + 1) % SeqMod
            /\ pending' = pending \ {Odd}
            /\ UNCHANGED <<payload, publishing, latest, reader, overlap>>

\* payload_[w].store(words[w], relaxed)
StoreWord(w) == /\ MayStore(w)
                /\ payload' = [payload EXCEPT ![w] = publishing]
                /\ pending' = pending \ {w}
                /\ UNCHANGED <<sequence, publishing, latest, reader, overlap>>

\* Mutant of StoreEven: the counter does not wrap.
StoreEvenUnbounded == /\ MayStore(Even)
                      /\ sequence' = sequence + 1
                      /\ pending' = pending \ {Even}
                      /\ latest' = publishing
                      /\ UNCHANGED <<payload, publishing, reader, overlap>>

\* sequence_.store(seq + 2, release)
StoreEven == /\ MayStore(Even)
             /\ sequence' = (sequence + 1) % SeqMod
             /\ pending' = pending \ {Even}
             /\ latest' = publishing
             /\ UNCHANGED <<payload, publishing, reader, overlap>>
-----------------------------------------------------------------------------
Acquire == /\ reading = "idle"
           /\ reading' = "before"
           /\ overlap' = 0
           /\ UNCHANGED <<writer, before, after, words, loaded, current, result>>

\* Mutant of LoadBefore: a publication in progress is not waited for.
LoadBeforeOdd == /\ reading = "before"
                 /\ before' = sequence
                 /\ current' = latest
                 /\ loaded' = {}
                 /\ reading' = "load"
                 /\ UNCHANGED <<writer, after, words, result, overlap>>

\* before = sequence_.load(acquire); an odd value makes the loop continue
LoadBefore == /\ reading = "before"
              /\ sequence % 2 = 0
              /\ before' = sequence
              /\ current' = latest
              /\ loaded' = {}
              /\ reading' = "load"
              /\ UNCHANGED <<writer, after, words, result, overlap>>

\* The load l may be performed now.
MayLoad(l) == /\ reading = "load"
              /\ l \notin loaded
              /\ ~Reorders => \A k \in Words : k < l => k \in loaded

\* words[w] = payload_[w].load(relaxed)
LoadWord(w) == /\ MayLoad(w)
               /\ words' = [words EXCEPT ![w] = payload[w]]
               /\ loaded' = loaded \cup {w}
               /\ UNCHANGED <<writer, reading, before, after, current, result, overlap>>

\* after = sequence_.load(acquire)
LoadAfter == /\ MayLoad(After)
             /\ after' = sequence
             /\ loaded' = loaded \cup {After}
             /\ UNCHANGED <<writer, reading, before, words, current, result, overlap>>

\* Mutant of Return: what was loaded is returned unchecked.
ReturnUnchecked == /\ reading = "load"
                   /\ loaded = Words \cup {After}
                   /\ result' = words
                   /\ reading' = "idle"
                   /\ UNCHANGED <<writer, before, after, words, loaded, current, overlap>>

\* before == after: the snapshot is returned
Return == /\ reading = "load"
          /\ loaded = Words \cup {After}
          /\ before = after
          /\ result' = words
          /\ reading' = "idle"
          /\ UNCHANGED <<writer, before, after, words, loaded, current, overlap>>

\* Mutant of Retry: before is not loaded again.
RetryStale == /\ reading = "load"
              /\ loaded = Words \cup {After}
              /\ before # after
              /\ loaded' = {}
              /\ UNCHANGED <<writer, reading, before, after, words, current, result, overlap>>

\* before # after: the loop starts again
Retry == /\ reading = "load"
         /\ loaded = Words \cup {After}
         /\ before # after
         /\ reading' = "before"
         /\ UNCHANGED <<writer, before, after, words, loaded, current, result, overlap>>
-----------------------------------------------------------------------------
Store == StoreOdd \/ StoreEven \/ \E w \in Words : StoreWord(w)
Read == LoadBefore \/ LoadAfter \/ Return \/ Retry \/ \E w \in Words : LoadWord(w)

Next == Store \/ Read \/ Acquire \/ \E v \in Values : Publish(v)

Spec == Init /\ [][Next]_vars

\* Both threads run: the audio thread completes its steps, and the control
\* thread a publication that it has begun.
FairSpec == Spec /\ WF_vars(Read) /\ WF_vars(Store)

\* Only the audio thread is sure to run: the control thread (SCHED_OTHER) may
\* be preempted in the middle of a publication for as long as the audio thread
\* (SCHED_FIFO) wants the processor.
PreemptedSpec == Spec /\ WF_vars(Read)
-----------------------------------------------------------------------------
TypeOK == /\ sequence \in 0 .. SeqMod - 1
          /\ payload \in [Words -> Values]
          /\ pending \subseteq Stores
          /\ publishing \in Values /\ latest \in Values
          /\ reading \in {"idle", "before", "load"}
          /\ before \in 0 .. SeqMod - 1 /\ after \in 0 .. SeqMod - 1
          /\ words \in [Words -> Values]
          /\ loaded \subseteq Words \cup {After}
          /\ current \in Values
          /\ result \in [Words -> Values]
          /\ overlap \in 0 .. Overlap

\* acquire() never returns words of two snapshots.
Untorn == \A v, w \in Words : result[v] = result[w]

\* The snapshot acquire() returns is the one that was the latest when it last
\* loaded before: neither an older one, nor one of a publication in progress,
\* nor, after sequence_ has wrapped, one of the same number.
ReturnsLatest == [][Return => result' = [w \in Words |-> current]]_vars

\* acquire() returns.
ReadReturns == (reading # "idle") ~> (reading = "idle")
=============================================================================
