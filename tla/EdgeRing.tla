------------------------------ MODULE EdgeRing ------------------------------
(***************************************************************************)
(* The ring buffers of Sound_Bubble/edge/realtime/ring_buffer.py, with     *)
(* their index arithmetic.  A ring is a record: its storage, the indices   *)
(* and the running count of what it dropped.  The model ring keeps no read *)
(* index (the oldest sample is found from `write' and `size'), the output  *)
(* ring keeps both.  A cell is one unit of audio of all channels.          *)
(***************************************************************************)
EXTENDS Integers, Sequences

AtMost(a, b)  == IF a <= b THEN a ELSE b
AtLeast(a, b) == IF a >= b THEN a ELSE b

NewestOf(xs, n) == SubSeq(xs, Len(xs) - n + 1, Len(xs))

\* n cells from index `start', wrapping at the capacity.
Slice(buf, cap, start, n) == [i \in 1 .. n |-> buf[(start + i - 1) % cap]]

\* The storage with xs written from index `start', wrapping.
Stored(buf, cap, start, xs) ==
    [c \in 0 .. cap - 1 |->
        LET i == (c - start) % cap
        IN  IF i < Len(xs) THEN xs[i + 1] ELSE buf[c]]

(***************************************************************************)
(* AudioRingBuffer: the model's input.                                     *)
(***************************************************************************)
AudioRing(cap, zero) ==
    [buf |-> [c \in 0 .. cap - 1 |-> zero], write |-> 0, size |-> 0, dropped |-> 0]

AudioPush(r, cap, xs) ==
    LET n        == Len(xs)
        overflow == AtLeast(0, r.size + n - cap)
    IN  IF n >= cap
        THEN [buf |-> Stored(r.buf, cap, 0, NewestOf(xs, cap)), write |-> 0,
              size |-> cap, dropped |-> r.dropped + r.size + n - cap]
        ELSE [buf |-> Stored(r.buf, cap, r.write, xs), write |-> (r.write + n) % cap,
              size |-> AtMost(cap, r.size - overflow + n), dropped |-> r.dropped + overflow]

AudioStart(r, cap) == (r.write - r.size) % cap

AudioContents(r, cap) == Slice(r.buf, cap, AudioStart(r, cap), r.size)

\* pop(n): the caller has seen that n cells are there.
AudioFront(r, cap, n) == Slice(r.buf, cap, AudioStart(r, cap), n)
AudioPop(r, n)        == [r EXCEPT !.size = @ - n]

(***************************************************************************)
(* OutputRingBuffer: playback, and inside DryReferenceRing the dry sound.  *)
(***************************************************************************)
OutputRing(cap, zero) ==
    [buf |-> [c \in 0 .. cap - 1 |-> zero], read |-> 0, write |-> 0, size |-> 0]

OutputContents(r, cap) == Slice(r.buf, cap, r.read, r.size)

Cleared(r) == [r EXCEPT !.read = 0, !.write = 0, !.size = 0]

Dropping(r, n)     == AtMost(AtLeast(0, n), r.size)
DropOldest(r, cap, n) ==
    [r EXCEPT !.read = (@ + Dropping(r, n)) % cap, !.size = @ - Dropping(r, n)]

\* Mutant of WriteDropOldest: the write index does not wrap.
WriteUnwrapped(r, cap, xs) ==
    LET new == NewestOf(xs, AtMost(Len(xs), cap))
        k   == DropOldest(r, cap, Len(new) - (cap - r.size))
    IN  [buf |-> Stored(k.buf, cap, k.write, new), read |-> k.read,
         write |-> k.write + Len(new), size |-> k.size + Len(new)]

WriteDropOldest(r, cap, xs) ==
    LET new == NewestOf(xs, AtMost(Len(xs), cap))
        k   == DropOldest(r, cap, Len(new) - (cap - r.size))
    IN  [buf |-> Stored(k.buf, cap, k.write, new), read |-> k.read,
         write |-> (k.write + Len(new)) % cap, size |-> k.size + Len(new)]

\* read_into(out) of n frames: what it takes, and the ring after it.
Taken(r, cap, n) == Slice(r.buf, cap, r.read, AtMost(n, r.size))

\* Mutant of AfterTaking: the read index stays.
AfterPeeking(r, cap, n) == [r EXCEPT !.size = @ - AtMost(n, r.size)]

AfterTaking(r, cap, n) ==
    [r EXCEPT !.read = (@ + AtMost(n, r.size)) % cap, !.size = @ - AtMost(n, r.size)]
=============================================================================
