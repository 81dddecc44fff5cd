------------------------------ MODULE SpscRing ------------------------------
(***************************************************************************)
(* sonitude::rt::SpscRing<T> (src/rt/spsc_ring.hpp): the lock-free bounded *)
(* queue between one producer thread and one consumer thread.              *)
(*                                                                         *)
(* One action per atomic access and two per access to an element, so that  *)
(* every interleaving of push(), pop() and size() is a behaviour.  The C++ *)
(* memory order is modelled by what each thread may see:                   *)
(*  - an acquire load returns the other thread's index as it is now or any *)
(*    value it had since this thread's last load (tailSeen, headSeen);     *)
(*  - handed are the slots whose element write happens-before the          *)
(*    consumer's next step, and returned the slots whose last element read *)
(*    happens-before the producer's next step: a load that reads a release *)
(*    store adds to them the slots that store passed over;                 *)
(*  - an element read that no write happens-before yields any value.       *)
(***************************************************************************)
EXTENDS Integers, Sequences

CONSTANTS Capacity,  \* slots of storage_, one of which is always unused
          Data,      \* the elements
          Zero       \* T{}, what storage_ and the caller's output argument start with

\* ValidatedCapacity accepts powers of two from 2 up: for those, "& mask_" is
\* the wrap-around of Succ, which is all that the algorithm needs of them.
ASSUME RingAssumption == /\ Capacity \in Nat
                         /\ Capacity >= 2
                         /\ Zero \in Data

VARIABLES head,      \* head_, stored by the producer only
          tail,      \* tail_, stored by the consumer only
          storage,   \* storage_
          pushing,   \* the producer's place in push()
          value,     \* the argument of push()
          tailSeen,  \* the last value of tail_ the producer loaded
          returned,  \* slots whose last read happens-before the producer's next step
          popping,   \* the consumer's place in pop()
          out,       \* the output argument of pop()
          headSeen,  \* the last value of head_ the consumer loaded
          handed,    \* slots whose last write happens-before the consumer's next step
          promised   \* pops that must still succeed after the consumer's last size()

producer == <<head, pushing, value, tailSeen>>
consumer == <<tail, popping, out, headSeen, promised>>
vars == <<producer, consumer, storage, returned, handed>>

Slots == 0 .. Capacity - 1

\* Mutant of Succ: the index is not masked.
SuccUnmasked(i) == i + 1

\* (index + 1) & mask_
Succ(i) == IF i = Capacity - 1 THEN 0 ELSE i + 1

\* (b + capacity_ - a) & mask_, the steps from index a forward to index b
Dist(a, b) == IF a <= b THEN b - a ELSE Capacity + b - a

\* the slots from index a up to, not including, index b
Arc(a, b) == {s \in Slots : Dist(a, s) < Dist(a, b)}

\* the values an index took on its way from a to b, both included
Window(a, b) == {s \in Slots : Dist(a, s) <= Dist(a, b)}

Init == /\ head = 0 /\ tail = 0
        /\ storage = [s \in Slots |-> Zero]
        /\ pushing = "idle" /\ value = Zero /\ tailSeen = 0
        /\ popping = "idle" /\ out = Zero /\ headSeen = 0
        /\ returned = Slots
        /\ handed = {}
        /\ promised = 0
-----------------------------------------------------------------------------
\* Mutant of LoadTail: the load is relaxed and synchronises with nothing.
LoadTailRelaxed(t) == tailSeen' = t /\ UNCHANGED returned

\* tail_.load(acquire) in push(), reading the value t
LoadTail(t) == /\ tailSeen' = t
               /\ returned' = returned \cup Arc(tailSeen, t)

\* push(v) finds the ring full and returns false.
PushFails == /\ pushing = "idle"
             /\ \E t \in Window(tailSeen, tail) : Succ(head) = t /\ LoadTail(t)
             /\ UNCHANGED <<head, pushing, value, consumer, storage, handed>>

\* Mutant of PushStarts: no slot is kept unused.
PushStartsUnchecked(v) == /\ pushing = "idle"
                          /\ \E t \in Window(tailSeen, tail) : LoadTail(t)
                          /\ pushing' = "write"
                          /\ value' = v
                          /\ handed' = handed \ {head}
                          /\ UNCHANGED <<head, consumer, storage>>

\* push(v) finds a slot and starts to write the element.
PushStarts(v) == /\ pushing = "idle"
                 /\ \E t \in Window(tailSeen, tail) : Succ(head) # t /\ LoadTail(t)
                 /\ pushing' = "write"
                 /\ value' = v
                 /\ handed' = handed \ {head}
                 /\ UNCHANGED <<head, consumer, storage>>

\* Mutant of PushWrites: the element goes to storage_[next].
PushWritesNext == /\ pushing = "write"
                  /\ storage' = [storage EXCEPT ![Succ(head)] = value]
                  /\ pushing' = "publish"
                  /\ UNCHANGED <<head, value, tailSeen, returned, consumer, handed>>

\* storage_[head] = value is complete.
PushWrites == /\ pushing = "write"
              /\ storage' = [storage EXCEPT ![head] = value]
              /\ pushing' = "publish"
              /\ UNCHANGED <<head, value, tailSeen, returned, consumer, handed>>

\* head_.store(next, release), and push() returns true.
PushPublishes == /\ pushing = "publish"
                 /\ head' = Succ(head)
                 /\ pushing' = "idle"
                 /\ UNCHANGED <<value, tailSeen, returned, consumer, storage, handed>>
-----------------------------------------------------------------------------
\* Mutant of LoadHead: the load is relaxed and synchronises with nothing.
LoadHeadRelaxed(h) == headSeen' = h /\ UNCHANGED handed

\* head_.load(acquire) in pop() or size(), reading the value h
LoadHead(h) == /\ headSeen' = h
               /\ handed' = handed \cup Arc(headSeen, h)

\* pop() finds the ring empty and returns false.
PopFails == /\ popping = "idle"
            /\ \E h \in Window(headSeen, head) : tail = h /\ LoadHead(h)
            /\ UNCHANGED <<producer, tail, popping, out, promised, storage, returned>>

\* pop() finds an element and starts to read it.
PopStarts == /\ popping = "idle"
             /\ \E h \in Window(headSeen, head) : tail # h /\ LoadHead(h)
             /\ popping' = "read"
             /\ returned' = returned \ {tail}
             /\ UNCHANGED <<producer, tail, out, promised, storage>>

\* out = storage_[tail] is complete.
PopReads == /\ popping = "read"
            /\ out' \in IF tail \in handed THEN {storage[tail]} ELSE Data
            /\ popping' = "release"
            /\ UNCHANGED <<producer, tail, headSeen, handed, promised, storage, returned>>

\* tail_.store(tail + 1, release), and pop() returns true.
PopReleases == /\ popping = "release"
               /\ tail' = Succ(tail)
               /\ popping' = "idle"
               /\ promised' = IF promised = 0 THEN 0 ELSE promised - 1
               /\ UNCHANGED <<producer, out, headSeen, handed, storage, returned>>

\* Mutant of SizeSeen: both ends are counted.
SizeSeenInclusive == /\ popping = "idle"
                     /\ \E h \in Window(headSeen, head) :
                           LoadHead(h) /\ promised' = Dist(tail, h) + 1
                     /\ UNCHANGED <<producer, tail, popping, out, storage, returned>>

\* size(), called by the consumer's thread (PlaybackBlockPool::filledCount in
\* the playback thread): head_ is loaded before tail_.
SizeSeen == /\ popping = "idle"
            /\ \E h \in Window(headSeen, head) :
                  LoadHead(h) /\ promised' = Dist(tail, h)
            /\ UNCHANGED <<producer, tail, popping, out, storage, returned>>
-----------------------------------------------------------------------------
Next == \/ PushFails \/ PushWrites \/ PushPublishes
        \/ \E v \in Data : PushStarts(v)
        \/ PopFails \/ PopStarts \/ PopReads \/ PopReleases
        \/ SizeSeen

Spec == Init /\ [][Next]_vars
-----------------------------------------------------------------------------
TypeOK == /\ head \in Slots /\ tail \in Slots
          /\ storage \in [Slots -> Data]
          /\ pushing \in {"idle", "write", "publish"}
          /\ value \in Data
          /\ tailSeen \in Slots
          /\ returned \subseteq Slots
          /\ popping \in {"idle", "read", "release"}
          /\ out \in Data
          /\ headSeen \in Slots
          /\ handed \subseteq Slots
          /\ promised \in 0 .. Capacity - 1

\* Lines 17-21 of the source: the producer's write of a slot and the consumer's
\* read of a slot that are in progress together are of different slots.
NoSharedSlot == ~(pushing = "write" /\ popping = "read" /\ head = tail)

\* Lines 22-27: the write of an element happens-before its read, and the read
\* of an element happens-before the next write of its slot.  This is what the
\* release stores and acquire loads are for: with it no access is a data race.
HappensBefore == /\ pushing = "write" => head \in returned
                 /\ popping = "read" => tail \in handed

\* A consumer that saw size() = n can pop n elements: whatever value its next
\* load of head_ returns, however stale, shows at least as many elements as are
\* left of those n (the playback thread's prefill gate counts on it).
SizeIsPromise == \A h \in Window(headSeen, head) : promised <= Dist(tail, h)

\* The ring implements the bounded FIFO queue, and what a push adds to it is the
\* argument of that push: it takes effect at the store of head_, a pop when the
\* element has been read.
First == IF popping = "release" THEN Succ(tail) ELSE tail
At(i) == IF First + i < Capacity THEN First + i ELSE First + i - Capacity
Contents == [i \in 1 .. Dist(First, head) |-> storage[At(i - 1)]]

Fifo == INSTANCE BoundedQueue WITH queue <- Contents, delivered <- out,
                                   Bound <- Capacity - 1

FifoQueue == Fifo!Spec /\ [][Fifo!Enqueue(value) \/ Fifo!Dequeue]_(Fifo!vars)
-----------------------------------------------------------------------------
\* Why the views can be trusted.  Going round the ring from tailSeen, the
\* producer's view of tail, one meets tail, then headSeen, the consumer's view
\* of head, then head, and does not come round to tailSeen again.
Order == /\ Dist(tailSeen, tail) + Dist(tail, head) <= Capacity - 1
         /\ Dist(tail, headSeen) <= Dist(tail, head)

\* What a thread that is past its check still knows.
Checked == /\ pushing # "idle" => Succ(head) # tailSeen
           /\ popping # "idle" => headSeen # tail
           /\ promised <= Dist(tail, headSeen)

\* Which slots the views have handed over, and the slot a write has filled.
Handover == /\ Slots \ Arc(tailSeen, head) \subseteq returned
            /\ Arc(tail, headSeen) \subseteq handed
            /\ pushing = "publish" => storage[head] = value

\* The inductive invariant the proofs use: it implies the four above.
Inv == TypeOK /\ Order /\ Checked /\ Handover
=============================================================================
