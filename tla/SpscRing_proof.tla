--------------------------- MODULE SpscRing_proof ---------------------------
(***************************************************************************)
(* For every capacity and every set of elements: the SpscRing is type      *)
(* correct, its two threads never touch one slot at the same time, every   *)
(* element access is ordered by the indices, size() keeps its promise, and *)
(* the ring implements a bounded FIFO queue.                               *)
(***************************************************************************)
EXTENDS SpscRing, SequenceTheorems, TLAPS

\* Facts about the way round the ring.
LEMMA DistNat == ASSUME NEW a \in Slots, NEW b \in Slots
                 PROVE  /\ Dist(a, b) \in 0 .. Capacity - 1
                        /\ Dist(a, b) = 0 <=> a = b
BY RingAssumption DEF Dist, Slots

LEMMA SuccSlot == ASSUME NEW a \in Slots
                  PROVE  Succ(a) \in Slots /\ Succ(a) # a /\ Dist(a, Succ(a)) = 1
BY RingAssumption DEF Succ, Slots, Dist

\* Distances add up as long as they do not come round.
LEMMA DistAdds == ASSUME NEW a \in Slots, NEW b \in Slots, NEW c \in Slots
                  PROVE  /\ Dist(a, b) + Dist(b, c) < Capacity
                               => Dist(a, c) = Dist(a, b) + Dist(b, c)
                         /\ Dist(a, b) <= Dist(a, c)
                               => Dist(b, c) = Dist(a, c) - Dist(a, b)
BY RingAssumption DEF Dist, Slots

\* Advancing either end by one slot.
LEMMA DistSucc == ASSUME NEW a \in Slots, NEW b \in Slots
                  PROVE  /\ Succ(b) # a => Dist(a, Succ(b)) = Dist(a, b) + 1
                         /\ a # b => Dist(Succ(a), b) = Dist(a, b) - 1
BY RingAssumption DEF Dist, Slots, Succ

LEMMA InitInv == Init => Inv
<1> SUFFICES ASSUME Init PROVE Inv
  OBVIOUS
<1>1. TypeOK
  BY RingAssumption DEF Init, TypeOK, Slots
<1>2. Order /\ Checked
  BY RingAssumption DEF Init, Order, Checked, Dist
<1>3. Handover
  BY RingAssumption DEF Init, Handover, Arc, Slots, Dist
<1>. QED BY <1>1, <1>2, <1>3 DEF Inv

\* The inductive step: one lemma for each side's load of the other's index.
LEMMA LoadTailInv ==
  ASSUME Inv, NEW t \in Window(tailSeen, tail), LoadTail(t)
  PROVE  /\ tailSeen' \in Slots /\ returned' \subseteq Slots
         /\ Dist(t, tail) + Dist(tail, head) <= Capacity - 1
         /\ Slots \ Arc(t, head) \subseteq returned'
<1>. /\ t \in Slots /\ tailSeen \in Slots /\ tail \in Slots /\ head \in Slots
     /\ Dist(tailSeen, t) <= Dist(tailSeen, tail)
  BY DEF Inv, TypeOK, Window
<1>1. tailSeen' = t /\ returned' = returned \cup Arc(tailSeen, t)
  BY DEF LoadTail
<1>2. Dist(t, tail) = Dist(tailSeen, tail) - Dist(tailSeen, t)
  BY DistAdds
<1>3. Dist(t, tail) + Dist(tail, head) <= Capacity - 1
  BY <1>2, DistNat, RingAssumption DEF Inv, Order
<1>4. Dist(tailSeen, head) = Dist(tailSeen, tail) + Dist(tail, head)
  BY DistAdds, DistNat, RingAssumption DEF Inv, Order
<1>5. Dist(t, head) = Dist(tailSeen, head) - Dist(tailSeen, t)
  BY <1>4, DistAdds, DistNat, RingAssumption
<1>6. ASSUME NEW s \in Slots, s \notin Arc(t, head), s \notin Arc(tailSeen, t)
      PROVE  s \notin Arc(tailSeen, head)
  <2>1. Dist(t, s) >= Dist(t, head) /\ Dist(tailSeen, s) >= Dist(tailSeen, t)
    BY <1>6, DistNat, RingAssumption DEF Arc
  <2>2. Dist(tailSeen, s) = Dist(tailSeen, t) + Dist(t, s)
    BY <2>1, DistAdds, DistNat, RingAssumption
  <2>. QED BY <1>5, <2>1, <2>2, DistNat, RingAssumption DEF Arc
<1>. QED BY <1>1, <1>3, <1>6 DEF Inv, TypeOK, Handover, Arc

LEMMA LoadHeadInv ==
  ASSUME Inv, NEW h \in Window(headSeen, head), LoadHead(h)
  PROVE  /\ headSeen' \in Slots /\ handed' \subseteq Slots
         /\ Dist(tail, headSeen) <= Dist(tail, h)
         /\ Dist(tail, h) <= Dist(tail, head)
         /\ Arc(tail, h) \subseteq handed'
<1>. /\ h \in Slots /\ headSeen \in Slots /\ tail \in Slots /\ head \in Slots
     /\ Dist(headSeen, h) <= Dist(headSeen, head)
  BY DEF Inv, TypeOK, Window
<1>1. headSeen' = h /\ handed' = handed \cup Arc(headSeen, h)
  BY DEF LoadHead
<1>2. Dist(headSeen, head) = Dist(tail, head) - Dist(tail, headSeen)
  BY DistAdds DEF Inv, Order
<1>3. Dist(tail, h) = Dist(tail, headSeen) + Dist(headSeen, h)
  BY <1>2, DistAdds, DistNat, RingAssumption
<1>4. ASSUME NEW s \in Arc(tail, h), s \notin Arc(tail, headSeen)
      PROVE  s \in Arc(headSeen, h)
  <2>1. /\ s \in Slots /\ Dist(tail, s) < Dist(tail, h)
        /\ Dist(tail, headSeen) <= Dist(tail, s)
    BY <1>4, DistNat, RingAssumption DEF Arc
  <2>2. Dist(headSeen, s) = Dist(tail, s) - Dist(tail, headSeen)
    BY <2>1, DistAdds
  <2>. QED BY <1>3, <2>1, <2>2, DistNat, RingAssumption DEF Arc
<1>. QED BY <1>1, <1>2, <1>3, <1>4, DistNat, RingAssumption
         DEF Inv, TypeOK, Handover, Arc

LEMMA StepInv == Inv /\ [Next]_vars => Inv'
<1> SUFFICES ASSUME Inv, [Next]_vars PROVE Inv'
  OBVIOUS
<1>. USE RingAssumption
<1>1. CASE PushFails
  <2>1. PICK t \in Window(tailSeen, tail) : LoadTail(t)
    BY <1>1 DEF PushFails
  <2>2. pushing = "idle" /\ UNCHANGED <<head, pushing, value, consumer, storage, handed>>
    BY <1>1 DEF PushFails
  <2>3. tailSeen' = t
    BY <2>1 DEF LoadTail
  <2>. QED BY <2>1, <2>2, <2>3, LoadTailInv
           DEF Inv, TypeOK, Order, Checked, Handover, consumer, Window
<1>2. ASSUME NEW v \in Data, PushStarts(v) PROVE Inv'
  <2>1. PICK t \in Window(tailSeen, tail) : Succ(head) # t /\ LoadTail(t)
    BY <1>2 DEF PushStarts
  <2>2. /\ pushing = "idle" /\ pushing' = "write" /\ value' = v
        /\ handed' = handed \ {head} /\ UNCHANGED <<head, consumer, storage>>
    BY <1>2 DEF PushStarts
  <2>3. tailSeen' = t
    BY <2>1 DEF LoadTail
  <2>4. head \notin Arc(tail, headSeen)
    BY DistNat DEF Inv, TypeOK, Order, Arc
  <2>. QED BY <2>1, <2>2, <2>3, <2>4, LoadTailInv
           DEF Inv, TypeOK, Order, Checked, Handover, consumer, Window
<1>3. CASE PushWrites
  BY <1>3 DEF PushWrites, Inv, TypeOK, Order, Checked, Handover, consumer
<1>4. CASE PushPublishes
  <2>1. /\ pushing = "publish" /\ head' = Succ(head) /\ pushing' = "idle"
        /\ UNCHANGED <<value, tailSeen, returned, consumer, storage, handed>>
    BY <1>4 DEF PushPublishes
  <2>2. /\ head \in Slots /\ tail \in Slots /\ tailSeen \in Slots /\ headSeen \in Slots
        /\ Succ(head) # tailSeen
    BY <2>1 DEF Inv, TypeOK, Checked
  <2>3. Dist(tailSeen, Succ(head)) = Dist(tailSeen, head) + 1
    BY <2>2, DistSucc
  <2>4. Dist(tailSeen, head) = Dist(tailSeen, tail) + Dist(tail, head)
    BY <2>2, DistAdds, DistNat DEF Inv, Order
  <2>5. Dist(tailSeen, Succ(head)) <= Capacity - 1
    BY <2>2, SuccSlot, DistNat
  <2>6. Succ(head) # tail /\ Dist(tail, Succ(head)) = Dist(tail, head) + 1
    <3>1. Succ(head) # tail
      BY <2>2, <2>3, <2>4, DistNat
    <3>. QED BY <3>1, <2>2, DistSucc
  <2>7. Order'
    BY <2>1, <2>2, <2>3, <2>4, <2>5, <2>6, DistNat DEF Inv, Order, consumer
  <2>8. Slots \ Arc(tailSeen, Succ(head)) \subseteq Slots \ Arc(tailSeen, head)
    BY <2>2, <2>3, DistNat, SuccSlot DEF Arc
  <2>. QED BY <2>1, <2>2, <2>7, <2>8, SuccSlot
           DEF Inv, TypeOK, Checked, Handover, consumer
<1>5. CASE PopFails
  <2>1. PICK h \in Window(headSeen, head) : LoadHead(h)
    BY <1>5 DEF PopFails
  <2>2. popping = "idle" /\ UNCHANGED <<producer, tail, popping, out, promised, storage, returned>>
    BY <1>5 DEF PopFails
  <2>3. headSeen' = h
    BY <2>1 DEF LoadHead
  <2>. QED BY <2>1, <2>2, <2>3, LoadHeadInv, DistNat
           DEF Inv, TypeOK, Order, Checked, Handover, producer, Window
<1>6. CASE PopStarts
  <2>1. PICK h \in Window(headSeen, head) : tail # h /\ LoadHead(h)
    BY <1>6 DEF PopStarts
  <2>2. /\ popping = "idle" /\ popping' = "read" /\ returned' = returned \ {tail}
        /\ UNCHANGED <<producer, tail, out, promised, storage>>
    BY <1>6 DEF PopStarts
  <2>3. headSeen' = h
    BY <2>1 DEF LoadHead
  <2>4. tail \in Arc(tailSeen, head)
    <3>1. h \in Slots /\ 0 < Dist(tail, h) /\ Dist(tail, h) <= Dist(tail, head)
      BY <2>1, LoadHeadInv, DistNat DEF Inv, TypeOK, Window
    <3>2. Dist(tailSeen, head) = Dist(tailSeen, tail) + Dist(tail, head)
      BY DistAdds, DistNat DEF Inv, TypeOK, Order
    <3>. QED BY <3>1, <3>2, DistNat DEF Arc, Inv, TypeOK
  <2>. QED BY <2>1, <2>2, <2>3, <2>4, LoadHeadInv, DistNat
           DEF Inv, TypeOK, Order, Checked, Handover, producer, Window
<1>7. CASE PopReads
  <2>1. out' \in Data
    BY <1>7 DEF PopReads, Inv, TypeOK
  <2>. QED BY <1>7, <2>1 DEF PopReads, Inv, TypeOK, Order, Checked, Handover, producer
<1>8. CASE PopReleases
  <2>1. /\ popping = "release" /\ tail' = Succ(tail) /\ popping' = "idle"
        /\ promised' = IF promised = 0 THEN 0 ELSE promised - 1
        /\ UNCHANGED <<producer, out, headSeen, handed, storage, returned>>
    BY <1>8 DEF PopReleases
  <2>2. /\ head \in Slots /\ tail \in Slots /\ tailSeen \in Slots /\ headSeen \in Slots
        /\ headSeen # tail /\ head # tail
    BY <2>1, DistNat DEF Inv, TypeOK, Checked, Order
  <2>3. /\ Dist(Succ(tail), head) = Dist(tail, head) - 1
        /\ Dist(Succ(tail), headSeen) = Dist(tail, headSeen) - 1
    BY <2>2, DistSucc
  <2>4. Dist(tailSeen, Succ(tail)) = Dist(tailSeen, tail) + 1
    <3>1. Dist(tail, Succ(tail)) = 1
      BY <2>2, SuccSlot
    <3>2. Dist(tailSeen, tail) + 1 < Capacity
      BY <2>2, DistNat DEF Inv, Order
    <3>. QED BY <3>1, <3>2, <2>2, SuccSlot, DistAdds
  <2>5. Order'
    BY <2>1, <2>2, <2>3, <2>4, DistNat, SuccSlot DEF Inv, Order, producer
  <2>6. Arc(Succ(tail), headSeen) \subseteq Arc(tail, headSeen)
    <3>. SUFFICES ASSUME NEW s \in Slots, Dist(Succ(tail), s) < Dist(Succ(tail), headSeen)
                  PROVE  Dist(tail, s) < Dist(tail, headSeen)
      BY DEF Arc
    <3>1. CASE s = tail
      BY <3>1, <2>2, DistNat
    <3>2. CASE s # tail
      BY <3>2, <2>2, <2>3, DistSucc, DistNat
    <3>. QED BY <3>1, <3>2
  <2>. QED BY <2>1, <2>2, <2>3, <2>5, <2>6, SuccSlot, DistNat
           DEF Inv, TypeOK, Checked, Handover, producer
<1>9. CASE SizeSeen
  <2>1. PICK h \in Window(headSeen, head) : LoadHead(h) /\ promised' = Dist(tail, h)
    BY <1>9 DEF SizeSeen
  <2>2. popping = "idle" /\ UNCHANGED <<producer, tail, popping, out, storage, returned>>
    BY <1>9 DEF SizeSeen
  <2>3. headSeen' = h /\ h \in Slots
    BY <2>1 DEF LoadHead, Window
  <2>. QED BY <2>1, <2>2, <2>3, LoadHeadInv, DistNat
           DEF Inv, TypeOK, Order, Checked, Handover, producer
<1>10. CASE UNCHANGED vars
  BY <1>10 DEF vars, producer, consumer, Inv, TypeOK, Order, Checked, Handover
<1>. QED BY <1>1, <1>2, <1>3, <1>4, <1>5, <1>6, <1>7, <1>8, <1>9, <1>10 DEF Next
-----------------------------------------------------------------------------
LEMMA Invariance == Spec => []Inv
BY InitInv, StepInv, PTL DEF Spec

\* The indices stay slots of storage_ and every value an element.
THEOREM TypeCorrect == Spec => []TypeOK
<1>1. Inv => TypeOK
  BY DEF Inv
<1>. QED BY <1>1, Invariance, PTL

\* push() and pop() never work on one slot at the same time.
THEOREM NeverShared == Spec => []NoSharedSlot
<1>1. Inv => NoSharedSlot
  <2>. SUFFICES ASSUME Inv, pushing = "write", popping = "read", head = tail PROVE FALSE
    BY DEF NoSharedSlot
  <2>1. Dist(tail, headSeen) = 0
    BY DistNat DEF Inv, TypeOK, Order
  <2>. QED BY <2>1, DistNat DEF Inv, TypeOK, Checked
<1>. QED BY <1>1, Invariance, PTL

\* The release stores and acquire loads of the indices order every access to an
\* element before the next access to its slot by the other thread.
THEOREM AccessesOrdered == Spec => []HappensBefore
<1>1. Inv => HappensBefore
  <2>. SUFFICES ASSUME Inv PROVE HappensBefore
    OBVIOUS
  <2>1. head \in Slots \ Arc(tailSeen, head)
    BY DistNat DEF Inv, TypeOK, Arc
  <2>2. popping = "read" => tail \in Arc(tail, headSeen)
    BY DistNat DEF Inv, TypeOK, Checked, Arc
  <2>. QED BY <2>1, <2>2 DEF HappensBefore, Inv, Handover
<1>. QED BY <1>1, Invariance, PTL

\* The elements that the consumer's size() counted stay there to be popped.
THEOREM SizeKeepsPromise == Spec => []SizeIsPromise
<1>1. Inv => SizeIsPromise
  <2>. SUFFICES ASSUME Inv, NEW h \in Window(headSeen, head)
                PROVE  promised <= Dist(tail, h)
    BY DEF SizeIsPromise
  <2>1. /\ h \in Slots /\ headSeen \in Slots /\ tail \in Slots /\ head \in Slots
        /\ Dist(headSeen, h) <= Dist(headSeen, head)
    BY DEF Window, Inv, TypeOK
  <2>2. Dist(headSeen, head) = Dist(tail, head) - Dist(tail, headSeen)
    BY <2>1, DistAdds DEF Inv, Order
  <2>3. Dist(tail, h) = Dist(tail, headSeen) + Dist(headSeen, h)
    BY <2>1, <2>2, DistAdds, DistNat, RingAssumption
  <2>. QED BY <2>1, <2>3, DistNat, RingAssumption DEF Inv, TypeOK, Checked
<1>. QED BY <1>1, Invariance, PTL
-----------------------------------------------------------------------------
\* The refinement.  The abstract queue's length and its elements:
LEMMA ContentsSeq ==
  ASSUME Inv
  PROVE  /\ First \in Slots
         /\ Dist(First, head) \in 0 .. Capacity - 1
         /\ \A i \in 1 .. Dist(First, head) : At(i - 1) \in Slots
         /\ Contents \in Seq(Data)
         /\ Len(Contents) = Dist(First, head)
<1>1. First \in Slots
  BY SuccSlot DEF First, Inv, TypeOK
<1>2. Dist(First, head) \in 0 .. Capacity - 1
  BY <1>1, DistNat DEF Inv, TypeOK
<1>3. ASSUME NEW i \in 1 .. Dist(First, head) PROVE At(i - 1) \in Slots
  BY <1>1, <1>2, RingAssumption DEF At, Slots
<1>4. Contents \in [1 .. Dist(First, head) -> Data]
  BY <1>3 DEF Contents, Inv, TypeOK
<1>. QED BY <1>1, <1>2, <1>3, <1>4

\* The same of the state after a step.
QueueOK == Contents \in Seq(Data) /\ Len(Contents) = Dist(First, head)

LEMMA QueueOKNext == Inv' => QueueOK'
<1>1. Inv => QueueOK
  BY ContentsSeq DEF QueueOK
<1>. QED BY <1>1, PTL

\* The slots that hold the queue's elements are those from First up to head.
LEMMA AtArc ==
  ASSUME Inv, NEW i \in 1 .. Dist(First, head)
  PROVE  At(i - 1) # head
BY ContentsSeq, RingAssumption DEF At, Slots, Dist, Inv, TypeOK

LEMMA SameContents ==
  ASSUME Inv, First' = First, head' = head,
         \A s \in Slots : s # head => storage'[s] = storage[s]
  PROVE  Contents' = Contents
<1>1. Dist(First, head)' = Dist(First, head)
  BY DEF Dist
<1>2. ASSUME NEW i \in 1 .. Dist(First, head)
      PROVE  storage'[At(i - 1)'] = storage[At(i - 1)]
  BY AtArc, ContentsSeq DEF At
<1>. QED BY <1>1, <1>2 DEF Contents

\* The store of head_ is the abstract Enqueue.
LEMMA PublishEnqueues ==
  ASSUME Inv, Inv', PushPublishes
  PROVE  Fifo!Enqueue(value)
<1>1. /\ pushing = "publish" /\ head' = Succ(head) /\ storage' = storage
      /\ tail' = tail /\ popping' = popping /\ out' = out
  BY DEF PushPublishes, consumer
<1>2. First' = First
  BY <1>1 DEF First
<1>3. First \in Slots /\ head \in Slots /\ tail \in Slots /\ tailSeen \in Slots
  BY ContentsSeq DEF Inv, TypeOK
<1>4. Dist(First, head) < Capacity - 1
  <2>1. Dist(First, head) <= Dist(tail, head)
    <3>1. popping = "release" => tail # head
      BY <1>3, DistNat DEF Inv, Order, Checked, TypeOK
    <3>. QED BY <3>1, <1>3, DistSucc, DistNat DEF First
  <2>2. Dist(tailSeen, head) = Dist(tailSeen, tail) + Dist(tail, head)
    BY <1>3, DistAdds, DistNat, RingAssumption DEF Inv, Order
  <2>3. Dist(tailSeen, Succ(head)) = Dist(tailSeen, head) + 1
    BY <1>1, <1>3, DistSucc DEF Inv, Checked
  <2>. QED BY <1>3, <2>1, <2>2, <2>3, SuccSlot, DistNat, RingAssumption
<1>5. Succ(head) # First
  BY <1>3, <1>4, RingAssumption DEF Succ, Dist, Slots
<1>6. Dist(First, head)' = Dist(First, head) + 1
  BY <1>1, <1>2, <1>3, <1>5, DistSucc DEF Dist
<1>7. At(Dist(First, head)) = head
  BY <1>3, RingAssumption DEF At, Dist, Slots
<1>8. Contents' = [i \in 1 .. Dist(First, head) + 1 |-> storage[At(i - 1)]]
  BY <1>1, <1>2, <1>6 DEF Contents, At
<1>9. Contents' = Append(Contents, value)
  <2>. DEFINE n == Dist(First, head)
  <2>1. n \in Nat /\ Contents \in Seq(Data) /\ Len(Contents) = n /\ value \in Data
    BY ContentsSeq, RingAssumption DEF Inv, TypeOK
  <2>2. storage[At((n + 1) - 1)] = value
    BY <1>1, <1>7, <2>1 DEF Inv, Handover
  <2>3. ASSUME NEW i \in 1 .. n + 1 PROVE storage[At(i - 1)] = Append(Contents, value)[i]
    <3>1. CASE i = n + 1
      BY <3>1, <2>1, <2>2
    <3>2. CASE i # n + 1
      BY <3>2, <2>1 DEF Contents
    <3>. QED BY <3>1, <3>2
  <2>4. Append(Contents, value) \in Seq(Data) /\ Len(Append(Contents, value)) = n + 1
    BY <2>1
  <2>5. Contents' \in Seq(Data) /\ Len(Contents') = n + 1
    BY <1>6, QueueOKNext DEF QueueOK
  <2>6. \A i \in 1 .. n + 1 : Contents'[i] = Append(Contents, value)[i]
    BY <1>8, <2>3
  <2>. QED BY <2>4, <2>5, <2>6, SeqEqual
<1>. QED BY <1>1, <1>4, <1>9, ContentsSeq DEF Fifo!Enqueue

\* The read of the element is the abstract Dequeue.
LEMMA ReadDequeues ==
  ASSUME Inv, Inv', PopReads
  PROVE  Fifo!Dequeue
<1>1. /\ popping = "read" /\ popping' = "release" /\ storage' = storage
      /\ tail' = tail /\ head' = head
      /\ out' \in IF tail \in handed THEN {storage[tail]} ELSE Data
  BY DEF PopReads, producer
<1>2. First = tail /\ First' = Succ(tail)
  BY <1>1 DEF First, Succ
<1>3. head \in Slots /\ tail \in Slots /\ headSeen \in Slots /\ tail # headSeen
  BY <1>1 DEF Inv, TypeOK, Checked
<1>4. tail # head
  BY <1>3, DistNat DEF Inv, Order
<1>5. tail \in handed
  BY <1>3, DistNat DEF Arc, Inv, Handover
<1>6. Dist(First, head) >= 1 /\ Dist(First, head)' = Dist(First, head) - 1
  BY <1>1, <1>2, <1>3, <1>4, DistNat, DistSucc DEF Dist
<1>7. At(0) = tail
  BY <1>2, <1>3, RingAssumption DEF At, Slots
<1>8. Contents # <<>> /\ Head(Contents) = storage[tail]
  BY <1>6, <1>7, ContentsSeq DEF Contents
<1>9. ASSUME NEW i \in 1 .. Dist(First, head)'
      PROVE  At(i - 1)' = At(i)
  BY <1>2, <1>3, <1>6, RingAssumption, DistNat DEF At, Succ, Slots
<1>10. Contents' = Tail(Contents)
  <2>1. Contents' \in Seq(Data) /\ Len(Contents') = Dist(First, head) - 1
    BY <1>6, QueueOKNext DEF QueueOK
  <2>2. /\ Tail(Contents) \in Seq(Data) /\ Len(Tail(Contents)) = Dist(First, head) - 1
        /\ \A i \in 1 .. Len(Tail(Contents)) : Tail(Contents)[i] = Contents[i + 1]
    BY <1>8, ContentsSeq, HeadTailProperties
  <2>3. ASSUME NEW i \in 1 .. Len(Contents') PROVE Contents'[i] = Tail(Contents)[i]
    <3>1. Contents'[i] = storage[At(i)]
      BY <1>1, <1>6, <1>9, <2>1 DEF Contents
    <3>2. i + 1 \in 1 .. Dist(First, head) /\ (i + 1) - 1 = i
      BY <2>1, ContentsSeq
    <3>3. Contents[i + 1] = storage[At(i)]
      BY <3>2 DEF Contents
    <3>. QED BY <2>1, <2>2, <3>1, <3>3
  <2>. QED BY <2>1, <2>2, <2>3, SeqEqual
<1>. QED BY <1>1, <1>5, <1>8, <1>10 DEF Fifo!Dequeue

LEMMA ReleaseStutters == PopReleases => UNCHANGED <<Contents, out>>
BY DEF PopReleases, producer, Contents, First, At, Dist, Succ

LEMMA StepRefines ==
  ASSUME Inv, Inv', [Next]_vars
  PROVE  /\ [Fifo!Next]_(Fifo!vars)
         /\ [Fifo!Enqueue(value) \/ Fifo!Dequeue]_(Fifo!vars)
<1>1. CASE PushPublishes
  BY <1>1, PublishEnqueues DEF Fifo!Next, Inv, TypeOK
<1>2. CASE PopReads
  BY <1>2, ReadDequeues DEF Fifo!Next
<1>3. CASE PopReleases
  BY <1>3, ReleaseStutters DEF Fifo!vars
<1>4. CASE PushWrites
  <2>1. First' = First /\ head' = head /\ out' = out
    BY <1>4 DEF PushWrites, consumer, First
  <2>2. \A s \in Slots : s # head => storage'[s] = storage[s]
    BY <1>4 DEF PushWrites, Inv, TypeOK
  <2>. QED BY <2>1, <2>2, SameContents DEF Fifo!vars
<1>5. CASE PushFails \/ PopFails \/ SizeSeen \/ UNCHANGED vars
  <2>1. UNCHANGED <<head, tail, popping, storage, out>>
    BY <1>5 DEF PushFails, PopFails, SizeSeen, vars, producer, consumer
  <2>. QED BY <2>1, SameContents DEF Fifo!vars, First, Succ
<1>6. CASE PopStarts \/ \E v \in Data : PushStarts(v)
  <2>1. UNCHANGED <<head, tail, storage, out>> /\ (popping = "release" <=> popping' = "release")
    BY <1>6 DEF PopStarts, PushStarts, producer, consumer
  <2>. QED BY <2>1, SameContents DEF Fifo!vars, First, Succ
<1>. QED BY <1>1, <1>2, <1>3, <1>4, <1>5, <1>6 DEF Next

\* The ring implements the bounded FIFO queue: nothing is lost, duplicated,
\* reordered or made up between push() and pop(), and at most Capacity - 1
\* elements are ever in it; what a push adds is its argument.
THEOREM ImplementsFifo == Spec => FifoQueue
<1>1. Init => Fifo!Init
  BY RingAssumption, SeqEqual DEF Init, Fifo!Init, Contents, First, Dist
<1>. QED BY <1>1, Invariance, StepRefines, PTL DEF Spec, FifoQueue, Fifo!Spec
=============================================================================
