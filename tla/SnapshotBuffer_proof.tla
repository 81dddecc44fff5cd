------------------------ MODULE SnapshotBuffer_proof ------------------------
(***************************************************************************)
(* For every number of words, every set of snapshots and every width of    *)
(* the sequence: SnapshotBuffer is type correct and, where stores and      *)
(* loads are performed in program order, acquire() returns the words of    *)
(* one snapshot, the latest when it last loaded the sequence.              *)
(***************************************************************************)
EXTENDS SnapshotBuffer, TLAPS

LEMMA Numbers ==
    /\ WordCount \in Nat \ {0} /\ SeqMod \in Nat \ {0}
    /\ Overlap \in Nat /\ 2 * (Overlap + 1) < SeqMod
BY SnapshotAssumption

LEMMA Wraps ==
    ASSUME NEW a \in 0 .. SeqMod - 1
    PROVE  /\ (a + 1) % SeqMod = IF a + 1 = SeqMod THEN 0 ELSE a + 1
           /\ (a + 1) % SeqMod \in 0 .. SeqMod - 1
<1>1. ASSUME NEW m \in Nat, m # 0
      PROVE  m % m = 0 /\ \A b \in 0 .. m - 1 : b % m = b
  BY <1>1
<1> QED
  BY SMTT(30), <1>1, SnapshotAssumption

LEMMA Alternate ==
    ASSUME NEW a \in Nat
    PROVE  (a % 2 = 0 /\ (a + 1) % 2 = 1) \/ (a % 2 = 1 /\ (a + 1) % 2 = 0)
OBVIOUS

\* d numbers were stored, m were left and n are, o is the overlap.
LEMMA DriftBound ==
    ASSUME NEW d \in Nat, NEW m \in Nat, NEW n \in Nat, NEW o \in 0 .. Overlap,
           d + m <= 2 * (o + 1), m = n + 1
    PROVE  d + 1 \in Nat \ {0} /\ d + 1 < SeqMod /\ (d + 1) + n <= 2 * (o + 1)
<1>1. o \in Nat /\ o <= Overlap
  BY Numbers
<1>2. 2 * (o + 1) <= 2 * (Overlap + 1)
  BY <1>1, Numbers
<1> QED
  BY <1>1, <1>2, Numbers

\* One step of the sequence changes its parity, also when it wraps.
LEMMA Parity ==
    ASSUME NEW a \in 0 .. SeqMod - 1
    PROVE  /\ a % 2 \in {0, 1}
           /\ a % 2 = 0 => ((a + 1) % SeqMod) % 2 = 1
           /\ a % 2 = 1 => ((a + 1) % SeqMod) % 2 = 0
<1>1. (a % 2 = 0 /\ (a + 1) % 2 = 1) \/ (a % 2 = 1 /\ (a + 1) % 2 = 0)
  <2>1. a \in Nat
    BY Numbers
  <2> QED
    BY <2>1, Alternate
<1>2. SeqMod % 2 = 0 /\ 0 % 2 = 0
  BY SnapshotAssumption
<1>3. CASE a + 1 = SeqMod
  BY <1>1, <1>2, <1>3, Wraps
<1>4. CASE a + 1 # SeqMod
  BY <1>1, <1>4, Wraps
<1> QED
  BY <1>3, <1>4

-----------------------------------------------------------------------------
(* Types, whatever the memory model.                                       *)

LEMMA TypeInit == Init => TypeOK
BY SnapshotAssumption DEF Init, TypeOK

LEMMA TypeStep == TypeOK /\ [Next]_vars => TypeOK'
<1> SUFFICES ASSUME TypeOK, [Next]_vars
             PROVE  TypeOK'
  OBVIOUS
<1> USE Numbers
<1>1. CASE UNCHANGED vars
  BY <1>1 DEF TypeOK, vars, writer, reader
<1>2. ASSUME NEW v \in Values, Publish(v)
      PROVE  TypeOK'
  <2>1. overlap' \in 0 .. Overlap
    BY <1>2 DEF TypeOK, Publish
  <2> QED
    BY <1>2, <2>1 DEF TypeOK, Publish, reader
<1>3. CASE StoreOdd
  BY <1>3, Wraps DEF TypeOK, StoreOdd, reader
<1>4. CASE StoreEven
  BY <1>4, Wraps DEF TypeOK, StoreEven, reader
<1>5. ASSUME NEW w \in Words, StoreWord(w)
      PROVE  TypeOK'
  BY <1>5 DEF TypeOK, StoreWord, reader
<1>6. CASE Acquire
  BY <1>6 DEF TypeOK, Acquire, writer
<1>7. CASE LoadBefore
  BY <1>7 DEF TypeOK, LoadBefore, writer
<1>8. ASSUME NEW w \in Words, LoadWord(w)
      PROVE  TypeOK'
  BY <1>8 DEF TypeOK, LoadWord, writer
<1>9. CASE LoadAfter
  BY <1>9 DEF TypeOK, LoadAfter, writer
<1>10. CASE Return
  BY <1>10 DEF TypeOK, Return, writer
<1>11. CASE Retry
  BY <1>11 DEF TypeOK, Retry, writer
<1> QED
  BY <1>1, <1>2, <1>3, <1>4, <1>5, <1>6, <1>7, <1>8, <1>9, <1>10, <1>11 DEF Next, Store, Read

\* Every variable of the sequence lock keeps its type, and sequence_ its range
\* when it wraps.
THEOREM TypeCorrect == Spec => []TypeOK
BY TypeInit, TypeStep, PTL DEF Spec

-----------------------------------------------------------------------------
(* Program order.                                                          *)

\* A publication has stored its odd number and not yet its even one.
InProgress == Even \in pending /\ Odd \notin pending

\* What a publication in progress has left behind it, and what is there between
\* two of them.
Written ==
    /\ \A s \in pending, t \in Stores : s <= t => t \in pending
    /\ sequence % 2 = IF InProgress THEN 1 ELSE 0
    /\ \A w \in Words : ~InProgress => payload[w] = latest
    /\ \A w \in Words : InProgress /\ w \notin pending => payload[w] = publishing

\* The numbers that the publications under way may still store.
Left == (IF Odd \in pending THEN 1 ELSE 0) + (IF Even \in pending THEN 1 ELSE 0)

\* d numbers have been stored since the reader loaded before; sequence_ may have
\* wrapped once.  As long as it is none, the words loaded are the current ones.
Drifted(d) ==
    /\ sequence = before + d \/ sequence + SeqMod = before + d
    /\ d + Left <= 2 * (overlap + 1)
    /\ d = 0 => latest = current /\ \A w \in Words \cap loaded : words[w] = current

Loading ==
    /\ before % 2 = 0
    /\ \A l \in loaded, k \in Words : k < l => k \in loaded
    /\ \E d \in Nat : Drifted(d)
    /\ After \in loaded /\ before = after => \A w \in Words : words[w] = current

Inv == /\ TypeOK /\ Written
       /\ reading = "load" => Loading
       /\ Untorn

-----------------------------------------------------------------------------
LEMMA WrittenStep ==
    ASSUME ~Reorders, TypeOK, Written, [Next]_vars
    PROVE  Written'
<1> USE Numbers
<1>1. CASE UNCHANGED <<sequence, payload, pending, publishing, latest>>
  BY <1>1 DEF Written, InProgress
<1>2. ASSUME NEW v \in Values, Publish(v)
      PROVE  Written'
  <2>1. pending = {} /\ pending' = Stores /\ UNCHANGED <<sequence, payload, latest>>
    BY <1>2 DEF Publish
  <2>2. ~InProgress /\ ~InProgress'
    BY <2>1 DEF InProgress, Stores, Odd, Even
  <2> QED
    BY <2>1, <2>2 DEF Written, Stores, Odd, Even
<1>3. CASE StoreOdd
  <2>1. /\ Odd \in pending /\ pending' = pending \ {Odd} /\ sequence' = (sequence + 1) % SeqMod
        /\ UNCHANGED <<payload, publishing, latest>>
    BY <1>3 DEF StoreOdd, MayStore
  <2>2. pending = Stores
    <3>1. \A t \in Stores : Odd <= t
      BY DEF Stores, Odd, Even
    <3>2. pending \subseteq Stores
      BY DEF TypeOK
    <3> QED
      BY <2>1, <3>1, <3>2 DEF Written
  <2>3. ~InProgress /\ InProgress'
    BY <2>1, <2>2 DEF InProgress, Stores, Odd, Even
  <2>4. sequence' % 2 = 1
    BY <2>1, <2>3, Parity DEF Written, TypeOK
  <2>5. \A w \in Words : w \in pending'
    BY <2>1, <2>2 DEF Words, Stores, Odd, Even
  <2>6. \A s \in pending', t \in Stores : s <= t => t \in pending'
    BY <2>1, <2>2 DEF Stores, Odd, Even
  <2> QED
    BY <2>3, <2>4, <2>5, <2>6 DEF Written
<1>4. CASE StoreEven
  <2>1. /\ Even \in pending /\ \A t \in pending : Even <= t
        /\ pending' = pending \ {Even} /\ sequence' = (sequence + 1) % SeqMod
        /\ latest' = publishing /\ UNCHANGED <<payload, publishing>>
    BY <1>4 DEF StoreEven, MayStore
  <2>2. pending = {Even}
    <3>1. \A t \in Stores : Even <= t => t = Even
      BY DEF Stores, Odd, Even
    <3>2. pending \subseteq Stores
      BY DEF TypeOK
    <3> QED
      BY <2>1, <3>1, <3>2
  <2>3. InProgress /\ ~InProgress' /\ pending' = {}
    BY <2>1, <2>2 DEF InProgress, Odd, Even
  <2>4. sequence' % 2 = 0
    BY <2>1, <2>3, Parity DEF Written, TypeOK
  <2>5. \A w \in Words : payload[w] = publishing
    BY <2>2, <2>3 DEF Written, Words, Even
  <2> QED
    BY <2>1, <2>3, <2>4, <2>5 DEF Written
<1>5. ASSUME NEW w \in Words, StoreWord(w)
      PROVE  Written'
  <2>1. /\ w \in pending /\ \A t \in pending : w <= t
        /\ pending' = pending \ {w} /\ payload' = [payload EXCEPT ![w] = publishing]
        /\ UNCHANGED <<sequence, publishing, latest>>
    BY <1>5 DEF StoreWord, MayStore
  <2>2. Odd \notin pending /\ Even \in pending
    BY <2>1 DEF Written, Words, Stores, Odd, Even
  <2>3. InProgress /\ InProgress'
    BY <2>1, <2>2 DEF InProgress, Words, Even
  <2>4. \A s \in pending', t \in Stores : s <= t => t \in pending'
    <3> SUFFICES ASSUME NEW s \in pending', NEW t \in Stores, s <= t
                 PROVE  t \in pending'
      OBVIOUS
    <3>1. s \in pending /\ w <= s /\ s # w /\ s \in Nat /\ w \in Nat /\ t \in Nat
      BY <2>1 DEF TypeOK, Words, Stores, Odd, Even
    <3>2. t # w
      BY <3>1
    <3> QED
      BY <2>1, <3>1, <3>2 DEF Written
  <2>5. \A u \in Words : payload'[u] = IF u = w THEN publishing ELSE payload[u]
    BY <2>1 DEF TypeOK
  <2> QED
    BY <2>1, <2>3, <2>4, <2>5 DEF Written
<1>6. CASE Acquire \/ LoadBefore \/ LoadAfter \/ Return \/ Retry \/ \E w \in Words : LoadWord(w)
  BY <1>1, <1>6 DEF Acquire, LoadBefore, LoadAfter, Return, Retry, LoadWord, writer
<1>7. CASE UNCHANGED vars
  BY <1>1, <1>7 DEF vars, writer
<1> QED
  BY <1>2, <1>3, <1>4, <1>5, <1>6, <1>7 DEF Next, Store, Read

\* A step of the sequence, seen from where it was.
LEMMA Drifts ==
    ASSUME TypeOK, Loading, sequence' = (sequence + 1) % SeqMod,
           Left' + 1 = Left, Left' \in Nat,
           UNCHANGED <<before, after, loaded, words, current, overlap>>
    PROVE  Loading'
<1> USE Numbers
<1>1. PICK d \in Nat : Drifted(d)
  BY DEF Loading
<1>2. /\ sequence \in 0 .. SeqMod - 1 /\ before \in 0 .. SeqMod - 1
      /\ overlap \in 0 .. Overlap
      /\ sequence = before + d \/ sequence + SeqMod = before + d
      /\ d + Left <= 2 * (overlap + 1)
  BY <1>1 DEF TypeOK, Drifted
<1>3. d + 1 < SeqMod /\ (d + 1) + Left' <= 2 * (overlap + 1) /\ d + 1 # 0
  <2>1. Left \in Nat /\ Left = Left' + 1
    BY DEF Left
  <2> QED
    BY <1>2, <2>1, DriftBound
<1>4. sequence' = before + (d + 1) \/ sequence' + SeqMod = before + (d + 1)
  <2>1. sequence' = IF sequence + 1 = SeqMod THEN 0 ELSE sequence + 1
    BY <1>2, Wraps
  <2> QED
    BY <1>2, <1>3, <2>1
<1>5. Drifted(d + 1)'
  BY <1>3, <1>4 DEF Drifted
<1>6. \E e \in Nat : Drifted(e)'
  BY <1>5
<1> QED
  BY <1>6 DEF Loading

LEMMA LoadingStep ==
    ASSUME ~Reorders, TypeOK, Written, reading = "load" => Loading, [Next]_vars,
           reading' = "load"
    PROVE  Loading'
<1> USE Numbers
<1>1. CASE UNCHANGED <<sequence, pending, latest, reading, before, after, words, loaded, current, overlap>>
  <2>1. \A d \in Nat : Drifted(d) => Drifted(d)'
    BY <1>1 DEF Drifted, Left
  <2> QED
    BY <1>1, <2>1 DEF Loading
<1>2. ASSUME NEW v \in Values, Publish(v)
      PROVE  Loading'
  <2>1. /\ pending = {} /\ pending' = Stores /\ reading = "load" /\ overlap' = overlap + 1
        /\ UNCHANGED <<sequence, payload, latest, before, after, words, loaded, current>>
    BY <1>2 DEF Publish, reader
  <2>2. PICK d \in Nat : Drifted(d)
    BY <2>1 DEF Loading
  <2>3. Left = 0 /\ Left' = 2
    BY <2>1 DEF Left, Stores, Odd, Even
  <2>4. d + Left' <= 2 * (overlap' + 1)
    BY <2>1, <2>2, <2>3 DEF Drifted, TypeOK
  <2>5. Drifted(d)'
    BY <2>1, <2>2, <2>4 DEF Drifted
  <2> QED
    BY <2>1, <2>5 DEF Loading
<1>3. CASE StoreOdd
  <2>1. /\ Odd \in pending /\ pending' = pending \ {Odd} /\ sequence' = (sequence + 1) % SeqMod
        /\ reading = "load" /\ UNCHANGED <<before, after, loaded, words, current, overlap>>
    BY <1>3 DEF StoreOdd, MayStore, reader
  <2>2. Left' + 1 = Left /\ Left' \in Nat
    BY <2>1 DEF Left, Odd, Even
  <2> QED
    BY <2>1, <2>2, Drifts
<1>4. CASE StoreEven
  <2>1. /\ Even \in pending /\ \A t \in pending : Even <= t
        /\ pending' = pending \ {Even} /\ sequence' = (sequence + 1) % SeqMod
        /\ reading = "load" /\ UNCHANGED <<before, after, loaded, words, current, overlap>>
    BY <1>4 DEF StoreEven, MayStore, reader
  <2>2. Left' + 1 = Left /\ Left' \in Nat
    BY <2>1 DEF Left, Odd, Even
  <2> QED
    BY <2>1, <2>2, Drifts
<1>5. ASSUME NEW w \in Words, StoreWord(w)
      PROVE  Loading'
  <2>1. /\ w \in pending /\ pending' = pending \ {w} /\ reading = "load"
        /\ UNCHANGED <<sequence, latest, before, after, loaded, words, current, overlap>>
    BY <1>5 DEF StoreWord, MayStore, reader
  <2>2. Left' = Left
    BY <2>1 DEF Left, Words, Odd, Even
  <2>3. \A d \in Nat : Drifted(d) => Drifted(d)'
    BY <2>1, <2>2 DEF Drifted
  <2> QED
    BY <2>1, <2>3 DEF Loading
<1>6. CASE LoadBefore
  <2>1. /\ sequence % 2 = 0 /\ before' = sequence /\ current' = latest /\ loaded' = {}
        /\ UNCHANGED <<sequence, pending, latest, overlap>>
    BY <1>6 DEF LoadBefore, writer
  <2>2. Drifted(0)'
    <3>1. Left' \in {0, 1, 2} /\ overlap' \in Nat
      <4>1. Left' = Left /\ overlap' = overlap
        BY <2>1 DEF Left
      <4>2. Left \in {0, 1, 2}
        BY DEF Left
      <4> QED
        BY <4>1, <4>2 DEF TypeOK
    <3>2. 0 + Left' <= 2 * (overlap' + 1)
      <4>1. \A n \in {0, 1, 2}, o \in Nat : 0 + n <= 2 * (o + 1)
        OBVIOUS
      <4> QED
        BY <3>1, <4>1
    <3>3. sequence' = before' + 0
      BY <2>1 DEF TypeOK
    <3> QED
      BY <2>1, <3>2, <3>3 DEF Drifted
  <2>3. \E d \in Nat : Drifted(d)'
    BY <2>2
  <2> QED
    BY <2>1, <2>3 DEF Loading
<1>7. ASSUME NEW w \in Words, LoadWord(w)
      PROVE  Loading'
  <2>1. /\ reading = "load" /\ \A k \in Words : k < w => k \in loaded
        /\ words' = [words EXCEPT ![w] = payload[w]] /\ loaded' = loaded \cup {w}
        /\ w \notin loaded
        /\ UNCHANGED <<sequence, pending, latest, before, after, current, overlap>>
    BY <1>7 DEF LoadWord, MayLoad, writer
  <2>2. PICK d \in Nat : Drifted(d)
    BY <2>1 DEF Loading
  <2>3. \A u \in Words : words'[u] = IF u = w THEN payload[w] ELSE words[u]
    BY <2>1 DEF TypeOK
  <2>4. ASSUME d = 0
        PROVE  payload[w] = current
    <3>1. sequence = before
      BY <2>2, <2>4 DEF Drifted, TypeOK
    <3>2. ~InProgress
      BY <2>1, <3>1 DEF Written, Loading
    <3> QED
      BY <2>2, <2>4, <3>2 DEF Written, Drifted
  <2>5. Drifted(d)'
    BY <2>1, <2>2, <2>3, <2>4 DEF Drifted, Left
  <2>6. \A l \in loaded', k \in Words : k < l => k \in loaded'
    BY <2>1 DEF Loading
  <2>7. After \notin loaded'
    <3>1. w < After /\ After # w
      BY DEF Words, After
    <3> QED
      BY <2>1, <3>1 DEF Loading
  <2> QED
    BY <2>1, <2>5, <2>6, <2>7 DEF Loading
<1>8. CASE LoadAfter
  <2>1. /\ reading = "load" /\ \A k \in Words : k < After => k \in loaded
        /\ after' = sequence /\ loaded' = loaded \cup {After}
        /\ UNCHANGED <<sequence, pending, latest, before, words, current, overlap>>
    BY <1>8 DEF LoadAfter, MayLoad, writer
  <2>2. PICK d \in Nat : Drifted(d)
    BY <2>1 DEF Loading
  <2>3. Words \subseteq loaded /\ Words \cap loaded' = Words \cap loaded
    BY <2>1 DEF Words, After
  <2>4. Drifted(d)'
    BY <2>1, <2>2, <2>3 DEF Drifted, Left
  <2>5. ASSUME before = sequence
        PROVE  d = 0
    <3>1. d < SeqMod
      <4>1. Left \in Nat /\ overlap \in 0 .. Overlap
        BY DEF Left, TypeOK
      <4>2. 2 * (overlap + 1) <= 2 * (Overlap + 1)
        BY <4>1
      <4> QED
        BY <2>2, <4>1, <4>2 DEF Drifted
    <3> QED
      BY <2>2, <2>5, <3>1 DEF Drifted, TypeOK
  <2>6. before' = after' => \A w \in Words : words'[w] = current'
    BY <2>1, <2>2, <2>3, <2>5 DEF Drifted
  <2>7. \A l \in loaded', k \in Words : k < l => k \in loaded'
    BY <2>3, <2>1
  <2>8. before' % 2 = 0
    BY <2>1 DEF Loading
  <2> QED
    BY <2>4, <2>6, <2>7, <2>8 DEF Loading
<1>9. CASE Acquire \/ Return \/ Retry
  BY <1>9 DEF Acquire, Return, Retry
<1>10. CASE UNCHANGED vars
  BY <1>1, <1>10 DEF vars, writer, reader
<1> QED
  BY <1>2, <1>3, <1>4, <1>5, <1>6, <1>7, <1>8, <1>9, <1>10 DEF Next, Store, Read

\* What is returned is current.
LEMMA Returned ==
    ASSUME Inv, Return
    PROVE  result' = [w \in Words |-> current]
<1>1. /\ reading = "load" /\ After \in loaded /\ before = after /\ result' = words
  BY DEF Return
<1>2. \A w \in Words : words[w] = current
  BY <1>1 DEF Inv, Loading
<1>3. words = [w \in Words |-> words[w]]
  BY DEF Inv, TypeOK
<1> QED
  BY <1>1, <1>2, <1>3

LEMMA InvInit == Init => Inv
<1> SUFFICES ASSUME Init
             PROVE  Inv
  OBVIOUS
<1>1. TypeOK
  BY TypeInit
<1>2. Written
  BY DEF Init, Written, InProgress
<1> QED
  BY <1>1, <1>2 DEF Init, Inv, Untorn

LEMMA InvStep ==
    ASSUME ~Reorders
    PROVE  Inv /\ [Next]_vars => Inv'
<1> SUFFICES ASSUME Inv, [Next]_vars
             PROVE  Inv'
  OBVIOUS
<1>1. TypeOK'
  BY TypeStep DEF Inv
<1>2. Written'
  BY WrittenStep DEF Inv
<1>3. reading' = "load" => Loading'
  BY LoadingStep DEF Inv
<1>4. Untorn'
  <2>1. CASE Return
    BY <2>1, Returned DEF Untorn
  <2>2. CASE UNCHANGED result
    BY <2>2 DEF Inv, Untorn
  <2>3. Return \/ UNCHANGED result
    BY DEF Next, Store, Read, Publish, StoreOdd, StoreEven, StoreWord, Acquire, LoadBefore,
           LoadWord, LoadAfter, Retry, vars, reader
  <2> QED
    BY <2>1, <2>2, <2>3
<1> QED
  BY <1>1, <1>2, <1>3, <1>4 DEF Inv

LEMMA Invariance ==
    ASSUME ~Reorders
    PROVE  Spec => []Inv
<1>1. Inv /\ [Next]_vars => Inv'
  BY InvStep
<1> QED
  BY InvInit, <1>1, PTL DEF Spec

-----------------------------------------------------------------------------
\* In program order, acquire() never returns words of two snapshots, whenever
\* publish() runs and also when sequence_ wraps.
THEOREM Whole ==
    ASSUME ~Reorders
    PROVE  Spec => []Untorn
<1>1. Inv => Untorn
  BY DEF Inv
<1> QED
  BY Invariance, <1>1, PTL

\* In program order, what acquire() returns is the snapshot that was the latest
\* when it loaded the sequence for the last time.
THEOREM Latest ==
    ASSUME ~Reorders
    PROVE  Spec => ReturnsLatest
<1>1. Inv /\ [Next]_vars => [Return => result' = [w \in Words |-> current]]_vars
  BY Returned
<1> QED
  BY Invariance, <1>1, PTL DEF Spec, ReturnsLatest
=============================================================================
