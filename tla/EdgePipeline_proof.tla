------------------------- MODULE EdgePipeline_proof -------------------------
(***************************************************************************)
(* Proofs about EdgePipeline, for every size and every command line: no    *)
(* captured block is lost without a trace, the sound waiting to be played  *)
(* stays within its bound and keeps the order of its capture, the output   *)
(* ring never overwrites anything, and every variable keeps its type.      *)
(***************************************************************************)
EXTENDS EdgePipeline, SequenceTheorems, WellFoundedInduction, TLAPS

\* The types of what counts and names blocks.
Counts ==
    /\ captured \in Nat /\ refused \in Nat /\ capDropped \in Nat /\ processed \in Nat
    /\ drainedBlocks \in Nat /\ gapBlocks \in Nat /\ drained \in Nat
    /\ inBuf \in Seq(Nat)
    /\ item \in Nat \cup {Nobody} /\ lastIdx \in Nat \cup {Nobody} /\ first \in Nat \cup {Nobody}

\* Blocks are queued in the order of their capture, younger than the one the
\* worker has, which is younger than the last one it processed.
Ordered ==
    /\ \A i, j \in 1 .. Len(inBuf) : i < j => inBuf[i] < inBuf[j]
    /\ \A i \in 1 .. Len(inBuf) : item < inBuf[i] /\ inBuf[i] < captured
    /\ item < captured /\ lastIdx <= item
    /\ wpc \in {"drain", "admit"} => lastIdx < item

\* What the worker has passed over is counted before it takes the next block,
\* and nothing is counted before the first one.
Counted ==
    /\ wpc = "pop" => drained = 0
    /\ lastIdx = Nobody => first = Nobody /\ processed = 0 /\ gapBlocks = 0
    /\ lastIdx # Nobody => first # Nobody

Inv == Counts /\ Ordered /\ Counted /\ Accounted

-----------------------------------------------------------------------------
LEMMA InvInit == Init => Inv
<1> SUFFICES ASSUME Init PROVE Inv
  OBVIOUS
<1>1. Len(<<>>) = 0 /\ <<>> \in Seq(Nat)
  OBVIOUS
<1>2. Counts
  BY <1>1 DEF Init, Counts
<1>3. Ordered
  BY <1>1 DEF Init, Ordered, Nobody
<1>4. Counted
  BY DEF Init, Counted
<1>5. Accounted
  BY <1>1 DEF Init, Accounted
<1> QED
  BY <1>2, <1>3, <1>4, <1>5 DEF Inv

\* A new block: the queue, without its oldest block if it was full, and the block.
LEMMA CaptureStep ==
    ASSUME Inv, InputCallback
    PROVE  Inv'
<1>1. /\ captured' = captured + 1
      /\ UNCHANGED <<wpc, item, drained, lastIdx, first, gapBlocks, drainedBlocks, processed>>
  BY DEF InputCallback, taking, policy
<1>2. CASE refused' = refused + 1 /\ UNCHANGED <<inBuf, capDropped>>
  <2>1. Counts'
    BY <1>1, <1>2 DEF Inv, Counts
  <2>2. Ordered'
    <3>1. captured \in Nat /\ \A i \in 1 .. Len(inBuf) : inBuf[i] \in Nat /\ item \in Int
      BY DEF Inv, Counts, Nobody
    <3>2. \A i \in 1 .. Len(inBuf) : inBuf[i] < captured + 1
      BY <3>1 DEF Inv, Ordered
    <3>3. item < captured + 1
      BY <3>1 DEF Inv, Ordered, Counts, Nobody
    <3> QED
      BY <1>1, <1>2, <3>2, <3>3 DEF Inv, Ordered
  <2>3. Counted'
    BY <1>1 DEF Inv, Counted
  <2>4. Accounted'
    <3> DEFINE n == Len(inBuf)
    <3>1. n \in Nat
      BY DEF Inv, Counts
    <3>2. Accounted
      BY DEF Inv
    <3> HIDE DEF n
    <3>3. captured' = refused' + n + capDropped + processed + drainedBlocks
                      + (IF wpc \in {"drain", "admit"} THEN 1 + drained ELSE 0)
      BY <1>1, <1>2, <3>1, <3>2 DEF Inv, Counts, Accounted, n
    <3> QED
      BY <1>1, <1>2, <3>2, <3>3 DEF Accounted, n
  <2> QED
    BY <2>1, <2>2, <2>3, <2>4 DEF Inv
<1>3. CASE /\ inBuf' = Append(IF Len(inBuf) >= CaptureBlocks THEN Tail(inBuf) ELSE inBuf, captured)
           /\ capDropped' = capDropped + (IF Len(inBuf) >= CaptureBlocks THEN 1 ELSE 0)
           /\ UNCHANGED refused
  <2>0. inBuf \in Seq(Nat) /\ Len(inBuf) \in Nat /\ CaptureBlocks \in Nat \ {0} /\ captured \in Nat
        /\ item \in Int
    BY SizesAssumption DEF Inv, Counts, Nobody
  <2>1. PICK k \in {0, 1}, kept \in Seq(Nat) :
           /\ inBuf' = Append(kept, captured) /\ capDropped' = capDropped + k
           /\ Len(kept) = Len(inBuf) - k /\ \A i \in 1 .. Len(kept) : kept[i] = inBuf[i + k]
    <3>1. CASE Len(inBuf) >= CaptureBlocks
      <4>1. inBuf # <<>>
        BY <2>0, <3>1
      <4>2. /\ Tail(inBuf) \in Seq(Nat) /\ Len(Tail(inBuf)) = Len(inBuf) - 1
            /\ \A i \in 1 .. Len(Tail(inBuf)) : Tail(inBuf)[i] = inBuf[i + 1]
        BY <2>0, <4>1
      <4> QED
        BY <1>3, <3>1, <4>2
    <3>2. CASE ~(Len(inBuf) >= CaptureBlocks)
      <4>1. Len(inBuf) = Len(inBuf) - 0 /\ \A i \in 1 .. Len(inBuf) : inBuf[i] = inBuf[i + 0]
        BY <2>0
      <4> QED
        BY <1>3, <2>0, <3>2, <4>1
    <3> QED
      BY <3>1, <3>2
  <2> DEFINE n == Len(inBuf)   m == Len(kept)   n1 == Len(inBuf')
  <2>2. /\ n1 = m + 1 /\ inBuf'[m + 1] = captured /\ \A i \in 1 .. m : inBuf'[i] = kept[i]
        /\ m \in Nat /\ inBuf' \in Seq(Nat)
    BY <2>0, <2>1
  <2>3. m = n - k /\ capDropped' = capDropped + k /\ k \in Nat /\ n \in Nat
    BY <2>0, <2>1
  <2>4. \A i \in 1 .. m : inBuf'[i] = inBuf[i + k] /\ i + k \in 1 .. n /\ inBuf[i + k] \in Nat
    <3> SUFFICES ASSUME NEW i \in 1 .. m
                 PROVE  inBuf'[i] = inBuf[i + k] /\ i + k \in 1 .. n /\ inBuf[i + k] \in Nat
      OBVIOUS
    <3>1. inBuf'[i] = inBuf[i + k]
      BY <2>1, <2>2
    <3>2. i + k \in 1 .. n
      <4> HIDE DEF n, m
      <4> QED
        BY <2>2, <2>3
    <3> QED
      BY <2>0, <3>1, <3>2
  <2>5. Counts'
    BY <1>1, <1>3, <2>2, <2>3 DEF Inv, Counts
  <2>6. Ordered'
    <3>1. \A i \in 1 .. n1 : item < inBuf'[i] /\ inBuf'[i] < captured + 1
      <4> SUFFICES ASSUME NEW i \in 1 .. n1 PROVE item < inBuf'[i] /\ inBuf'[i] < captured + 1
        OBVIOUS
      <4>1. CASE i \in 1 .. m
        <5>1. item < inBuf[i + k] /\ inBuf[i + k] < captured /\ inBuf[i + k] \in Nat
          BY <2>4, <4>1 DEF Inv, Ordered
        <5> QED
          BY <2>0, <2>4, <4>1, <5>1
      <4>2. CASE i = m + 1
        BY <2>0, <2>2, <4>2 DEF Inv, Ordered
      <4> HIDE DEF n1, m
      <4> QED
        BY <2>2, <4>1, <4>2
    <3>2. \A i, j \in 1 .. n1 : i < j => inBuf'[i] < inBuf'[j]
      <4> SUFFICES ASSUME NEW i \in 1 .. n1, NEW j \in 1 .. n1, i < j PROVE inBuf'[i] < inBuf'[j]
        OBVIOUS
      <4>0. i \in 1 .. m /\ (j \in 1 .. m \/ j = m + 1)
        <5> HIDE DEF n1, m
        <5> QED
          BY <2>2
      <4>1. CASE j \in 1 .. m
        <5>1. i + k < j + k
          BY <2>3
        <5>2. inBuf[i + k] < inBuf[j + k]
          BY <2>4, <4>0, <4>1, <5>1 DEF Inv, Ordered
        <5> QED
          BY <2>4, <4>0, <4>1, <5>2
      <4>2. CASE j = m + 1
        <5>1. inBuf[i + k] < captured
          BY <2>4, <4>0 DEF Inv, Ordered
        <5> QED
          BY <2>2, <2>4, <4>0, <4>2, <5>1
      <4> QED
        BY <4>0, <4>1, <4>2
    <3>3. item < captured + 1
      BY <2>0 DEF Inv, Ordered
    <3> QED
      BY <1>1, <3>1, <3>2, <3>3 DEF Inv, Ordered
  <2>7. Counted'
    BY <1>1 DEF Inv, Counted
  <2>8. Accounted'
    <3>1. Accounted /\ Counts
      BY DEF Inv
    <3> HIDE DEF n, m, n1
    <3>2. captured' = refused + n1 + capDropped' + processed + drainedBlocks
                      + (IF wpc \in {"drain", "admit"} THEN 1 + drained ELSE 0)
      <4>1. captured = refused + n + capDropped + processed + drainedBlocks
                       + (IF wpc \in {"drain", "admit"} THEN 1 + drained ELSE 0)
        BY <3>1 DEF Accounted, n
      <4>2. (IF wpc \in {"drain", "admit"} THEN 1 + drained ELSE 0) \in Nat
        BY <3>1 DEF Counts
      <4>3. n1 = m + 1 /\ m \in Nat
        BY <2>2
      <4> HIDE DEF Accounted
      <4> QED
        BY <1>1, <2>3, <3>1, <4>1, <4>2, <4>3 DEF Counts
    <3> QED
      BY <1>1, <1>3, <3>1, <3>2 DEF Accounted, n1
  <2> QED
    BY <2>5, <2>6, <2>7, <2>8 DEF Inv
<1> QED
  BY <1>2, <1>3 DEF InputCallback

\* The worker takes the oldest block, for the first time or over the last one.
LEMMA TakeStep ==
    ASSUME Inv, inBuf # <<>>, item' = Head(inBuf), inBuf' = Tail(inBuf),
           \/ wpc = "pop" /\ wpc' \in {"drain", "admit"} /\ UNCHANGED drained
           \/ wpc = "drain" /\ wpc' = "drain" /\ drained' = drained + 1,
           UNCHANGED <<capDropped, captured, refused, lastIdx, first, gapBlocks, drainedBlocks,
                       processed>>
    PROVE  Inv'
<1>0. Counts /\ Ordered /\ Counted /\ Accounted
  BY DEF Inv
<1>1. /\ inBuf \in Seq(Nat) /\ Len(inBuf) \in Nat \ {0} /\ Head(inBuf) = inBuf[1]
      /\ Tail(inBuf) \in Seq(Nat) /\ Len(Tail(inBuf)) = Len(inBuf) - 1
      /\ \A i \in 1 .. Len(inBuf) - 1 : Tail(inBuf)[i] = inBuf[i + 1]
  BY <1>0 DEF Counts
<1>2. \A i \in 1 .. Len(inBuf) : inBuf[i] \in Nat /\ item < inBuf[i] /\ inBuf[i] < captured
  BY <1>0, <1>1 DEF Ordered
<1>3. item \in Int /\ lastIdx \in Int /\ captured \in Nat /\ item' = inBuf[1] /\ 1 \in 1 .. Len(inBuf)
  BY <1>0, <1>1 DEF Counts, Nobody
<1>4. Counts'
  BY <1>0, <1>1, <1>2, <1>3 DEF Counts
<1>5. Ordered'
  <2>1. \A i \in 1 .. Len(inBuf) - 1 : i + 1 \in 1 .. Len(inBuf) /\ 1 < i + 1
    BY <1>1
  <2>2. Len(inBuf') = Len(inBuf) - 1 /\ \A i \in 1 .. Len(inBuf) - 1 : inBuf'[i] = inBuf[i + 1]
    BY <1>1
  <2>3. \A i \in 1 .. Len(inBuf) - 1 : item' < inBuf'[i] /\ inBuf'[i] < captured'
    <3>1. \A i \in 1 .. Len(inBuf) - 1 : inBuf[1] < inBuf[i + 1]
      BY <1>0, <1>3, <2>1 DEF Ordered
    <3> QED
      BY <1>2, <1>3, <2>1, <2>2, <3>1
  <2>4. \A i, j \in 1 .. Len(inBuf) - 1 : i < j => inBuf'[i] < inBuf'[j]
    <3> SUFFICES ASSUME NEW i \in 1 .. Len(inBuf) - 1, NEW j \in 1 .. Len(inBuf) - 1, i < j
                 PROVE  inBuf'[i] < inBuf'[j]
      OBVIOUS
    <3>1. i + 1 < j + 1
      BY <1>1
    <3>2. inBuf[i + 1] < inBuf[j + 1]
      BY <1>0, <2>1, <3>1 DEF Ordered
    <3> QED
      BY <2>2, <3>2
  <2>5. item' < captured' /\ lastIdx' < item' /\ lastIdx' <= item'
    <3>1. inBuf[1] \in Nat /\ item < inBuf[1] /\ inBuf[1] < captured /\ lastIdx <= item
      BY <1>0, <1>2, <1>3 DEF Ordered
    <3> QED
      BY <1>3, <3>1
  <2> QED
    BY <2>2, <2>3, <2>4, <2>5 DEF Ordered
<1>6. Counted'
  BY <1>0 DEF Counted
<1>7. Accounted'
  <2> DEFINE n == Len(inBuf)   n1 == Len(inBuf')
  <2>1. n \in Nat \ {0} /\ n1 = n - 1
    BY <1>1
  <2> HIDE DEF n, n1
  <2>2. captured = refused + n + capDropped + processed + drainedBlocks
                   + (IF wpc \in {"drain", "admit"} THEN 1 + drained ELSE 0)
    BY <1>0 DEF Accounted, n
  <2>3. captured' = refused' + n1 + capDropped' + processed' + drainedBlocks'
                    + (IF wpc' \in {"drain", "admit"} THEN 1 + drained' ELSE 0)
    <3>1. CASE wpc = "pop" /\ wpc' \in {"drain", "admit"} /\ UNCHANGED drained
      <4>1. drained = 0 /\ drained' = 0
        BY <1>0, <3>1 DEF Counted
      <4> QED
        BY <1>0, <2>1, <2>2, <3>1, <4>1 DEF Counts
    <3>2. CASE wpc = "drain" /\ wpc' = "drain" /\ drained' = drained + 1
      BY <1>0, <2>1, <2>2, <3>2 DEF Counts
    <3> QED
      BY <3>1, <3>2
  <2> QED
    BY <1>0, <2>3 DEF Accounted, n1
<1> QED
  BY <1>4, <1>5, <1>6, <1>7 DEF Inv

\* The gap of a block is what is missing between it and the one before.
LEMMA AdmitStep ==
    ASSUME Inv, Admit
    PROVE  Inv'
<1>0. Counts /\ Ordered /\ Counted /\ Accounted
  BY DEF Inv
<1>1. /\ wpc = "admit" /\ wpc' = "feed" /\ lastIdx' = item /\ processed' = processed + 1
      /\ drainedBlocks' = drainedBlocks + drained /\ gapBlocks' = gapBlocks + Gap
      /\ first' = (IF first = Nobody THEN item ELSE first)
      /\ UNCHANGED <<inBuf, captured, refused, capDropped, item, drained>>
  BY DEF Admit, capture, taking
<1>2. item \in Nat /\ lastIdx \in Int /\ lastIdx < item
  <2>1. lastIdx < item
    BY <1>0, <1>1 DEF Ordered
  <2>2. (lastIdx \in Nat \/ lastIdx = -1) /\ (item \in Nat \/ item = -1)
    BY <1>0 DEF Counts, Nobody
  <2> QED
    BY <2>1, <2>2
<1>3. Gap = IF lastIdx = Nobody THEN 0 ELSE item - lastIdx - 1
  BY <1>2 DEF Gap, AtLeast
<1>4. Gap \in Nat
  BY <1>0, <1>2, <1>3 DEF Counts, Nobody
<1>5. Counts'
  BY <1>0, <1>1, <1>2, <1>4 DEF Counts
<1>6. Ordered'
  BY <1>0, <1>1, <1>2 DEF Ordered
<1>7. Counted'
  BY <1>0, <1>1, <1>2 DEF Counted, Nobody
<1>8. Accounted'
  <2> DEFINE n == Len(inBuf)
  <2>1. n \in Nat
    BY <1>0 DEF Counts
  <2> HIDE DEF n
  <2>2. captured = refused + n + capDropped + processed + drainedBlocks + (1 + drained)
    BY <1>0, <1>1 DEF Accounted, n
  <2>3. captured' = refused' + n + capDropped' + processed' + drainedBlocks' + 0
    BY <1>0, <1>1, <2>1, <2>2 DEF Counts
  <2>4. first' + gapBlocks' + processed' = lastIdx' + 1
    <3>1. CASE lastIdx = Nobody
      <4>1. first' = item /\ gapBlocks' = 0 /\ processed' = 1 /\ lastIdx' = item
        BY <1>0, <1>1, <1>3, <3>1 DEF Counted
      <4> QED
        BY <1>2, <4>1
    <3>2. CASE lastIdx # Nobody
      <4>1. /\ first' = first /\ gapBlocks' = gapBlocks + (item - lastIdx - 1)
            /\ first + gapBlocks + processed = lastIdx + 1 /\ first \in Nat
        BY <1>0, <1>1, <1>3, <3>2 DEF Counted, Accounted, Counts
      <4> QED
        BY <1>0, <1>1, <1>2, <4>1 DEF Counts
    <3> QED
      BY <3>1, <3>2
  <2>5. inBuf' = inBuf /\ wpc' \notin {"drain", "admit"}
    BY <1>1
  <2> QED
    BY <2>3, <2>4, <2>5 DEF Accounted, n
<1> QED
  BY <1>5, <1>6, <1>7, <1>8 DEF Inv

\* The other steps count nothing and take nothing.
LEMMA OtherStep ==
    ASSUME Inv, UNCHANGED <<inBuf, capDropped, captured, refused, item, lastIdx, first, gapBlocks,
                            drainedBlocks, processed>>,
           \/ UNCHANGED <<wpc, drained>>
           \/ wpc \notin {"drain", "admit"} /\ wpc' \notin {"drain", "admit", "pop"} /\ UNCHANGED drained
           \/ wpc = "drain" /\ wpc' = "admit" /\ UNCHANGED drained
           \/ wpc = "reset" /\ wpc' \in {"pop", "done"} /\ drained' = 0
    PROVE  Inv'
<1>0. Counts /\ Ordered /\ Counted /\ Accounted
  BY DEF Inv
<1>2. Counts'
  BY <1>0 DEF Counts
<1>3. Ordered'
  BY <1>0 DEF Ordered
<1>4. Counted'
  BY <1>0 DEF Counted
<1>5. Accounted'
  BY <1>0 DEF Accounted
<1> QED
  BY <1>2, <1>3, <1>4, <1>5 DEF Inv

LEMMA InvNext == Inv /\ [Next]_vars => Inv'
<1> SUFFICES ASSUME Inv, [Next]_vars PROVE Inv'
  OBVIOUS
<1> USE DEF capture, taking, policy, control
<1>1. CASE InputCallback
  BY <1>1, CaptureStep
<1>2. CASE Pop
  BY <1>2, TakeStep DEF Pop
<1>3. CASE Drain
  <2>1. CASE inBuf = <<>>
    BY <1>3, <2>1, OtherStep DEF Drain
  <2>2. CASE inBuf # <<>>
    BY <1>3, <2>2, TakeStep DEF Drain
  <2> QED
    BY <2>1, <2>2
<1>4. CASE Admit
  BY <1>4, AdmitStep
<1>5. CASE OutputCallback \/ \E s \in {"in", "out"} : CallbackFails(s) \/ StreamDies(s)
  BY <1>5, OtherStep DEF OutputCallback, CallbackFails, StreamDies
<1>6. CASE Feed
  BY <1>6, OtherStep DEF Feed
<1>7. CASE Infer
  BY <1>7, OtherStep DEF Infer
<1>8. CASE Write \/ ReadAhead \/ Trim
  BY <1>8, OtherStep DEF Write, ReadAhead, Trim
<1>9. CASE Reset
  BY <1>9, OtherStep DEF Reset
<1>10. CASE WorkerFails \/ WorkerStops
  BY <1>10, OtherStep DEF WorkerFails, WorkerStops
<1>11. CASE Start \/ Supervise \/ Signal \/ Cleanup \/ Join
  BY <1>11, OtherStep DEF Start, Supervise, Signal, Cleanup, Join
<1>12. CASE UNCHANGED vars
  BY <1>12, OtherStep DEF vars
<1> QED
  BY <1>1, <1>2, <1>3, <1>4, <1>5, <1>6, <1>7, <1>8, <1>9, <1>10, <1>11, <1>12 DEF Next

\* Every captured block is queued, processed, or counted as dropped, passed over
\* or refused, and the reported gaps are exact, for every length of the buffer,
\* queue policy and run (DropOldestBuffer, and the counters of the worker).
THEOREM BlocksAreAccounted == Spec => []Accounted
<1>1. Inv => Accounted
  BY DEF Inv
<1> QED
  BY <1>1, InvInit, InvNext, PTL DEF Spec

-----------------------------------------------------------------------------
(* How long things are.                                                    *)

IsSeq(x) == \E S : x \in Seq(S)

LEMMA SeqLength ==
    ASSUME NEW x, IsSeq(x)
    PROVE  Len(x) \in Nat
<1>1. PICK S : x \in Seq(S)
  BY DEF IsSeq
<1> QED
  BY <1>1

LEMMA NoLength == IsSeq(<<>>) /\ Len(<<>>) = 0
<1>1. <<>> \in Seq({}) /\ Len(<<>>) = 0
  OBVIOUS
<1> QED
  BY <1>1 DEF IsSeq

LEMMA SeqOf ==
    ASSUME NEW n \in Nat, NEW S, NEW f, f \in [1 .. n -> S]
    PROVE  IsSeq(f) /\ Len(f) = n
<1>1. f \in Seq(S) /\ Len(f) = n
  BY SeqDef
<1> QED
  BY <1>1 DEF IsSeq

LEMMA ConcatLength ==
    ASSUME NEW x, NEW y, IsSeq(x), IsSeq(y)
    PROVE  IsSeq(x \o y) /\ Len(x \o y) = Len(x) + Len(y)
<1>1. PICK S : x \in Seq(S)
  BY DEF IsSeq
<1>2. PICK T : y \in Seq(T)
  BY DEF IsSeq
<1>3. x \in Seq(S \cup T) /\ y \in Seq(S \cup T)
  <2>1. x \in [1 .. Len(x) -> S \cup T] /\ Len(x) \in Nat
    BY <1>1
  <2>2. y \in [1 .. Len(y) -> S \cup T] /\ Len(y) \in Nat
    BY <1>2
  <2> QED
    BY <2>1, <2>2, SeqDef
<1> DEFINE R == S \cup T
<1> HIDE DEF R
<1>4. x \in Seq(R) /\ y \in Seq(R)
  BY <1>3 DEF R
<1>5. x \o y \in Seq(R) /\ Len(x \o y) = Len(x) + Len(y)
  BY <1>4, ConcatProperties
<1> QED
  BY <1>5 DEF IsSeq

LEMMA SubSeqLength ==
    ASSUME NEW x, IsSeq(x), NEW m \in 1 .. Len(x) + 1, NEW n \in m - 1 .. Len(x)
    PROVE  IsSeq(SubSeq(x, m, n)) /\ Len(SubSeq(x, m, n)) = n - m + 1
<1>1. PICK S : x \in Seq(S)
  BY DEF IsSeq
<1>2. m \in Int /\ n \in Int /\ \A i \in m .. n : x[i] \in S
  BY <1>1
<1>3. SubSeq(x, m, n) \in Seq(S) /\ Len(SubSeq(x, m, n)) = IF m <= n THEN n - m + 1 ELSE 0
  BY <1>2, SubSeqProperties
<1>4. Len(SubSeq(x, m, n)) = n - m + 1
  <2>1. Len(x) \in Nat
    BY <1>1
  <2> QED
    BY <1>3, <2>1
<1> QED
  BY <1>3, <1>4 DEF IsSeq

LEMMA Sizes ==
    /\ Hops \in Nat \ {0} /\ Chunk \in Nat \ {0} /\ Block \in Nat \ {0} /\ SrcDelay \in Nat
    /\ RingMaxAhead \in Nat /\ RingTargetAhead \in Nat /\ RingFrames \in Nat
    /\ RecoverAhead \in Nat /\ RingTargetAhead <= RecoverAhead
    /\ OutputLimit \in Nat /\ RingMaxAhead <= OutputLimit /\ RecoverAhead <= OutputLimit
    /\ ModelRingUnits \in Nat \ {0} /\ RecoverSteps \in Nat /\ MaxSteps \in Nat
<1>1. Block \in Nat \ {0}
  BY SizesAssumption DEF Block
<1>2. RingMaxAhead \in Nat
  BY <1>1, SizesAssumption DEF RingMaxAhead, AtLeast
<1>3. RingTargetAhead \in Nat
  <2>1. RingMaxAhead \div 2 \in Nat
    BY <1>2
  <2> QED
    BY <1>1, <2>1, SizesAssumption DEF RingTargetAhead, AtLeast
<1>4. RingFrames \in Nat
  <2>1. RingBlocks * Block \in Nat /\ 2 * RingMaxAhead \in Nat
    BY <1>1, <1>2, SizesAssumption
  <2> QED
    BY <2>1 DEF RingFrames, AtLeast
<1>5. RecoverAhead \in Nat /\ RingTargetAhead <= RecoverAhead
  BY <1>3, SizesAssumption DEF RecoverAhead
<1>6. OutputLimit \in Nat /\ RingMaxAhead <= OutputLimit /\ RecoverAhead <= OutputLimit
  BY <1>2, <1>5 DEF OutputLimit, AtLeast
<1> QED
  BY <1>1, <1>2, <1>3, <1>4, <1>5, <1>6, SizesAssumption

LEMMA AtMostTypes ==
    ASSUME NEW a \in Nat, NEW b \in Nat
    PROVE  AtMost(a, b) \in Nat /\ AtMost(a, b) <= a /\ AtMost(a, b) <= b
BY DEF AtMost

\* A resampler keeps no more than it may and no more than it has.
LEMMA Kept ==
    ASSUME args \in Args, NEW hold, NEW xs, Len(hold \o xs) \in Nat, NEW k \in Keeps(hold, xs)
    PROVE  k \in Nat /\ k <= SrcDelay /\ k <= Len(hold \o xs)
<1> DEFINE l == Len(hold \o xs)
<1> HIDE DEF l
<1>1. PICK q \in args.keeps : k = AtMost(q, l)
  BY Zenon DEF Keeps, l
<1>2. args.keeps \subseteq 0 .. SrcDelay
  BY ArgsAssumption
<1>3. q \in Nat /\ q <= SrcDelay /\ l \in Nat /\ SrcDelay \in Nat
  <2>1. l \in Nat
    BY DEF l
  <2> QED
    BY <1>1, <1>2, <2>1, Sizes
<1>4. k \in Nat /\ k <= q /\ k <= l
  BY <1>1, <1>3, AtMostTypes
<1>5. k <= SrcDelay
  BY <1>3, <1>4
<1> QED
  BY <1>4, <1>5 DEF l

\* What a resampler gives and what it keeps.
LEMMA SrcLengths ==
    ASSUME args \in Args, NEW hold, NEW xs, IsSeq(hold), IsSeq(xs), NEW k \in Keeps(hold, xs)
    PROVE  /\ IsSeq(Emitted(hold, xs, k)) /\ Len(Emitted(hold, xs, k)) <= Len(hold) + Len(xs)
           /\ IsSeq(Held(hold, xs, k)) /\ Len(Held(hold, xs, k)) <= SrcDelay
<1> DEFINE both == hold \o xs   l == Len(both)   n == l - k   m == l - k + 1
<1>1. IsSeq(both) /\ l = Len(hold) + Len(xs) /\ l \in Nat
  BY ConcatLength, SeqLength
<1>2. k \in Nat /\ k <= SrcDelay /\ k <= l
  BY <1>1, Kept
<1> HIDE DEF both, l
<1>3. n \in 0 .. l
  BY <1>1, <1>2
<1>4. m \in 1 .. l + 1 /\ l \in m - 1 .. l /\ l - m + 1 = k
  BY <1>1, <1>2
<1>5. 1 \in 1 .. l + 1 /\ n \in 1 - 1 .. l /\ n - 1 + 1 = n
  BY <1>1, <1>3
<1> HIDE DEF m, n
<1>6. IsSeq(SubSeq(both, 1, n)) /\ Len(SubSeq(both, 1, n)) = n
  BY <1>1, <1>5, SubSeqLength DEF l
<1>7. IsSeq(SubSeq(both, m, l)) /\ Len(SubSeq(both, m, l)) = k
  BY <1>1, <1>4, SubSeqLength DEF l
<1>8. Emitted(hold, xs, k) = SubSeq(both, 1, n)
  BY DEF Emitted, both, n, l
<1>9. Held(hold, xs, k) = SubSeq(both, m, l)
  BY DEF Held, NewestOf, both, m, l
<1>10. n <= Len(hold) + Len(xs)
  BY <1>1, <1>3
<1>11. IsSeq(Emitted(hold, xs, k)) /\ Len(Emitted(hold, xs, k)) = n
  BY <1>6, <1>8, Zenon
<1>12. IsSeq(Held(hold, xs, k)) /\ Len(Held(hold, xs, k)) = k
  BY <1>7, <1>9, Zenon
<1> QED
  BY <1>2, <1>10, <1>11, <1>12

\* A ring that says how much it holds.
Sizing(r) == "size" \in DOMAIN r /\ r.size \in Nat

LEMMA TakeSize ==
    ASSUME NEW r, Sizing(r), NEW n \in Nat
    PROVE  Sizing(AfterTaking(r, RingFrames, n)) /\ AfterTaking(r, RingFrames, n).size <= r.size
<1> DEFINE k == AtMost(n, r.size)
<1>1. k \in Nat /\ k <= r.size /\ r.size \in Nat
  BY AtMostTypes DEF Sizing
<1>2. /\ "size" \in DOMAIN AfterTaking(r, RingFrames, n)
      /\ AfterTaking(r, RingFrames, n).size = r.size - k
  BY DEF AfterTaking, Sizing
<1> HIDE DEF k
<1>3. r.size - k \in Nat /\ r.size - k <= r.size
  BY <1>1
<1> QED
  BY <1>2, <1>3 DEF Sizing

LEMMA DropSize ==
    ASSUME NEW r, Sizing(r), NEW n \in Int
    PROVE  /\ Sizing(DropOldest(r, RingFrames, n))
           /\ DropOldest(r, RingFrames, n).size = r.size - Dropping(r, n)
           /\ Dropping(r, n) \in 0 .. r.size
           /\ n >= 0 /\ n <= r.size => Dropping(r, n) = n
           /\ n > r.size => Dropping(r, n) = r.size
<1>1. /\ r.size \in Nat /\ Dropping(r, n) \in 0 .. r.size
      /\ n >= 0 /\ n <= r.size => Dropping(r, n) = n
      /\ n > r.size => Dropping(r, n) = r.size
  BY DEF Sizing, Dropping, AtMost, AtLeast
<1>2. /\ "size" \in DOMAIN DropOldest(r, RingFrames, n)
      /\ DropOldest(r, RingFrames, n).size = r.size - Dropping(r, n)
  BY DEF DropOldest, Sizing
<1> QED
  BY <1>1, <1>2 DEF Sizing

\* A write adds what it is given at most.
LEMMA WriteSize ==
    ASSUME NEW r, Sizing(r), NEW xs, IsSeq(xs)
    PROVE  /\ Sizing(WriteDropOldest(r, RingFrames, xs))
           /\ WriteDropOldest(r, RingFrames, xs).size <= r.size + Len(xs)
<1> DEFINE l == Len(xs)   n == AtMost(l, RingFrames)   m == l - n + 1
           new == NewestOf(xs, n)   d == n - (RingFrames - r.size)
           k == DropOldest(r, RingFrames, d)
<1>1. l \in Nat /\ RingFrames \in Nat /\ r.size \in Nat
  BY SeqLength, Sizes DEF Sizing
<1> HIDE DEF l
<1>2. n \in Nat /\ n <= l
  BY <1>1, AtMostTypes
<1> HIDE DEF n
<1>3. m \in 1 .. l + 1 /\ l \in m - 1 .. l /\ l - m + 1 = n
  BY <1>1, <1>2
<1> HIDE DEF m
<1>4. IsSeq(SubSeq(xs, m, l)) /\ Len(SubSeq(xs, m, l)) = n
  BY <1>3, SubSeqLength DEF l
<1>5. Len(new) = n
  BY <1>4 DEF NewestOf, m, l
<1>6. d \in Int
  BY <1>1, <1>2
<1> HIDE DEF d
<1>7. k.size \in 0 .. r.size
  <2> DEFINE e == Dropping(r, d)
  <2>1. k.size = r.size - e /\ e \in 0 .. r.size
    BY <1>6, DropSize
  <2> HIDE DEF e, k
  <2> QED
    BY <1>1, <2>1
<1> HIDE DEF k
<1>8. /\ "size" \in DOMAIN WriteDropOldest(r, RingFrames, xs)
      /\ WriteDropOldest(r, RingFrames, xs).size = k.size + n
  <2>1. AtMost(Len(xs), RingFrames) = n
    BY Zenon DEF n, l
  <2>2. DropOldest(r, RingFrames, Len(new) - (RingFrames - r.size)) = k
    BY <1>5, Zenon DEF k, d
  <2>3. WriteDropOldest(r, RingFrames, xs) =
            [buf |-> Stored(k.buf, RingFrames, k.write, new), read |-> k.read,
             write |-> (k.write + Len(new)) % RingFrames, size |-> k.size + Len(new)]
    BY <2>1, <2>2, Zenon DEF WriteDropOldest
  <2> QED
    BY <1>5, <2>3
<1>9. k.size + n \in Nat /\ k.size + n <= r.size + l
  BY <1>1, <1>2, <1>7
<1> QED
  BY <1>8, <1>9 DEF Sizing, l

LEMMA PushSize ==
    ASSUME NEW r, Sizing(r), NEW xs, IsSeq(xs)
    PROVE  Sizing(AudioPush(r, ModelRingUnits, xs))
<1> DEFINE n == Len(xs)   o == AtLeast(0, r.size + n - ModelRingUnits)
<1>1. n \in Nat /\ r.size \in Nat /\ ModelRingUnits \in Nat
  BY SeqLength, Sizes DEF Sizing
<1> HIDE DEF n
<1>2. r.size - o + n \in Nat
  BY <1>1 DEF AtLeast
<1>3. AtMost(ModelRingUnits, r.size - o + n) \in Nat
  BY <1>1, <1>2, AtMostTypes
<1>4. CASE n >= ModelRingUnits
  <2>1. /\ AudioPush(r, ModelRingUnits, xs).size = ModelRingUnits
        /\ "size" \in DOMAIN AudioPush(r, ModelRingUnits, xs)
    BY <1>4 DEF AudioPush, n
  <2> QED
    BY <1>1, <2>1 DEF Sizing
<1>5. CASE ~(n >= ModelRingUnits)
  <2>1. /\ AudioPush(r, ModelRingUnits, xs).size = AtMost(ModelRingUnits, r.size - o + n)
        /\ "size" \in DOMAIN AudioPush(r, ModelRingUnits, xs)
    BY <1>5 DEF AudioPush, n
  <2> QED
    BY <1>3, <2>1 DEF Sizing
<1> QED
  BY <1>4, <1>5

\* Hops that are there take no more units than are there.
LEMMA HopsFit ==
    ASSUME NEW s \in Nat, NEW k \in Nat, k <= s \div Chunk
    PROVE  k * Chunk \in Nat /\ k * Chunk <= s
<1>1. Chunk \in Nat /\ Chunk > 0
  BY Sizes
<1> DEFINE q == s \div Chunk
<1>2. q \in Nat /\ q * Chunk <= s
  BY <1>1
<1> HIDE DEF q
<1>3. k * Chunk \in Nat /\ k * Chunk <= q * Chunk
  <2>1. k <= q
    BY DEF q
  <2> QED
    BY <1>1, <1>2, <2>1
<1>4. q * Chunk \in Nat
  BY <1>1, <1>2
<1> QED
  BY <1>2, <1>3, <1>4

\* No more sound is waiting than the limit, or it is about to be
\* trimmed; what the resampler keeps is what a block may give less than it took.
Sized ==
    /\ args \in Args
    /\ Sizing(modelRing) /\ Sizing(outRing)
    /\ IsSeq(inSrc)
    /\ IsSeq(outSrc) /\ Len(outSrc) <= SrcDelay
    /\ wpc = "write" => IsSeq(yOut) /\ Len(yOut) <= Block + SrcDelay
    /\ trim \in Int
    /\ wpc \in {"write", "ahead"} => trim <= OutputLimit
    /\ wpc = "trim" => outRing.size - trim <= OutputLimit
    /\ wpc \notin {"ahead", "trim"} => outRing.size <= OutputLimit
    /\ outRing.size <= OutputLimit + Block + SrcDelay

LEMMA SizedInit == Init => Sized
<1> SUFFICES ASSUME Init PROVE Sized
  OBVIOUS
<1>1. Sizing(modelRing) /\ Sizing(outRing) /\ outRing.size = 0
  BY DEF Init, AudioRing, OutputRing, Sizing
<1>3. IsSeq(inSrc) /\ IsSeq(outSrc) /\ Len(outSrc) = 0
  BY NoLength DEF Init
<1>4. args \in Args /\ wpc = "pop" /\ trim = 0
  BY DEF Init
<1> QED
  BY <1>1, <1>3, <1>4, Sizes DEF Sized

LEMMA TakeOutSize ==
    ASSUME Sized, OutputCallback
    PROVE  Sized'
<1>1. UNCHANGED <<args, modelRing, inSrc, outSrc, yOut, trim, wpc>>
  BY DEF OutputCallback, resample
<1>2. Sizing(outRing') /\ outRing'.size <= outRing.size
  BY TakeSize, Sizes DEF OutputCallback, Sized
<1>3. outRing.size \in Nat /\ outRing'.size \in Nat
  BY <1>2 DEF Sized, Sizing
<1>4. /\ args' \in Args /\ Sizing(modelRing') /\ IsSeq(inSrc')
      /\ IsSeq(outSrc') /\ Len(outSrc') <= SrcDelay
      /\ wpc' = "write" => IsSeq(yOut') /\ Len(yOut') <= Block + SrcDelay
      /\ trim' \in Int
      /\ wpc' \in {"write", "ahead"} => trim' <= OutputLimit
  BY <1>1, Zenon DEF Sized
<1>5. /\ wpc' = "trim" => outRing'.size - trim' <= OutputLimit
      /\ wpc' \notin {"ahead", "trim"} => outRing'.size <= OutputLimit
      /\ outRing'.size <= OutputLimit + Block + SrcDelay
  BY <1>1, <1>2, <1>3, Sizes DEF Sized
<1> QED
  BY <1>2, <1>4, <1>5 DEF Sized

\* A step of anyone that leaves the sound alone, and the worker where it is or
\* away from the output ring.
LEMMA ElsewhereSize ==
    ASSUME Sized, UNCHANGED <<args, modelRing, outRing, inSrc, outSrc, yOut, trim>>,
           \/ wpc' = wpc
           \/ wpc \notin {"ahead", "trim"} /\ wpc' \notin {"write", "ahead", "trim"}
    PROVE  Sized'
BY DEF Sized

LEMMA FeedSize ==
    ASSUME Sized, Feed
    PROVE  Sized'
<1>1. IsSeq(inSrc) /\ IsSeq(Input(item)) /\ args \in Args
  <2>1. Input(item) \in [1 .. Block -> {item * Block + j : j \in 1 .. Block}] /\ Block \in Nat
    BY Sizes DEF Input
  <2> QED
    BY <2>1, SeqOf DEF Sized
<1> DEFINE in == Input(item)
<1>2. PICK k \in Keeps(inSrc, in) :
          /\ modelRing' = AudioPush(modelRing, ModelRingUnits, Emitted(inSrc, in, k))
          /\ inSrc' = Held(inSrc, in, k) \/ inSrc' = <<>>
  BY DEF Feed, ResetStreams
<1> HIDE DEF in
<1>5. IsSeq(Emitted(inSrc, in, k)) /\ IsSeq(Held(inSrc, in, k))
  <2>1. IsSeq(in)
    BY <1>1 DEF in
  <2> QED
    BY <1>1, <2>1, SrcLengths, Zenon
<1>3. Sizing(modelRing')
  <2>1. Sizing(modelRing)
    BY DEF Sized
  <2> QED
    BY <1>2, <1>5, <2>1, PushSize, Zenon
<1>4. /\ wpc = "feed" /\ wpc' = "infer"
      /\ UNCHANGED <<args, yOut, trim>>
  BY DEF Feed, output
<1>6. IsSeq(inSrc')
  BY <1>2, <1>5, NoLength
<1>7. IsSeq(outSrc') /\ Len(outSrc') <= SrcDelay
  <2>1. CASE outSrc' = outSrc
    BY <2>1 DEF Sized
  <2>2. CASE outSrc' = <<>>
    BY <2>2, NoLength, Sizes
  <2> QED
    BY <2>1, <2>2 DEF Feed, ResetStreams
<1>8. Sizing(outRing') /\ outRing'.size <= outRing.size
  <2>1. outRing' = outRing \/ outRing' = Cleared(outRing)
    BY DEF Feed
  <2>2. Sizing(Cleared(outRing)) /\ Cleared(outRing).size = 0
    BY DEF Sized, Sizing, Cleared
  <2> QED
    BY <2>1, <2>2 DEF Sized, Sizing
<1>9. outRing'.size <= OutputLimit /\ outRing'.size <= OutputLimit + Block + SrcDelay
  BY <1>4, <1>8, Sizes DEF Sized, Sizing
<1> QED
  BY <1>3, <1>4, <1>6, <1>7, <1>8, <1>9 DEF Sized

\* What the model produced and the fill for the hops it missed are a block
\* together, at most.
LEMMA InferSize ==
    ASSUME Sized, Infer
    PROVE  Sized'
<1>1. PICK sustainable \in args.affords :
        LET steps   == AtMost(StepBudget(sustainable), modelRing.size \div Chunk)
            frames  == AudioFront(modelRing, ModelRingUnits, steps * Chunk)
            missing == IF args.overload = "strict" THEN 0 ELSE (Hops - steps) * Chunk
        IN  /\ trim' = IF Recovering(sustainable) THEN RecoverAhead ELSE RingTargetAhead
            /\ modelRing' = AudioPop(modelRing, steps * Chunk)
            /\ \E k \in Keeps(outSrc, frames) :
                LET wet   == IF steps > 0 THEN Emitted(outSrc, frames, k) ELSE <<>>
                    mixed == IF args.mix /\ steps > 0
                             THEN AfterTaking(dryRing, RingFrames, Len(wet)) ELSE dryRing
                IN  /\ outSrc' = IF steps > 0 THEN Held(outSrc, frames, k) ELSE outSrc
                    /\ yOut' = [i \in 1 .. Len(wet) |-> Wet(wet[i])] \o Fill(missing, mixed)
  BY DEF Infer
<1>2. /\ wpc = "infer" /\ wpc' = "write"
      /\ UNCHANGED <<args, inSrc, outRing>>
  BY DEF Infer
<1> DEFINE
      budget  == StepBudget(sustainable)
      size    == modelRing.size
      steps   == AtMost(budget, size \div Chunk)
      units   == steps * Chunk
      frames  == AudioFront(modelRing, ModelRingUnits, units)
      missing == IF args.overload = "strict" THEN 0 ELSE (Hops - steps) * Chunk
<1>18. PICK k \in Keeps(outSrc, frames) :
        LET wet   == IF steps > 0 THEN Emitted(outSrc, frames, k) ELSE <<>>
            mixed == IF args.mix /\ steps > 0
                     THEN AfterTaking(dryRing, RingFrames, Len(wet)) ELSE dryRing
        IN  /\ outSrc' = IF steps > 0 THEN Held(outSrc, frames, k) ELSE outSrc
            /\ yOut' = [i \in 1 .. Len(wet) |-> Wet(wet[i])] \o Fill(missing, mixed)
  BY <1>1, Zenon
<1> DEFINE
      wet     == IF steps > 0 THEN Emitted(outSrc, frames, k) ELSE <<>>
      mixed   == IF args.mix /\ steps > 0
                 THEN AfterTaking(dryRing, RingFrames, Len(wet)) ELSE dryRing
      told    == [i \in 1 .. Len(wet) |-> Wet(wet[i])]
      fill    == Fill(missing, mixed)
<1>3. /\ trim' = IF Recovering(sustainable) THEN RecoverAhead ELSE RingTargetAhead
      /\ modelRing' = AudioPop(modelRing, units)
      /\ outSrc' = IF steps > 0 THEN Held(outSrc, frames, k) ELSE outSrc
      /\ yOut' = told \o fill
  BY <1>1, <1>18, Zenon
<1>4. budget \in Nat /\ budget <= Hops
  <2>1. sustainable \in Nat
    <3>1. args.affords \subseteq 0 .. Hops
      BY ArgsAssumption DEF Sized
    <3> QED
      BY <3>1
  <2> QED
    BY <2>1, Sizes DEF StepBudget, AtMost
<1> HIDE DEF budget
<1>5. size \in Nat
  BY DEF Sized, Sizing
<1> HIDE DEF size
<1>6. steps \in Nat /\ steps <= Hops /\ steps <= size \div Chunk
  <2> DEFINE q == size \div Chunk
  <2>1. q \in Nat
    BY <1>5, Sizes
  <2> HIDE DEF q
  <2>2. AtMost(budget, q) \in Nat /\ AtMost(budget, q) <= budget /\ AtMost(budget, q) <= q
    BY <1>4, <2>1, AtMostTypes
  <2> QED
    BY <1>4, <2>2, Sizes DEF q
<1> HIDE DEF steps
<1>7. units \in Nat /\ units <= size
  BY <1>5, <1>6, HopsFit
<1> HIDE DEF units
<1>8. IsSeq(frames) /\ Len(frames) = units
  <2>1. frames \in [1 .. units -> {frames[i] : i \in 1 .. units}]
    BY DEF AudioFront, Slice
  <2> HIDE DEF frames
  <2> QED
    BY <1>7, <2>1, SeqOf
<1> HIDE DEF frames
<1>9. /\ IsSeq(Emitted(outSrc, frames, k)) /\ Len(Emitted(outSrc, frames, k)) <= units + SrcDelay
      /\ IsSeq(Held(outSrc, frames, k)) /\ Len(Held(outSrc, frames, k)) <= SrcDelay
  <2> DEFINE h == Len(outSrc)   e == Len(Emitted(outSrc, frames, k))
  <2>1. IsSeq(outSrc) /\ h <= SrcDelay /\ h \in Nat /\ args \in Args
    BY SeqLength DEF Sized
  <2>2. /\ IsSeq(Emitted(outSrc, frames, k))
        /\ e <= h + Len(frames)
        /\ IsSeq(Held(outSrc, frames, k)) /\ Len(Held(outSrc, frames, k)) <= SrcDelay
    BY <1>8, <2>1, SrcLengths, Zenon
  <2>3. e \in Nat
    BY <2>2, SeqLength
  <2> HIDE DEF h, e
  <2>4. e <= units + SrcDelay
    BY <1>7, <1>8, <2>1, <2>2, <2>3, Sizes
  <2> QED
    BY <2>2, <2>4 DEF e
<1>10. IsSeq(outSrc') /\ Len(outSrc') <= SrcDelay
  BY <1>3, <1>9 DEF Sized
<1>11. IsSeq(wet) /\ Len(wet) <= units + SrcDelay
  BY <1>7, <1>9, NoLength, Sizes
<1> HIDE DEF wet
<1>12. IsSeq(told) /\ Len(told) <= units + SrcDelay
  <2> DEFINE n == Len(wet)
  <2>1. n \in Nat /\ n <= units + SrcDelay
    BY <1>11, SeqLength
  <2> HIDE DEF n
  <2>2. told \in [1 .. n -> {told[i] : i \in 1 .. n}]
    BY DEF n
  <2> HIDE DEF told
  <2> QED
    BY <2>1, <2>2, SeqOf
<1> HIDE DEF told
<1>13. missing \in Nat /\ units + missing <= Block
  <2>1. (Hops - steps) * Chunk \in Nat /\ steps * Chunk + (Hops - steps) * Chunk = Hops * Chunk
    <3>1. Hops - steps \in Nat /\ Hops \in Nat /\ Chunk \in Nat
      BY <1>6, Sizes
    <3>2. \A a, b, c \in Nat : a * c \in Nat /\ (a + b) * c = a * c + b * c
      OBVIOUS
    <3>3. steps + (Hops - steps) = Hops
      BY <1>6, Sizes
    <3> DEFINE d == Hops - steps
    <3> HIDE DEF d
    <3>4. d * Chunk \in Nat /\ (steps + d) * Chunk = steps * Chunk + d * Chunk
      BY <1>6, <3>1, <3>2 DEF d
    <3> QED
      BY <3>3, <3>4 DEF d
  <2>2. Hops * Chunk = Block
    BY DEF Block
  <2> QED
    BY <1>7, <2>1, <2>2, Sizes DEF units
<1> HIDE DEF missing
<1>14. IsSeq(fill) /\ Len(fill) <= missing
  <2>1. args.overload \in {"dry_fill", "silence_fill", "strict"}
    BY ArgsAssumption DEF Sized
  <2>2. CASE args.overload = "strict"
    <3>1. fill = <<>>
      BY <2>2 DEF Fill
    <3> HIDE DEF fill
    <3>2. Len(fill) = 0 /\ IsSeq(fill)
      BY <3>1, NoLength, Zenon
    <3> QED
      BY <1>13, <3>2
  <2>3. CASE args.overload # "strict"
    <3>1. fill \in [1 .. missing -> {fill[i] : i \in 1 .. missing}]
      BY <2>1, <2>3 DEF Fill
    <3> HIDE DEF fill
    <3>2. IsSeq(fill) /\ Len(fill) = missing
      BY <1>13, <3>1, SeqOf
    <3> QED
      BY <1>13, <3>2
  <2> QED
    BY <2>2, <2>3
<1> HIDE DEF fill
<1>15. IsSeq(yOut') /\ Len(yOut') <= Block + SrcDelay
  <2>1. IsSeq(yOut') /\ Len(yOut') = Len(told) + Len(fill)
    BY <1>3, <1>12, <1>14, ConcatLength
  <2>2. Len(told) \in Nat /\ Len(fill) \in Nat
    BY <1>12, <1>14, SeqLength
  <2> QED
    BY <1>7, <1>12, <1>13, <1>14, <2>1, <2>2, Sizes
<1>16. trim' \in Int /\ trim' <= OutputLimit
  BY <1>3, Sizes
<1>17. Sizing(modelRing')
  <2>1. "size" \in DOMAIN modelRing' /\ modelRing'.size = size - units
    BY <1>3 DEF AudioPop, Sized, Sizing, size
  <2> QED
    BY <1>5, <1>7, <2>1 DEF Sizing
<1> QED
  BY <1>2, <1>10, <1>15, <1>16, <1>17 DEF Sized

LEMMA WriteOutSize ==
    ASSUME Sized, Write
    PROVE  Sized'
<1>1. /\ wpc = "write" /\ wpc' \in {"reset", "ahead"}
      /\ UNCHANGED <<args, modelRing, inSrc, outSrc, trim>>
      /\ outRing' = WriteDropOldest(outRing, RingFrames, yOut)
      /\ yOut = <<>> => wpc' = "reset"
      /\ yOut # <<>> => wpc' = "ahead"
  BY DEF Write, output, resample
<1>2. IsSeq(yOut) /\ Len(yOut) <= Block + SrcDelay /\ Sizing(outRing)
  BY <1>1 DEF Sized
<1> DEFINE l == Len(yOut)   s == outRing.size   s1 == outRing'.size
<1>3. Sizing(outRing') /\ s1 <= s + l
  BY <1>1, <1>2, WriteSize
<1>4. l \in Nat /\ l <= Block + SrcDelay /\ s \in Nat /\ s <= OutputLimit /\ s1 \in Nat
  BY <1>1, <1>2, <1>3, SeqLength DEF Sized, Sizing
<1>5. yOut = <<>> => l = 0
  OBVIOUS
<1> HIDE DEF l, s, s1
<1>6. s1 <= OutputLimit + Block + SrcDelay /\ (wpc' # "ahead" => s1 <= OutputLimit)
  BY <1>1, <1>3, <1>4, <1>5, Sizes
<1>7. trim <= OutputLimit
  BY <1>1 DEF Sized
<1>8. wpc' # "write" /\ wpc' # "trim"
  BY <1>1
<1> QED
  BY <1>1, <1>3, <1>6, <1>7, <1>8 DEF Sized, s1

LEMMA ReadAheadSize ==
    ASSUME Sized, ReadAhead
    PROVE  Sized'
<1>1. /\ wpc = "ahead"
      /\ UNCHANGED <<args, modelRing, outRing, inSrc, outSrc>>
      /\ \/ outRing.size > RingMaxAhead /\ trim' = outRing.size - trim /\ wpc' = "trim"
         \/ ~(outRing.size > RingMaxAhead) /\ wpc' = "reset" /\ UNCHANGED trim
  BY DEF ReadAhead, rings, resample
<1>2. trim \in Int /\ trim <= OutputLimit /\ outRing.size \in Nat
  BY <1>1 DEF Sized, Sizing
<1> DEFINE s == outRing.size
<1> HIDE DEF s
<1>3. /\ trim' \in Int /\ (wpc' = "trim" => s - trim' <= OutputLimit)
      /\ wpc' # "trim" => s <= OutputLimit
      /\ wpc' \in {"trim", "reset"}
  BY <1>1, <1>2, Sizes DEF s
<1> QED
  BY <1>1, <1>3 DEF Sized, s

LEMMA TrimSize ==
    ASSUME Sized, Trim
    PROVE  Sized'
<1>1. /\ wpc = "trim" /\ wpc' = "reset"
      /\ UNCHANGED <<args, modelRing, inSrc, outSrc, trim>>
      /\ outRing' = DropOldest(outRing, RingFrames, trim)
  BY DEF Trim, output, resample
<1> DEFINE s == outRing.size   d == Dropping(outRing, trim)
<1>2. trim \in Int /\ s \in Nat /\ s - trim <= OutputLimit
  BY <1>1 DEF Sized, Sizing
<1>3. /\ Sizing(outRing') /\ outRing'.size = s - d /\ d \in 0 .. s
      /\ trim <= s => d >= trim
      /\ trim > s => d = s
  <2>1. Sizing(outRing) /\ trim \in Int
    BY <1>2 DEF Sized
  <2> HIDE DEF d
  <2>2. /\ Sizing(outRing') /\ outRing'.size = s - d /\ d \in 0 .. s
        /\ trim >= 0 /\ trim <= s => d = trim
        /\ trim > s => d = s
    BY <1>1, <2>1, DropSize DEF d
  <2> QED
    BY <1>2, <2>2
<1> HIDE DEF s, d
<1>4. s - d <= OutputLimit /\ s - d <= OutputLimit + Block + SrcDelay
  BY <1>2, <1>3, Sizes
<1> QED
  BY <1>1, <1>3, <1>4 DEF Sized

LEMMA ResetSize ==
    ASSUME Sized, Reset
    PROVE  Sized'
<1>1. /\ wpc = "reset" /\ wpc' \in {"done", "pop"} /\ trim' = 0
      /\ UNCHANGED <<args, modelRing, outRing>>
  BY DEF Reset, rings
<1>3. IsSeq(inSrc') /\ IsSeq(outSrc') /\ Len(outSrc') <= SrcDelay
  <2>1. CASE inSrc' = inSrc /\ outSrc' = outSrc
    BY <2>1 DEF Sized
  <2>2. CASE inSrc' = <<>> /\ outSrc' = <<>>
    BY <2>2, NoLength, Sizes
  <2> QED
    BY <2>1, <2>2 DEF Reset, ResetStreams
<1>4. wpc' \notin {"write", "ahead", "trim"} /\ wpc \notin {"ahead", "trim"}
  BY <1>1
<1> QED
  BY <1>1, <1>3, <1>4 DEF Sized

LEMMA SizedNext == Sized /\ [Next]_vars => Sized'
<1> SUFFICES ASSUME Sized, [Next]_vars PROVE Sized'
  OBVIOUS
<1> USE DEF resample, rings, output
<1>1. CASE \/ InputCallback \/ Start \/ Supervise \/ Signal \/ Cleanup \/ Join
           \/ \E s \in {"in", "out"} : CallbackFails(s) \/ StreamDies(s)
  <2>1. UNCHANGED <<args, modelRing, outRing, inSrc, outSrc, yOut, trim>> /\ wpc' = wpc
    BY <1>1 DEF InputCallback, Start, Supervise, Signal, Cleanup, Join, CallbackFails, StreamDies
  <2> QED
    BY <2>1, ElsewhereSize
<1>2. CASE Pop \/ Drain \/ Admit \/ WorkerFails \/ WorkerStops
  <2>1. /\ UNCHANGED <<args, modelRing, outRing, inSrc, outSrc, yOut, trim>>
        /\ wpc \notin {"ahead", "trim"} /\ wpc' \notin {"write", "ahead", "trim"}
    BY <1>2 DEF Pop, Drain, Admit, WorkerFails, WorkerStops
  <2> QED
    BY <2>1, ElsewhereSize
<1>3. CASE UNCHANGED vars
  <2>1. UNCHANGED <<args, modelRing, outRing, inSrc, outSrc, yOut, trim>> /\ wpc' = wpc
    BY <1>3 DEF vars
  <2> QED
    BY <2>1, ElsewhereSize
<1> QED
  BY <1>1, <1>2, <1>3, TakeOutSize, FeedSize, InferSize, WriteOutSize, ReadAheadSize,
     TrimSize, ResetSize DEF Next

\* At the end of a block no more sound is waiting than the bound or the target of
\* a recovery, and at most a block's output more before, whatever the sizes, the
\* command line, the resamplers' bursts and the callback's reads between measuring
\* and trimming (the worker of inference_pipeline.py, OutputRingBuffer).
THEOREM OutputStaysBounded == Spec => []OutputBounded
<1>1. Sized => OutputBounded
  BY Sizes DEF Sized, Sizing, OutputBounded
<1> QED
  BY <1>1, SizedInit, SizedNext, PTL DEF Spec

-----------------------------------------------------------------------------
(* The rings hold sequences.                                               *)

LEMMA LeastElement ==
  ASSUME NEW S \in SUBSET Nat, S # {}
  PROVE  \E m \in S : \A n \in S : m <= n
<1>. DEFINE Less == {ss \in Nat \X Nat : ss[1] < ss[2]}
<1>1. IsWellFoundedOn(Less, Nat)
  BY NatLessThanWellFounded DEF OpToRel
<1>2. PICK m \in S : \A n \in S : <<n, m>> \notin Less
  <2>. HIDE DEF Less
  <2>. QED BY <1>1, WFMin
<1>3. ASSUME NEW n \in S PROVE m <= n
  <2>1. <<n, m>> \notin Less
    BY <1>2
  <2>2. m \in Nat /\ n \in Nat
    OBVIOUS
  <2>. QED BY <2>1, <2>2
<1>. QED BY <1>3

LEMMA WrapIn ==
    ASSUME NEW cap \in Nat \ {0}, NEW x \in Int
    PROVE  x % cap \in 0 .. cap - 1
OBVIOUS

LEMMA WrapNone ==
    ASSUME NEW cap \in Nat \ {0}, NEW x \in 0 .. cap - 1
    PROVE  x % cap = x
OBVIOUS

LEMMA WrapOver ==
    ASSUME NEW cap \in Nat \ {0}, NEW x \in cap .. 2 * cap - 1
    PROVE  x % cap = x - cap
OBVIOUS

LEMMA WrapUnder ==
    ASSUME NEW cap \in Nat \ {0}, NEW x \in -cap .. -1
    PROVE  x % cap = x + cap
OBVIOUS

\* Going on from an index is going on from where it came from.
LEMMA WrapsOn ==
    ASSUME NEW cap \in Nat \ {0}, NEW x \in -cap .. 2 * cap - 1, NEW k \in Nat,
           x + k < 2 * cap, k <= cap
    PROVE  ((x % cap) + k) % cap = (x + k) % cap
<1>1. CASE x < 0
  <2>1. x % cap = x + cap
    <3>1. x \in -cap .. -1
      BY <1>1
    <3> QED
      BY <3>1, WrapUnder, Zenon
  <2>2. CASE x + k < 0
    <3>1. x + k \in -cap .. -1 /\ x + cap + k \in 0 .. cap - 1 /\ x + k + cap = x + cap + k
      BY <2>2
    <3>2. (x + k) % cap = x + k + cap
      BY <3>1, WrapUnder, Zenon
    <3>3. (x + cap + k) % cap = x + cap + k
      BY <3>1, WrapNone, Zenon
    <3> QED
      BY <2>1, <3>1, <3>2, <3>3, Zenon
  <2>3. CASE x + k >= 0
    <3>1. x + k \in 0 .. cap - 1 /\ x + cap + k \in cap .. 2 * cap - 1 /\ (x + cap + k) - cap = x + k
      BY <1>1, <2>3
    <3>2. (x + k) % cap = x + k
      BY <3>1, WrapNone, Zenon
    <3>3. (x + cap + k) % cap = (x + cap + k) - cap
      BY <3>1, WrapOver, Zenon
    <3> QED
      BY <2>1, <3>1, <3>2, <3>3, Zenon
  <2>4. x + k < 0 \/ x + k >= 0
    OBVIOUS
  <2> QED
    BY <2>2, <2>3, <2>4, Zenon
<1>2. CASE x \in 0 .. cap - 1
  BY <1>2, WrapNone, Zenon
<1>3. CASE x >= cap
  <2>1. x \in cap .. 2 * cap - 1 /\ x - cap + k \in 0 .. cap - 1 /\ x + k \in cap .. 2 * cap - 1
        /\ x - cap + k = (x + k) - cap
    BY <1>3
  <2>2. x % cap = x - cap
    BY <2>1, WrapOver, Zenon
  <2>3. (x - cap + k) % cap = x - cap + k
    BY <2>1, WrapNone, Zenon
  <2>4. (x + k) % cap = (x + k) - cap
    BY <2>1, WrapOver, Zenon
  <2> QED
    BY <2>1, <2>2, <2>3, <2>4, Zenon
<1>4. x < 0 \/ x \in 0 .. cap - 1 \/ x >= cap
  OBVIOUS
<1> QED
  BY <1>1, <1>2, <1>3, <1>4, Zenon

\* k cells after `start', and back.
LEMMA WrapsBack ==
    ASSUME NEW cap \in Nat \ {0}, NEW start \in 0 .. cap - 1, NEW k \in 0 .. cap - 1
    PROVE  (((start + k) % cap) - start) % cap = k
<1>0. k % cap = k
  BY WrapNone, Zenon
<1>1. CASE start + k < cap
  <2>1. start + k \in 0 .. cap - 1 /\ (start + k) - start = k
    BY <1>1
  <2>2. (start + k) % cap = start + k
    BY <2>1, WrapNone, Zenon
  <2> QED
    BY <1>0, <2>1, <2>2, Zenon
<1>2. CASE start + k >= cap
  <2>1. /\ start + k \in cap .. 2 * cap - 1 /\ ((start + k) - cap) - start = k - cap
        /\ k - cap \in -cap .. -1 /\ (k - cap) + cap = k
    BY <1>2
  <2>2. (start + k) % cap = (start + k) - cap
    BY <2>1, WrapOver, Zenon
  <2>3. (k - cap) % cap = (k - cap) + cap
    BY <2>1, WrapUnder, Zenon
  <2> QED
    BY <2>1, <2>2, <2>3, Zenon
<1>3. start + k < cap \/ start + k >= cap
  OBVIOUS
<1> QED
  BY <1>1, <1>2, <1>3, Zenon

LEMMA StoredCell ==
    ASSUME NEW cap \in Nat \ {0}, NEW buf, NEW start \in 0 .. cap - 1, NEW xs,
           NEW k \in 0 .. cap - 1
    PROVE  Stored(buf, cap, start, xs)[(start + k) % cap]
               = IF k < Len(xs) THEN xs[k + 1] ELSE buf[(start + k) % cap]
<1> DEFINE c == (start + k) % cap
<1>1. c \in 0 .. cap - 1 /\ (c - start) % cap = k
  <2>1. start + k \in Int
    OBVIOUS
  <2> QED
    BY <2>1, WrapIn, WrapsBack, Zenon
<1> HIDE DEF c
<1>2. Stored(buf, cap, start, xs)[c] = IF k < Len(xs) THEN xs[k + 1] ELSE buf[c]
  BY <1>1 DEF Stored
<1> QED
  BY <1>2 DEF c

LEMMA StoredType ==
    ASSUME NEW cap \in Nat \ {0}, NEW S, NEW buf \in [0 .. cap - 1 -> S],
           NEW start \in 0 .. cap - 1, NEW xs \in Seq(S)
    PROVE  Stored(buf, cap, start, xs) \in [0 .. cap - 1 -> S]
<1> SUFFICES ASSUME NEW c \in 0 .. cap - 1
             PROVE  (LET i == (c - start) % cap IN IF i < Len(xs) THEN xs[i + 1] ELSE buf[c]) \in S
  BY DEF Stored
<1>1. (c - start) % cap \in Nat
  OBVIOUS
<1>2. Len(xs) \in Nat /\ \A i \in 1 .. Len(xs) : xs[i] \in S
  OBVIOUS
<1> QED
  BY <1>1, <1>2

\* A cell of the contents, seen from the index behind them.
LEMMA WrapsBehind ==
    ASSUME NEW cap \in Nat \ {0}, NEW read \in 0 .. cap - 1, NEW size \in 0 .. cap,
           NEW k \in 0 .. size - 1
    PROVE  (((read + k) % cap) - ((read + size) % cap)) % cap = cap - size + k
<1> DEFINE x == read + k   w == read + size
<1>1. /\ (x - w) \in -cap .. -1 /\ (x - w) + cap = cap - size + k
      /\ x \in 0 .. 2 * cap - 1 /\ w \in 0 .. 2 * cap - 1 /\ x < w
      /\ (x - w) + cap \in 0 .. cap - 1
  OBVIOUS
<1>2. (x - w) % cap = (x - w) + cap
  BY <1>1, WrapUnder, Zenon
<1>3. ((x - w) + cap) % cap = (x - w) + cap
  BY <1>1, WrapNone, Zenon
<1> HIDE DEF x, w
<1>8. ((x % cap) - (w % cap)) % cap = (x - w) + cap
  <2>1. CASE w < cap
    <3>1. x \in 0 .. cap - 1 /\ w \in 0 .. cap - 1
      BY <1>1, <2>1
    <3>2. x % cap = x /\ w % cap = w
      BY <3>1, WrapNone, Zenon
    <3> QED
      BY <1>2, <3>2, Zenon
  <2>2. CASE w >= cap /\ x < cap
    <3>1. x \in 0 .. cap - 1 /\ w \in cap .. 2 * cap - 1 /\ x - (w - cap) = (x - w) + cap
      BY <1>1, <2>2
    <3>2. x % cap = x /\ w % cap = w - cap
      BY <3>1, WrapNone, WrapOver, Zenon
    <3> QED
      BY <1>3, <3>1, <3>2, Zenon
  <2>3. CASE w >= cap /\ x >= cap
    <3>1. x \in cap .. 2 * cap - 1 /\ w \in cap .. 2 * cap - 1 /\ (x - cap) - (w - cap) = x - w
      BY <1>1, <2>3
    <3>2. x % cap = x - cap /\ w % cap = w - cap
      BY <3>1, WrapOver, Zenon
    <3> QED
      BY <1>2, <3>1, <3>2, Zenon
  <2>4. w < cap \/ (w >= cap /\ x < cap) \/ (w >= cap /\ x >= cap)
    BY <1>1
  <2> QED
    BY <2>1, <2>2, <2>3, <2>4, Zenon
<1> QED
  BY <1>1, <1>8, Zenon DEF x, w

\* Two steps of the index are one.
LEMMA WrapsTwice ==
    ASSUME NEW cap \in Nat \ {0}, NEW S, NEW read \in 0 .. cap - 1, NEW size \in 0 .. cap,
           NEW xs \in Seq(S), size + Len(xs) <= cap
    PROVE  (((read + size) % cap) + Len(xs)) % cap = (read + (size + Len(xs))) % cap
<1>1. \A k \in Nat : /\ read + size \in -cap .. 2 * cap - 1
                     /\ (read + size) + k = read + (size + k)
                     /\ size + k <= cap => k <= cap /\ (read + size) + k < 2 * cap
  OBVIOUS
<1>2. Len(xs) \in Nat
  OBVIOUS
<1> QED
  BY <1>1, <1>2, WrapsOn, Zenon

LEMMA SliceIs ==
    ASSUME NEW cap \in Nat \ {0}, NEW buf, NEW read \in 0 .. cap - 1, NEW size \in Nat
    PROVE  /\ Len(Slice(buf, cap, read, size)) = size
           /\ \A i \in 1 .. size : Slice(buf, cap, read, size)[i] = buf[(read + (i - 1)) % cap]
<1> DEFINE s == Slice(buf, cap, read, size)   S == {s[i] : i \in 1 .. size}
<1>1. \A i \in 1 .. size : read + i - 1 = read + (i - 1)
  OBVIOUS
<1>2. s = [i \in 1 .. size |-> buf[(read + (i - 1)) % cap]]
  BY <1>1, Zenon DEF Slice
<1>3. s \in [1 .. size -> S]
  BY <1>2
<1> HIDE DEF S
<1>4. Len(s) = size
  BY <1>3, SeqDef
<1>5. \A i \in 1 .. size : s[i] = buf[(read + (i - 1)) % cap]
  BY <1>2
<1> QED
  BY <1>4, <1>5

LEMMA SliceType ==
    ASSUME NEW cap \in Nat \ {0}, NEW S, NEW buf \in [0 .. cap - 1 -> S],
           NEW read \in 0 .. cap - 1, NEW size \in Nat
    PROVE  Slice(buf, cap, read, size) \in Seq(S)
<1>1. \A i \in 1 .. size : read + i - 1 \in Int
  OBVIOUS
<1>2. \A i \in 1 .. size : (read + i - 1) % cap \in 0 .. cap - 1
  BY <1>1, WrapIn, Zenon
<1>3. Slice(buf, cap, read, size) \in [1 .. size -> S]
  <2>1. \A i \in 1 .. size : buf[(read + i - 1) % cap] \in S
    BY <1>2
  <2> QED
    BY <2>1 DEF Slice
<1> QED
  BY <1>3, SeqDef

\* Two sequences with the same elements are the same.
LEMMA SameSeq ==
    ASSUME NEW S, NEW s \in Seq(S), NEW t \in Seq(S), Len(s) = Len(t),
           \A i \in 1 .. Len(s) : s[i] = t[i]
    PROVE  s = t
OBVIOUS

LEMMA SubSeqIs ==
    ASSUME NEW S, NEW s \in Seq(S), NEW m \in Nat, NEW n \in Nat, m <= n, n <= Len(s)
    PROVE  /\ SubSeq(s, m + 1, n) \in Seq(S) /\ Len(SubSeq(s, m + 1, n)) = n - m
           /\ \A i \in 1 .. n - m : SubSeq(s, m + 1, n)[i] = s[i + m]
<1>1. \A i \in m + 1 .. n : s[i] \in S
  BY ElementOfSeq
<1>2. m + 1 \in Int /\ n \in Int
  OBVIOUS
<1>3. /\ SubSeq(s, m + 1, n) \in Seq(S)
      /\ Len(SubSeq(s, m + 1, n)) = IF m + 1 <= n THEN n - (m + 1) + 1 ELSE 0
      /\ \A i \in 1 .. n - (m + 1) + 1 : SubSeq(s, m + 1, n)[i] = s[m + 1 + i - 1]
  BY <1>1, <1>2, SubSeqProperties
<1>4. n - (m + 1) + 1 = n - m /\ (~(m + 1 <= n) => n - m = 0)
  OBVIOUS
<1>5. \A i \in 1 .. n - m : m + 1 + i - 1 = i + m
  OBVIOUS
<1> QED
  BY <1>3, <1>4, <1>5

\* Taking k cells off the front.
LEMMA SliceAdvanced ==
    ASSUME NEW cap \in Nat \ {0}, NEW S, NEW buf \in [0 .. cap - 1 -> S],
           NEW read \in 0 .. cap - 1, NEW size \in 0 .. cap, NEW k \in 0 .. size
    PROVE  /\ Slice(buf, cap, (read + k) % cap, size - k)
                  = SubSeq(Slice(buf, cap, read, size), k + 1, size)
           /\ (read + k) % cap \in 0 .. cap - 1
           /\ (((read + k) % cap) + (size - k)) % cap = (read + size) % cap
<1> DEFINE r1 == (read + k) % cap   old == Slice(buf, cap, read, size)
           m == size - k   new == Slice(buf, cap, r1, m)
<1>0. /\ read + k \in Int /\ read + k \in -cap .. 2 * cap - 1 /\ size - k \in Nat /\ size \in Nat
      /\ size - k <= cap /\ (read + k) + (size - k) < 2 * cap
      /\ (read + k) + (size - k) = read + size
  OBVIOUS
<1>1. r1 \in 0 .. cap - 1
  BY <1>0, WrapIn, Zenon
<1>2. (r1 + (size - k)) % cap = (read + size) % cap
  BY <1>0, WrapsOn, Zenon
<1>8. m \in Nat
  BY <1>0
<1> HIDE DEF r1, m
<1>3. /\ new \in Seq(S) /\ Len(new) = m
      /\ \A i \in 1 .. m : new[i] = buf[(r1 + (i - 1)) % cap]
  BY <1>1, <1>8, SliceIs, SliceType, Zenon
<1>4. /\ old \in Seq(S) /\ Len(old) = size
      /\ \A i \in 1 .. size : old[i] = buf[(read + (i - 1)) % cap]
  BY <1>0, SliceIs, SliceType, Zenon
<1> HIDE DEF new, old
<1>5. /\ SubSeq(old, k + 1, size) \in Seq(S) /\ Len(SubSeq(old, k + 1, size)) = m
      /\ \A i \in 1 .. m : SubSeq(old, k + 1, size)[i] = old[i + k]
  BY <1>4, SubSeqIs DEF m
<1>6. ASSUME NEW i \in 1 .. m PROVE new[i] = SubSeq(old, k + 1, size)[i]
  <2>1. /\ i - 1 \in Nat /\ (read + k) + (i - 1) < 2 * cap /\ i - 1 <= cap
        /\ i + k \in 1 .. size /\ (read + k) + (i - 1) = read + ((i + k) - 1)
    BY DEF m
  <2>2. (r1 + (i - 1)) % cap = (read + ((i + k) - 1)) % cap
    BY <1>0, <2>1, WrapsOn, Zenon DEF r1
  <2> QED
    BY <1>3, <1>4, <1>5, <2>1, <2>2, Zenon
<1>7. new = SubSeq(old, k + 1, size)
  BY <1>3, <1>5, <1>6, SameSeq
<1> QED
  BY <1>1, <1>2, <1>7 DEF new, old, r1, m

LEMMA SliceFront ==
    ASSUME NEW cap \in Nat \ {0}, NEW S, NEW buf \in [0 .. cap - 1 -> S],
           NEW read \in 0 .. cap - 1, NEW size \in 0 .. cap, NEW n \in 0 .. size
    PROVE  Slice(buf, cap, read, n) = SubSeq(Slice(buf, cap, read, size), 1, n)
<1> DEFINE old == Slice(buf, cap, read, size)   new == Slice(buf, cap, read, n)
<1>0. n \in Nat /\ size \in Nat
  OBVIOUS
<1>1. /\ new \in Seq(S) /\ Len(new) = n
      /\ \A i \in 1 .. n : new[i] = buf[(read + (i - 1)) % cap]
  BY <1>0, SliceIs, SliceType, Zenon
<1>2. /\ old \in Seq(S) /\ Len(old) = size
      /\ \A i \in 1 .. size : old[i] = buf[(read + (i - 1)) % cap]
  BY <1>0, SliceIs, SliceType, Zenon
<1> HIDE DEF new, old
<1>3. /\ SubSeq(old, 0 + 1, n) \in Seq(S) /\ Len(SubSeq(old, 0 + 1, n)) = n - 0
      /\ \A i \in 1 .. n - 0 : SubSeq(old, 0 + 1, n)[i] = old[i + 0]
  BY <1>2, SubSeqIs
<1>4. \A i \in 1 .. n : i \in 1 .. size /\ i + 0 = i
  OBVIOUS
<1>5. n - 0 = n /\ 0 + 1 = 1
  OBVIOUS
<1>6. \A i \in 1 .. n : new[i] = SubSeq(old, 1, n)[i]
  <2>1. \A i \in 1 .. n : SubSeq(old, 1, n)[i] = old[i]
    BY <1>3, <1>4, <1>5
  <2> QED
    BY <1>1, <1>2, <1>4, <2>1, Zenon
<1>7. new = SubSeq(old, 1, n)
  BY <1>1, <1>3, <1>5, <1>6, SameSeq
<1> QED
  BY <1>7 DEF new, old

\* s is c with xs behind it.
Behind(s, c, xs) == s = c \o xs

\* Writing behind the contents.
LEMMA SliceStored ==
    ASSUME NEW cap \in Nat \ {0}, NEW S, NEW buf \in [0 .. cap - 1 -> S],
           NEW read \in 0 .. cap - 1, NEW size \in 0 .. cap,
           NEW xs \in Seq(S), size + Len(xs) <= cap
    PROVE  Behind(Slice(Stored(buf, cap, (read + size) % cap, xs), cap, read, size + Len(xs)),
                  Slice(buf, cap, read, size), xs)
<1> DEFINE w == (read + size) % cap   n == Len(xs)   stored == Stored(buf, cap, w, xs)
           old == Slice(buf, cap, read, size)   m == size + n
           new == Slice(stored, cap, read, m)
<1>0. /\ n \in Nat /\ size \in Nat /\ size + n \in Nat /\ read + size \in Int /\ n <= cap
      /\ read + size \in -cap .. 2 * cap - 1 /\ (read + size) + n < 2 * cap
      /\ (read + size) + n = read + (size + n)
  OBVIOUS
<1>1. w \in 0 .. cap - 1
  BY <1>0, WrapIn, Zenon
<1> HIDE DEF w
<1>3. stored \in [0 .. cap - 1 -> S]
  BY <1>1, StoredType, Zenon
<1>12. m \in Nat
  BY <1>0
<1> HIDE DEF stored, n, m
<1>4. /\ new \in Seq(S) /\ Len(new) = m
      /\ \A i \in 1 .. m : new[i] = stored[(read + (i - 1)) % cap]
  <2>1. new \in Seq(S)
    BY <1>3, <1>12, SliceType, Zenon
  <2>2. Len(new) = m /\ \A i \in 1 .. m : new[i] = stored[(read + (i - 1)) % cap]
    BY <1>3, <1>12, SliceIs, Zenon
  <2> QED
    BY <2>1, <2>2
<1>5. /\ old \in Seq(S) /\ Len(old) = size
      /\ \A i \in 1 .. size : old[i] = buf[(read + (i - 1)) % cap]
  BY <1>0, SliceIs, SliceType, Zenon
<1> HIDE DEF new, old
<1>6. /\ old \o xs \in Seq(S) /\ Len(old \o xs) = size + n
      /\ \A i \in 1 .. size : (old \o xs)[i] = old[i]
      /\ \A i \in size + 1 .. size + n : (old \o xs)[i] = xs[i - size]
  <2>1. Len(old) = size /\ Len(xs) = n /\ size \in Nat /\ n \in Nat
    BY <1>0, <1>5 DEF n
  <2>2. /\ old \o xs \in Seq(S) /\ Len(old \o xs) = Len(old) + Len(xs)
        /\ \A i \in 1 .. Len(old) + Len(xs) :
               (old \o xs)[i] = IF i <= Len(old) THEN old[i] ELSE xs[i - Len(old)]
    BY <1>5, ConcatProperties
  <2> QED
    BY <2>1, <2>2
<1>7. ASSUME NEW i \in 1 .. size PROVE new[i] = (old \o xs)[i]
  <2> DEFINE c == (read + (i - 1)) % cap
  <2>1. /\ i - 1 \in 0 .. size - 1 /\ cap - size + (i - 1) \in 0 .. cap - 1
        /\ ~(cap - size + (i - 1) < n) /\ read + (i - 1) \in Int /\ i \in 1 .. m
    BY <1>0 DEF n, m
  <2>2. c \in 0 .. cap - 1
    BY <2>1, WrapIn, Zenon
  <2>3. (c - w) % cap = cap - size + (i - 1)
    BY <2>1, WrapsBehind, Zenon DEF w
  <2> HIDE DEF c
  <2>4. stored[c] = buf[c]
    BY <2>1, <2>2, <2>3 DEF Stored, stored, n
  <2> QED
    BY <1>4, <1>5, <1>6, <2>1, <2>4, Zenon DEF c
<1>8. ASSUME NEW i \in size + 1 .. size + n PROVE new[i] = (old \o xs)[i]
  <2> DEFINE k == i - size - 1
  <2>1. /\ k \in 0 .. cap - 1 /\ k < n /\ k \in Nat /\ k <= cap /\ k + 1 = i - size
        /\ (read + size) + k = read + (i - 1) /\ (read + size) + k < 2 * cap
        /\ i \in 1 .. m
    BY <1>0 DEF n, m
  <2> HIDE DEF k
  <2>2. (w + k) % cap = (read + (i - 1)) % cap
    BY <1>0, <2>1, WrapsOn, Zenon DEF w
  <2>3. stored[(w + k) % cap] = xs[k + 1]
    BY <1>1, <2>1, StoredCell DEF stored, n
  <2> QED
    BY <1>4, <1>6, <2>1, <2>2, <2>3, Zenon
<1>9. m = size + n /\ \A i \in 1 .. m : i \in 1 .. size \/ i \in size + 1 .. size + n
  BY <1>0 DEF m
<1>10. \A i \in 1 .. Len(new) : new[i] = (old \o xs)[i]
  BY <1>4, <1>7, <1>8, <1>9, Zenon
<1>11. new = old \o xs
  BY <1>4, <1>6, <1>9, <1>10, SameSeq
<1> QED
  BY <1>1, <1>11 DEF Behind, new, old, stored, w, n, m

-----------------------------------------------------------------------------
(* Order.  `pos' gives the positions of the elements that have one.        *)

Rising(s, pos) ==
    \A i, j \in 1 .. Len(s) :
        i < j /\ s[i] \in DOMAIN pos /\ s[j] \in DOMAIN pos => pos[s[i]] < pos[s[j]]

PositionsOf(s, pos) == {pos[s[i]] : i \in {i \in 1 .. Len(s) : s[i] \in DOMAIN pos}}

Below(A, B) == \A a \in A, b \in B : a < b

\* What is put behind something has to be above it.
LEMMA Joined ==
    ASSUME NEW S, NEW D, NEW pos \in [D -> Int], NEW s \in Seq(S), NEW t \in Seq(S)
    PROVE  /\ s \o t \in Seq(S)
           /\ PositionsOf(s \o t, pos) = PositionsOf(s, pos) \cup PositionsOf(t, pos)
           /\ Rising(s, pos) /\ Rising(t, pos) /\ Below(PositionsOf(s, pos), PositionsOf(t, pos))
                  => Rising(s \o t, pos)
<1> DEFINE m == Len(s)   n == Len(t)   u == s \o t
<1>1. /\ m \in Nat /\ n \in Nat
      /\ u \in Seq(S) /\ Len(u) = m + n
      /\ \A i \in 1 .. m + n : u[i] = IF i <= m THEN s[i] ELSE t[i - m]
  BY ConcatProperties
<1> HIDE DEF u, m, n
<1>2. \A i \in 1 .. m : i \in 1 .. m + n /\ u[i] = s[i]
  BY <1>1
<1>3. \A i \in 1 .. n : i + m \in 1 .. m + n /\ u[i + m] = t[i]
  <2> SUFFICES ASSUME NEW i \in 1 .. n PROVE i + m \in 1 .. m + n /\ u[i + m] = t[i]
    OBVIOUS
  <2>1. i + m \in 1 .. m + n /\ ~(i + m <= m) /\ (i + m) - m = i
    BY <1>1
  <2> QED
    BY <1>1, <2>1
<1>4. \A i \in 1 .. m + n : i \in 1 .. m \/ \E j \in 1 .. n : i = j + m
  <2> SUFFICES ASSUME NEW i \in 1 .. m + n, i \notin 1 .. m PROVE \E j \in 1 .. n : i = j + m
    OBVIOUS
  <2>1. i - m \in 1 .. n /\ i = (i - m) + m
    BY <1>1
  <2> QED
    BY <2>1
<1>5. PositionsOf(u, pos) = PositionsOf(s, pos) \cup PositionsOf(t, pos)
  <2>1. ASSUME NEW p \in PositionsOf(u, pos) PROVE p \in PositionsOf(s, pos) \cup PositionsOf(t, pos)
    <3>1. PICK i \in 1 .. m + n : u[i] \in DOMAIN pos /\ p = pos[u[i]]
      BY <1>1, <2>1 DEF PositionsOf
    <3>2. CASE i \in 1 .. m
      BY <1>2, <3>1, <3>2 DEF PositionsOf, m
    <3>3. CASE \E j \in 1 .. n : i = j + m
      <4>1. PICK j \in 1 .. n : i = j + m
        BY <3>3
      <4> QED
        BY <1>3, <3>1, <4>1 DEF PositionsOf, n
    <3> QED
      BY <1>4, <3>2, <3>3
  <2>2. ASSUME NEW p \in PositionsOf(s, pos) PROVE p \in PositionsOf(u, pos)
    BY <1>1, <1>2 DEF PositionsOf, m
  <2>3. ASSUME NEW p \in PositionsOf(t, pos) PROVE p \in PositionsOf(u, pos)
    <3>1. PICK j \in 1 .. n : t[j] \in DOMAIN pos /\ p = pos[t[j]]
      BY <2>3 DEF PositionsOf, n
    <3>2. j + m \in 1 .. Len(u) /\ u[j + m] \in DOMAIN pos /\ p = pos[u[j + m]]
      BY <1>1, <1>3, <3>1
    <3> QED
      BY <3>2, Zenon DEF PositionsOf
  <2> QED
    BY <2>1, <2>2, <2>3
<1>6. ASSUME Rising(s, pos), Rising(t, pos), Below(PositionsOf(s, pos), PositionsOf(t, pos))
      PROVE  Rising(u, pos)
  <2> SUFFICES ASSUME NEW i \in 1 .. m + n, NEW j \in 1 .. m + n, i < j,
                      u[i] \in DOMAIN pos, u[j] \in DOMAIN pos
               PROVE  pos[u[i]] < pos[u[j]]
    BY <1>1 DEF Rising
  <2>1. CASE i \in 1 .. m /\ j \in 1 .. m
    BY <1>2, <1>6, <2>1 DEF Rising, m
  <2>2. CASE i \in 1 .. m /\ \E k \in 1 .. n : j = k + m
    <3>1. PICK k \in 1 .. n : j = k + m
      BY <2>2
    <3>2. pos[u[i]] \in PositionsOf(s, pos) /\ pos[u[j]] \in PositionsOf(t, pos)
      BY <1>2, <1>3, <2>2, <3>1 DEF PositionsOf, m, n
    <3> QED
      BY <1>6, <3>2, Zenon DEF Below
  <2>3. CASE (\E k \in 1 .. n : i = k + m) /\ j \in 1 .. m
    <3>1. PICK k \in 1 .. n : i = k + m
      BY <2>3
    <3> QED
      BY <1>1, <2>3, <3>1
  <2>4. CASE (\E k \in 1 .. n : i = k + m) /\ \E k \in 1 .. n : j = k + m
    <3>1. PICK k \in 1 .. n : i = k + m
      BY <2>4
    <3>2. PICK l \in 1 .. n : j = l + m
      BY <2>4
    <3>3. k < l
      BY <1>1, <3>1, <3>2
    <3> QED
      BY <1>3, <1>6, <3>1, <3>2, <3>3 DEF Rising, n
  <2> QED
    BY <1>4, <2>1, <2>2, <2>3, <2>4
<1> QED
  BY <1>1, <1>5, <1>6 DEF u

\* What is cut in two at k.
LEMMA Split ==
    ASSUME NEW S, NEW D, NEW pos \in [D -> Int], NEW s \in Seq(S), NEW k \in 0 .. Len(s)
    PROVE  LET a == SubSeq(s, 1, k)
               b == SubSeq(s, k + 1, Len(s))
           IN  /\ a \in Seq(S) /\ b \in Seq(S)
               /\ PositionsOf(a, pos) \subseteq PositionsOf(s, pos)
               /\ PositionsOf(b, pos) \subseteq PositionsOf(s, pos)
               /\ Rising(s, pos) => /\ Rising(a, pos) /\ Rising(b, pos)
                                    /\ Below(PositionsOf(a, pos), PositionsOf(b, pos))
<1> DEFINE l == Len(s)   a == SubSeq(s, 1, k)   b == SubSeq(s, k + 1, l)   m == l - k
<1>0. /\ l \in Nat /\ k \in Nat /\ 0 \in Nat /\ 0 <= k /\ k <= l /\ l <= Len(s) /\ m \in Nat
      /\ 0 + 1 = 1 /\ k - 0 = k
  OBVIOUS
<1> HIDE DEF l, m
<1>1. /\ SubSeq(s, 0 + 1, k) \in Seq(S) /\ Len(SubSeq(s, 0 + 1, k)) = k - 0
      /\ \A i \in 1 .. k - 0 : SubSeq(s, 0 + 1, k)[i] = s[i + 0]
  BY <1>0, SubSeqIs, Zenon DEF l
<1>2. a \in Seq(S) /\ Len(a) = k /\ \A i \in 1 .. k : a[i] = s[i] /\ i \in 1 .. l
  <2>1. \A i \in 1 .. k : i + 0 = i
    BY <1>0
  <2> QED
    BY <1>0, <1>1, <2>1
<1>3. b \in Seq(S) /\ Len(b) = m /\ \A i \in 1 .. m : b[i] = s[i + k]
  BY <1>0, SubSeqIs DEF l, m
<1>4. \A i \in 1 .. m : i + k \in 1 .. l
  BY <1>0 DEF m
<1> HIDE DEF a, b
<1>5. PositionsOf(a, pos) \subseteq PositionsOf(s, pos)
  BY <1>2 DEF PositionsOf, l
<1>6. PositionsOf(b, pos) \subseteq PositionsOf(s, pos)
  <2> SUFFICES ASSUME NEW p \in PositionsOf(b, pos) PROVE p \in PositionsOf(s, pos)
    OBVIOUS
  <2>1. PICK i \in 1 .. m : b[i] \in DOMAIN pos /\ p = pos[b[i]]
    BY <1>3 DEF PositionsOf
  <2>2. i + k \in 1 .. Len(s) /\ s[i + k] \in DOMAIN pos /\ p = pos[s[i + k]]
    BY <1>3, <1>4, <2>1 DEF l
  <2> QED
    BY <2>2, Zenon DEF PositionsOf
<1>7. ASSUME Rising(s, pos)
      PROVE  /\ Rising(a, pos) /\ Rising(b, pos)
             /\ Below(PositionsOf(a, pos), PositionsOf(b, pos))
  <2>1. Rising(a, pos)
    BY <1>2, <1>7 DEF Rising, l
  <2>2. Rising(b, pos)
    <3> SUFFICES ASSUME NEW i \in 1 .. m, NEW j \in 1 .. m, i < j,
                        b[i] \in DOMAIN pos, b[j] \in DOMAIN pos
                 PROVE  pos[b[i]] < pos[b[j]]
      BY <1>3 DEF Rising
    <3>1. i + k \in 1 .. l /\ j + k \in 1 .. l /\ i + k < j + k
      BY <1>0, <1>4
    <3>2. b[i] = s[i + k] /\ b[j] = s[j + k]
      BY <1>3
    <3> QED
      BY <1>7, <3>1, <3>2, Zenon DEF Rising, l
  <2>3. Below(PositionsOf(a, pos), PositionsOf(b, pos))
    <3> SUFFICES ASSUME NEW p \in PositionsOf(a, pos), NEW q \in PositionsOf(b, pos)
                 PROVE  p < q
      BY DEF Below
    <3>1. PICK i \in 1 .. k : a[i] \in DOMAIN pos /\ p = pos[a[i]]
      BY <1>2 DEF PositionsOf
    <3>2. PICK j \in 1 .. m : b[j] \in DOMAIN pos /\ q = pos[b[j]]
      BY <1>3 DEF PositionsOf
    <3>3. i \in 1 .. l /\ j + k \in 1 .. l /\ i < j + k
      BY <1>0, <1>2, <1>4
    <3>4. a[i] = s[i] /\ b[j] = s[j + k]
      BY <1>2, <1>3
    <3> QED
      BY <1>7, <3>1, <3>2, <3>3, <3>4, Zenon DEF Rising, l
  <2> QED
    BY <2>1, <2>2, <2>3
<1> QED
  BY <1>2, <1>3, <1>5, <1>6, <1>7 DEF a, b, l

LEMMA NothingRises ==
    ASSUME NEW pos
    PROVE  Rising(<<>>, pos) /\ PositionsOf(<<>>, pos) = {}
BY DEF Rising, PositionsOf

-----------------------------------------------------------------------------
(* The operations of the rings, on what the rings hold.                    *)

RingOf(S) == {r \in [buf : [0 .. RingFrames - 1 -> S], read : 0 .. RingFrames - 1,
                     write : 0 .. RingFrames - 1, size : 0 .. RingFrames] :
                 r.write = (r.read + r.size) % RingFrames}

Holds(r) == OutputContents(r, RingFrames)

LEMMA RingSizes ==
    RingFrames \in Nat \ {0} /\ RingMaxAhead + Block <= RingFrames
<1>1. RingMaxAhead >= 3 * Block
  <2> DEFINE b == 3 * Block
  <2>1. MaxAheadArg \in Nat /\ b \in Nat
    BY Sizes, SizesAssumption
  <2> HIDE DEF b
  <2>2. RingMaxAhead = AtLeast(b, MaxAheadArg)
    BY DEF RingMaxAhead, b
  <2>3. RingMaxAhead >= b
    BY <2>1, <2>2 DEF AtLeast
  <2> QED
    BY <2>3 DEF b
<1>2. RingFrames >= 2 * RingMaxAhead
  <2>1. RingBlocks * Block \in Nat
    BY Sizes, SizesAssumption
  <2> QED
    BY <2>1, Sizes DEF RingFrames, AtLeast
<1> QED
  BY <1>1, <1>2, Sizes

LEMMA RingParts ==
    ASSUME NEW S, NEW r
    PROVE  r \in RingOf(S) <=>
           /\ r = [buf |-> r.buf, read |-> r.read, write |-> r.write, size |-> r.size]
           /\ r.buf \in [0 .. RingFrames - 1 -> S] /\ r.read \in 0 .. RingFrames - 1
           /\ r.write \in 0 .. RingFrames - 1 /\ r.size \in 0 .. RingFrames
           /\ r.write = (r.read + r.size) % RingFrames
<1> DEFINE R == [buf : [0 .. RingFrames - 1 -> S], read : 0 .. RingFrames - 1,
                 write : 0 .. RingFrames - 1, size : 0 .. RingFrames]
<1>1. r \in RingOf(S) <=> r \in R /\ r.write = (r.read + r.size) % RingFrames
  BY Zenon DEF RingOf
<1>2. r \in R <=>
         /\ r = [buf |-> r.buf, read |-> r.read, write |-> r.write, size |-> r.size]
         /\ r.buf \in [0 .. RingFrames - 1 -> S] /\ r.read \in 0 .. RingFrames - 1
         /\ r.write \in 0 .. RingFrames - 1 /\ r.size \in 0 .. RingFrames
  OBVIOUS
<1> QED
  BY <1>1, <1>2, Zenon

LEMMA RingHolds ==
    ASSUME NEW S, NEW r \in RingOf(S)
    PROVE  /\ Holds(r) \in Seq(S) /\ Len(Holds(r)) = r.size /\ r.size \in Nat
           /\ r.size = 0 => Holds(r) = <<>>
<1> DEFINE b == r.buf   rd == r.read   n == r.size   cap == RingFrames   s == Slice(b, cap, rd, n)
<1>1. cap \in Nat \ {0} /\ b \in [0 .. cap - 1 -> S] /\ rd \in 0 .. cap - 1 /\ n \in Nat
  BY RingParts, RingSizes
<1>2. Holds(r) = s
  BY DEF Holds, OutputContents
<1> HIDE DEF b, rd, n, cap
<1>3. s \in Seq(S)
  BY <1>1, SliceType, Zenon
<1>4. Len(s) = n
  BY <1>1, SliceIs
<1>5. n = 0 => s = <<>>
  BY <1>3, <1>4
<1> QED
  BY <1>1, <1>2, <1>3, <1>4, <1>5 DEF n

LEMMA RingEmpty ==
    ASSUME NEW S, NEW r, NEW b \in [0 .. RingFrames - 1 -> S],
           r = [buf |-> b, read |-> 0, write |-> 0, size |-> 0]
    PROVE  r \in RingOf(S) /\ Holds(r) = <<>>
<1>1. 0 \in 0 .. RingFrames - 1 /\ 0 \in 0 .. RingFrames /\ 0 + 0 = 0
  BY RingSizes
<1>2. 0 % RingFrames = 0
  BY <1>1, RingSizes, WrapNone, Zenon
<1>3. r.buf = b /\ r.read = 0 /\ r.write = 0 /\ r.size = 0
  OBVIOUS
<1>4. r \in RingOf(S)
  BY <1>1, <1>2, <1>3, RingParts, Zenon
<1> QED
  BY <1>3, <1>4, RingHolds

LEMMA RingNew ==
    ASSUME NEW S, NEW z \in S
    PROVE  OutputRing(RingFrames, z) \in RingOf(S) /\ Holds(OutputRing(RingFrames, z)) = <<>>
<1>1. [c \in 0 .. RingFrames - 1 |-> z] \in [0 .. RingFrames - 1 -> S]
  OBVIOUS
<1> QED
  BY <1>1, RingEmpty, Zenon DEF OutputRing

LEMMA RingCleared ==
    ASSUME NEW S, NEW r \in RingOf(S)
    PROVE  Cleared(r) \in RingOf(S) /\ Holds(Cleared(r)) = <<>>
<1>1. /\ r = [buf |-> r.buf, read |-> r.read, write |-> r.write, size |-> r.size]
      /\ r.buf \in [0 .. RingFrames - 1 -> S]
  BY RingParts, Zenon
<1> DEFINE b == r.buf   rd == r.read   w == r.write   n == r.size
<1> HIDE DEF b, rd, w, n
<1>2. Cleared(r) = [buf |-> b, read |-> 0, write |-> 0, size |-> 0]
  <2> DEFINE q == Cleared(r)
  <2>1. q = [[buf |-> b, read |-> rd, write |-> w, size |-> n] EXCEPT
                !.read = 0, !.write = 0, !.size = 0]
    BY <1>1, Zenon DEF b, rd, w, n, Cleared
  <2> HIDE DEF q
  <2>2. q = [buf |-> b, read |-> 0, write |-> 0, size |-> 0]
    BY <2>1
  <2> QED
    BY <2>2 DEF q
<1> QED
  BY <1>1, <1>2, RingEmpty, Zenon DEF b

\* k cells off the front.
LEMMA RingAdvanced ==
    ASSUME NEW S, NEW r \in RingOf(S), NEW k \in 0 .. r.size
    PROVE  LET q == [r EXCEPT !.read = (@ + k) % RingFrames, !.size = @ - k]
           IN  /\ q \in RingOf(S)
               /\ Holds(q) = SubSeq(Holds(r), k + 1, Len(Holds(r)))
               /\ Slice(r.buf, RingFrames, r.read, k) = SubSeq(Holds(r), 1, k)
<1> DEFINE rd == r.read   n == r.size   b == r.buf   w == r.write   cap == RingFrames
           q == [r EXCEPT !.read = (@ + k) % RingFrames, !.size = @ - k]
           rd1 == (rd + k) % cap   n1 == n - k
<1>1. /\ cap \in Nat \ {0} /\ b \in [0 .. cap - 1 -> S] /\ rd \in 0 .. cap - 1
      /\ n \in 0 .. cap /\ w \in 0 .. cap - 1 /\ w = (rd + n) % cap
      /\ r = [buf |-> b, read |-> rd, write |-> w, size |-> n]
  BY RingSizes, RingParts, Zenon
<1>2. k \in 0 .. n
  OBVIOUS
<1>3. Holds(r) = Slice(b, cap, rd, n) /\ Len(Holds(r)) = n
  BY RingHolds DEF Holds, OutputContents
<1> HIDE DEF rd, n, b, w, cap
<1>4. q = [buf |-> b, read |-> rd1, write |-> w, size |-> n1]
  <2>1. q = [[buf |-> b, read |-> rd, write |-> w, size |-> n] EXCEPT
                !.read = (@ + k) % cap, !.size = @ - k]
    BY <1>1, Zenon DEF cap
  <2> HIDE DEF q
  <2> QED
    BY <2>1
<1> HIDE DEF q
<1>5. q.buf = b /\ q.read = rd1 /\ q.write = w /\ q.size = n1
  BY <1>4
<1>6. Holds(q) = Slice(b, cap, rd1, n1)
  BY <1>5, Zenon DEF Holds, OutputContents, cap
<1>7. /\ Slice(b, cap, rd1, n1) = SubSeq(Slice(b, cap, rd, n), k + 1, n)
      /\ rd1 \in 0 .. cap - 1
      /\ (rd1 + n1) % cap = (rd + n) % cap
  BY <1>1, <1>2, SliceAdvanced
<1>8. Slice(b, cap, rd, k) = SubSeq(Slice(b, cap, rd, n), 1, k)
  BY <1>1, <1>2, SliceFront
<1>9. n1 \in 0 .. cap
  BY <1>1, <1>2
<1> HIDE DEF rd1, n1
<1>10. q \in RingOf(S)
  BY <1>1, <1>4, <1>5, <1>7, <1>9, RingParts, Zenon DEF cap
<1> QED
  BY <1>3, <1>6, <1>7, <1>8, <1>10, Zenon DEF q, rd, n, b, cap

LEMMA RingTake ==
    ASSUME NEW S, NEW r \in RingOf(S), NEW n \in Nat
    PROVE  \E k \in 0 .. Len(Holds(r)) :
              /\ AfterTaking(r, RingFrames, n) \in RingOf(S)
              /\ Taken(r, RingFrames, n) = SubSeq(Holds(r), 1, k)
              /\ Holds(AfterTaking(r, RingFrames, n)) = SubSeq(Holds(r), k + 1, Len(Holds(r)))
<1> DEFINE k == AtMost(n, r.size)
<1>1. r.size \in Nat /\ Len(Holds(r)) = r.size
  BY RingHolds
<1>2. k \in 0 .. r.size
  BY <1>1 DEF AtMost
<1>3. /\ AfterTaking(r, RingFrames, n) = [r EXCEPT !.read = (@ + k) % RingFrames, !.size = @ - k]
      /\ Taken(r, RingFrames, n) = Slice(r.buf, RingFrames, r.read, k)
  BY DEF AfterTaking, Taken
<1> HIDE DEF k
<1> DEFINE q == [r EXCEPT !.read = (@ + k) % RingFrames, !.size = @ - k]
<1>4. /\ q \in RingOf(S) /\ Holds(q) = SubSeq(Holds(r), k + 1, Len(Holds(r)))
      /\ Slice(r.buf, RingFrames, r.read, k) = SubSeq(Holds(r), 1, k)
  BY <1>2, RingAdvanced, Zenon
<1> HIDE DEF q
<1>5. AfterTaking(r, RingFrames, n) = q /\ k \in 0 .. Len(Holds(r))
  BY <1>1, <1>2, <1>3 DEF q
<1> QED
  BY <1>3, <1>4, <1>5, Zenon

LEMMA RingDrop ==
    ASSUME NEW S, NEW r \in RingOf(S), NEW n \in Int
    PROVE  /\ DropOldest(r, RingFrames, n) \in RingOf(S)
           /\ Dropping(r, n) \in 0 .. Len(Holds(r))
           /\ Holds(DropOldest(r, RingFrames, n))
                  = SubSeq(Holds(r), Dropping(r, n) + 1, Len(Holds(r)))
<1> DEFINE k == Dropping(r, n)
<1>1. r.size \in Nat /\ Len(Holds(r)) = r.size
  BY RingHolds
<1>2. k \in 0 .. r.size
  BY <1>1 DEF Dropping, AtMost, AtLeast
<1>3. DropOldest(r, RingFrames, n) = [r EXCEPT !.read = (@ + k) % RingFrames, !.size = @ - k]
  BY DEF DropOldest
<1> HIDE DEF k
<1> QED
  BY <1>1, <1>2, <1>3, RingAdvanced DEF k

RingWith(q, S, c) == q \in RingOf(S) /\ Holds(q) = c

LEMMA RingStored ==
    ASSUME NEW S, NEW b \in [0 .. RingFrames - 1 -> S], NEW rd \in 0 .. RingFrames - 1,
           NEW n \in 0 .. RingFrames, NEW xs \in Seq(S), n + Len(xs) <= RingFrames
    PROVE  \A w, q :
              /\ w = (rd + n) % RingFrames
              /\ q = [buf |-> Stored(b, RingFrames, w, xs), read |-> rd,
                      write |-> (w + Len(xs)) % RingFrames, size |-> n + Len(xs)]
              => RingWith(q, S, Slice(b, RingFrames, rd, n) \o xs)
<1> DEFINE l == Len(xs)
<1>0. RingFrames \in Nat \ {0} /\ l \in Nat
  BY RingSizes
<1>2. Slice(Stored(b, RingFrames, (rd + n) % RingFrames, xs), RingFrames, rd, n + l)
          = Slice(b, RingFrames, rd, n) \o xs
  <2>1. Behind(Slice(Stored(b, RingFrames, (rd + n) % RingFrames, xs), RingFrames, rd, n + l),
               Slice(b, RingFrames, rd, n), xs)
    BY <1>0, SliceStored, Zenon
  <2> QED
    BY <2>1 DEF Behind
<1>3. (((rd + n) % RingFrames) + l) % RingFrames = (rd + (n + l)) % RingFrames
  BY <1>0, WrapsTwice, Zenon
<1>6. n + l \in 0 .. RingFrames
  BY <1>0
<1> SUFFICES ASSUME NEW w, NEW q, w = (rd + n) % RingFrames,
                    q = [buf |-> Stored(b, RingFrames, w, xs), read |-> rd,
                         write |-> (w + l) % RingFrames, size |-> n + l]
             PROVE  RingWith(q, S, Slice(b, RingFrames, rd, n) \o xs)
  OBVIOUS
<1>4. w \in 0 .. RingFrames - 1 /\ (w + l) % RingFrames \in 0 .. RingFrames - 1
  <2>1. rd + n \in Int
    BY <1>0
  <2>2. w \in 0 .. RingFrames - 1
    BY <1>0, <2>1, WrapIn, Zenon
  <2>3. w + l \in Int
    BY <1>0, <2>2
  <2> QED
    BY <1>0, <2>2, <2>3, WrapIn, Zenon
<1>5. Stored(b, RingFrames, w, xs) \in [0 .. RingFrames - 1 -> S]
  BY <1>0, <1>4, StoredType, Zenon
<1> HIDE DEF l
<1>7. /\ q.buf = Stored(b, RingFrames, w, xs) /\ q.read = rd
      /\ q.write = (w + l) % RingFrames /\ q.size = n + l
  OBVIOUS
<1>9. q \in RingOf(S)
  <2>1. q.write = (q.read + q.size) % RingFrames
    BY <1>3, <1>7, Zenon
  <2> QED
    BY <1>4, <1>5, <1>6, <1>7, <2>1, RingParts, Zenon
<1>10. Holds(q) = Slice(b, RingFrames, rd, n) \o xs
  BY <1>2, <1>7, Zenon DEF Holds, OutputContents
<1> QED
  BY <1>9, <1>10 DEF RingWith

\* A write puts the newest of what it is given behind what it leaves, all of
\* it behind everything if there is room.
LEMMA RingWrite ==
    ASSUME NEW S, NEW r \in RingOf(S), NEW xs \in Seq(S)
    PROVE  /\ WriteDropOldest(r, RingFrames, xs) \in RingOf(S)
           /\ \E d \in 0 .. Len(Holds(r)), e \in 0 .. Len(xs) :
                 /\ Holds(WriteDropOldest(r, RingFrames, xs))
                       = SubSeq(Holds(r), d + 1, Len(Holds(r))) \o SubSeq(xs, e + 1, Len(xs))
                 /\ Len(Holds(r)) + Len(xs) <= RingFrames => d = 0 /\ e = 0
<1> DEFINE l == Len(xs)   cap == RingFrames   size == r.size   n == AtMost(l, cap)   e == l - n
           new == NewestOf(xs, n)   d == Dropping(r, Len(new) - (cap - r.size))
           k == DropOldest(r, cap, Len(new) - (cap - r.size))
           w == WriteDropOldest(r, cap, xs)
<1>0. cap \in Nat \ {0} /\ l \in Nat /\ size \in 0 .. cap
  BY RingSizes DEF RingOf
<1>1. n \in 0 .. l /\ n \in 0 .. cap /\ e \in 0 .. l /\ l - e = n
      /\ (l <= cap => e = 0)
  BY <1>0 DEF AtMost
<1>2. w = [buf |-> Stored(k.buf, cap, k.write, new), read |-> k.read,
           write |-> (k.write + Len(new)) % cap, size |-> k.size + Len(new)]
  BY Zenon DEF WriteDropOldest
<1> HIDE DEF n
<1>3. new = SubSeq(xs, e + 1, l)
  BY <1>0, <1>1 DEF NewestOf
<1> HIDE DEF l, e, new
<1>4. new \in Seq(S) /\ Len(new) = n
  <2>1. e \in Nat /\ l \in Nat /\ e <= l /\ l <= Len(xs)
    BY <1>0, <1>1 DEF l
  <2>2. SubSeq(xs, e + 1, l) \in Seq(S) /\ Len(SubSeq(xs, e + 1, l)) = l - e
    BY <2>1, SubSeqIs, Zenon
  <2> QED
    BY <1>1, <1>3, <2>2
<1>5. Len(new) - (cap - size) \in Int /\ Len(Holds(r)) = size
  BY <1>0, <1>1, <1>4, RingHolds
<1> HIDE DEF d
<1>6. /\ k \in RingOf(S) /\ d \in 0 .. size
      /\ Holds(k) = SubSeq(Holds(r), d + 1, Len(Holds(r)))
  BY <1>5, RingDrop, Zenon DEF d, cap, size
<1>7. /\ k.size = size - d /\ k.size + n \in 0 .. cap
      /\ size + n <= cap => d = 0
  <2>1. k.size = size - d
    BY RingParts DEF DropOldest, d
  <2>2. d = AtMost(AtLeast(0, n - (cap - size)), size)
    BY <1>4 DEF d, Dropping
  <2> DEFINE ks == k.size
  <2> HIDE DEF ks, size, cap, n
  <2>3. ks = size - d /\ d = AtMost(AtLeast(0, n - (cap - size)), size)
    BY <2>1, <2>2 DEF ks
  <2>4. ks + n \in 0 .. cap /\ (size + n <= cap => d = 0)
    BY <1>0, <1>1, <2>3 DEF AtMost, AtLeast
  <2> QED
    BY <2>3, <2>4 DEF ks
<1> HIDE DEF k
<1>8. /\ k.buf \in [0 .. cap - 1 -> S] /\ k.read \in 0 .. cap - 1 /\ k.size \in 0 .. cap
      /\ k.write = (k.read + k.size) % cap /\ k.write \in 0 .. cap - 1
      /\ Holds(k) = Slice(k.buf, cap, k.read, k.size)
  BY <1>6, RingParts, Zenon DEF Holds, OutputContents
<1>9. k.size + Len(new) <= cap
  BY <1>4, <1>7
<1> HIDE DEF w
<1>10. RingWith(w, S, Slice(k.buf, cap, k.read, k.size) \o new)
  BY <1>2, <1>4, <1>8, <1>9, RingStored, Zenon
<1>14. w \in RingOf(S) /\ Holds(w) = Slice(k.buf, cap, k.read, k.size) \o new
  BY <1>10 DEF RingWith
<1>15. Holds(w) = SubSeq(Holds(r), d + 1, Len(Holds(r))) \o SubSeq(xs, e + 1, Len(xs))
  BY <1>3, <1>6, <1>8, <1>14, Zenon DEF l
<1>16. Len(Holds(r)) + Len(xs) <= cap => d = 0 /\ e = 0
  BY <1>0, <1>1, <1>5, <1>7 DEF l
<1>17. d \in 0 .. Len(Holds(r)) /\ e \in 0 .. Len(xs)
  BY <1>1, <1>5, <1>6 DEF l
<1> QED
  BY <1>14, <1>15, <1>16, <1>17 DEF w, cap

-----------------------------------------------------------------------------
(* The model ring, which keeps no read index.                              *)

AudioOf(S) == [buf : [0 .. ModelRingUnits - 1 -> S], write : 0 .. ModelRingUnits - 1,
               size : 0 .. ModelRingUnits, dropped : Nat]

Heard(r) == AudioContents(r, ModelRingUnits)

\* n cells back from behind n cells is where they start.
LEMMA WrapsFromEnd ==
    ASSUME NEW cap \in Nat \ {0}, NEW start \in 0 .. cap - 1, NEW n \in 0 .. cap
    PROVE  (((start + n) % cap) - n) % cap = start
<1>0. start % cap = start
  BY WrapNone, Zenon
<1>1. CASE start + n < cap
  <2>1. start + n \in 0 .. cap - 1 /\ (start + n) - n = start
    BY <1>1
  <2>2. (start + n) % cap = start + n
    BY <2>1, WrapNone, Zenon
  <2> QED
    BY <1>0, <2>1, <2>2, Zenon
<1>2. CASE start + n >= cap
  <2>1. /\ start + n \in cap .. 2 * cap - 1 /\ ((start + n) - cap) - n = start - cap
        /\ start - cap \in -cap .. -1 /\ (start - cap) + cap = start
    BY <1>2
  <2>2. (start + n) % cap = (start + n) - cap
    BY <2>1, WrapOver, Zenon
  <2>3. (start - cap) % cap = (start - cap) + cap
    BY <2>1, WrapUnder, Zenon
  <2> QED
    BY <2>1, <2>2, <2>3, Zenon
<1>3. start + n < cap \/ start + n >= cap
  OBVIOUS
<1> QED
  BY <1>1, <1>2, <1>3, Zenon

LEMMA AudioParts ==
    ASSUME NEW S, NEW r
    PROVE  r \in AudioOf(S) <=>
           /\ r = [buf |-> r.buf, write |-> r.write, size |-> r.size, dropped |-> r.dropped]
           /\ r.buf \in [0 .. ModelRingUnits - 1 -> S] /\ r.write \in 0 .. ModelRingUnits - 1
           /\ r.size \in 0 .. ModelRingUnits /\ r.dropped \in Nat
BY DEF AudioOf

LEMMA AudioHolds ==
    ASSUME NEW S, NEW r \in AudioOf(S)
    PROVE  LET start == AudioStart(r, ModelRingUnits)
           IN  /\ start \in 0 .. ModelRingUnits - 1
               /\ r.write = (start + r.size) % ModelRingUnits
               /\ Heard(r) = Slice(r.buf, ModelRingUnits, start, r.size)
               /\ Heard(r) \in Seq(S) /\ Len(Heard(r)) = r.size /\ r.size \in Nat
<1> DEFINE cap == ModelRingUnits   b == r.buf   w == r.write   n == r.size   x == w - n
           start == x % cap   s == Slice(b, cap, start, n)
<1>1. /\ cap \in Nat \ {0} /\ b \in [0 .. cap - 1 -> S] /\ w \in 0 .. cap - 1
      /\ n \in 0 .. cap
  BY AudioParts, Sizes, Zenon
<1>2. AudioStart(r, ModelRingUnits) = start /\ Heard(r) = s
  BY DEF Heard, AudioContents, AudioStart
<1> HIDE DEF cap, b, w, n
<1>3. x \in Int /\ x \in -cap .. 2 * cap - 1 /\ n \in Nat /\ x + n < 2 * cap /\ n <= cap /\ x + n = w
  BY <1>1
<1>4. start \in 0 .. cap - 1
  BY <1>1, <1>3, WrapIn, Zenon
<1>5. w = (start + n) % cap
  <2>1. ((x % cap) + n) % cap = (x + n) % cap
    BY <1>1, <1>3, WrapsOn, Zenon
  <2>2. w % cap = w
    BY <1>1, WrapNone, Zenon
  <2> QED
    BY <1>3, <2>1, <2>2, Zenon
<1> HIDE DEF start
<1>6. s \in Seq(S)
  BY <1>1, <1>3, <1>4, SliceType, Zenon
<1>7. Len(s) = n
  BY <1>1, <1>3, <1>4, SliceIs
<1> QED
  BY <1>2, <1>3, <1>4, <1>5, <1>6, <1>7, Zenon DEF cap, b, w, n

AudioWith(q, S, c) == q \in AudioOf(S) /\ Heard(q) = c

\* What a ring holds that starts at `start'.
LEMMA AudioMade ==
    ASSUME NEW S, NEW b \in [0 .. ModelRingUnits - 1 -> S], NEW start \in 0 .. ModelRingUnits - 1,
           NEW n \in 0 .. ModelRingUnits, NEW d \in Nat
    PROVE  \A q : q = [buf |-> b, write |-> (start + n) % ModelRingUnits, size |-> n, dropped |-> d]
                  => AudioWith(q, S, Slice(b, ModelRingUnits, start, n))
<1> DEFINE cap == ModelRingUnits   w == (start + n) % cap
<1>1. cap \in Nat \ {0} /\ start + n \in Int
  BY Sizes
<1>2. w \in 0 .. cap - 1
  BY <1>1, WrapIn, Zenon
<1>3. (w - n) % cap = start
  BY <1>1, WrapsFromEnd, Zenon
<1> SUFFICES ASSUME NEW q, q = [buf |-> b, write |-> w, size |-> n, dropped |-> d]
             PROVE  AudioWith(q, S, Slice(b, cap, start, n))
  OBVIOUS
<1> HIDE DEF w
<1>4. /\ q.buf = b /\ q.write = w /\ q.size = n /\ q.dropped = d
  OBVIOUS
<1>5. q \in AudioOf(S)
  BY <1>2, <1>4, AudioParts, Zenon
<1>6. Heard(q) = Slice(b, cap, start, n)
  BY <1>3, <1>4, Zenon DEF Heard, AudioContents, AudioStart
<1> QED
  BY <1>5, <1>6 DEF AudioWith

LEMMA AudioTake ==
    ASSUME NEW S, NEW r \in AudioOf(S), NEW k \in 0 .. r.size
    PROVE  /\ AudioPop(r, k) \in AudioOf(S)
           /\ Heard(AudioPop(r, k)) = SubSeq(Heard(r), k + 1, Len(Heard(r)))
           /\ AudioFront(r, ModelRingUnits, k) = SubSeq(Heard(r), 1, k)
<1> DEFINE cap == ModelRingUnits   b == r.buf   w == r.write   n == r.size   d == r.dropped
           start == AudioStart(r, ModelRingUnits)   s1 == (start + k) % cap   n1 == n - k
           q == AudioPop(r, k)
<1>1. /\ cap \in Nat \ {0} /\ b \in [0 .. cap - 1 -> S] /\ w \in 0 .. cap - 1
      /\ n \in 0 .. cap /\ d \in Nat
      /\ r = [buf |-> b, write |-> w, size |-> n, dropped |-> d]
  BY AudioParts, Sizes, Zenon
<1>2. /\ start \in 0 .. cap - 1 /\ w = (start + n) % cap
      /\ Heard(r) = Slice(b, cap, start, n) /\ Len(Heard(r)) = n
  BY AudioHolds, Zenon
<1>3. AudioFront(r, ModelRingUnits, k) = Slice(b, cap, start, k)
  BY DEF AudioFront
<1>4. k \in 0 .. n
  OBVIOUS
<1> HIDE DEF cap, b, w, n, d, start
<1>5. q = [buf |-> b, write |-> w, size |-> n1, dropped |-> d]
  <2>1. q = [[buf |-> b, write |-> w, size |-> n, dropped |-> d] EXCEPT !.size = @ - k]
    BY <1>1, Zenon DEF AudioPop
  <2> HIDE DEF q
  <2> QED
    BY <2>1
<1> HIDE DEF q
<1>6. /\ Slice(b, cap, s1, n1) = SubSeq(Slice(b, cap, start, n), k + 1, n)
      /\ s1 \in 0 .. cap - 1
      /\ (s1 + n1) % cap = (start + n) % cap
  BY <1>1, <1>2, <1>4, SliceAdvanced
<1>7. Slice(b, cap, start, k) = SubSeq(Slice(b, cap, start, n), 1, k)
  BY <1>1, <1>2, <1>4, SliceFront
<1>8. n1 \in 0 .. cap
  BY <1>1, <1>4
<1> HIDE DEF s1, n1
<1>9. q = [buf |-> b, write |-> (s1 + n1) % cap, size |-> n1, dropped |-> d]
  BY <1>2, <1>5, <1>6, Zenon
<1>11. AudioWith(q, S, Slice(b, cap, s1, n1))
  BY <1>1, <1>6, <1>8, <1>9, AudioMade, Zenon DEF cap
<1>10. q \in AudioOf(S) /\ Heard(q) = Slice(b, cap, s1, n1)
  BY <1>11 DEF AudioWith
<1> QED
  BY <1>2, <1>3, <1>6, <1>7, <1>10, Zenon DEF q

\* A push puts the newest of what it is given behind the newest of what is
\* there, and all of it behind everything unless it counts a drop.
LEMMA AudioPushed ==
    ASSUME NEW S, NEW r \in AudioOf(S), NEW xs \in Seq(S)
    PROVE  /\ AudioPush(r, ModelRingUnits, xs) \in AudioOf(S)
           /\ \E d \in 0 .. Len(Heard(r)), e \in 0 .. Len(xs) :
                 /\ Heard(AudioPush(r, ModelRingUnits, xs))
                       = SubSeq(Heard(r), d + 1, Len(Heard(r))) \o SubSeq(xs, e + 1, Len(xs))
                 /\ ~(AudioPush(r, ModelRingUnits, xs).dropped > r.dropped) => d = 0 /\ e = 0
<1> DEFINE cap == ModelRingUnits   b == r.buf   w == r.write   n == r.size   c == r.dropped
           start == AudioStart(r, ModelRingUnits)   l == Len(xs)   q == AudioPush(r, ModelRingUnits, xs)
<1>1. /\ cap \in Nat \ {0} /\ b \in [0 .. cap - 1 -> S] /\ w \in 0 .. cap - 1
      /\ n \in 0 .. cap /\ c \in Nat
  BY AudioParts, Sizes, Zenon
<1>2. /\ start \in 0 .. cap - 1 /\ w = (start + n) % cap
      /\ Heard(r) = Slice(b, cap, start, n) /\ Len(Heard(r)) = n /\ Heard(r) \in Seq(S)
  BY AudioHolds, Zenon
<1>3. l \in Nat
  OBVIOUS
<1>4. CASE l >= cap
  <2> DEFINE e == l - cap   new == NewestOf(xs, cap)   b1 == Stored(b, cap, 0, new)
             c1 == c + n + l - cap
  <2>1. q = [buf |-> b1, write |-> 0, size |-> cap, dropped |-> c1]
    BY <1>4, Zenon DEF AudioPush
  <2>2. /\ e \in Nat /\ e \in 0 .. l /\ e <= l /\ l <= Len(xs) /\ l - e = cap /\ c1 \in Nat
        /\ 0 \in 0 .. cap - 1 /\ 0 \in 0 .. cap /\ 0 + 0 = 0 /\ 0 + cap = cap /\ 0 \in Nat
        /\ cap \in 0 .. cap /\ cap \in cap .. 2 * cap - 1 /\ cap - cap = 0
        /\ (~(c1 > c) => n = 0 /\ e = 0)
    BY <1>1, <1>3, <1>4
  <2>3. new = SubSeq(xs, e + 1, l)
    BY <1>1, <1>3 DEF NewestOf
  <2> HIDE DEF e, new, cap, b, w, n, c, start, q, c1
  <2>4. new \in Seq(S) /\ Len(new) = cap
    <3>2. e \in Nat /\ l \in Nat /\ e <= l /\ l <= Len(xs)
      BY <1>3, <2>2
    <3> HIDE DEF l
    <3>1. SubSeq(xs, e + 1, l) \in Seq(S) /\ Len(SubSeq(xs, e + 1, l)) = l - e
      BY <3>2, SubSeqIs, Zenon
    <3> QED
      BY <2>2, <2>3, <3>1
  <2>5. 0 % cap = 0 /\ cap % cap = 0
    <3>1. cap % cap = cap - cap
      BY <1>1, <2>2, WrapOver, Zenon
    <3> QED
      BY <1>1, <2>2, <3>1, WrapNone, Zenon
  <2>6. b1 \in [0 .. cap - 1 -> S]
    BY <1>1, <2>2, <2>4, StoredType, Zenon
  <2>7. Behind(Slice(Stored(b, cap, (0 + 0) % cap, new), cap, 0, 0 + Len(new)), Slice(b, cap, 0, 0), new)
    <3>1. 0 + Len(new) <= cap
      BY <1>1, <2>4
    <3> QED
      BY <1>1, <2>2, <2>4, <3>1, SliceStored, Zenon
  <2>8. Slice(b, cap, 0, 0) = <<>>
    <3>1. Slice(b, cap, 0, 0) \in Seq(S)
      BY <1>1, <2>2, SliceType, Zenon
    <3>2. Len(Slice(b, cap, 0, 0)) = 0
      BY <1>1, <2>2, SliceIs
    <3> QED
      BY <3>1, <3>2
  <2>9. Slice(b1, cap, 0, cap) = <<>> \o new
    BY <2>2, <2>4, <2>5, <2>7, <2>8, Zenon DEF Behind
  <2>10. q = [buf |-> b1, write |-> (0 + cap) % cap, size |-> cap, dropped |-> c1]
    BY <2>1, <2>2, <2>5, Zenon
  <2>16. AudioWith(q, S, Slice(b1, cap, 0, cap))
    <3> HIDE DEF b1
    <3> QED
      BY <1>1, <2>2, <2>6, <2>10, AudioMade, Zenon DEF cap
  <2>11. q \in AudioOf(S) /\ Heard(q) = Slice(b1, cap, 0, cap)
    BY <2>16 DEF AudioWith
  <2>12. SubSeq(Heard(r), n + 1, Len(Heard(r))) = <<>>
    <3>1. n \in Nat /\ n <= n /\ n <= Len(Heard(r)) /\ n - n = 0
      BY <1>1, <1>2
    <3>2. /\ SubSeq(Heard(r), n + 1, n) \in Seq(S) /\ Len(SubSeq(Heard(r), n + 1, n)) = n - n
      BY <1>2, <3>1, SubSeqIs
    <3>3. SubSeq(Heard(r), n + 1, n) = <<>>
      BY <3>1, <3>2
    <3> QED
      BY <1>2, <3>3, Zenon
  <2>13. Heard(q) = SubSeq(Heard(r), n + 1, Len(Heard(r))) \o SubSeq(xs, e + 1, Len(xs))
    BY <2>3, <2>9, <2>11, <2>12, Zenon
  <2>14. ~(q.dropped > c) => n = 0 /\ e = 0
    BY <2>1, <2>2
  <2>15. n \in 0 .. Len(Heard(r)) /\ e \in 0 .. Len(xs)
    BY <1>1, <1>2, <2>2
  <2> QED
    BY <2>11, <2>13, <2>14, <2>15, Zenon DEF q, c
<1>5. CASE ~(l >= cap)
  <2> DEFINE d == AtLeast(0, n + l - cap)   m == n - d   s1 == (start + d) % cap
             b1 == Stored(b, cap, w, xs)   c1 == c + d   n1 == AtMost(cap, n - d + l)
  <2>1. q = [buf |-> b1, write |-> (w + l) % cap, size |-> n1, dropped |-> c1]
    BY <1>5, Zenon DEF AudioPush
  <2>2. /\ d \in 0 .. n /\ m \in 0 .. cap /\ m + l <= cap /\ n1 = m + l /\ c1 \in Nat
        /\ n1 \in 0 .. cap /\ (~(c1 > c) => d = 0)
    <3> HIDE DEF cap, n, c, l
    <3> QED
      BY <1>1, <1>3, <1>5 DEF AtLeast, AtMost
  <2> HIDE DEF cap, b, w, n, c, start, q, c1, n1, d
  <2>3. /\ Slice(b, cap, s1, m) = SubSeq(Slice(b, cap, start, n), d + 1, n)
        /\ s1 \in 0 .. cap - 1
        /\ (s1 + m) % cap = (start + n) % cap
    <3>1. start \in 0 .. cap - 1 /\ n \in 0 .. cap /\ d \in 0 .. n
      BY <1>1, <1>2, <2>2, Zenon
    <3> QED
      BY <1>1, <3>1, SliceAdvanced
  <2> HIDE DEF m, s1
  <2>4. Behind(Slice(Stored(b, cap, (s1 + m) % cap, xs), cap, s1, m + Len(xs)), Slice(b, cap, s1, m), xs)
    BY <1>1, <2>2, <2>3, SliceStored, Zenon
  <2>5. (((s1 + m) % cap) + Len(xs)) % cap = (s1 + (m + Len(xs))) % cap
    <3>1. cap \in Nat \ {0} /\ xs \in Seq(S) /\ m \in 0 .. cap /\ s1 \in 0 .. cap - 1
      BY <1>1, <2>2, <2>3, Zenon
    <3>2. m + Len(xs) <= cap
      BY <2>2, Zenon
    <3> QED
      BY <3>1, <3>2, WrapsTwice, Zenon
  <2>6. b1 \in [0 .. cap - 1 -> S]
    BY <1>1, StoredType, Zenon
  <2>7. Slice(b1, cap, s1, n1) = SubSeq(Heard(r), d + 1, Len(Heard(r))) \o xs
    BY <1>2, <2>2, <2>3, <2>4, Zenon DEF Behind
  <2>8. q = [buf |-> b1, write |-> (s1 + n1) % cap, size |-> n1, dropped |-> c1]
    BY <1>2, <2>1, <2>2, <2>3, <2>5, Zenon
  <2>14. AudioWith(q, S, Slice(b1, cap, s1, n1))
    <3> HIDE DEF b1
    <3> QED
      BY <1>1, <2>2, <2>3, <2>6, <2>8, AudioMade, Zenon DEF cap
  <2>9. q \in AudioOf(S) /\ Heard(q) = Slice(b1, cap, s1, n1)
    BY <2>14 DEF AudioWith
  <2>10. xs = SubSeq(xs, 0 + 1, Len(xs))
    OBVIOUS
  <2>11. ~(q.dropped > c) => d = 0 /\ 0 = 0
    BY <2>1, <2>2
  <2>12. d \in 0 .. Len(Heard(r)) /\ 0 \in 0 .. Len(xs)
    BY <1>1, <1>2, <1>3, <2>2
  <2>13. Heard(q) = SubSeq(Heard(r), d + 1, Len(Heard(r))) \o SubSeq(xs, 0 + 1, Len(xs))
    BY <2>7, <2>9, <2>10, Zenon
  <2> QED
    BY <2>9, <2>11, <2>12, <2>13, Zenon DEF q, c
<1> QED
  BY <1>4, <1>5

\* What was put together rose before, each part for itself and one above the other.
LEMMA Parted ==
    ASSUME NEW S, NEW D, NEW pos \in [D -> Int], NEW s \in Seq(S), NEW t \in Seq(S),
           Rising(s \o t, pos)
    PROVE  Rising(s, pos) /\ Rising(t, pos) /\ Below(PositionsOf(s, pos), PositionsOf(t, pos))
<1> DEFINE m == Len(s)   n == Len(t)   u == s \o t
<1>1. /\ m \in Nat /\ n \in Nat
      /\ u \in Seq(S) /\ Len(u) = m + n
      /\ \A i \in 1 .. m + n : u[i] = IF i <= m THEN s[i] ELSE t[i - m]
  BY ConcatProperties
<1>6. Rising(u, pos)
  OBVIOUS
<1> HIDE DEF u, m, n
<1>2. \A i \in 1 .. m : i \in 1 .. m + n /\ u[i] = s[i]
  BY <1>1
<1>3. \A i \in 1 .. n : i + m \in 1 .. m + n /\ u[i + m] = t[i]
  <2> SUFFICES ASSUME NEW i \in 1 .. n PROVE i + m \in 1 .. m + n /\ u[i + m] = t[i]
    OBVIOUS
  <2>1. i + m \in 1 .. m + n /\ ~(i + m <= m) /\ (i + m) - m = i
    BY <1>1
  <2> QED
    BY <1>1, <2>1
<1>4. \A i, j \in 1 .. m + n : i < j /\ u[i] \in DOMAIN pos /\ u[j] \in DOMAIN pos
                               => pos[u[i]] < pos[u[j]]
  BY <1>1, <1>6, Zenon DEF Rising
<1>5. Rising(s, pos)
  BY <1>2, <1>4 DEF Rising, m
<1>7. Rising(t, pos)
  <2> SUFFICES ASSUME NEW i \in 1 .. n, NEW j \in 1 .. n, i < j,
                      t[i] \in DOMAIN pos, t[j] \in DOMAIN pos
               PROVE  pos[t[i]] < pos[t[j]]
    BY DEF Rising, n
  <2>1. i + m < j + m
    BY <1>1
  <2> QED
    BY <1>3, <1>4, <2>1
<1>8. Below(PositionsOf(s, pos), PositionsOf(t, pos))
  <2> SUFFICES ASSUME NEW p \in PositionsOf(s, pos), NEW q \in PositionsOf(t, pos)
               PROVE  p < q
    BY DEF Below
  <2>1. PICK i \in 1 .. m : s[i] \in DOMAIN pos /\ p = pos[s[i]]
    BY DEF PositionsOf, m
  <2>2. PICK j \in 1 .. n : t[j] \in DOMAIN pos /\ q = pos[t[j]]
    BY DEF PositionsOf, n
  <2>3. i < j + m
    BY <1>1
  <2> QED
    BY <1>2, <1>3, <1>4, <2>1, <2>2, <2>3
<1> QED
  BY <1>5, <1>7, <1>8

-----------------------------------------------------------------------------
(* The sound is in order all the way: what the model's resampler holds,    *)
(* then the model ring, then the resampler before it, all of it behind     *)
(* what is on its way to the card, and that behind what was played.        *)

Top       == MaxCapture * Block
Positions == 1 .. Top
Own       == [p \in Positions |-> p]
WetAt     == [x \in {x \in Frames : x.kind = "wet"} |-> x.at]

\* Everything: p played, c on its way to the card, o, m and i before the model's
\* output, none of it beyond t.
Orderly(o, m, i, c, p, t) ==
    /\ Rising(o, Own) /\ Rising(m, Own) /\ Rising(i, Own) /\ Rising(c, WetAt)
    /\ Below(PositionsOf(o, Own), PositionsOf(m, Own))
    /\ Below(PositionsOf(o, Own) \cup PositionsOf(m, Own), PositionsOf(i, Own))
    /\ Below({p} \cup PositionsOf(c, WetAt),
             PositionsOf(o, Own) \cup PositionsOf(m, Own) \cup PositionsOf(i, Own))
    /\ Below({p}, PositionsOf(c, WetAt))
    /\ Below({p} \cup PositionsOf(c, WetAt) \cup PositionsOf(o, Own) \cup PositionsOf(m, Own)
                 \cup PositionsOf(i, Own), {t + 1})

\* The last position of what has been given to the resamplers.
Ceiling == IF wpc = "feed" THEN lastIdx * Block ELSE (lastIdx + 1) * Block

InSequence == Orderly(outSrc, Heard(modelRing), inSrc, Coming, played, Ceiling)

\* What is where.
Typed ==
    /\ outSrc \in Seq(Positions) /\ inSrc \in Seq(Positions) /\ drySrc \in Seq(Positions)
    /\ modelRing \in AudioOf(0 .. Top) /\ Heard(modelRing) \in Seq(Positions)
    /\ dryRing \in RingOf(0 .. Top) /\ Holds(dryRing) \in Seq(Positions)
    /\ outRing \in RingOf(Frames)
    /\ yOut \in Seq(Frames)
    /\ fed \in 0 .. Top /\ played \in 0 .. Top

\* The block that is fed is the one just admitted.
AtWork ==
    /\ captured <= args.blocks
    /\ wpc = "feed" => lastIdx = item /\ item # Nobody

LEMMA OwnTypes ==
    /\ Top \in Nat /\ Own \in [Positions -> Int]
    /\ WetAt \in [{x \in Frames : x.kind = "wet"} -> Int]
    /\ Positions \subseteq 0 .. Top /\ Positions \subseteq Nat
<1>1. Top \in Nat
  BY Sizes, SizesAssumption DEF Top
<1>2. Positions \subseteq 0 .. Top /\ Positions \subseteq Nat
  BY <1>1 DEF Positions
<1>3. Own \in [Positions -> Int]
  BY <1>2 DEF Own
<1>4. \A x \in {x \in Frames : x.kind = "wet"} : x.at \in Int
  <2> SUFFICES ASSUME NEW x \in Frames, x.kind = "wet" PROVE x.at \in Int
    OBVIOUS
  <2>1. x = Zero \/ x \in [kind : {"wet", "dry"}, at : 1 .. MaxCapture * Block]
    BY DEF Frames
  <2>2. x # Zero
    BY DEF Zero
  <2>3. x.at \in Positions
    BY <2>1, <2>2 DEF Positions, Top
  <2>4. x.at \in Nat
    BY <1>2, <2>3, Zenon
  <2> QED
    BY <2>4
<1> QED
  BY <1>1, <1>2, <1>3, <1>4 DEF WetAt

LEMMA PositionsAreInts ==
    ASSUME NEW D, NEW pos \in [D -> Int], NEW s
    PROVE  PositionsOf(s, pos) \subseteq Int
BY DEF PositionsOf

\* What is a part of what was in order is in order.
LEMMA OrderlyLess ==
    ASSUME NEW o, NEW m, NEW i, NEW c, NEW p, NEW t \in Int, Orderly(o, m, i, c, p, t),
           NEW o1, NEW m1, NEW i1, NEW c1, NEW t1 \in Int, t <= t1, p \in Int,
           Rising(o1, Own), Rising(m1, Own), Rising(i1, Own), Rising(c1, WetAt),
           PositionsOf(o1, Own) \subseteq PositionsOf(o, Own),
           PositionsOf(m1, Own) \subseteq PositionsOf(m, Own),
           PositionsOf(i1, Own) \subseteq PositionsOf(i, Own),
           PositionsOf(c1, WetAt) \subseteq PositionsOf(c, WetAt)
    PROVE  Orderly(o1, m1, i1, c1, p, t1)
<1> DEFINE O == PositionsOf(o, Own)   M == PositionsOf(m, Own)   I == PositionsOf(i, Own)
           C == PositionsOf(c, WetAt)
           O1 == PositionsOf(o1, Own)   M1 == PositionsOf(m1, Own)   I1 == PositionsOf(i1, Own)
           C1 == PositionsOf(c1, WetAt)
<1>1. /\ Below(O, M) /\ Below(O \cup M, I) /\ Below({p} \cup C, O \cup M \cup I)
      /\ Below({p}, C) /\ Below({p} \cup C \cup O \cup M \cup I, {t + 1})
  BY DEF Orderly
<1>2. O1 \subseteq O /\ M1 \subseteq M /\ I1 \subseteq I /\ C1 \subseteq C
  OBVIOUS
<1>3. O \subseteq Int /\ M \subseteq Int /\ I \subseteq Int /\ C \subseteq Int
  BY OwnTypes, PositionsAreInts, Zenon
<1>4. Rising(o1, Own) /\ Rising(m1, Own) /\ Rising(i1, Own) /\ Rising(c1, WetAt)
  OBVIOUS
<1> HIDE DEF O, M, I, C, O1, M1, I1, C1
<1>5. Below(O1, M1) /\ Below(O1 \cup M1, I1) /\ Below({p} \cup C1, O1 \cup M1 \cup I1)
      /\ Below({p}, C1)
  BY <1>1, <1>2 DEF Below
<1>6. Below({p} \cup C1 \cup O1 \cup M1 \cup I1, {t1 + 1})
  <2> SUFFICES ASSUME NEW a \in {p} \cup C1 \cup O1 \cup M1 \cup I1 PROVE a < t1 + 1
    BY DEF Below
  <2>1. a \in {p} \cup C \cup O \cup M \cup I /\ a \in Int
    BY <1>2, <1>3
  <2>2. a < t + 1
    BY <1>1, <2>1 DEF Below
  <2> QED
    BY <2>1, <2>2
<1> QED
  BY <1>4, <1>5, <1>6 DEF Orderly, O1, M1, I1, C1

\* The same, if the model's input and the ceiling stay.
LEMMA OrderlyLeft ==
    ASSUME NEW o, NEW m, NEW i, NEW c, NEW p \in Int, NEW t \in Int, Orderly(o, m, i, c, p, t),
           NEW o1, NEW i1, NEW c1, Rising(o1, Own), Rising(i1, Own), Rising(c1, WetAt),
           PositionsOf(o1, Own) \subseteq PositionsOf(o, Own),
           PositionsOf(i1, Own) \subseteq PositionsOf(i, Own),
           PositionsOf(c1, WetAt) \subseteq PositionsOf(c, WetAt)
    PROVE  Orderly(o1, m, i1, c1, p, t)
<1>1. Rising(m, Own) /\ PositionsOf(m, Own) \subseteq PositionsOf(m, Own) /\ t <= t
  BY DEF Orderly
<1> QED
  BY <1>1, OrderlyLess, Zenon

LEMMA Nothing == <<>> \in Seq(Positions) /\ <<>> \in Seq(Frames)
OBVIOUS

\* What a resampler passes on and what it keeps.
LEMMA Resampled ==
    ASSUME args \in Args, NEW hold \in Seq(Positions), NEW xs \in Seq(Positions),
           NEW k \in Keeps(hold, xs)
    PROVE  /\ Emitted(hold, xs, k) \in Seq(Positions) /\ Held(hold, xs, k) \in Seq(Positions)
           /\ PositionsOf(Emitted(hold, xs, k), Own) \subseteq
                  PositionsOf(hold, Own) \cup PositionsOf(xs, Own)
           /\ PositionsOf(Held(hold, xs, k), Own) \subseteq
                  PositionsOf(hold, Own) \cup PositionsOf(xs, Own)
           /\ Rising(hold, Own) /\ Rising(xs, Own)
              /\ Below(PositionsOf(hold, Own), PositionsOf(xs, Own))
              => /\ Rising(Emitted(hold, xs, k), Own) /\ Rising(Held(hold, xs, k), Own)
                 /\ Below(PositionsOf(Emitted(hold, xs, k), Own), PositionsOf(Held(hold, xs, k), Own))
<1> DEFINE both == hold \o xs   l == Len(both)   n == l - k
<1>1. /\ both \in Seq(Positions)
      /\ PositionsOf(both, Own) = PositionsOf(hold, Own) \cup PositionsOf(xs, Own)
      /\ Rising(hold, Own) /\ Rising(xs, Own)
         /\ Below(PositionsOf(hold, Own), PositionsOf(xs, Own)) => Rising(both, Own)
  BY OwnTypes, Joined, Zenon
<1>2. l \in Nat /\ k \in Nat /\ k <= l
  <2>1. l \in Nat
    BY <1>1
  <2> QED
    BY <2>1, Kept
<1> HIDE DEF both, l
<1>3. n \in 0 .. l /\ l - k + 1 = n + 1
  BY <1>2
<1>4. Emitted(hold, xs, k) = SubSeq(both, 1, n)
  BY DEF Emitted, both, l
<1> HIDE DEF n
<1>5. Held(hold, xs, k) = SubSeq(both, n + 1, Len(both))
  <2>1. Held(hold, xs, k) = SubSeq(both, l - k + 1, l)
    BY Zenon DEF Held, NewestOf, both, l
  <2> QED
    BY <1>3, <2>1, Zenon DEF l
<1>6. n \in 0 .. Len(both)
  BY <1>3 DEF l
<1>7. LET a == SubSeq(both, 1, n)
          b == SubSeq(both, n + 1, Len(both))
      IN  /\ a \in Seq(Positions) /\ b \in Seq(Positions)
          /\ PositionsOf(a, Own) \subseteq PositionsOf(both, Own)
          /\ PositionsOf(b, Own) \subseteq PositionsOf(both, Own)
          /\ Rising(both, Own) => /\ Rising(a, Own) /\ Rising(b, Own)
                                  /\ Below(PositionsOf(a, Own), PositionsOf(b, Own))
  BY <1>1, <1>6, OwnTypes, Split, Zenon
<1> QED
  BY <1>1, <1>4, <1>5, <1>7, Zenon

-----------------------------------------------------------------------------
(* What the parts of the order are kept by.                                 *)

\* What goes on from two sequences, each without its beginning.
LEMMA Backs ==
    ASSUME NEW S, NEW D, NEW pos \in [D -> Int], NEW s \in Seq(S), NEW t \in Seq(S),
           NEW d \in 0 .. Len(s), NEW e \in 0 .. Len(t)
    PROVE  LET u == SubSeq(s, d + 1, Len(s)) \o SubSeq(t, e + 1, Len(t))
           IN  /\ u \in Seq(S)
               /\ PositionsOf(u, pos) \subseteq PositionsOf(s, pos) \cup PositionsOf(t, pos)
               /\ Rising(s, pos) /\ Rising(t, pos) /\ Below(PositionsOf(s, pos), PositionsOf(t, pos))
                  => Rising(u, pos)
<1> DEFINE a == SubSeq(s, d + 1, Len(s))   b == SubSeq(t, e + 1, Len(t))
<1>1. /\ a \in Seq(S) /\ PositionsOf(a, pos) \subseteq PositionsOf(s, pos)
      /\ Rising(s, pos) => Rising(a, pos)
  BY Split, Zenon
<1>2. /\ b \in Seq(S) /\ PositionsOf(b, pos) \subseteq PositionsOf(t, pos)
      /\ Rising(t, pos) => Rising(b, pos)
  BY Split, Zenon
<1> HIDE DEF a, b
<1>3. /\ a \o b \in Seq(S)
      /\ PositionsOf(a \o b, pos) = PositionsOf(a, pos) \cup PositionsOf(b, pos)
      /\ Rising(a, pos) /\ Rising(b, pos) /\ Below(PositionsOf(a, pos), PositionsOf(b, pos))
             => Rising(a \o b, pos)
  BY <1>1, <1>2, Joined, Zenon
<1>4. Below(PositionsOf(s, pos), PositionsOf(t, pos)) => Below(PositionsOf(a, pos), PositionsOf(b, pos))
  BY <1>1, <1>2, Zenon DEF Below
<1>5. PositionsOf(a \o b, pos) \subseteq PositionsOf(s, pos) \cup PositionsOf(t, pos)
  BY <1>1, <1>2, <1>3
<1>6. Rising(s, pos) /\ Rising(t, pos) /\ Below(PositionsOf(s, pos), PositionsOf(t, pos))
      => Rising(a \o b, pos)
  BY <1>1, <1>2, <1>3, <1>4, Zenon
<1> QED
  BY <1>3, <1>5, <1>6, Zenon DEF a, b

LEMMA Wider ==
    ASSUME NEW s \in Seq(Positions)
    PROVE  s \in Seq(0 .. Top)
<1>1. Positions \subseteq 0 .. Top
  BY OwnTypes
<1> DEFINE T == 0 .. Top
<1> HIDE DEF T
<1>2. Positions \subseteq T
  BY <1>1 DEF T
<1>3. s \in Seq(T)
  BY <1>2, SeqDef
<1> QED
  BY <1>3 DEF T

LEMMA ComingIs ==
    ASSUME NEW r \in RingOf(Frames), NEW y \in Seq(Frames), NEW at
    PROVE  LET c == OutputContents(r, RingFrames) \o (IF at = "write" THEN y ELSE <<>>)
           IN  /\ c \in Seq(Frames)
               /\ at = "write" => c = Holds(r) \o y
               /\ at # "write" => c = Holds(r)
<1>1. Holds(r) \in Seq(Frames) /\ Holds(r) = OutputContents(r, RingFrames)
  BY RingHolds DEF Holds
<1> DEFINE h == Holds(r)
<1> HIDE DEF h
<1>2. h \o y \in Seq(Frames) /\ h \o <<>> = h /\ h \in Seq(Frames)
  <2>1. h \in Seq(Frames)
    BY <1>1 DEF h
  <2>2. h \o y \in Seq(Frames)
    BY <2>1
  <2>3. h \o <<>> = h
    BY <2>1
  <2> QED
    BY <2>1, <2>2, <2>3
<1> QED
  BY <1>1, <1>2 DEF h

LEMMA CeilingType ==
    ASSUME Inv
    PROVE  Ceiling \in Int /\ lastIdx \in Int /\ lastIdx * Block <= (lastIdx + 1) * Block
           /\ lastIdx * Block \in Int /\ (lastIdx + 1) * Block \in Int
<1>1. lastIdx \in Int /\ Block \in Nat
  BY Sizes DEF Inv, Counts, Nobody
<1>2. \A a \in Int, b \in Nat : a * b \in Int /\ (a + 1) * b = a * b + b
  OBVIOUS
<1> QED
  BY <1>1, <1>2 DEF Ceiling

LEMMA Multiples ==
    ASSUME NEW a \in Int, NEW b \in Int, a <= b
    PROVE  a * Block <= b * Block
<1>1. Block \in Nat
  BY Sizes
<1> QED
  BY <1>1

Flow == Typed /\ AtWork /\ InSequence

LEMMA FlowTypes ==
    ASSUME Flow
    PROVE  played \in Int /\ Coming \in Seq(Frames)
<1>1. outRing \in RingOf(Frames) /\ yOut \in Seq(Frames) /\ played \in 0 .. Top
  BY DEF Flow, Typed
<1>2. Coming \in Seq(Frames)
  BY <1>1, ComingIs, Zenon DEF Coming
<1>3. played \in Int
  BY <1>1, OwnTypes
<1> QED
  BY <1>2, <1>3

\* The other steps: what is about to be written is at most given up, and the
\* last position given can only rise.
LEMMA FlowElsewhere ==
    ASSUME Inv, Inv', Flow, UNCHANGED <<args, resample, rings, yOut, fed, played>>,
           captured' <= args.blocks,
           Ceiling <= Ceiling',
           wpc' = "feed" => lastIdx' = item' /\ item' # Nobody,
           wpc' = "write" => wpc = "write"
    PROVE  Flow'
<1>1. Typed'
  BY DEF Flow, Typed, resample, rings
<1>2. AtWork'
  BY DEF AtWork
<1>3. /\ outRing \in RingOf(Frames) /\ yOut \in Seq(Frames)
      /\ outRing' = outRing /\ yOut' = yOut /\ outSrc' = outSrc /\ inSrc' = inSrc
      /\ modelRing' = modelRing /\ played' = played
  BY DEF Flow, Typed, resample, rings
<1>4. /\ Coming \in Seq(Frames) /\ Holds(outRing) \in Seq(Frames)
      /\ wpc = "write" => Coming = Holds(outRing) \o yOut
      /\ wpc # "write" => Coming = Holds(outRing)
      /\ wpc' = "write" => Coming' = Holds(outRing) \o yOut
      /\ wpc' # "write" => Coming' = Holds(outRing)
  BY <1>3, ComingIs, RingHolds DEF Coming
<1>5. Orderly(outSrc, Heard(modelRing), inSrc, Coming, played, Ceiling)
  BY DEF Flow, InSequence
<1>6. Rising(Coming', WetAt) /\ PositionsOf(Coming', WetAt) \subseteq PositionsOf(Coming, WetAt)
  <2>1. Rising(Coming, WetAt)
    BY <1>5 DEF Orderly
  <2>2. CASE Coming' = Coming
    BY <2>1, <2>2
  <2>3. CASE wpc = "write" /\ wpc' # "write"
    <3>1. Coming' = Holds(outRing) /\ Coming = Holds(outRing) \o yOut
      BY <1>4, <2>3
    <3>2. Rising(Holds(outRing), WetAt)
      BY <1>3, <1>4, <2>1, <3>1, OwnTypes, Parted, Zenon
    <3> DEFINE h == Holds(outRing)
    <3> HIDE DEF h
    <3>4. h \in Seq(Frames) /\ yOut \in Seq(Frames)
      BY <1>3, <1>4 DEF h
    <3>3. PositionsOf(h \o yOut, WetAt) = PositionsOf(h, WetAt) \cup PositionsOf(yOut, WetAt)
      BY <3>4, OwnTypes, Joined
    <3> QED
      BY <3>1, <3>2, <3>3 DEF h
  <2> QED
    BY <1>4, <2>2, <2>3
<1>7. /\ Rising(outSrc, Own) /\ Rising(Heard(modelRing), Own) /\ Rising(inSrc, Own)
  BY <1>5 DEF Orderly
<1>8. Ceiling \in Int /\ Ceiling' \in Int /\ played \in Int
  <2>1. Ceiling \in Int
    BY CeilingType
  <2>2. Ceiling' \in Int
    <3>1. lastIdx' \in Int /\ Block \in Nat
      BY Sizes DEF Inv, Counts, Nobody
    <3> QED
      BY <3>1 DEF Ceiling
  <2> QED
    BY <2>1, <2>2, FlowTypes
<1>9. Orderly(outSrc, Heard(modelRing), inSrc, Coming', played, Ceiling')
  BY <1>5, <1>6, <1>7, <1>8, OrderlyLess, Zenon
<1>10. InSequence'
  BY <1>3, <1>9, Zenon DEF InSequence
<1> QED
  BY <1>1, <1>2, <1>10 DEF Flow

-----------------------------------------------------------------------------
(* Feeding.                                                                *)

\* The units of a block, above everything before them.
LEMMA InputIs ==
    ASSUME NEW k \in Nat, k < MaxCapture
    PROVE  /\ Input(k) \in Seq(Positions) /\ Rising(Input(k), Own)
           /\ \A p \in PositionsOf(Input(k), Own) : k * Block < p /\ p <= (k + 1) * Block
<1> DEFINE b == k * Block   n == Block
<1>1. /\ b \in Nat /\ n \in Nat /\ (k + 1) * Block = b + n
      /\ Top \in Nat
  <2>1. \A x, y \in Nat : x * y \in Nat /\ (x + 1) * y = x * y + y
    OBVIOUS
  <2> QED
    BY <2>1, Sizes, OwnTypes
<1>2. b + n <= Top
  <2>1. (k + 1) * Block <= MaxCapture * Block
    <3>1. k + 1 \in Int /\ MaxCapture \in Int /\ k + 1 <= MaxCapture
      BY SizesAssumption
    <3> QED
      BY <3>1, Multiples
  <2> QED
    BY <1>1, <2>1 DEF Top
<1>3. Input(k) = [j \in 1 .. n |-> b + j]
  BY DEF Input
<1> HIDE DEF b, n
<1>4. \A j \in 1 .. n : b + j \in Positions
  BY <1>1, <1>2 DEF Positions
<1>5. Input(k) \in [1 .. n -> Positions]
  BY <1>3, <1>4
<1>6. Input(k) \in Seq(Positions) /\ Len(Input(k)) = n
  BY <1>1, <1>5, SeqDef
<1>7. \A j \in 1 .. n : Input(k)[j] \in DOMAIN Own /\ Own[Input(k)[j]] = b + j
  BY <1>3, <1>4 DEF Own
<1>8. Rising(Input(k), Own)
  <2> SUFFICES ASSUME NEW i \in 1 .. n, NEW j \in 1 .. n, i < j
               PROVE  Own[Input(k)[i]] < Own[Input(k)[j]]
    BY <1>6 DEF Rising
  <2>1. b + i < b + j
    BY <1>1
  <2> QED
    BY <1>7, <2>1
<1>9. \A p \in PositionsOf(Input(k), Own) : b < p /\ p <= b + n
  <2> SUFFICES ASSUME NEW p \in PositionsOf(Input(k), Own) PROVE b < p /\ p <= b + n
    OBVIOUS
  <2>1. PICK j \in 1 .. n : p = Own[Input(k)[j]]
    BY <1>6 DEF PositionsOf
  <2>2. p = b + j
    BY <1>7, <2>1
  <2> QED
    BY <1>1, <2>2
<1>10. \A p \in PositionsOf(Input(k), Own) : k * Block < p /\ p <= (k + 1) * Block
  BY <1>1, <1>9 DEF b
<1> QED
  BY <1>6, <1>8, <1>10

\* Feeding: the block goes behind everything before it, whatever the rings drop.
LEMMA FeedFlow ==
    ASSUME Inv, Sized, Flow, Feed
    PROVE  Flow'
<1> DEFINE in == Input(item)
<1>20. PICK k \in Keeps(inSrc, in), l \in Keeps(drySrc, in) :
          LET ring == AudioPush(modelRing, ModelRingUnits, Emitted(inSrc, in, k))
              dry  == WriteDropOldest(dryRing, RingFrames, Emitted(drySrc, in, l))
          IN  /\ modelRing' = ring
              /\ \/ /\ outSrc' = <<>> /\ inSrc' = <<>> /\ fed' = None /\ outRing' = Cleared(outRing)
                    /\ dryRing' = Cleared(dry) /\ drySrc' = <<>>
                 \/ /\ inSrc' = Held(inSrc, in, k) /\ dryRing' = dry /\ drySrc' = Held(drySrc, in, l)
                    /\ UNCHANGED <<outSrc, outRing, fed>>
  BY DEF Feed, ResetStreams
<1> DEFINE x == Emitted(inSrc, in, k)   h == Held(inSrc, in, k)
           y == Emitted(drySrc, in, l)   g == Held(drySrc, in, l)
           ring == AudioPush(modelRing, ModelRingUnits, x)
           dry == WriteDropOldest(dryRing, RingFrames, y)
           o == outSrc   m == Heard(modelRing)   i == inSrc   c == Coming   p == played
           m1 == Heard(ring)
<1>1. /\ wpc = "feed" /\ wpc' = "infer" /\ modelRing' = ring
      /\ \/ /\ outSrc' = <<>> /\ inSrc' = <<>> /\ fed' = None /\ outRing' = Cleared(outRing)
            /\ dryRing' = Cleared(dry) /\ drySrc' = <<>>
         \/ /\ inSrc' = h /\ dryRing' = dry /\ drySrc' = g
            /\ UNCHANGED <<outSrc, outRing, fed>>
      /\ UNCHANGED <<args, captured, item, lastIdx, yOut, played>>
  <2>1. /\ wpc = "feed" /\ wpc' = "infer"
        /\ UNCHANGED <<args, captured, item, lastIdx, yOut, played>>
    BY DEF Feed, capture, taking, policy, output
  <2> QED
    BY <1>20, <2>1, Zenon
<1>2. /\ outSrc \in Seq(Positions) /\ inSrc \in Seq(Positions) /\ drySrc \in Seq(Positions)
      /\ modelRing \in AudioOf(0 .. Top) /\ m \in Seq(Positions)
      /\ dryRing \in RingOf(0 .. Top) /\ Holds(dryRing) \in Seq(Positions)
      /\ outRing \in RingOf(Frames) /\ yOut \in Seq(Frames)
      /\ fed \in 0 .. Top /\ played \in 0 .. Top /\ args \in Args
  BY DEF Flow, Typed, Sized
<1>3. item \in Nat /\ item < MaxCapture /\ lastIdx = item
  <2>1. lastIdx = item /\ item # Nobody /\ captured <= args.blocks
    BY <1>1 DEF Flow, AtWork
  <2>2. item \in Nat /\ item < captured /\ captured \in Nat
    BY <2>1 DEF Inv, Counts, Ordered
  <2>3. args.blocks \in 0 .. MaxCapture
    BY ArgsAssumption DEF Sized
  <2> QED
    BY <2>1, <2>2, <2>3, SizesAssumption
<1>4. /\ in \in Seq(Positions) /\ Rising(in, Own)
      /\ \A q \in PositionsOf(in, Own) : item * Block < q /\ q <= (item + 1) * Block
  BY <1>3, InputIs, Zenon
<1>5. Ceiling = item * Block /\ Ceiling' = (item + 1) * Block
  BY <1>1, <1>3 DEF Ceiling
<1>6. /\ Ceiling \in Int /\ (item + 1) * Block \in Int /\ item * Block <= (item + 1) * Block
      /\ item * Block \in Int /\ Block \in Nat /\ played \in Int
  BY <1>3, CeilingType, FlowTypes, Sizes
<1>7. Orderly(o, m, i, c, p, item * Block)
  BY <1>5 DEF Flow, InSequence
<1> HIDE DEF in, c
<1>8. /\ x \in Seq(Positions) /\ h \in Seq(Positions)
      /\ PositionsOf(x, Own) \subseteq PositionsOf(i, Own) \cup PositionsOf(in, Own)
      /\ PositionsOf(h, Own) \subseteq PositionsOf(i, Own) \cup PositionsOf(in, Own)
      /\ Rising(i, Own) /\ Rising(in, Own) /\ Below(PositionsOf(i, Own), PositionsOf(in, Own))
         => /\ Rising(x, Own) /\ Rising(h, Own)
            /\ Below(PositionsOf(x, Own), PositionsOf(h, Own))
  BY <1>2, <1>4, Resampled, Zenon
<1>9. y \in Seq(Positions) /\ g \in Seq(Positions)
  BY <1>2, <1>4, Resampled, Zenon
<1> HIDE DEF x, h, y, g, m, m1, ring, dry
<1>10. PICK d \in 0 .. Len(m), e \in 0 .. Len(x) :
           m1 = SubSeq(m, d + 1, Len(m)) \o SubSeq(x, e + 1, Len(x))
  <2>1. x \in Seq(0 .. Top)
    BY <1>8, Wider
  <2> QED
    BY <1>2, <2>1, AudioPushed, Zenon DEF m, m1, ring
<1>11. /\ m1 \in Seq(Positions)
       /\ PositionsOf(m1, Own) \subseteq PositionsOf(m, Own) \cup PositionsOf(x, Own)
       /\ Rising(m, Own) /\ Rising(x, Own) /\ Below(PositionsOf(m, Own), PositionsOf(x, Own))
          => Rising(m1, Own)
  BY <1>2, <1>8, <1>10, OwnTypes, Backs, Zenon
<1>12. ring \in AudioOf(0 .. Top)
  <2>1. x \in Seq(0 .. Top)
    BY <1>8, Wider
  <2> QED
    BY <1>2, <2>1, AudioPushed, Zenon DEF ring
<1>13. dry \in RingOf(0 .. Top) /\ Holds(dry) \in Seq(Positions)
  <2>1. y \in Seq(0 .. Top)
    BY <1>9, Wider
  <2>2. dry \in RingOf(0 .. Top)
    BY <1>2, <2>1, RingWrite, Zenon DEF dry
  <2> DEFINE hd == Holds(dryRing)   v == Holds(dry)
  <2>3. PICK d2 \in 0 .. Len(hd), e2 \in 0 .. Len(y) :
           v = SubSeq(hd, d2 + 1, Len(hd)) \o SubSeq(y, e2 + 1, Len(y))
    BY <1>2, <2>1, RingWrite, Zenon DEF dry
  <2>4. hd \in Seq(Positions)
    BY <1>2
  <2> HIDE DEF hd, v
  <2>5. /\ v \in Seq(Positions)
        /\ PositionsOf(v, Own) \subseteq PositionsOf(hd, Own) \cup PositionsOf(y, Own)
    BY <1>9, <2>3, <2>4, OwnTypes, Backs, Zenon
  <2> QED
    BY <2>2, <2>5 DEF v
<1>14. Typed'
  <2>1. modelRing' \in AudioOf(0 .. Top) /\ Heard(modelRing') \in Seq(Positions)
    BY <1>1, <1>11, <1>12 DEF m1
  <2>2. /\ Cleared(dry) \in RingOf(0 .. Top) /\ Holds(Cleared(dry)) = <<>>
        /\ Cleared(outRing) \in RingOf(Frames)
    BY <1>2, <1>13, RingCleared, Zenon
  <2>3. None \in 0 .. Top
    BY OwnTypes DEF None
  <2> QED
    BY <1>1, <1>2, <1>8, <1>9, <1>13, <2>1, <2>2, <2>3, Nothing DEF Typed
<1>15. AtWork'
  BY <1>1 DEF Flow, AtWork
<1>16. Orderly(o, m1, h, c, p, (item + 1) * Block)
  <2> DEFINE O == PositionsOf(o, Own)   M == PositionsOf(m, Own)   I == PositionsOf(i, Own)
             C == PositionsOf(c, WetAt)   N == PositionsOf(in, Own)   X == PositionsOf(x, Own)
             H == PositionsOf(h, Own)   M1 == PositionsOf(m1, Own)
             t == item * Block   t1 == (item + 1) * Block
  <2>1. /\ Rising(o, Own) /\ Rising(m, Own) /\ Rising(i, Own) /\ Rising(c, WetAt)
        /\ Below(O, M) /\ Below(O \cup M, I) /\ Below({p} \cup C, O \cup M \cup I)
        /\ Below({p}, C) /\ Below({p} \cup C \cup O \cup M \cup I, {t + 1})
    BY <1>7 DEF Orderly
  <2>2. /\ X \subseteq I \cup N /\ H \subseteq I \cup N /\ M1 \subseteq M \cup X
        /\ t \in Int /\ t1 \in Int /\ t <= t1
        /\ \A q \in N : t < q /\ q <= t1
    BY <1>4, <1>6, <1>8, <1>11
  <2>3. /\ O \subseteq Int /\ M \subseteq Int /\ I \subseteq Int /\ C \subseteq Int
        /\ N \subseteq Int /\ p \in Int
    BY <1>6, OwnTypes, PositionsAreInts, Zenon
  <2>4. Below(I, N) => Rising(x, Own) /\ Rising(h, Own) /\ Below(X, H)
    BY <1>4, <1>8, <2>1, Zenon
  <2>5. Below(M, X) /\ Rising(x, Own) => Rising(m1, Own)
    BY <1>11, <2>1, Zenon
  <2> HIDE DEF O, M, I, C, N, X, H, M1, t, t1
  <2>6. Below({p} \cup C \cup O \cup M \cup I, N)
    <3> SUFFICES ASSUME NEW a \in {p} \cup C \cup O \cup M \cup I, NEW q \in N PROVE a < q
      BY DEF Below
    <3>1. a < t + 1 /\ a \in Int
      BY <2>1, <2>3 DEF Below
    <3> QED
      BY <2>2, <2>3, <3>1
  <2>7. Below(I, N) /\ Below(M, X)
    BY <2>1, <2>2, <2>6 DEF Below
  <2>8. Below(O, M1) /\ Below(O \cup M1, H) /\ Below({p} \cup C, O \cup M1 \cup H)
    BY <2>1, <2>2, <2>4, <2>6, <2>7 DEF Below
  <2>9. Below({p} \cup C \cup O \cup M1 \cup H, {t1 + 1})
    <3> SUFFICES ASSUME NEW a \in {p} \cup C \cup O \cup M1 \cup H PROVE a < t1 + 1
      BY DEF Below
    <3>1. a \in {p} \cup C \cup O \cup M \cup I \/ a \in N
      BY <2>2
    <3>2. CASE a \in {p} \cup C \cup O \cup M \cup I
      <4>1. a < t + 1 /\ a \in Int
        BY <2>1, <2>3, <3>2 DEF Below
      <4> QED
        BY <2>2, <4>1
    <3>3. CASE a \in N
      BY <2>2, <2>3, <3>3
    <3> QED
      BY <3>1, <3>2, <3>3
  <2> QED
    BY <2>1, <2>4, <2>5, <2>7, <2>8, <2>9 DEF Orderly, O, M1, H, C, t1
<1>17. /\ Rising(outSrc', Own) /\ Rising(inSrc', Own) /\ Rising(Coming', WetAt)
       /\ PositionsOf(outSrc', Own) \subseteq PositionsOf(o, Own)
       /\ PositionsOf(inSrc', Own) \subseteq PositionsOf(h, Own)
       /\ PositionsOf(Coming', WetAt) \subseteq PositionsOf(c, WetAt)
  <2>1. Rising(o, Own) /\ Rising(h, Own) /\ Rising(c, WetAt)
    BY <1>16 DEF Orderly
  <2>2. \A pos : Rising(<<>>, pos) /\ PositionsOf(<<>>, pos) = {}
    BY NothingRises
  <2>3. (outSrc' = o /\ inSrc' = h) \/ (outSrc' = <<>> /\ inSrc' = <<>>)
    BY <1>1
  <2>4. Coming' = c \/ Coming' = <<>>
    <3>1. outRing' \in RingOf(Frames) /\ yOut' \in Seq(Frames) /\ wpc # "write" /\ wpc' # "write"
      BY <1>1, <1>14 DEF Typed
    <3>2. Coming' = Holds(outRing') /\ c = Holds(outRing)
      BY <1>2, <3>1, ComingIs DEF Coming, c
    <3>3. Holds(Cleared(outRing)) = <<>>
      BY <1>2, RingCleared
    <3> QED
      BY <1>1, <3>2, <3>3
  <2> QED
    BY <2>1, <2>2, <2>3, <2>4
<1>18. Orderly(outSrc', m1, inSrc', Coming', p, (item + 1) * Block)
  <2> DEFINE t == (item + 1) * Block
  <2>1. t \in Int /\ p \in Int
    BY <1>6
  <2> HIDE DEF t
  <2>2. Orderly(o, m1, h, c, p, t)
    BY <1>16 DEF t
  <2>3. Orderly(outSrc', m1, inSrc', Coming', p, t)
    BY <1>17, <2>1, <2>2, OrderlyLeft, Zenon
  <2> QED
    BY <2>3 DEF t
<1>19. InSequence'
  BY <1>1, <1>5, <1>18, Zenon DEF InSequence, m1
<1> QED
  BY <1>14, <1>15, <1>19 DEF Flow

-----------------------------------------------------------------------------
(* The callback.                                                           *)

\* The fill is sound that was recorded, or silence: no processed sound.
LEMMA FillIs ==
    ASSUME Sized, NEW n \in Nat, NEW r \in RingOf(0 .. Top), Holds(r) \in Seq(Positions)
    PROVE  /\ Fill(n, r) \in Seq(Frames)
           /\ \A j \in 1 .. Len(Fill(n, r)) : Fill(n, r)[j] \notin DOMAIN WetAt
<1>1. args.overload \in {"dry_fill", "silence_fill", "strict"}
  BY ArgsAssumption DEF Sized
<1>2. Zero \in Frames /\ Zero \notin DOMAIN WetAt
  BY OwnTypes DEF Frames, Zero
<1>3. \A q \in Positions : Dry(q) \in Frames /\ Dry(q) \notin DOMAIN WetAt
  BY OwnTypes DEF Frames, Dry, Positions, Top
<1>4. CASE args.overload = "strict"
  <2>1. Fill(n, r) = <<>>
    BY <1>4 DEF Fill
  <2> QED
    BY <2>1, Nothing
<1>5. CASE args.overload # "strict"
  <2> DEFINE f == Fill(n, r)
  <2>1. \A j \in 1 .. n : f[j] \in Frames /\ f[j] \notin DOMAIN WetAt
    <3>1. CASE args.overload = "silence_fill"
      <4>1. f = [j \in 1 .. n |-> Zero]
        BY <3>1 DEF Fill
      <4> QED
        BY <1>2, <4>1
    <3>2. CASE args.overload = "dry_fill"
      <4> DEFINE s == Slice(r.buf, RingFrames, r.read, n)
      <4>1. f = [j \in 1 .. n |-> IF j <= r.size THEN Dry(s[j]) ELSE Zero]
        BY <3>2 DEF Fill
      <4>2. \A j \in 1 .. n : j <= r.size => s[j] \in Positions
        <5> DEFINE h == Holds(r)   b == r.buf   rd == r.read   sz == r.size   cap == RingFrames
        <5>1. /\ cap \in Nat \ {0} /\ rd \in 0 .. cap - 1 /\ sz \in Nat
              /\ h = Slice(b, cap, rd, sz) /\ Len(h) = sz
          BY RingSizes, RingParts, RingHolds DEF Holds, OutputContents
        <5> HIDE DEF b, rd, sz, cap
        <5>8. cap \in Nat \ {0} /\ rd \in 0 .. cap - 1 /\ sz \in Nat
          BY <5>1
        <5>9. h = Slice(b, cap, rd, sz)
          BY <5>1
        <5>2. \A j \in 1 .. n : Slice(b, cap, rd, n)[j] = b[(rd + (j - 1)) % cap]
          BY <5>8, SliceIs
        <5>3. \A j \in 1 .. sz : Slice(b, cap, rd, sz)[j] = b[(rd + (j - 1)) % cap]
          BY <5>8, SliceIs
        <5>6. s = Slice(b, cap, rd, n)
          BY DEF b, cap, rd
        <5> HIDE DEF h, s
        <5>4. \A j \in 1 .. sz : h[j] \in Positions
          <6>1. h \in Seq(Positions)
            BY DEF h
          <6> QED
            BY <5>1, <6>1
        <5>5. \A j \in 1 .. n : j <= sz => j \in 1 .. sz
          BY <5>1
        <5>7. \A j \in 1 .. n : j <= sz => s[j] \in Positions
          BY <5>9, <5>2, <5>3, <5>4, <5>5, <5>6, Zenon
        <5> QED
          BY <5>7, Zenon DEF sz
      <4> HIDE DEF s
      <4>3. ASSUME NEW j \in 1 .. n PROVE f[j] = Zero \/ \E q \in Positions : f[j] = Dry(q)
        BY <4>1, <4>2
      <4> HIDE DEF f
      <4> QED
        BY <1>2, <1>3, <4>3
    <3> QED
      BY <1>1, <1>5, <3>1, <3>2
  <2>2. f = [j \in 1 .. n |-> f[j]]
    BY <1>1, <1>5 DEF Fill
  <2> HIDE DEF f
  <2>3. f \in [1 .. n -> Frames]
    BY <2>1, <2>2
  <2>4. f \in Seq(Frames) /\ Len(f) = n
    BY <2>3, SeqDef
  <2> QED
    BY <2>1, <2>4 DEF f
<1> QED
  BY <1>4, <1>5

LEMMA WetsIs ==
    ASSUME NEW s \in Seq(Positions)
    PROVE  LET w == [j \in 1 .. Len(s) |-> Wet(s[j])]
           IN  /\ w \in Seq(Frames)
               /\ PositionsOf(w, WetAt) = PositionsOf(s, Own)
               /\ Rising(s, Own) => Rising(w, WetAt)
<1> DEFINE n == Len(s)   w == [j \in 1 .. n |-> Wet(s[j])]
<1>1. n \in Nat /\ \A j \in 1 .. n : s[j] \in Positions
  OBVIOUS
<1>2. \A q \in Positions : /\ Wet(q) \in Frames /\ Wet(q) \in DOMAIN WetAt /\ WetAt[Wet(q)] = q
                           /\ q \in DOMAIN Own /\ Own[q] = q
  BY DEF Frames, Wet, Positions, Top, Own, WetAt
<1> HIDE DEF n
<1>3. \A j \in 1 .. n : w[j] = Wet(s[j])
  OBVIOUS
<1>4. w \in [1 .. n -> Frames]
  BY <1>1, <1>2
<1>5. w \in Seq(Frames) /\ Len(w) = n
  BY <1>1, <1>4, SeqDef
<1> HIDE DEF w
<1>6. \A j \in 1 .. n : /\ w[j] \in DOMAIN WetAt /\ s[j] \in DOMAIN Own /\ WetAt[w[j]] = Own[s[j]]
  BY <1>1, <1>2, <1>3
<1>7. PositionsOf(w, WetAt) = PositionsOf(s, Own)
  BY <1>5, <1>6 DEF PositionsOf, n
<1>8. Rising(s, Own) => Rising(w, WetAt)
  BY <1>5, <1>6 DEF Rising, n
<1> QED
  BY <1>5, <1>7, <1>8 DEF w, n

LEMMA NoPositions ==
    ASSUME NEW s, NEW pos, \A j \in 1 .. Len(s) : s[j] \notin DOMAIN pos
    PROVE  Rising(s, pos) /\ PositionsOf(s, pos) = {}
BY DEF Rising, PositionsOf

\* The callback takes from the front of what is coming.
LEMMA TakeFlow ==
    ASSUME Flow, OutputCallback
    PROVE  Flow'
<1> DEFINE taken == Taken(outRing, RingFrames, Block)   h == Holds(outRing)   h1 == Holds(outRing')
           wets == {taken[j].at : j \in {k \in DOMAIN taken : taken[k].kind = "wet"}}
           C == PositionsOf(Coming, WetAt)   C1 == PositionsOf(Coming', WetAt)
           T == PositionsOf(taken, WetAt)
           U == PositionsOf(outSrc, Own) \cup PositionsOf(Heard(modelRing), Own)
                \cup PositionsOf(inSrc, Own)
<1>1. /\ outRing' = AfterTaking(outRing, RingFrames, Block)
      /\ played' = (IF wets = {} THEN played ELSE CHOOSE p \in wets : \A q \in wets : q <= p)
      /\ UNCHANGED <<args, captured, item, lastIdx, wpc, outSrc, inSrc, drySrc, modelRing, dryRing,
                     yOut, fed>>
  BY DEF OutputCallback, capture, taking, policy, resample, model
<1>2. outRing \in RingOf(Frames) /\ yOut \in Seq(Frames) /\ h \in Seq(Frames) /\ played \in 0 .. Top
  BY RingHolds DEF Flow, Typed
<1>3. PICK k \in 0 .. Len(h) : /\ outRing' \in RingOf(Frames)
                               /\ taken = SubSeq(h, 1, k)
                               /\ h1 = SubSeq(h, k + 1, Len(h))
  <2>1. Block \in Nat
    BY Sizes
  <2> QED
    BY <1>1, <1>2, <2>1, RingTake, Zenon
<1>4. /\ Rising(outSrc, Own) /\ Rising(Heard(modelRing), Own) /\ Rising(inSrc, Own)
      /\ Rising(Coming, WetAt)
      /\ Below(PositionsOf(outSrc, Own), PositionsOf(Heard(modelRing), Own))
      /\ Below(PositionsOf(outSrc, Own) \cup PositionsOf(Heard(modelRing), Own), PositionsOf(inSrc, Own))
      /\ Below({played} \cup C, U)
      /\ Below({played}, C)
      /\ Below({played} \cup C \cup PositionsOf(outSrc, Own) \cup PositionsOf(Heard(modelRing), Own)
                   \cup PositionsOf(inSrc, Own), {Ceiling + 1})
  BY DEF Flow, InSequence, Orderly
<1> HIDE DEF h, h1, taken, wets, C, C1, T
<1>5. /\ taken \in Seq(Frames) /\ h1 \in Seq(Frames)
      /\ T \subseteq PositionsOf(h, WetAt)
      /\ PositionsOf(h1, WetAt) \subseteq PositionsOf(h, WetAt)
      /\ Rising(h, WetAt) => /\ Rising(taken, WetAt) /\ Rising(h1, WetAt)
                             /\ Below(T, PositionsOf(h1, WetAt))
  BY <1>2, <1>3, OwnTypes, Split, Zenon DEF T
<1>6. /\ wpc = "write" => Coming = h \o yOut /\ Coming' = h1 \o yOut
      /\ wpc # "write" => Coming = h /\ Coming' = h1
  BY <1>1, <1>2, <1>3, ComingIs DEF Coming, h, h1
<1>7. /\ T \subseteq C /\ C1 \subseteq C /\ Rising(Coming', WetAt) /\ Below(T, C1)
  <2>1. CASE wpc # "write"
    BY <1>4, <1>5, <1>6, <2>1 DEF C, C1
  <2>2. CASE wpc = "write"
    <3> DEFINE H == PositionsOf(h, WetAt)   H1 == PositionsOf(h1, WetAt)   Y == PositionsOf(yOut, WetAt)
    <3>1. Coming = h \o yOut /\ Coming' = h1 \o yOut
      BY <1>6, <2>2
    <3>2. Rising(h \o yOut, WetAt)
      BY <1>4, <3>1, Zenon
    <3>3. Rising(h, WetAt) /\ Rising(yOut, WetAt) /\ Below(H, Y)
      BY <1>2, <3>2, OwnTypes, Parted, Zenon
    <3>4. PositionsOf(h \o yOut, WetAt) = H \cup Y
      BY <1>2, OwnTypes, Joined
    <3>5. PositionsOf(h1 \o yOut, WetAt) = H1 \cup Y
      BY <1>2, <1>5, OwnTypes, Joined
    <3>6. H1 \subseteq H /\ T \subseteq H /\ Below(T, H1) /\ Rising(h1, WetAt)
      BY <1>5, <3>3
    <3> HIDE DEF H, H1, Y
    <3>7. Below(H1, Y) /\ Below(T, H1 \cup Y)
      BY <3>3, <3>6 DEF Below
    <3>8. Rising(h1 \o yOut, WetAt)
      BY <1>2, <1>5, <3>3, <3>6, <3>7, OwnTypes, Joined, Zenon DEF H1, Y
    <3>9. C = H \cup Y /\ C1 = H1 \cup Y
      BY <3>1, <3>4, <3>5 DEF C, C1
    <3> QED
      BY <3>1, <3>6, <3>7, <3>8, <3>9
  <2> QED
    BY <2>1, <2>2
<1>8. wets = T /\ T \subseteq Positions
  <2>1. \A j \in 1 .. Len(taken) : taken[j] \in Frames
    BY <1>5
  <2>2. DOMAIN taken = 1 .. Len(taken)
    BY <1>5
  <2>3. \A x \in Frames : (x.kind = "wet" <=> x \in DOMAIN WetAt)
                          /\ (x \in DOMAIN WetAt => WetAt[x] = x.at /\ x.at \in Positions)
    <3> SUFFICES ASSUME NEW x \in Frames
                 PROVE  (x.kind = "wet" <=> x \in DOMAIN WetAt)
                        /\ (x \in DOMAIN WetAt => WetAt[x] = x.at /\ x.at \in Positions)
      OBVIOUS
    <3>1. x.kind = "wet" => x.at \in Positions
      <4>1. x = Zero \/ x \in [kind : {"wet", "dry"}, at : 1 .. MaxCapture * Block]
        BY DEF Frames
      <4> QED
        BY <4>1 DEF Zero, Positions, Top
    <3> QED
      BY <3>1 DEF WetAt
  <2>4. wets = T
    BY <2>1, <2>2, <2>3 DEF wets, T, PositionsOf
  <2>5. T \subseteq Positions
    BY <2>1, <2>3 DEF T, PositionsOf
  <2> QED
    BY <2>4, <2>5
<1>9. played' = played \/ played' \in T
  <2>1. CASE wets = {}
    BY <1>1, <2>1
  <2>2. CASE wets # {}
    <3> DEFINE S == {Top - p : p \in T}
    <3>1. T # {} /\ \A p \in T : p \in Nat /\ Top - p \in Nat /\ p <= Top
      BY <1>8, <2>2, OwnTypes DEF Positions
    <3>2. S \in SUBSET Nat /\ S # {}
      BY <3>1
    <3>3. PICK n \in S : \A q \in S : n <= q
      BY <3>2, LeastElement
    <3>4. PICK p \in T : n = Top - p
      BY <3>3
    <3>5. \A q \in T : q <= p
      <4> SUFFICES ASSUME NEW q \in T PROVE q <= p
        OBVIOUS
      <4>1. Top - p <= Top - q
        BY <3>3, <3>4
      <4> QED
        BY <3>1, <4>1, OwnTypes
    <3> HIDE DEF S
    <3>6. (CHOOSE z \in T : \A q \in T : q <= z) \in T
      BY <3>5
    <3> QED
      BY <1>1, <1>8, <2>2, <3>6, Zenon
  <2> QED
    BY <2>1, <2>2
<1>10. Typed'
  <2>1. played' \in 0 .. Top
    BY <1>2, <1>8, <1>9, OwnTypes
  <2> QED
    BY <1>1, <1>3, <2>1 DEF Flow, Typed
<1>11. AtWork'
  BY <1>1 DEF Flow, AtWork
<1>12. Below({played'} \cup C1, U) /\ Below({played'}, C1)
  <2>1. played' \in {played} \cup C
    BY <1>7, <1>9
  <2>2. Below({played'}, C1)
    BY <1>4, <1>7, <1>9 DEF Below
  <2> HIDE DEF U
  <2>3. Below({played'} \cup C1, U)
    BY <1>4, <1>7, <2>1 DEF Below
  <2> QED
    BY <2>2, <2>3
<1>13. Ceiling' = Ceiling
  BY <1>1 DEF Ceiling
<1>14. Below({played'} \cup C1 \cup PositionsOf(outSrc, Own) \cup PositionsOf(Heard(modelRing), Own)
                 \cup PositionsOf(inSrc, Own), {Ceiling + 1})
  <2> HIDE DEF U
  <2>1. played' \in {played} \cup C
    BY <1>7, <1>9
  <2> QED
    BY <1>4, <1>7, <2>1 DEF Below
<1>15. Orderly(outSrc, Heard(modelRing), inSrc, Coming', played', Ceiling)
  BY <1>4, <1>7, <1>12, <1>14 DEF Orderly, C1
<1>16. InSequence'
  BY <1>1, <1>13, <1>15, Zenon DEF InSequence
<1> QED
  BY <1>10, <1>11, <1>16 DEF Flow

-----------------------------------------------------------------------------
(* Inference.                                                              *)

\* The dry ring, after frames have been taken from it.
LEMMA DryTaken ==
    ASSUME NEW r \in RingOf(0 .. Top), Holds(r) \in Seq(Positions), NEW n \in Nat
    PROVE  /\ AfterTaking(r, RingFrames, n) \in RingOf(0 .. Top)
           /\ Holds(AfterTaking(r, RingFrames, n)) \in Seq(Positions)
<1> DEFINE q == AfterTaking(r, RingFrames, n)   h == Holds(r)   h1 == Holds(q)
<1>1. PICK k \in 0 .. Len(h) : q \in RingOf(0 .. Top) /\ h1 = SubSeq(h, k + 1, Len(h))
  BY RingTake, Zenon
<1>2. h \in Seq(Positions)
  OBVIOUS
<1> HIDE DEF q, h, h1
<1>3. h1 \in Seq(Positions)
  BY <1>1, <1>2, OwnTypes, Split, Zenon
<1> QED
  BY <1>1, <1>3 DEF q, h1

\* What the model is given: the front of its ring goes through the resampler.
LEMMA Inferred ==
    ASSUME NEW o \in Seq(Positions), NEW m \in Seq(Positions), NEW n \in 0 .. Len(m), NEW c, NEW i,
           NEW p \in Int, NEW t \in Int,
           Orderly(o, m, i, c, p, t), args \in Args, NEW k \in Keeps(o, SubSeq(m, 1, n))
    PROVE  LET f == SubSeq(m, 1, n)
               w == Emitted(o, f, k)
           IN  /\ f \in Seq(Positions) /\ w \in Seq(Positions) /\ Held(o, f, k) \in Seq(Positions)
               /\ Rising(w, Own) /\ Rising(Held(o, f, k), Own) /\ Rising(SubSeq(m, n + 1, Len(m)), Own)
               /\ Below(PositionsOf(w, Own), PositionsOf(Held(o, f, k), Own))
               /\ Below(PositionsOf(w, Own) \cup PositionsOf(Held(o, f, k), Own),
                        PositionsOf(SubSeq(m, n + 1, Len(m)), Own))
               /\ PositionsOf(w, Own) \cup PositionsOf(Held(o, f, k), Own) \cup
                  PositionsOf(SubSeq(m, n + 1, Len(m)), Own)
                      \subseteq PositionsOf(o, Own) \cup PositionsOf(m, Own)
<1> DEFINE f == SubSeq(m, 1, n)   b == SubSeq(m, n + 1, Len(m))
           w == Emitted(o, f, k)   h == Held(o, f, k)
           O == PositionsOf(o, Own)   M == PositionsOf(m, Own)   F == PositionsOf(f, Own)
           B == PositionsOf(b, Own)   W == PositionsOf(w, Own)   H == PositionsOf(h, Own)
<1>1. Rising(o, Own) /\ Rising(m, Own) /\ Below(O, M)
  BY DEF Orderly
<1>2. /\ f \in Seq(Positions) /\ b \in Seq(Positions)
      /\ F \subseteq M /\ B \subseteq M
      /\ Rising(f, Own) /\ Rising(b, Own) /\ Below(F, B)
  BY <1>1, OwnTypes, Split, Zenon
<1>6. k \in Keeps(o, f)
  OBVIOUS
<1> HIDE DEF f, b
<1>3. Below(O, F)
  BY <1>1, <1>2 DEF Below
<1>4. /\ w \in Seq(Positions) /\ h \in Seq(Positions)
      /\ W \subseteq O \cup F /\ H \subseteq O \cup F
      /\ Rising(w, Own) /\ Rising(h, Own) /\ Below(W, H)
  BY <1>1, <1>2, <1>3, <1>6, Resampled, Zenon
<1> HIDE DEF O, M, F, B, W, H, w, h
<1>5. Below(W \cup H, B) /\ W \cup H \cup B \subseteq O \cup M
  BY <1>1, <1>2, <1>4 DEF Below
<1> QED
  BY <1>2, <1>4, <1>5 DEF f, b, O, M, F, B, W, H, w, h

\* The order, when o and m give w, o1 and m1, and w goes to the card.
LEMMA OrderlyOn ==
    ASSUME NEW o, NEW m, NEW i, NEW c, NEW p \in Int, NEW t \in Int, Orderly(o, m, i, c, p, t),
           NEW w, NEW o1, NEW m1, NEW c1,
           Rising(w, Own), Rising(o1, Own), Rising(m1, Own), Rising(c1, WetAt),
           Below(PositionsOf(w, Own), PositionsOf(o1, Own)),
           Below(PositionsOf(w, Own) \cup PositionsOf(o1, Own), PositionsOf(m1, Own)),
           PositionsOf(w, Own) \cup PositionsOf(o1, Own) \cup PositionsOf(m1, Own)
               \subseteq PositionsOf(o, Own) \cup PositionsOf(m, Own),
           PositionsOf(c1, WetAt) \subseteq PositionsOf(c, WetAt) \cup PositionsOf(w, Own)
    PROVE  Orderly(o1, m1, i, c1, p, t)
<1> DEFINE O == PositionsOf(o, Own)   M == PositionsOf(m, Own)   I == PositionsOf(i, Own)
           C == PositionsOf(c, WetAt)   W == PositionsOf(w, Own)
           O1 == PositionsOf(o1, Own)   M1 == PositionsOf(m1, Own)   C1 == PositionsOf(c1, WetAt)
<1>1. /\ Rising(i, Own)
      /\ Below(O \cup M, I) /\ Below({p} \cup C, O \cup M \cup I) /\ Below({p}, C)
      /\ Below({p} \cup C \cup O \cup M \cup I, {t + 1})
  BY DEF Orderly
<1>2. /\ Below(W, O1) /\ Below(W \cup O1, M1) /\ W \cup O1 \cup M1 \subseteq O \cup M
      /\ C1 \subseteq C \cup W
  OBVIOUS
<1> HIDE DEF O, M, I, C, W, O1, M1, C1
<1>3. Below(O1, M1) /\ Below(O1 \cup M1, I) /\ Below({p}, C1)
  BY <1>1, <1>2 DEF Below
<1>4. Below({p} \cup C1, O1 \cup M1 \cup I)
  <2> SUFFICES ASSUME NEW a \in {p} \cup C1, NEW b \in O1 \cup M1 \cup I PROVE a < b
    BY DEF Below
  <2>1. CASE a \in {p} \cup C
    BY <1>1, <1>2, <2>1 DEF Below
  <2>2. CASE a \in W
    BY <1>1, <1>2, <2>2 DEF Below
  <2> QED
    BY <1>2, <2>1, <2>2
<1>5. Below({p} \cup C1 \cup O1 \cup M1 \cup I, {t + 1})
  BY <1>1, <1>2 DEF Below
<1> QED
  BY <1>1, <1>3, <1>4, <1>5 DEF Orderly, I, O1, M1, C1

LEMMA WetsJoined ==
    ASSUME NEW s \in Seq(Frames), NEW t \in Seq(Frames)
    PROVE  PositionsOf(s \o t, WetAt) = PositionsOf(s, WetAt) \cup PositionsOf(t, WetAt)
BY OwnTypes, Joined

\* What comes is what waits in the ring, the processed sound and the fill.
LEMMA MadeOf ==
    ASSUME NEW h \in Seq(Frames), NEW w \in Seq(Positions), NEW fill \in Seq(Frames),
           \A j \in 1 .. Len(fill) : fill[j] \notin DOMAIN WetAt,
           Rising(h, WetAt), Rising(w, Own),
           Below(PositionsOf(h, WetAt), PositionsOf(w, Own))
    PROVE  LET y == [j \in 1 .. Len(w) |-> Wet(w[j])] \o fill
           IN  /\ y \in Seq(Frames)
               /\ Rising(h \o y, WetAt)
               /\ PositionsOf(h \o y, WetAt) = PositionsOf(h, WetAt) \cup PositionsOf(w, Own)
<1> DEFINE told == [j \in 1 .. Len(w) |-> Wet(w[j])]   y == told \o fill
<1>1. /\ told \in Seq(Frames) /\ PositionsOf(told, WetAt) = PositionsOf(w, Own)
      /\ Rising(told, WetAt)
  BY WetsIs
<1>2. Rising(fill, WetAt) /\ PositionsOf(fill, WetAt) = {}
  BY NoPositions
<1> HIDE DEF told
<1>3. Below(PositionsOf(told, WetAt), PositionsOf(fill, WetAt))
  BY <1>2 DEF Below
<1>4. y \in Seq(Frames) /\ Rising(y, WetAt)
  BY <1>1, <1>2, <1>3, OwnTypes, Joined, Zenon
<1>8. PositionsOf(y, WetAt) = PositionsOf(told, WetAt) \cup PositionsOf(fill, WetAt)
  BY <1>1, WetsJoined
<1> HIDE DEF y
<1>5. PositionsOf(y, WetAt) = PositionsOf(w, Own)
  BY <1>1, <1>2, <1>8
<1>6. Below(PositionsOf(h, WetAt), PositionsOf(y, WetAt))
  BY <1>5
<1>7. Rising(h \o y, WetAt)
  BY <1>4, <1>6, OwnTypes, Joined, Zenon
<1>9. PositionsOf(h \o y, WetAt) = PositionsOf(h, WetAt) \cup PositionsOf(y, WetAt)
  BY <1>4, WetsJoined
<1> QED
  BY <1>4, <1>5, <1>7, <1>9 DEF y, told

LEMMA InferFlow ==
    ASSUME Inv, Sized, Flow, Infer
    PROVE  Flow'
<1>1. PICK sustainable \in args.affords :
        LET steps   == AtMost(StepBudget(sustainable), modelRing.size \div Chunk)
            frames  == AudioFront(modelRing, ModelRingUnits, steps * Chunk)
            missing == IF args.overload = "strict" THEN 0 ELSE (Hops - steps) * Chunk
        IN  /\ modelRing' = AudioPop(modelRing, steps * Chunk)
            /\ fed' = IF steps > 0 THEN frames[steps * Chunk] ELSE fed
            /\ \E k \in Keeps(outSrc, frames) :
                LET wet   == IF steps > 0 THEN Emitted(outSrc, frames, k) ELSE <<>>
                    mixed == IF args.mix /\ steps > 0
                             THEN AfterTaking(dryRing, RingFrames, Len(wet)) ELSE dryRing
                IN  /\ outSrc' = IF steps > 0 THEN Held(outSrc, frames, k) ELSE outSrc
                    /\ yOut' = [i \in 1 .. Len(wet) |-> Wet(wet[i])] \o Fill(missing, mixed)
                    /\ \/ dryRing' = AfterTaking(mixed, RingFrames, missing)
                       \/ dryRing' = mixed
  BY DEF Infer
<1>2. /\ wpc = "infer" /\ wpc' = "write"
      /\ UNCHANGED <<args, captured, item, lastIdx, inSrc, drySrc, outRing, played>>
  BY DEF Infer, capture, taking
<1> DEFINE
      budget  == StepBudget(sustainable)
      size    == modelRing.size
      steps   == AtMost(budget, size \div Chunk)
      units   == steps * Chunk
      frames  == AudioFront(modelRing, ModelRingUnits, units)
      missing == IF args.overload = "strict" THEN 0 ELSE (Hops - steps) * Chunk
<1>30. PICK held \in Keeps(outSrc, frames) :
        LET wet   == IF steps > 0 THEN Emitted(outSrc, frames, held) ELSE <<>>
            mixed == IF args.mix /\ steps > 0
                     THEN AfterTaking(dryRing, RingFrames, Len(wet)) ELSE dryRing
        IN  /\ outSrc' = IF steps > 0 THEN Held(outSrc, frames, held) ELSE outSrc
            /\ yOut' = [i \in 1 .. Len(wet) |-> Wet(wet[i])] \o Fill(missing, mixed)
            /\ dryRing' = AfterTaking(mixed, RingFrames, missing) \/ dryRing' = mixed
  BY <1>1, Zenon
<1> DEFINE
      wet     == IF steps > 0 THEN Emitted(outSrc, frames, held) ELSE <<>>
      mixed   == IF args.mix /\ steps > 0
                 THEN AfterTaking(dryRing, RingFrames, Len(wet)) ELSE dryRing
      told    == [j \in 1 .. Len(wet) |-> Wet(wet[j])]
      fill    == Fill(missing, mixed)
      o == outSrc   m == Heard(modelRing)   i == inSrc   p == played   t == Ceiling
      m1 == SubSeq(m, units + 1, Len(m))   h == Holds(outRing)
<1>3. /\ modelRing' = AudioPop(modelRing, units)
      /\ outSrc' = IF steps > 0 THEN Held(o, frames, held) ELSE o
      /\ fed' = IF steps > 0 THEN frames[units] ELSE fed
      /\ yOut' = told \o fill
      /\ dryRing' = AfterTaking(mixed, RingFrames, missing) \/ dryRing' = mixed
  BY <1>1, <1>30, Zenon
<1>4. /\ o \in Seq(Positions) /\ i \in Seq(Positions) /\ drySrc \in Seq(Positions)
      /\ modelRing \in AudioOf(0 .. Top) /\ m \in Seq(Positions)
      /\ dryRing \in RingOf(0 .. Top) /\ Holds(dryRing) \in Seq(Positions)
      /\ outRing \in RingOf(Frames) /\ yOut \in Seq(Frames)
      /\ fed \in 0 .. Top /\ p \in 0 .. Top /\ args \in Args
  BY DEF Flow, Typed, Sized
<1>5. Ceiling' = t /\ t \in Int /\ p \in Int
  BY <1>2, CeilingType, FlowTypes DEF Ceiling
<1>6. h \in Seq(Frames) /\ Coming = h
  <2>1. wpc # "write"
    BY <1>2
  <2> QED
    BY <1>4, <2>1, RingHolds, ComingIs DEF Coming
<1>7. Orderly(o, m, i, h, p, t)
  BY <1>6 DEF Flow, InSequence
<1>8. m \in Seq(Positions) /\ Len(m) = size /\ size \in Nat
  BY <1>4, AudioHolds
<1>9. budget \in Nat /\ budget <= Hops
  <2>1. sustainable \in Nat
    <3>1. args.affords \subseteq 0 .. Hops
      BY ArgsAssumption DEF Sized
    <3> QED
      BY <3>1
  <2> QED
    BY <2>1, Sizes DEF StepBudget, AtMost
<1> HIDE DEF budget, size, t
<1>10. steps \in Nat /\ steps <= Hops /\ steps <= size \div Chunk
  <2> DEFINE q == size \div Chunk
  <2>1. q \in Nat
    BY <1>8, Sizes
  <2> HIDE DEF q
  <2>2. AtMost(budget, q) \in Nat /\ AtMost(budget, q) <= budget /\ AtMost(budget, q) <= q
    BY <1>9, <2>1, AtMostTypes
  <2> QED
    BY <1>9, <2>2, Sizes DEF q
<1> HIDE DEF steps
<1>11. units \in Nat /\ units <= size /\ units \in 0 .. size /\ units \in 0 .. Len(m)
  <2>1. units \in Nat /\ units <= size
    BY <1>8, <1>10, HopsFit
  <2> QED
    BY <1>8, <2>1
<1>12. steps > 0 => units \in 1 .. size
  BY <1>8, <1>10, <1>11, Sizes DEF units
<1>13. missing \in Nat
  <2>1. Hops - steps \in Nat /\ Chunk \in Nat
    BY <1>10, Sizes
  <2>2. \A a, b \in Nat : a * b \in Nat
    OBVIOUS
  <2> QED
    BY <2>1, <2>2
<1> HIDE DEF units, missing
<1>14. /\ modelRing' \in AudioOf(0 .. Top) /\ Heard(modelRing') = m1
       /\ frames = SubSeq(m, 1, units)
  BY <1>3, <1>4, <1>11, AudioTake, Zenon DEF size
<1>31. held \in Keeps(o, SubSeq(m, 1, units))
  BY <1>14, Zenon
<1> HIDE DEF frames, m1
<1> DEFINE w == Emitted(o, frames, held)   k == Held(o, frames, held)
<1>15. /\ frames \in Seq(Positions) /\ w \in Seq(Positions) /\ k \in Seq(Positions)
       /\ Rising(w, Own) /\ Rising(k, Own) /\ Rising(m1, Own)
       /\ Below(PositionsOf(w, Own), PositionsOf(k, Own))
       /\ Below(PositionsOf(w, Own) \cup PositionsOf(k, Own), PositionsOf(m1, Own))
       /\ PositionsOf(w, Own) \cup PositionsOf(k, Own) \cup PositionsOf(m1, Own)
              \subseteq PositionsOf(o, Own) \cup PositionsOf(m, Own)
  BY <1>4, <1>5, <1>7, <1>11, <1>14, <1>31, Inferred DEF m1
<1> HIDE DEF w, k, m, h
<1>16. m1 \in Seq(Positions)
  <2>1. 0 .. Len(m) \subseteq Int /\ units \in 0 .. Len(m)
    BY <1>11
  <2> QED
    BY <1>8, <2>1, OwnTypes, Split, Zenon DEF m1
<1>17. /\ wet \in Seq(Positions) /\ outSrc' \in Seq(Positions)
       /\ Rising(wet, Own) /\ Rising(outSrc', Own)
       /\ Below(PositionsOf(wet, Own), PositionsOf(outSrc', Own))
       /\ Below(PositionsOf(wet, Own) \cup PositionsOf(outSrc', Own), PositionsOf(m1, Own))
       /\ PositionsOf(wet, Own) \cup PositionsOf(outSrc', Own) \cup PositionsOf(m1, Own)
              \subseteq PositionsOf(o, Own) \cup PositionsOf(m, Own)
  <2>1. CASE steps > 0
    <3>1. wet = w /\ outSrc' = k
      BY <1>3, <2>1 DEF w, k
    <3> QED
      BY <1>15, <3>1
  <2>2. CASE ~(steps > 0)
    <3>1. wet = <<>> /\ outSrc' = o
      BY <1>3, <2>2
    <3>2. Rising(<<>>, Own) /\ PositionsOf(<<>>, Own) = {} /\ <<>> \in Seq(Positions)
      BY NothingRises, Nothing
    <3>3. Rising(o, Own) /\ Below(PositionsOf(o, Own), PositionsOf(m, Own))
      BY <1>7 DEF Orderly
    <3>4. PositionsOf(m1, Own) \subseteq PositionsOf(m, Own)
      BY <1>8, <1>11, OwnTypes, Split, Zenon DEF m1
    <3> HIDE DEF wet
    <3> QED
      BY <1>4, <3>1, <3>2, <3>3, <3>4 DEF Below
  <2> QED
    BY <2>1, <2>2
<1> HIDE DEF wet
<1>18. Below(PositionsOf(h, WetAt), PositionsOf(wet, Own)) /\ Rising(h, WetAt)
  <2>1. /\ Below({p} \cup PositionsOf(h, WetAt),
                 PositionsOf(o, Own) \cup PositionsOf(m, Own) \cup PositionsOf(i, Own))
        /\ Rising(h, WetAt)
    BY <1>7 DEF Orderly
  <2> QED
    BY <1>17, <2>1 DEF Below
<1>19. Len(wet) \in Nat
  BY <1>17
<1>20. mixed \in RingOf(0 .. Top) /\ Holds(mixed) \in Seq(Positions)
  <2>1. CASE mixed = dryRing
    BY <1>4, <2>1
  <2>2. CASE mixed = AfterTaking(dryRing, RingFrames, Len(wet))
    BY <1>4, <1>19, <2>2, DryTaken
  <2> QED
    BY <2>1, <2>2
<1> HIDE DEF mixed
<1>21. dryRing' \in RingOf(0 .. Top) /\ Holds(dryRing') \in Seq(Positions)
  BY <1>3, <1>13, <1>20, DryTaken
<1>22. fill \in Seq(Frames) /\ \A j \in 1 .. Len(fill) : fill[j] \notin DOMAIN WetAt
  BY <1>13, <1>20, FillIs
<1> HIDE DEF fill
<1>23. /\ yOut' \in Seq(Frames) /\ Rising(h \o yOut', WetAt)
       /\ PositionsOf(h \o yOut', WetAt) = PositionsOf(h, WetAt) \cup PositionsOf(wet, Own)
  <2> DEFINE y == [j \in 1 .. Len(wet) |-> Wet(wet[j])] \o fill
  <2>1. yOut' = y
    BY <1>3
  <2>2. /\ y \in Seq(Frames) /\ Rising(h \o y, WetAt)
        /\ PositionsOf(h \o y, WetAt) = PositionsOf(h, WetAt) \cup PositionsOf(wet, Own)
    BY <1>6, <1>17, <1>18, <1>22, MadeOf, Zenon
  <2> HIDE DEF y
  <2> QED
    BY <2>1, <2>2, Zenon
<1>24. Coming' = h \o yOut'
  <2>1. outRing' \in RingOf(Frames) /\ wpc' = "write" /\ Holds(outRing') = h
    BY <1>2, <1>4 DEF h
  <2> QED
    BY <1>23, <2>1, ComingIs DEF Coming
<1>25. fed' \in 0 .. Top
  <2>1. CASE steps > 0
    <3>1. units \in 1 .. Len(frames)
      <4>1. units <= Len(m) /\ 0 \in Nat /\ 0 <= units
        BY <1>11
      <4>2. Len(SubSeq(m, 0 + 1, units)) = units - 0
        BY <1>8, <1>11, <4>1, SubSeqIs
      <4>3. Len(frames) = units
        BY <1>11, <1>14, <4>2
      <4> QED
        BY <1>8, <1>12, <2>1, <4>3
    <3>2. frames[units] \in Positions
      BY <1>15, <3>1
    <3> QED
      BY <1>3, <2>1, <3>2, OwnTypes
  <2>2. CASE ~(steps > 0)
    BY <1>3, <1>4, <2>2
  <2> QED
    BY <2>1, <2>2
<1>26. Typed'
  BY <1>2, <1>4, <1>14, <1>16, <1>17, <1>21, <1>23, <1>25 DEF Typed
<1>27. AtWork'
  BY <1>2 DEF Flow, AtWork
<1>28. Orderly(outSrc', m1, i, Coming', p, t)
  <2>1. /\ Rising(Coming', WetAt)
        /\ PositionsOf(Coming', WetAt) \subseteq PositionsOf(h, WetAt) \cup PositionsOf(wet, Own)
    BY <1>23, <1>24
  <2> QED
    BY <1>5, <1>7, <1>15, <1>17, <2>1, OrderlyOn, Zenon
<1>29. InSequence'
  BY <1>2, <1>5, <1>14, <1>28, Zenon DEF InSequence
<1> QED
  BY <1>26, <1>27, <1>29 DEF Flow

-----------------------------------------------------------------------------
(* The rest of the steps.                                                  *)

\* A step that keeps the order when what it keeps was there before.
LEMMA KeepsOrder ==
    ASSUME Inv, Flow, UNCHANGED <<played, lastIdx>>, wpc # "feed", wpc' # "feed",
           Rising(outSrc', Own), Rising(Heard(modelRing'), Own), Rising(inSrc', Own),
           Rising(Coming', WetAt),
           PositionsOf(outSrc', Own) \subseteq PositionsOf(outSrc, Own),
           PositionsOf(Heard(modelRing'), Own) \subseteq PositionsOf(Heard(modelRing), Own),
           PositionsOf(inSrc', Own) \subseteq PositionsOf(inSrc, Own),
           PositionsOf(Coming', WetAt) \subseteq PositionsOf(Coming, WetAt)
    PROVE  InSequence'
<1> DEFINE t == Ceiling
<1>1. t \in Int /\ t <= t /\ Ceiling' = t /\ played \in Int
  BY CeilingType, FlowTypes DEF Ceiling
<1>2. Orderly(outSrc, Heard(modelRing), inSrc, Coming, played, t)
  BY DEF Flow, InSequence
<1> HIDE DEF t
<1>3. Orderly(outSrc', Heard(modelRing'), inSrc', Coming', played, t)
  BY <1>1, <1>2, OrderlyLess, Zenon
<1> QED
  BY <1>1, <1>3, Zenon DEF InSequence

LEMMA WriteFlow ==
    ASSUME Inv, Flow, Write
    PROVE  Flow'
<1> DEFINE h == Holds(outRing)   h1 == Holds(outRing')
<1>1. /\ wpc = "write" /\ wpc' \in {"reset", "ahead"}
      /\ outRing' = WriteDropOldest(outRing, RingFrames, yOut)
      /\ UNCHANGED <<args, captured, item, lastIdx, inSrc, outSrc, drySrc, modelRing, dryRing,
                     yOut, played, fed>>
  BY DEF Write, capture, taking, policy, resample, output, model
<1>2. outRing \in RingOf(Frames) /\ yOut \in Seq(Frames)
  BY DEF Flow, Typed
<1>3. h \in Seq(Frames)
  BY <1>2, RingHolds
<1>4. PICK d \in 0 .. Len(h), e \in 0 .. Len(yOut) :
         h1 = SubSeq(h, d + 1, Len(h)) \o SubSeq(yOut, e + 1, Len(yOut))
  BY <1>1, <1>2, RingWrite, Zenon
<1>5. outRing' \in RingOf(Frames)
  BY <1>1, <1>2, RingWrite, Zenon
<1>6. Coming = h \o yOut /\ Coming' = h1
  <2>1. yOut' \in Seq(Frames) /\ wpc' # "write"
    BY <1>1, <1>2
  <2> QED
    BY <1>1, <1>2, <1>5, <2>1, ComingIs DEF Coming
<1> HIDE DEF h, h1
<1>7. Orderly(outSrc, Heard(modelRing), inSrc, Coming, played, Ceiling)
  BY DEF Flow, InSequence
<1>8. Rising(h \o yOut, WetAt)
  BY <1>6, <1>7, Zenon DEF Orderly
<1>9. Rising(h, WetAt) /\ Rising(yOut, WetAt)
      /\ Below(PositionsOf(h, WetAt), PositionsOf(yOut, WetAt))
  BY <1>2, <1>3, <1>8, OwnTypes, Parted, Zenon
<1>10. /\ PositionsOf(h1, WetAt) \subseteq PositionsOf(h, WetAt) \cup PositionsOf(yOut, WetAt)
       /\ Rising(h1, WetAt)
  BY <1>2, <1>3, <1>4, <1>9, OwnTypes, Backs, Zenon
<1>11. PositionsOf(Coming, WetAt) = PositionsOf(h, WetAt) \cup PositionsOf(yOut, WetAt)
  BY <1>2, <1>3, <1>6, WetsJoined
<1>12. InSequence'
  <2>1. Rising(outSrc, Own) /\ Rising(Heard(modelRing), Own) /\ Rising(inSrc, Own)
    BY <1>7 DEF Orderly
  <2>2. Rising(Coming', WetAt) /\ PositionsOf(Coming', WetAt) \subseteq PositionsOf(Coming, WetAt)
    BY <1>6, <1>10, <1>11
  <2>3. wpc # "feed" /\ wpc' # "feed"
    BY <1>1
  <2> QED
    BY <1>1, <2>1, <2>2, <2>3, KeepsOrder
<1>13. Typed'
  BY <1>1, <1>5 DEF Flow, Typed
<1>14. AtWork'
  BY <1>1 DEF Flow, AtWork
<1> QED
  BY <1>12, <1>13, <1>14 DEF Flow

LEMMA TrimFlow ==
    ASSUME Inv, Sized, Flow, Trim
    PROVE  Flow'
<1> DEFINE h == Holds(outRing)   h1 == Holds(outRing')   d == Dropping(outRing, trim)
           g == Holds(dryRing)   g1 == Holds(dryRing')   e == Dropping(dryRing, d)
<1>1. /\ wpc = "trim" /\ wpc' = "reset"
      /\ outRing' = DropOldest(outRing, RingFrames, trim)
      /\ dryRing' = DropOldest(dryRing, RingFrames, d)
      /\ UNCHANGED <<args, captured, item, lastIdx, inSrc, outSrc, drySrc, modelRing,
                     yOut, played, fed>>
  BY DEF Trim, capture, taking, policy, resample, output, model
<1>2. /\ outRing \in RingOf(Frames) /\ yOut \in Seq(Frames)
      /\ dryRing \in RingOf(0 .. Top) /\ g \in Seq(Positions)
      /\ trim \in Int
  BY DEF Flow, Typed, Sized
<1>3. h \in Seq(Frames)
  BY <1>2, RingHolds
<1>4. outRing' \in RingOf(Frames) /\ d \in 0 .. Len(h)
  BY <1>1, <1>2, RingDrop, Zenon
<1>5. h1 = SubSeq(h, d + 1, Len(h))
  BY <1>1, <1>2, RingDrop
<1>6. d \in Int
  BY <1>4
<1> HIDE DEF d
<1>7. dryRing' \in RingOf(0 .. Top) /\ e \in 0 .. Len(g)
  BY <1>1, <1>2, <1>6, RingDrop, Zenon
<1>8. g1 = SubSeq(g, e + 1, Len(g))
  BY <1>1, <1>2, <1>6, RingDrop
<1>9. Coming = h /\ Coming' = h1
  <2>1. yOut' \in Seq(Frames) /\ wpc' # "write" /\ wpc # "write"
    BY <1>1, <1>2
  <2> QED
    BY <1>1, <1>2, <1>4, <2>1, ComingIs DEF Coming
<1> HIDE DEF h, h1, g, g1, e
<1>10. Orderly(outSrc, Heard(modelRing), inSrc, Coming, played, Ceiling)
  BY DEF Flow, InSequence
<1>11. Rising(h, WetAt)
  BY <1>9, <1>10, Zenon DEF Orderly
<1>12. Rising(h1, WetAt) /\ PositionsOf(h1, WetAt) \subseteq PositionsOf(h, WetAt)
  BY <1>3, <1>4, <1>5, <1>11, OwnTypes, Split, Zenon
<1>13. g1 \in Seq(Positions)
  BY <1>2, <1>7, <1>8, OwnTypes, Split, Zenon
<1>14. InSequence'
  <2>1. Rising(outSrc, Own) /\ Rising(Heard(modelRing), Own) /\ Rising(inSrc, Own)
    BY <1>10 DEF Orderly
  <2>2. Rising(Coming', WetAt) /\ PositionsOf(Coming', WetAt) \subseteq PositionsOf(Coming, WetAt)
    BY <1>9, <1>12
  <2>3. wpc # "feed" /\ wpc' # "feed"
    BY <1>1
  <2> QED
    BY <1>1, <2>1, <2>2, <2>3, KeepsOrder
<1>15. Typed'
  BY <1>1, <1>4, <1>7, <1>13 DEF Flow, Typed, g1
<1>16. AtWork'
  BY <1>1 DEF Flow, AtWork
<1> QED
  BY <1>14, <1>15, <1>16 DEF Flow

LEMMA ResetFlow ==
    ASSUME Inv, Flow, Reset
    PROVE  Flow'
<1>1. /\ wpc = "reset" /\ wpc' \in {"pop", "done"} /\ yOut' = <<>>
      /\ \/ inSrc' = <<>> /\ outSrc' = <<>> /\ fed' = None
         \/ UNCHANGED <<inSrc, outSrc, fed>>
      /\ UNCHANGED <<args, captured, item, lastIdx, drySrc, modelRing, dryRing, outRing, played>>
  BY DEF Reset, ResetStreams, capture, rings
<1>2. Typed'
  <2>1. None \in 0 .. Top
    BY OwnTypes DEF None
  <2> QED
    BY <1>1, <2>1, Nothing DEF Flow, Typed
<1>3. Coming' = Coming
  BY <1>1 DEF Coming
<1>4. Orderly(outSrc, Heard(modelRing), inSrc, Coming, played, Ceiling)
  BY DEF Flow, InSequence
<1>5. InSequence'
  <2>1. /\ Rising(outSrc, Own) /\ Rising(Heard(modelRing), Own) /\ Rising(inSrc, Own)
        /\ Rising(Coming, WetAt)
    BY <1>4 DEF Orderly
  <2>2. Rising(<<>>, Own) /\ PositionsOf(<<>>, Own) = {}
    BY NothingRises
  <2>3. /\ Rising(outSrc', Own) /\ Rising(inSrc', Own)
        /\ PositionsOf(outSrc', Own) \subseteq PositionsOf(outSrc, Own)
        /\ PositionsOf(inSrc', Own) \subseteq PositionsOf(inSrc, Own)
    BY <1>1, <2>1, <2>2
  <2>4. wpc # "feed" /\ wpc' # "feed"
    BY <1>1
  <2> QED
    BY <1>1, <1>3, <2>1, <2>3, <2>4, KeepsOrder
<1>6. AtWork'
  BY <1>1 DEF Flow, AtWork
<1> QED
  BY <1>2, <1>5, <1>6 DEF Flow

LEMMA FlowInit == Init => Flow
<1> SUFFICES ASSUME Init PROVE Flow
  OBVIOUS
<1>1. /\ modelRing = AudioRing(ModelRingUnits, None) /\ dryRing = OutputRing(RingFrames, None)
      /\ outRing = OutputRing(RingFrames, Zero) /\ yOut = <<>> /\ played = 0 /\ fed = 0
      /\ inSrc = <<>> /\ outSrc = <<>> /\ drySrc = <<>>
      /\ args \in Args /\ captured = 0 /\ lastIdx = -1 /\ wpc = "pop"
  BY DEF Init, None, Nobody
<1>2. 0 \in 0 .. Top /\ Zero \in Frames
  BY OwnTypes DEF Frames
<1>3. /\ dryRing \in RingOf(0 .. Top) /\ Holds(dryRing) = <<>>
      /\ outRing \in RingOf(Frames) /\ Holds(outRing) = <<>>
  BY <1>1, <1>2, RingNew DEF None
<1>4. modelRing \in AudioOf(0 .. Top) /\ Heard(modelRing) = <<>>
  <2> DEFINE b == [c \in 0 .. ModelRingUnits - 1 |-> None]   s == Slice(b, ModelRingUnits, 0, 0)
  <2>1. b \in [0 .. ModelRingUnits - 1 -> 0 .. Top]
    BY <1>2 DEF None
  <2>2. ModelRingUnits \in Nat \ {0} /\ 0 \in 0 .. ModelRingUnits - 1 /\ 0 \in 0 .. ModelRingUnits
        /\ 0 \in Nat
    BY SizesAssumption
  <2>3. (0 + 0) % ModelRingUnits = 0
    BY <2>2
  <2>4. modelRing = [buf |-> b, write |-> (0 + 0) % ModelRingUnits, size |-> 0, dropped |-> 0]
    BY <1>1, <2>3 DEF AudioRing
  <2>5. s = <<>>
    BY DEF Slice
  <2> HIDE DEF b, s
  <2>6. AudioWith(modelRing, 0 .. Top, Slice(b, ModelRingUnits, 0, 0))
    BY <2>1, <2>2, <2>4, AudioMade, Zenon
  <2> QED
    BY <2>5, <2>6 DEF AudioWith, s
<1>5. Typed
  BY <1>1, <1>2, <1>3, <1>4, Nothing DEF Typed
<1>6. AtWork
  <2>1. args.blocks \in Nat
    BY <1>1, ArgsAssumption, SizesAssumption
  <2> QED
    BY <1>1, <2>1 DEF AtWork
<1>7. Coming = <<>>
  BY <1>1, <1>3, Nothing, ComingIs DEF Coming
<1>8. Ceiling = 0
  <2>1. (-1 + 1) * Block = 0
    BY Sizes
  <2> QED
    BY <1>1, <2>1 DEF Ceiling
<1>9. InSequence
  <2>1. \A pos : Rising(<<>>, pos) /\ PositionsOf(<<>>, pos) = {}
    BY NothingRises
  <2>2. Orderly(<<>>, <<>>, <<>>, <<>>, 0, 0)
    BY <2>1 DEF Orderly, Below
  <2> QED
    BY <1>1, <1>4, <1>7, <1>8, <2>2, Zenon DEF InSequence
<1> QED
  BY <1>5, <1>6, <1>9 DEF Flow

LEMMA AdmitFlow ==
    ASSUME Inv, Inv', Flow, Admit
    PROVE  Flow'
<1>1. /\ wpc = "admit" /\ wpc' = "feed" /\ lastIdx' = item
      /\ UNCHANGED <<args, resample, rings, yOut, fed, played, captured, item>>
  BY DEF Admit, capture, taking, output, model
<1>2. item \in Nat /\ lastIdx \in Int /\ lastIdx < item
  BY <1>1 DEF Inv, Counts, Ordered, Nobody
<1>3. Ceiling = (lastIdx + 1) * Block /\ Ceiling' = item * Block
  BY <1>1 DEF Ceiling
<1>4. Ceiling <= Ceiling'
  BY <1>2, <1>3, Multiples
<1>5. captured' <= args.blocks /\ (wpc' = "feed" => lastIdx' = item' /\ item' # Nobody)
      /\ wpc' # "write"
  BY <1>1, <1>2 DEF Flow, AtWork, Nobody
<1> QED
  BY <1>1, <1>4, <1>5, FlowElsewhere

\* Where the worker takes a block, stops, or another thread moves.
LEMMA AsideFlow ==
    ASSUME Inv, Inv', Flow, UNCHANGED <<args, resample, rings, yOut, fed, played, lastIdx>>,
           captured' <= args.blocks,
           \/ UNCHANGED <<wpc, item>>
           \/ wpc' \notin {"feed", "write"}
    PROVE  Flow'
<1>1. Ceiling <= Ceiling'
  <2>1. Ceiling \in Int /\ lastIdx * Block <= (lastIdx + 1) * Block
        /\ lastIdx * Block \in Int /\ (lastIdx + 1) * Block \in Int
    BY CeilingType
  <2> DEFINE a == lastIdx * Block   b == (lastIdx + 1) * Block
  <2>2. Ceiling = (IF wpc = "feed" THEN a ELSE b) /\ Ceiling' = (IF wpc' = "feed" THEN a ELSE b)
    BY DEF Ceiling
  <2>3. a <= b /\ a \in Int /\ b \in Int
    BY <2>1
  <2> HIDE DEF a, b
  <2> QED
    BY <2>2, <2>3
<1>2. /\ wpc' = "feed" => lastIdx' = item' /\ item' # Nobody
      /\ wpc' = "write" => wpc = "write"
  BY DEF Flow, AtWork
<1> QED
  BY <1>1, <1>2, FlowElsewhere

LEMMA FlowNext == Inv /\ Inv' /\ Sized /\ Flow /\ [Next]_vars => Flow'
<1> SUFFICES ASSUME Inv, Inv', Sized, Flow, [Next]_vars PROVE Flow'
  OBVIOUS
<1>1. captured <= args.blocks
  BY DEF Flow, AtWork
<1> USE DEF resample, rings, output, model, capture, taking, policy, control
<1>2. CASE InputCallback
  <2>1. /\ UNCHANGED <<args, resample, rings, yOut, fed, played, lastIdx, wpc, item>>
        /\ captured < args.blocks /\ captured' = captured + 1
    BY <1>2 DEF InputCallback
  <2>2. captured \in Nat /\ args.blocks \in Nat
    BY ArgsAssumption, SizesAssumption DEF Inv, Counts, Sized
  <2>3. captured' <= args.blocks
    BY <2>1, <2>2
  <2> QED
    BY <2>1, <2>3, AsideFlow
<1>3. CASE \/ Start \/ Supervise \/ Signal \/ Cleanup \/ Join \/ UNCHANGED vars
           \/ \E s \in {"in", "out"} : CallbackFails(s) \/ StreamDies(s)
  <2>1. UNCHANGED <<args, resample, rings, yOut, fed, played, lastIdx, wpc, item, captured>>
    BY <1>3 DEF Start, Supervise, Signal, Cleanup, Join, CallbackFails, StreamDies, vars
  <2> QED
    BY <1>1, <2>1, AsideFlow
<1>4. CASE Pop \/ Drain \/ ReadAhead \/ WorkerFails \/ WorkerStops
  <2>1. /\ UNCHANGED <<args, resample, rings, yOut, fed, played, lastIdx, captured>>
        /\ wpc' \notin {"feed", "write"}
    BY <1>4 DEF Pop, Drain, ReadAhead, WorkerFails, WorkerStops
  <2> QED
    BY <1>1, <2>1, AsideFlow
<1> QED
  BY <1>2, <1>3, <1>4, AdmitFlow, TakeFlow, FeedFlow, InferFlow, WriteFlow, TrimFlow, ResetFlow
  DEF Next

LEMMA FlowInOrder == Flow => PlayedInOrder
<1> SUFFICES ASSUME Flow, NEW i \in DOMAIN Coming, Coming[i].kind = "wet"
             PROVE  /\ played < Coming[i].at
                    /\ \A j \in 1 .. i - 1 : Coming[j].kind = "wet" => Coming[j].at < Coming[i].at
  BY DEF PlayedInOrder
<1>1. Coming \in Seq(Frames) /\ DOMAIN Coming = 1 .. Len(Coming) /\ Len(Coming) \in Nat
  BY FlowTypes
<1>2. Rising(Coming, WetAt) /\ Below({played}, PositionsOf(Coming, WetAt))
  BY DEF Flow, InSequence, Orderly
<1>3. \A j \in 1 .. Len(Coming) : Coming[j].kind = "wet" =>
          Coming[j] \in DOMAIN WetAt /\ WetAt[Coming[j]] = Coming[j].at
  BY <1>1 DEF WetAt
<1>4. played < Coming[i].at
  <2>1. Coming[i].at \in PositionsOf(Coming, WetAt)
    BY <1>1, <1>3 DEF PositionsOf
  <2> QED
    BY <1>2, <2>1 DEF Below
<1>5. ASSUME NEW j \in 1 .. i - 1, Coming[j].kind = "wet" PROVE Coming[j].at < Coming[i].at
  <2>1. j \in 1 .. Len(Coming) /\ i \in 1 .. Len(Coming) /\ j < i
    BY <1>1
  <2> QED
    BY <1>2, <1>3, <1>5, <2>1 DEF Rising
<1> QED
  BY <1>4, <1>5

\* The processed sound is played in the order of its capture and no unit twice, for
\* all sizes of the buffers, every command line and any number of overflows, gaps,
\* trims, fills and resets (the worker of inference_pipeline.py over AudioRingBuffer,
\* OutputRingBuffer and the streaming resamplers).
THEOREM SoundStaysInOrder == Spec => []PlayedInOrder
<1> DEFINE Sound == Inv /\ Sized /\ Flow
<1>1. Init => Sound
  BY InvInit, SizedInit, FlowInit
<1>2. Sound /\ [Next]_vars => Sound'
  BY InvNext, SizedNext, FlowNext
<1>3. Sound => PlayedInOrder
  BY FlowInOrder
<1> QED
  BY <1>1, <1>2, <1>3, PTL DEF Spec

-----------------------------------------------------------------------------
(* Writing, and the types.                                                 *)

\* A write leaves what waits where it is and puts the new frames behind it.
Appended == Write => Holds(outRing)' = Holds(outRing) \o yOut

LEMMA WriteAppends ==
    ASSUME OutputLimit + Block + SrcDelay <= RingFrames, Sized, Flow, Write
    PROVE  Holds(outRing') = Holds(outRing) \o yOut
<1> DEFINE h == Holds(outRing)   h1 == Holds(outRing')
<1>1. /\ wpc = "write" /\ outRing' = WriteDropOldest(outRing, RingFrames, yOut)
      /\ outRing \in RingOf(Frames) /\ yOut \in Seq(Frames)
  BY DEF Write, Flow, Typed
<1>2. h \in Seq(Frames) /\ Len(h) = outRing.size
  BY <1>1, RingHolds
<1>3. Len(h) + Len(yOut) <= RingFrames
  <2> DEFINE n == Len(h)   l == Len(yOut)
  <2>1. n \in Nat /\ l \in Nat /\ n <= OutputLimit /\ l <= Block + SrcDelay
    BY <1>1, <1>2 DEF Sized
  <2> HIDE DEF n, l
  <2>2. n + l <= RingFrames
    BY <2>1, RingSizes, Sizes
  <2> QED
    BY <2>2 DEF n, l
<1>4. PICK d \in 0 .. Len(h), e \in 0 .. Len(yOut) :
         /\ h1 = SubSeq(h, d + 1, Len(h)) \o SubSeq(yOut, e + 1, Len(yOut))
         /\ Len(h) + Len(yOut) <= RingFrames => d = 0 /\ e = 0
  BY <1>1, RingWrite, Zenon
<1> HIDE DEF h, h1
<1>5. h1 = SubSeq(h, 1, Len(h)) \o SubSeq(yOut, 1, Len(yOut))
  <2>1. d + 1 = 1 /\ e + 1 = 1
    BY <1>3, <1>4
  <2> QED
    BY <1>4, <2>1
<1>6. \A s \in Seq(Frames) : SubSeq(s, 1, Len(s)) = s
  OBVIOUS
<1>7. h1 = h \o yOut
  BY <1>1, <1>2, <1>5, <1>6
<1> QED
  BY <1>7 DEF h, h1

\* The output ring never overwrites a frame that waits: what the worker writes goes
\* behind everything that is there, as long as the ring has room for a block and
\* what a resampler keeps above the bound and the target of a recovery, which the
\* command line decides (OutputRingBuffer.write_drop_oldest, whose dropping is
\* never needed then).
THEOREM NothingOverwritten ==
    ASSUME OutputLimit + Block + SrcDelay <= RingFrames
    PROVE  Spec => [][Appended]_vars
<1> DEFINE Sound == Inv /\ Sized /\ Flow
<1>1. Init => Sound
  BY InvInit, SizedInit, FlowInit
<1>2. Sound /\ [Next]_vars => Sound'
  BY InvNext, SizedNext, FlowNext
<1>3. Sound /\ [Next]_vars => [Appended]_vars
  <2>1. Sound => Appended
    <3> SUFFICES ASSUME Sound PROVE Appended
      OBVIOUS
    <3>1. Write => Holds(outRing') = Holds(outRing) \o yOut
      BY WriteAppends
    <3> QED
      BY <3>1 DEF Appended, Holds
  <2> QED
    BY <2>1
<1> QED
  BY <1>1, <1>2, <1>3, PTL DEF Spec

\* The types of what neither counts nor carries sound, and two counts.
Placed ==
    /\ closed \in BOOLEAN /\ stop \in BOOLEAN /\ incoherent \in BOOLEAN
    /\ wpc \in WorkerAt /\ mpc \in MainAt
    /\ pending \in {"none", "capture-discontinuity", "missing-wet-hops-filled"}
    /\ mode \in {"normal", "recover", "shed"} /\ age \in {"fresh", "aged", "stale"}
    /\ failed \subseteq {"in", "out", "worker"}
    /\ streams \in [{"in", "out"} -> {"none", "active", "inactive"}]
    /\ wpc \notin {"drain", "admit"} => drained <= drainedBlocks
    /\ lastIdx # Nobody => processed >= 1
    /\ Len(inBuf) <= CaptureBlocks

LEMMA PlacedInit == Init => Placed
<1>1. Len(<<>>) = 0 /\ CaptureBlocks \in Nat
  BY SizesAssumption
<1> SUFFICES ASSUME Init PROVE Placed
  OBVIOUS
<1>2. /\ closed = FALSE /\ stop = FALSE /\ incoherent = FALSE /\ wpc = "pop" /\ mpc = "preflight"
      /\ pending = "none" /\ mode = "normal" /\ age = "fresh" /\ failed = {}
      /\ drained = 0 /\ drainedBlocks = 0 /\ lastIdx = Nobody /\ inBuf = <<>>
  BY DEF Init
<1>3. streams \in [{"in", "out"} -> {"none", "active", "inactive"}]
  BY DEF Init
<1>4. drained <= drainedBlocks /\ Len(inBuf) <= CaptureBlocks
  BY <1>1, <1>2
<1> HIDE DEF Init
<1> QED
  BY <1>2, <1>3, <1>4 DEF Placed, WorkerAt, MainAt

LEMMA CaptureFits ==
    ASSUME Inv, Placed, InputCallback
    PROVE  Len(inBuf') <= CaptureBlocks
<1> DEFINE n == Len(inBuf)
<1>1. inBuf \in Seq(Nat) /\ n \in Nat /\ captured \in Nat /\ CaptureBlocks \in Nat \ {0}
      /\ n <= CaptureBlocks
  BY SizesAssumption DEF Inv, Counts, Placed
<1>2. CASE inBuf' = inBuf
  BY <1>1, <1>2
<1>3. CASE inBuf' = Append(IF n >= CaptureBlocks THEN Tail(inBuf) ELSE inBuf, captured)
  <2>1. CASE n >= CaptureBlocks
    <3>1. inBuf # <<>> /\ inBuf' = Append(Tail(inBuf), captured)
      BY <1>1, <1>3, <2>1
    <3>2. Tail(inBuf) \in Seq(Nat) /\ Len(Tail(inBuf)) = n - 1
      BY <1>1, <3>1
    <3>3. Len(inBuf') = (n - 1) + 1
      BY <1>1, <3>1, <3>2
    <3> HIDE DEF n
    <3> QED
      BY <1>1, <3>3
  <2>2. CASE ~(n >= CaptureBlocks)
    <3>1. Len(inBuf') = n + 1
      BY <1>1, <1>3, <2>2
    <3> HIDE DEF n
    <3> QED
      BY <1>1, <2>2, <3>1
  <2> QED
    BY <2>1, <2>2
<1> QED
  BY <1>2, <1>3 DEF InputCallback

LEMMA TailFits ==
    ASSUME Inv, Placed, inBuf # <<>>
    PROVE  Len(Tail(inBuf)) <= CaptureBlocks
<1> DEFINE n == Len(inBuf)
<1>1. n \in Nat /\ n <= CaptureBlocks /\ CaptureBlocks \in Nat /\ Len(Tail(inBuf)) = n - 1
  BY SizesAssumption DEF Inv, Counts, Placed
<1> HIDE DEF n
<1> QED
  BY <1>1

LEMMA PlacedNext == Inv /\ Sized /\ Placed /\ [Next]_vars => Placed'
<1> SUFFICES ASSUME Inv, Sized, Placed, [Next]_vars PROVE Placed'
  OBVIOUS
<1> USE DEF capture, taking, policy, model, control, WorkerAt, MainAt
<1>0. /\ drained \in Nat /\ drainedBlocks \in Nat /\ processed \in Nat
  BY DEF Inv, Counts
<1>1. CASE InputCallback
  <2>1. Len(inBuf') <= CaptureBlocks
    BY <1>1, CaptureFits
  <2> QED
    BY <1>1, <2>1 DEF InputCallback, Placed
<1>2. CASE OutputCallback
  BY <1>2 DEF OutputCallback, Placed
<1>3. ASSUME NEW s \in {"in", "out"}, CallbackFails(s) \/ StreamDies(s) PROVE Placed'
  <2>1. failed' \subseteq {"in", "out", "worker"}
    BY <1>3 DEF CallbackFails, StreamDies, Placed
  <2>2. streams' \in [{"in", "out"} -> {"none", "active", "inactive"}]
    BY <1>3 DEF CallbackFails, StreamDies, Placed
  <2>3. UNCHANGED <<inBuf, closed, stop, incoherent, wpc, mpc, drained, drainedBlocks, lastIdx,
                    processed, pending, mode, age>>
    BY <1>3 DEF CallbackFails, StreamDies
  <2> QED
    BY <2>1, <2>2, <2>3 DEF Placed
<1>4. CASE Pop
  BY <1>4, TailFits DEF Pop, Placed
<1>5. CASE Drain
  BY <1>5, TailFits DEF Drain, Placed
<1>6. CASE Admit
  <2>1. /\ age' \in {"fresh", "aged", "stale"} /\ mode' \in {"normal", "recover", "shed"}
        /\ pending' \in {"none", "capture-discontinuity", "missing-wet-hops-filled"}
    BY <1>6 DEF Admit
  <2>2. processed' >= 1 /\ drained' <= drainedBlocks' /\ wpc' = "feed"
    BY <1>0, <1>6 DEF Admit
  <2>3. UNCHANGED <<inBuf, closed, stop, incoherent, mpc, failed, streams>>
    BY <1>6 DEF Admit
  <2> QED
    BY <2>1, <2>2, <2>3 DEF Placed
<1>7. CASE Feed \/ Write \/ ReadAhead \/ Trim \/ WorkerStops
  <2>1. UNCHANGED <<inBuf, closed, stop, incoherent, mpc, failed, streams, drained, drainedBlocks,
                    lastIdx, processed, pending, mode, age>>
    BY <1>7 DEF Feed, Write, ReadAhead, Trim, WorkerStops
  <2>2. wpc' \in {"infer", "ahead", "trim", "reset", "done"} /\ wpc \notin {"drain", "admit"}
    BY <1>7 DEF Feed, Write, ReadAhead, Trim, WorkerStops
  <2> QED
    BY <2>1, <2>2 DEF Placed
<1>8. CASE Infer
  <2>1. /\ mode' \in {"normal", "recover", "shed"}
        /\ pending' \in {"none", "capture-discontinuity", "missing-wet-hops-filled"}
        /\ incoherent' \in BOOLEAN
    BY <1>8 DEF Infer, Placed
  <2>2. /\ wpc' = "write" /\ wpc = "infer"
        /\ UNCHANGED <<inBuf, closed, stop, mpc, failed, streams, drained, drainedBlocks,
                       lastIdx, processed, age>>
    BY <1>8 DEF Infer
  <2> QED
    BY <2>1, <2>2 DEF Placed
<1>9. CASE Reset
  BY <1>0, <1>9 DEF Reset, Placed
<1>10. CASE WorkerFails
  BY <1>10 DEF WorkerFails, Placed
<1>11. CASE Start \/ Supervise \/ Signal \/ Cleanup \/ Join
  <2>1. /\ closed' \in BOOLEAN /\ stop' \in BOOLEAN /\ mpc' \in MainAt
        /\ streams' \in [{"in", "out"} -> {"none", "active", "inactive"}]
    BY <1>11 DEF Start, Supervise, Signal, Cleanup, Join, RequestStop, Placed
  <2>2. UNCHANGED <<inBuf, incoherent, wpc, failed, drained, drainedBlocks, lastIdx, processed,
                    pending, mode, age>>
    BY <1>11 DEF Start, Supervise, Signal, Cleanup, Join
  <2> QED
    BY <2>1, <2>2 DEF Placed
<1>12. CASE UNCHANGED vars
  BY <1>12 DEF vars, Placed
<1> QED
  BY <1>1, <1>2, <1>3, <1>4, <1>5, <1>6, <1>7, <1>8, <1>9, <1>10, <1>11, <1>12 DEF Next

LEMMA AllTyped == Inv /\ Sized /\ Flow /\ Placed => TypeOK
<1> SUFFICES ASSUME Inv, Sized, Flow, Placed PROVE TypeOK
  OBVIOUS
<1>1. /\ Counts /\ Ordered /\ Counted /\ Accounted
      /\ captured <= args.blocks
  BY DEF Inv, Flow, AtWork
<1>2. captured <= MaxCapture /\ captured \in Nat /\ MaxCapture \in Nat
  <2>1. args.blocks \in Nat /\ args.blocks <= MaxCapture
    BY ArgsAssumption, SizesAssumption DEF Sized
  <2> QED
    BY <1>1, <2>1, SizesAssumption DEF Counts
<1>3. /\ item \in Int /\ -1 <= item /\ item < captured
      /\ lastIdx \in Int /\ -1 <= lastIdx /\ lastIdx <= item
  BY <1>1 DEF Counts, Ordered, Nobody
<1>4. inBuf \in Seq(0 .. MaxCapture - 1)
  <2> DEFINE n == Len(inBuf)   S == 0 .. MaxCapture - 1
  <2>1. inBuf \in Seq(Nat) /\ n \in Nat /\ inBuf \in [1 .. n -> Nat]
    BY <1>1 DEF Counts
  <2>2. \A i \in 1 .. n : inBuf[i] \in Nat /\ inBuf[i] < captured
    BY <1>1, <2>1 DEF Ordered
  <2>3. \A i \in 1 .. n : inBuf[i] \in S
    BY <1>2, <2>2
  <2> HIDE DEF n, S
  <2>4. inBuf \in [1 .. n -> S]
    BY <2>1, <2>3
  <2>5. inBuf \in Seq(S)
    BY <2>1, <2>4, SeqDef
  <2> QED
    BY <2>5 DEF S
<1>5. {capDropped, captured, refused, drainedBlocks, processed, drained} \subseteq 0 .. MaxCapture
  <2> DEFINE n == Len(inBuf)
             a == IF wpc \in {"drain", "admit"} THEN 1 + drained ELSE 0
  <2>1. /\ refused \in Nat /\ capDropped \in Nat /\ processed \in Nat /\ drainedBlocks \in Nat
        /\ drained \in Nat
    BY <1>1 DEF Counts
  <2>2. n \in Nat /\ a \in Nat
    BY <1>4, <2>1
  <2>3. captured = refused + n + capDropped + processed + drainedBlocks + a
    BY <1>1 DEF Accounted
  <2>4. drained <= drainedBlocks \/ drained <= a
    BY <2>1 DEF Placed
  <2> HIDE DEF n, a
  <2> QED
    BY <1>2, <2>1, <2>2, <2>3, <2>4
<1>6. gapBlocks \in 0 .. MaxCapture /\ first \in -1 .. MaxCapture - 1
  <2>1. gapBlocks \in Nat /\ processed \in Nat
    BY <1>1 DEF Counts
  <2>2. CASE lastIdx = Nobody
    BY <1>1, <1>2, <2>2 DEF Counted, Nobody
  <2>3. CASE lastIdx # Nobody
    <3>1. /\ first + gapBlocks + processed = lastIdx + 1 /\ processed >= 1 /\ first \in Nat
      BY <1>1, <2>3 DEF Accounted, Placed, Counted, Counts
    <3> QED
      BY <1>2, <1>3, <2>1, <3>1
  <2> QED
    BY <2>2, <2>3
<1>7. item \in -1 .. MaxCapture - 1 /\ lastIdx \in -1 .. MaxCapture - 1
  BY <1>2, <1>3
<1>8. /\ fed \in 0 .. Top /\ played \in 0 .. Top
      /\ modelRing \in AudioOf(0 .. Top) /\ dryRing \in RingOf(0 .. Top) /\ outRing \in RingOf(Frames)
      /\ yOut \in Seq(Frames)
  BY DEF Flow, Typed
<1>9. WellFormed(dryRing) /\ WellFormed(outRing)
      /\ \A c \in 0 .. RingFrames - 1 : outRing.buf[c] \in Frames
  BY <1>8, RingParts DEF WellFormed
<1>10. modelRing.write \in 0 .. ModelRingUnits - 1 /\ modelRing.size \in 0 .. ModelRingUnits
  BY <1>8 DEF AudioOf
<1>11. \A i \in DOMAIN yOut : yOut[i] \in Frames
  BY <1>8
<1>12. {fed, played} \subseteq 0 .. MaxCapture * Block
  BY <1>8 DEF Top
<1>13. args \in Args /\ trim \in Int
  BY DEF Sized
<1>14. /\ inBuf \in Seq(0 .. MaxCapture - 1) /\ Len(inBuf) <= CaptureBlocks
       /\ closed \in BOOLEAN /\ stop \in BOOLEAN /\ incoherent \in BOOLEAN
       /\ wpc \in WorkerAt /\ mpc \in MainAt
       /\ pending \in {"none", "capture-discontinuity", "missing-wet-hops-filled"}
       /\ mode \in {"normal", "recover", "shed"} /\ age \in {"fresh", "aged", "stale"}
       /\ failed \subseteq {"in", "out", "worker"}
       /\ streams \in [{"in", "out"} -> {"none", "active", "inactive"}]
  BY <1>4, Zenon DEF Placed
<1>15. /\ {capDropped, captured, refused, gapBlocks, drainedBlocks, processed, drained}
              \subseteq 0 .. MaxCapture
       /\ {item, lastIdx, first} \subseteq -1 .. MaxCapture - 1
  BY <1>5, <1>6, <1>7
<1> QED
  BY <1>9, <1>10, <1>11, <1>12, <1>13, <1>14, <1>15, Zenon DEF TypeOK

\* Every variable keeps its type, and the indices of every ring stay inside its
\* storage with the write index `size' cells behind the read index, for every size and
\* command line (inference_pipeline.py, AudioRingBuffer, OutputRingBuffer).
THEOREM TypeCorrect == Spec => []TypeOK
<1> DEFINE Whole == Inv /\ Sized /\ Flow /\ Placed
<1>1. Init => Whole
  BY InvInit, SizedInit, FlowInit, PlacedInit
<1>2. Whole /\ [Next]_vars => Whole'
  BY InvNext, SizedNext, FlowNext, PlacedNext
<1>3. Whole => TypeOK
  BY AllTyped
<1> QED
  BY <1>1, <1>2, <1>3, PTL DEF Spec
=============================================================================
