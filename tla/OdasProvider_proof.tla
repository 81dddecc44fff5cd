-------------------------- MODULE OdasProvider_proof --------------------------
(***************************************************************************)
(* Proofs about OdasProvider, for messages of any size, any limit of the   *)
(* buffer and any way in which the stream is split: what poll() and feed() *)
(* keep stays in its bounds, and observations are delivered in the order   *)
(* in which the server sent them.                                          *)
(*                                                                         *)
(* The loop of feed() is a recursive function.  What holds of every place  *)
(* where it may stand follows from a counterexample nearest to the end of  *)
(* the buffer: there is none.                                              *)
(***************************************************************************)
EXTENDS OdasProvider, SequenceTheorems, FiniteSetTheorems, WellFoundedInduction, TLAPS

\* A set of naturals has a least element: what induction rests on.
LEMMA LeastElement ==
  ASSUME NEW S \in SUBSET Nat, S # {}
  PROVE  \E m \in S : \A n \in S : m <= n
<1>. DEFINE Less == {ss \in Nat \X Nat : ss[1] < ss[2]}
<1>1. IsWellFoundedOn(Less, Nat)
  BY NatLessThanWellFounded DEF OpToRel
<1>2. PICK m \in S : \A n \in S : <<n, m>> \notin Less
  <2>. HIDE DEF Less
  <2>. QED BY <1>1, WFMin
<1>3. ASSUME NEW n \in S PROVE m <= n
  <2>1. <<n, m>> \notin Less
    BY <1>2
  <2>2. m \in Nat /\ n \in Nat
    OBVIOUS
  <2>. QED BY <2>1, <2>2
<1>. QED BY <1>3

LEMMA MinIs ==
    ASSUME NEW S \in SUBSET Nat, S # {}
    PROVE  Min(S) \in S /\ \A n \in S : Min(S) <= n
BY LeastElement DEF Min

LEMMA MaxIs ==
    ASSUME NEW l \in Nat, NEW S \in SUBSET (1 .. l), S # {}
    PROVE  Max(S) \in S /\ \A n \in S : n <= Max(S)
<1> DEFINE T == {l - n : n \in S}
<1>1. T \in SUBSET Nat /\ T # {}
  <2>1. \A n \in S : l - n \in Nat
    OBVIOUS
  <2> QED
    BY <2>1
<1>2. PICK t \in T : \A n \in T : t <= n
  BY <1>1, LeastElement
<1>3. PICK m \in S : t = l - m
  BY <1>2
<1>4. \A n \in S : n <= m
  <2> SUFFICES ASSUME NEW n \in S PROVE n <= m
    OBVIOUS
  <2>1. l - m <= l - n
    BY <1>2, <1>3
  <2> QED
    BY <2>1
<1> HIDE DEF T
<1> QED
  BY <1>4 DEF Max

-----------------------------------------------------------------------------
(* Braces.                                                                 *)

LEMMA FirstOpenIs ==
    ASSUME NEW b \in Seq(Piece), NEW start \in 0 .. Len(b)
    PROVE  \/ FirstOpen(b, start) = 0
           \/ FirstOpen(b, start) \in start + 1 .. Len(b) /\ IsOpen(b[FirstOpen(b, start)])
<1> DEFINE I == {i \in start + 1 .. Len(b) : IsOpen(b[i])}
<1>1. FirstOpen(b, start) = IF I # {} THEN Min(I) ELSE 0
  BY DEF FirstOpen, SelectInSubSeq
<1>2. I \in SUBSET Nat
  OBVIOUS
<1>3. CASE I # {}
  <2>1. Min(I) \in I
    BY <1>2, <1>3, MinIs
  <2> QED
    BY <1>1, <1>3, <2>1
<1> QED
  BY <1>1, <1>3

\* The count of the braces that open, one position further.
LEMMA OpensNext ==
    ASSUME NEW b, NEW open \in Nat, NEW i \in Nat, open <= i + 1
    PROVE  LET N(x) == {k \in open .. x : IsOpen(b[k])}
           IN  /\ Cardinality(N(i)) \in Nat
               /\ Cardinality(N(i + 1)) = Cardinality(N(i)) + (IF IsOpen(b[i + 1]) THEN 1 ELSE 0)
<1> DEFINE N(x) == {k \in open .. x : IsOpen(b[k])}
<1>1. IsFiniteSet(N(i)) /\ Cardinality(N(i)) \in Nat
  <2>1. IsFiniteSet(open .. i)
    BY FS_Interval
  <2>2. N(i) \in SUBSET (open .. i)
    OBVIOUS
  <2>3. IsFiniteSet(N(i))
    BY <2>1, <2>2, FS_Subset, Zenon
  <2> QED
    BY <2>3, FS_CardinalityType
<1>2. CASE IsOpen(b[i + 1])
  <2>1. N(i + 1) = N(i) \cup {i + 1} /\ i + 1 \notin N(i)
    BY <1>2
  <2> HIDE DEF N
  <2>2. Cardinality(N(i) \cup {i + 1}) = Cardinality(N(i)) + 1
    BY <1>1, <2>1, FS_AddElement
  <2>3. Cardinality(N(i + 1)) = Cardinality(N(i)) + (IF IsOpen(b[i + 1]) THEN 1 ELSE 0)
    BY <1>2, <2>1, <2>2
  <2> QED
    BY <1>1, <2>3 DEF N
<1>3. CASE ~IsOpen(b[i + 1])
  <2>1. N(i + 1) = N(i)
    BY <1>3
  <2> HIDE DEF N
  <2>3. Cardinality(N(i + 1)) = Cardinality(N(i)) + (IF IsOpen(b[i + 1]) THEN 1 ELSE 0)
    BY <1>1, <1>3, <2>1
  <2> QED
    BY <1>1, <2>3 DEF N
<1> QED
  BY <1>2, <1>3

\* The matching brace is one that closes: until it, more have been opened than closed.
LEMMA MatchingIs ==
    ASSUME NEW b \in Seq(Piece), NEW open \in 1 .. Len(b), IsOpen(b[open])
    PROVE  \/ MatchingBrace(b, open) = 0
           \/ MatchingBrace(b, open) \in open + 1 .. Len(b) /\ ~IsOpen(b[MatchingBrace(b, open)])
<1> DEFINE l == Len(b)   N(x) == Cardinality({k \in open .. x : IsOpen(b[k])})
           closed == {i \in open .. l : Balanced(b, open, i)}   c == Min(closed)
<1>1. MatchingBrace(b, open) = IF closed = {} THEN 0 ELSE c
  BY DEF MatchingBrace
<1>2. l \in Nat /\ open \in 1 .. l /\ open \in Nat
  OBVIOUS
<1>3. \A i \in open - 1 .. l : N(i) \in Nat /\ N(i + 1) = N(i) + (IF IsOpen(b[i + 1]) THEN 1 ELSE 0)
  <2> SUFFICES ASSUME NEW i \in open - 1 .. l
               PROVE  N(i) \in Nat /\ N(i + 1) = N(i) + (IF IsOpen(b[i + 1]) THEN 1 ELSE 0)
    OBVIOUS
  <2>1. i \in Nat /\ open <= i + 1
    BY <1>2
  <2> QED
    BY <1>2, <2>1, OpensNext
<1>4. N(open) = 1
  <2>1. {k \in open .. open : IsOpen(b[k])} = {open}
    BY <1>2
  <2> QED
    BY <2>1, FS_Singleton
<1>5. \A i : Balanced(b, open, i) <=> 2 * N(i) = i - open + 1
  BY DEF Balanced
<1> HIDE DEF l, N
<1>6. CASE closed # {}
  <2>1. closed \in SUBSET Nat
    BY <1>2
  <2>2. c \in closed /\ \A i \in closed : c <= i
    BY <1>6, <2>1, MinIs
  <2> HIDE DEF c
  <2>3. c \in open .. l /\ 2 * N(c) = c - open + 1
    BY <1>5, <2>2
  <2>4. c # open
    BY <1>2, <1>4, <2>3
  <2>5. ASSUME IsOpen(b[c]) PROVE FALSE
    <3> DEFINE T == {i \in open .. l : 2 * N(i) < i - open + 1}
    <3>1. c - 1 \in open .. l /\ (c - 1) + 1 = c /\ c - 1 \in open - 1 .. l
      BY <1>2, <2>3, <2>4
    <3>2. N(c) = N(c - 1) + 1 /\ N(c - 1) \in Nat
      BY <1>3, <2>5, <3>1
    <3>3. c - 1 \in T
      BY <1>2, <2>3, <3>1, <3>2
    <3>4. T \in SUBSET Nat
      BY <1>2
    <3>5. PICK m \in T : \A i \in T : m <= i
      BY <3>3, <3>4, LeastElement
    <3>6. m # open /\ m \in open .. l
      BY <1>2, <1>4, <3>5
    <3>7. m - 1 \in open .. l /\ (m - 1) + 1 = m /\ m - 1 \in open - 1 .. l
      BY <1>2, <3>6
    <3>8. N(m - 1) \in Nat /\ (N(m) = N(m - 1) \/ N(m) = N(m - 1) + 1)
      BY <1>3, <3>7
    <3>9. m - 1 \notin T
      BY <1>2, <3>5, <3>7
    <3>10. 2 * N(m - 1) = (m - 1) - open + 1
      <4> DEFINE p == N(m - 1)   q == N(m)
      <4>1. 2 * q < m - open + 1 /\ m \in Nat /\ p \in Nat /\ (q = p \/ q = p + 1)
        BY <1>2, <3>5, <3>6, <3>8
      <4>2. ~(2 * p < (m - 1) - open + 1)
        BY <3>7, <3>9
      <4> HIDE DEF p, q
      <4>3. 2 * p = (m - 1) - open + 1
        BY <1>2, <4>1, <4>2
      <4> QED
        BY <4>3 DEF p
    <3>11. m - 1 \in closed
      BY <1>5, <3>7, <3>10
    <3>12. c <= m - 1 /\ m <= c - 1
      BY <2>2, <3>3, <3>5, <3>11
    <3> QED
      BY <1>2, <2>3, <3>6, <3>12
  <2>6. c \in open + 1 .. l
    BY <1>2, <2>3, <2>4
  <2> QED
    BY <1>1, <1>6, <2>5, <2>6 DEF l
<1> QED
  BY <1>1, <1>6

-----------------------------------------------------------------------------
(* The scan.                                                               *)

\* One turn of the loop, when f gives what the later ones find.
Step(b, f, start) ==
    LET open == FirstOpen(b, start)
        close == IF open = 0 THEN 0 ELSE MatchingBrace(b, open)
    IN  IF close = 0 THEN [start |-> start, open |-> open, out |-> <<>>]
        ELSE [f[close] EXCEPT !.out = Observed(b, open, close) \o @]

LEMMA ScanOf ==
    ASSUME NEW b, NEW g, g = [start \in 0 .. Len(b) |-> Step(b, g, start)]
    PROVE  \E f : Scan(b) = f[0] /\ f = [start \in 0 .. Len(b) |-> Step(b, f, start)]
BY SMT DEF Scan, Step

\* A turn looks only at what the later ones find.
LEMMA StepIs ==
    ASSUME NEW b \in Seq(Piece), NEW f, NEW start \in 0 .. Len(b)
    PROVE  \/ \E o \in {0} \cup (start + 1 .. Len(b)) :
                 \A g : Step(b, g, start) = [start |-> start, open |-> o, out |-> <<>>]
           \/ \E o \in start + 1 .. Len(b), c \in start + 1 .. Len(b) :
                 /\ \A g : Step(b, g, start) = [g[c] EXCEPT !.out = Observed(b, o, c) \o @]
                 /\ o < c /\ ~IsOpen(b[c])
<1> DEFINE o == FirstOpen(b, start)   c == IF o = 0 THEN 0 ELSE MatchingBrace(b, o)
<1>1. \/ o = 0
      \/ o \in start + 1 .. Len(b) /\ IsOpen(b[o])
  BY FirstOpenIs
<1>2. CASE c = 0
  <2>1. \A g : Step(b, g, start) = [start |-> start, open |-> o, out |-> <<>>]
    BY <1>2, Zenon DEF Step
  <2> HIDE DEF o
  <2> QED
    BY <1>1, <2>1
<1>3. CASE c # 0
  <2>1. o # 0 /\ c = MatchingBrace(b, o)
    BY <1>3
  <2>2. \A g : Step(b, g, start) = [g[c] EXCEPT !.out = Observed(b, o, c) \o @]
    BY <1>3, Zenon DEF Step
  <2> HIDE DEF o
  <2>3. o \in 1 .. Len(b) /\ IsOpen(b[o]) /\ o \in start + 1 .. Len(b)
    BY <1>1, <2>1
  <2>4. c \in o + 1 .. Len(b) /\ ~IsOpen(b[c])
    BY <1>3, <2>1, <2>3, MatchingIs
  <2> HIDE DEF c
  <2>5. c \in start + 1 .. Len(b) /\ o < c
    BY <2>3, <2>4
  <2> QED
    BY <2>2, <2>3, <2>4, <2>5
<1> QED
  BY <1>2, <1>3

LEMMA StepLocal ==
    ASSUME NEW b \in Seq(Piece), NEW g, NEW h, NEW start \in 0 .. Len(b),
           \A c \in start + 1 .. Len(b) : h[c] = g[c]
    PROVE  Step(b, h, start) = Step(b, g, start)
<1>1. CASE \E o \in {0} \cup (start + 1 .. Len(b)) :
              \A f : Step(b, f, start) = [start |-> start, open |-> o, out |-> <<>>]
  BY <1>1, Zenon
<1>2. CASE \E o \in start + 1 .. Len(b), c \in start + 1 .. Len(b) :
              \A f : Step(b, f, start) = [f[c] EXCEPT !.out = Observed(b, o, c) \o @]
  BY <1>2, Zenon
<1>3. \/ \E o \in {0} \cup (start + 1 .. Len(b)) :
             \A f : Step(b, f, start) = [start |-> start, open |-> o, out |-> <<>>]
      \/ \E o \in start + 1 .. Len(b), c \in start + 1 .. Len(b) :
             /\ \A f : Step(b, f, start) = [f[c] EXCEPT !.out = Observed(b, o, c) \o @]
             /\ o < c /\ ~IsOpen(b[c])
  BY StepIs, Zenon
<1> QED
  BY <1>1, <1>2, <1>3, Zenon

\* The recursion is well founded.
LEMMA ScanExists ==
    ASSUME NEW b \in Seq(Piece)
    PROVE  \E g : g = [start \in 0 .. Len(b) |-> Step(b, g, start)]
<1> DEFINE l == Len(b)
           Solves(g, lo) == \A s \in lo .. l : g[s] = Step(b, g, s)
           Bad == {k \in 0 .. l + 1 : ~\E g : Solves(g, l + 1 - k)}
<1>1. l \in Nat
  OBVIOUS
<1>2. Bad = {}
  <2> SUFFICES ASSUME Bad # {} PROVE FALSE
    OBVIOUS
  <2>1. Bad \in SUBSET Nat
    BY <1>1
  <2>2. PICK k \in Bad : \A n \in Bad : k <= n
    BY <2>1, LeastElement
  <2>3. k # 0
    <3>1. ASSUME k = 0 PROVE FALSE
      <4>1. l + 1 - 0 .. l = {}
        BY <1>1
      <4>2. Solves(<<>>, l + 1 - 0)
        BY <4>1
      <4> QED
        BY <2>2, <3>1, <4>2
    <3> QED
      BY <3>1
  <2> DEFINE lo == l + 1 - k
  <2>4. k - 1 \in 0 .. l + 1 /\ k - 1 \notin Bad /\ lo \in 0 .. l /\ l + 1 - (k - 1) = lo + 1
    <3>1. k \in 0 .. l + 1
      BY <2>2
    <3>2. k - 1 \in 0 .. l + 1 /\ lo \in 0 .. l /\ l + 1 - (k - 1) = lo + 1 /\ ~(k <= k - 1)
      BY <1>1, <2>3, <3>1
    <3>3. k - 1 \notin Bad
      BY <2>2, <3>2
    <3> QED
      BY <3>2, <3>3
  <2>5. PICK g : Solves(g, lo + 1)
    BY <2>4
  <2> DEFINE h == [s \in 0 .. l |-> IF s = lo THEN Step(b, g, lo) ELSE g[s]]
  <2>6. \A s \in lo .. l : (s # lo => s \in lo + 1 .. l) /\ s \in 0 .. l
    BY <1>1, <2>4
  <2>7. ASSUME NEW s \in lo .. l PROVE Step(b, h, s) = Step(b, g, s)
    <3>1. \A c \in s + 1 .. l : h[c] = g[c]
      <4>1. \A c \in s + 1 .. l : c \in 0 .. l /\ c # lo
        BY <1>1, <2>4
      <4> QED
        BY <4>1
    <3>2. s \in 0 .. Len(b)
      BY <2>6
    <3> HIDE DEF h
    <3> QED
      BY <3>1, <3>2, StepLocal
  <2>8. \A s \in lo .. l : h[s] = Step(b, g, s)
    BY <2>4, <2>5, <2>6
  <2>9. Solves(h, lo)
    BY <2>7, <2>8
  <2> QED
    BY <2>2, <2>9
<1>3. PICK g : Solves(g, 0)
  <2>1. l + 1 \in 0 .. l + 1 /\ l + 1 \notin Bad /\ l + 1 - (l + 1) = 0
    BY <1>1, <1>2
  <2> QED
    BY <2>1
<1> DEFINE h == [s \in 0 .. l |-> g[s]]
<1>4. ASSUME NEW s \in 0 .. l PROVE Step(b, h, s) = Step(b, g, s)
  <2>1. \A c \in s + 1 .. l : h[c] = g[c]
    BY <1>1
  <2> HIDE DEF h
  <2> QED
    BY <2>1, StepLocal
<1>5. h = [s \in 0 .. l |-> Step(b, h, s)]
  BY <1>3, <1>4
<1> QED
  BY <1>5

-----------------------------------------------------------------------------
(* Ages.                                                                   *)

\* As far as ages are told apart, y is younger than x.
Above(x, y) == x > y \/ x = MaxAge

\* The messages end in the order of their sending, in a part of the stream.
Falls(b) == \A i, j \in 1 .. Len(b) :
                i < j /\ EndsMessage(b[i]) /\ EndsMessage(b[j]) => Above(b[i].age, b[j].age)

\* What the loop finds from `start' on: it stops behind what it has taken, and what it
\* has observed are ends of messages it has passed, in their order.
Found(b, start, r) ==
    /\ r \in [start : Nat, open : Nat, out : Seq(0 .. MaxAge)]
    /\ start <= r.start /\ r.start <= Len(b)
    /\ r.open # 0 => r.start < r.open /\ r.open <= Len(b)
    /\ \A i \in 1 .. Len(r.out) : \E p \in start + 1 .. r.start : EndsMessage(b[p]) /\ r.out[i] = b[p].age
    /\ Falls(b) => \A i, j \in 1 .. Len(r.out) : i < j => Above(r.out[i], r.out[j])

\* An object that was observed goes before what is found behind it.
LEMMA FoundBefore ==
    ASSUME NEW b \in Seq(Piece), NEW start \in Nat, NEW c \in start + 1 .. Len(b), NEW r, NEW s,
           Found(b, c, r),
           \/ s = r
           \/ EndsMessage(b[c]) /\ s = [start |-> r.start, open |-> r.open, out |-> <<b[c].age>> \o r.out]
    PROVE  Found(b, start, s)
<1>1. /\ r \in [start : Nat, open : Nat, out : Seq(0 .. MaxAge)]
      /\ c <= r.start /\ r.start <= Len(b) /\ r.start \in Nat
      /\ r.open # 0 => r.start < r.open /\ r.open <= Len(b)
      /\ \A i \in 1 .. Len(r.out) : \E p \in c + 1 .. r.start : EndsMessage(b[p]) /\ r.out[i] = b[p].age
      /\ Falls(b) => \A i, j \in 1 .. Len(r.out) : i < j => Above(r.out[i], r.out[j])
  BY DEF Found
<1>2. start <= r.start /\ c \in start + 1 .. r.start /\ c + 1 .. r.start \subseteq start + 1 .. r.start
  BY <1>1
<1>3. CASE s = r
  BY <1>1, <1>2, <1>3 DEF Found
<1>4. CASE EndsMessage(b[c]) /\ s = [start |-> r.start, open |-> r.open, out |-> <<b[c].age>> \o r.out]
  <2> DEFINE t == r.out   u == <<b[c].age>> \o t
  <2>1. b[c].age \in 0 .. MaxAge
    <3>1. b[c] \in Piece
      OBVIOUS
    <3> QED
      BY <3>1 DEF Piece
  <2>2. t \in Seq(0 .. MaxAge) /\ Len(t) \in Nat
    BY <1>1
  <2>3. /\ u \in Seq(0 .. MaxAge) /\ Len(u) = Len(t) + 1
        /\ u[1] = b[c].age /\ \A i \in 2 .. Len(t) + 1 : u[i] = t[i - 1]
    BY <2>1, <2>2
  <2>4. /\ s.start = r.start /\ s.open = r.open /\ s.out = u
        /\ s \in [start : Nat, open : Nat, out : Seq(0 .. MaxAge)]
    BY <1>1, <1>4, <2>3
  <2> DEFINE n == Len(t)
  <2>8. n \in Nat /\ Len(u) = n + 1
    BY <2>2, <2>3
  <2> HIDE DEF u, t, n
  <2>5. \A i \in 1 .. Len(u) : i = 1 \/ (i - 1 \in 1 .. n /\ i \in 2 .. n + 1 /\ u[i] = t[i - 1])
    BY <2>3, <2>8 DEF n
  <2>6. \A i \in 1 .. Len(u) : \E p \in start + 1 .. r.start : EndsMessage(b[p]) /\ u[i] = b[p].age
    <3> SUFFICES ASSUME NEW i \in 1 .. Len(u)
                 PROVE  \E p \in start + 1 .. r.start : EndsMessage(b[p]) /\ u[i] = b[p].age
      OBVIOUS
    <3>1. CASE i = 1
      BY <1>2, <1>4, <2>3, <3>1
    <3>2. CASE i # 1
      <4>1. i - 1 \in 1 .. n /\ u[i] = t[i - 1]
        BY <2>5, <3>2
      <4>2. PICK p \in c + 1 .. r.start : EndsMessage(b[p]) /\ t[i - 1] = b[p].age
        BY <1>1, <4>1 DEF t, n
      <4> QED
        BY <1>2, <4>1, <4>2
    <3> QED
      BY <3>1, <3>2
  <2>7. ASSUME Falls(b), NEW i \in 1 .. Len(u), NEW j \in 1 .. Len(u), i < j
        PROVE  Above(u[i], u[j])
    <3>1. j # 1 /\ j - 1 \in 1 .. n /\ u[j] = t[j - 1]
      <4>1. j # 1
        BY <2>7, <2>8
      <4> QED
        BY <2>5, <4>1
    <3>2. CASE i = 1
      <4>1. PICK p \in c + 1 .. r.start : EndsMessage(b[p]) /\ t[j - 1] = b[p].age
        BY <1>1, <3>1 DEF t, n
      <4>2. c < p /\ c \in 1 .. Len(b) /\ p \in 1 .. Len(b)
        BY <1>1
      <4>3. Above(b[c].age, b[p].age)
        BY <1>4, <2>7, <4>1, <4>2 DEF Falls
      <4> QED
        BY <2>3, <3>1, <3>2, <4>1, <4>3
    <3>3. CASE i # 1
      <4>1. i - 1 \in 1 .. n /\ u[i] = t[i - 1]
        BY <2>5, <3>3
      <4>2. i - 1 < j - 1
        BY <2>7, <2>8
      <4>3. Above(t[i - 1], t[j - 1])
        BY <1>1, <2>7, <3>1, <4>1, <4>2 DEF t, n
      <4> QED
        BY <3>1, <4>1, <4>3
    <3> QED
      BY <3>2, <3>3
  <2> QED
    BY <1>1, <1>2, <2>4, <2>6, <2>7 DEF Found
<1> QED
  BY <1>3, <1>4

LEMMA StepFound ==
    ASSUME NEW b \in Seq(Piece), NEW f, NEW start \in 0 .. Len(b),
           \A c \in start + 1 .. Len(b) : Found(b, c, f[c])
    PROVE  Found(b, start, Step(b, f, start))
<1>1. CASE \E o \in {0} \cup (start + 1 .. Len(b)) :
              \A g : Step(b, g, start) = [start |-> start, open |-> o, out |-> <<>>]
  <2>1. PICK o \in {0} \cup (start + 1 .. Len(b)) :
               Step(b, f, start) = [start |-> start, open |-> o, out |-> <<>>]
    BY <1>1
  <2> DEFINE r == Step(b, f, start)
  <2>2. /\ r.start = start /\ r.open = o /\ r.out = <<>>
        /\ r \in [start : Nat, open : Nat, out : Seq(0 .. MaxAge)]
    <3>1. <<>> \in Seq(0 .. MaxAge) /\ o \in Nat /\ start \in Nat
      OBVIOUS
    <3> QED
      BY <2>1, <3>1
  <2> HIDE DEF r
  <2>3. /\ start <= r.start /\ r.start <= Len(b)
        /\ r.open # 0 => r.start < r.open /\ r.open <= Len(b)
    BY <2>2
  <2>4. 1 .. Len(r.out) = {}
    BY <2>2
  <2> QED
    BY <2>2, <2>3, <2>4 DEF Found, r
<1>2. CASE \E o \in start + 1 .. Len(b), c \in start + 1 .. Len(b) :
              /\ \A g : Step(b, g, start) = [g[c] EXCEPT !.out = Observed(b, o, c) \o @]
              /\ o < c /\ ~IsOpen(b[c])
  <2>1. PICK o \in start + 1 .. Len(b), c \in start + 1 .. Len(b) :
               /\ Step(b, f, start) = [f[c] EXCEPT !.out = Observed(b, o, c) \o @]
               /\ ~IsOpen(b[c])
    BY <1>2, Zenon
  <2> DEFINE r == f[c]   s == Step(b, f, start)   ob == Observed(b, o, c)
  <2>2. Found(b, c, r)
    OBVIOUS
  <2>3. r \in [start : Nat, open : Nat, out : Seq(0 .. MaxAge)]
    BY <2>2 DEF Found
  <2>4. s = [r EXCEPT !.out = ob \o @]
    BY <2>1, Zenon
  <2>5. ob = <<>> \/ (ob = <<b[c].age>> /\ EndsMessage(b[c]))
    BY <2>1 DEF Observed, EndsMessage
  <2> HIDE DEF r, s, ob
  <2>6. s = [start |-> r.start, open |-> r.open, out |-> ob \o r.out]
    BY <2>3, <2>4
  <2>7. ob = <<>> => s = r
    BY <2>3, <2>6
  <2>8. start \in Nat
    OBVIOUS
  <2>9. \/ s = r
        \/ /\ EndsMessage(b[c])
           /\ s = [start |-> r.start, open |-> r.open, out |-> <<b[c].age>> \o r.out]
    BY <2>5, <2>6, <2>7, Zenon
  <2>10. Found(b, start, s)
    BY <2>2, <2>8, <2>9, FoundBefore, Zenon
  <2> QED
    BY <2>10 DEF s
<1>3. \/ \E o \in {0} \cup (start + 1 .. Len(b)) :
             \A g : Step(b, g, start) = [start |-> start, open |-> o, out |-> <<>>]
      \/ \E o \in start + 1 .. Len(b), c \in start + 1 .. Len(b) :
             /\ \A g : Step(b, g, start) = [g[c] EXCEPT !.out = Observed(b, o, c) \o @]
             /\ o < c /\ ~IsOpen(b[c])
  BY StepIs, Zenon
<1> QED
  BY <1>1, <1>2, <1>3, Zenon

LEMMA ScanFound ==
    ASSUME NEW b \in Seq(Piece)
    PROVE  Found(b, 0, Scan(b))
<1> DEFINE l == Len(b)
<1>1. l \in Nat
  OBVIOUS
<1>2. PICK f : Scan(b) = f[0] /\ f = [start \in 0 .. l |-> Step(b, f, start)]
  BY ScanExists, ScanOf
<1>3. \A start \in 0 .. l : f[start] = Step(b, f, start)
  BY <1>2
<1> DEFINE Bad == {k \in 0 .. l : ~Found(b, l - k, f[l - k])}
<1>4. Bad = {}
  <2> SUFFICES ASSUME Bad # {} PROVE FALSE
    OBVIOUS
  <2>1. Bad \in SUBSET Nat
    BY <1>1
  <2>2. PICK k \in Bad : \A n \in Bad : k <= n
    BY <2>1, LeastElement
  <2> DEFINE s == l - k
  <2>3. s \in 0 .. l /\ k \in 0 .. l
    BY <1>1, <2>2
  <2>4. ASSUME NEW c \in s + 1 .. l PROVE Found(b, c, f[c])
    <3>1. l - c \in 0 .. l /\ ~(k <= l - c) /\ l - (l - c) = c
      BY <1>1, <2>3
    <3>2. l - c \notin Bad
      BY <2>2, <3>1
    <3> QED
      BY <3>1, <3>2
  <2>5. Found(b, s, Step(b, f, s))
    BY <2>3, <2>4, StepFound
  <2>6. Found(b, s, f[s])
    BY <1>3, <2>3, <2>5
  <2> QED
    BY <2>2, <2>6
<1>5. Found(b, 0, f[0])
  <2>1. l \in 0 .. l /\ l \notin Bad /\ l - l = 0
    BY <1>1, <1>4
  <2> QED
    BY <2>1
<1> QED
  BY <1>2, <1>5

-----------------------------------------------------------------------------
(* What feed() leaves in the buffer.                                       *)

LEMMA DropIs ==
    ASSUME NEW b \in Seq(Piece), NEW k \in 0 .. Len(b)
    PROVE  /\ Drop(b, k) \in Seq(Piece) /\ Len(Drop(b, k)) = Len(b) - k
           /\ \A i \in 1 .. Len(b) - k : Drop(b, k)[i] = b[i + k]
<1>1. /\ b \in Seq(Piece) /\ k + 1 \in 1 .. Len(b) + 1 /\ Len(b) \in Len(b) .. Len(b)
      /\ Len(b) \in Nat /\ k \in Nat /\ k <= Len(b)
  OBVIOUS
<1> DEFINE d == SubSeq(b, k + 1, Len(b))   n == Len(b) - k
<1>2. n \in Nat /\ \A i \in 1 .. n : i + k \in 1 .. Len(b) /\ i + k = (k + 1) + i - 1
  BY <1>1
<1>3. Len(d) = n /\ \A i \in 1 .. n : d[i] = b[i + k]
  BY <1>1, <1>2
<1>4. d \in Seq(Piece)
  BY <1>1, <1>2
<1> QED
  BY <1>3, <1>4 DEF Drop

LEMMA SamePieces ==
    ASSUME NEW s \in Seq(Piece), NEW t \in Seq(Piece), Len(s) = Len(t),
           \A i \in 1 .. Len(s) : s[i] = t[i]
    PROVE  s = t
OBVIOUS

LEMMA DropDrop ==
    ASSUME NEW b \in Seq(Piece), NEW k \in 0 .. Len(b), NEW m \in 0 .. Len(b) - k
    PROVE  Drop(Drop(b, k), m) = Drop(b, k + m) /\ k + m \in 0 .. Len(b)
<1> DEFINE c == Drop(b, k)   d == Drop(c, m)   e == Drop(b, k + m)   l == Len(b)
<1>1. l \in Nat /\ k + m \in 0 .. l /\ k \in Nat /\ m \in Nat
  OBVIOUS
<1>2. c \in Seq(Piece) /\ Len(c) = l - k /\ \A i \in 1 .. l - k : c[i] = b[i + k]
  BY DropIs
<1> HIDE DEF c
<1>3. m \in 0 .. Len(c)
  BY <1>2
<1>4. d \in Seq(Piece) /\ Len(d) = Len(c) - m /\ \A i \in 1 .. Len(c) - m : d[i] = c[i + m]
  BY <1>2, <1>3, DropIs
<1>5. e \in Seq(Piece) /\ Len(e) = l - (k + m) /\ \A i \in 1 .. l - (k + m) : e[i] = b[i + (k + m)]
  BY <1>1, DropIs
<1> HIDE DEF d, e, l
<1>6. Len(d) = Len(e) /\ Len(c) - m = l - (k + m)
  BY <1>1, <1>2, <1>4, <1>5
<1>7. ASSUME NEW i \in 1 .. l - (k + m) PROVE d[i] = e[i]
  <2>1. i + m \in 1 .. l - k /\ (i + m) + k = i + (k + m)
    BY <1>1
  <2>2. d[i] = c[i + m]
    BY <1>4, <1>6
  <2>3. c[i + m] = b[(i + m) + k]
    BY <1>2, <2>1
  <2>4. e[i] = b[i + (k + m)]
    BY <1>5
  <2> QED
    BY <2>1, <2>2, <2>3, <2>4
<1>8. \A i \in 1 .. Len(d) : d[i] = e[i]
  BY <1>5, <1>6, <1>7
<1>9. d = e
  BY <1>4, <1>5, <1>6, <1>8, SamePieces
<1> QED
  BY <1>1, <1>9 DEF c, d, e, l

LEMMA DropEnds ==
    ASSUME NEW b \in Seq(Piece)
    PROVE  Drop(b, 0) = b /\ Drop(b, Len(b)) = <<>>
<1>1. Drop(b, 0) \in Seq(Piece) /\ Len(Drop(b, 0)) = Len(b) - 0
      /\ \A i \in 1 .. Len(b) - 0 : Drop(b, 0)[i] = b[i + 0]
  BY DropIs
<1>2. Drop(b, 0) = b
  BY <1>1, SamePieces
<1>3. Drop(b, Len(b)) = <<>>
  BY DEF Drop
<1> QED
  BY <1>2, <1>3

LEMMA DropFirst ==
    ASSUME NEW b \in Seq(Piece), Len(b) >= 1
    PROVE  Tail(b) = Drop(b, 1)
BY DEF Drop

\* The buffer is cut at its front, and fits its bound.
LEMMA ResyncIs ==
    ASSUME NEW b \in Seq(Piece)
    PROVE  \E k \in 0 .. Len(b) : Resync(b) = Drop(b, k) /\ Len(b) - k <= MaxBuffer
<1> DEFINE l == Len(b)   I == {i \in 1 .. l : IsOpen(b[i])}   o == SelectLastInSeq(b, IsOpen)
<1>1. l \in Nat /\ MaxBuffer \in Nat /\ MaxBuffer > 0
  BY OdasAssumption
<1>2. o \in 0 .. l
  <2>1. o = IF I # {} THEN Max(I) ELSE 0
    BY DEF SelectLastInSeq
  <2>2. I # {} => Max(I) \in I
    <3>1. I \in SUBSET (1 .. l)
      OBVIOUS
    <3> HIDE DEF I
    <3> QED
      BY <1>1, <3>1, MaxIs
  <2> QED
    BY <1>1, <2>1, <2>2
<1>3. Resync(b) = IF l <= MaxBuffer THEN b
                  ELSE IF o = 0 THEN <<>>
                  ELSE IF l - o + 1 <= MaxBuffer THEN Drop(b, o - 1)
                  ELSE Drop(b, l - MaxBuffer)
  BY DEF Resync
<1>4. Drop(b, 0) = b /\ Drop(b, l) = <<>>
  BY DropEnds
<1> HIDE DEF l, o
<1>5. CASE l <= MaxBuffer
  <2>1. Resync(b) = Drop(b, 0) /\ 0 \in 0 .. l /\ l - 0 <= MaxBuffer
    BY <1>1, <1>3, <1>4, <1>5
  <2> QED
    BY <2>1 DEF l
<1>6. CASE l > MaxBuffer /\ o = 0
  <2>1. Resync(b) = Drop(b, l) /\ l \in 0 .. l /\ l - l <= MaxBuffer
    BY <1>1, <1>3, <1>4, <1>6
  <2> QED
    BY <2>1 DEF l
<1>7. CASE l > MaxBuffer /\ o # 0 /\ l - o + 1 <= MaxBuffer
  <2>1. Resync(b) = Drop(b, o - 1) /\ o - 1 \in 0 .. l /\ l - (o - 1) <= MaxBuffer
    BY <1>1, <1>2, <1>3, <1>7
  <2> QED
    BY <2>1 DEF l
<1>8. CASE l > MaxBuffer /\ o # 0 /\ l - o + 1 > MaxBuffer
  <2>1. Resync(b) = Drop(b, l - MaxBuffer) /\ l - MaxBuffer \in 0 .. l
        /\ l - (l - MaxBuffer) <= MaxBuffer
    BY <1>1, <1>2, <1>3, <1>8
  <2> QED
    BY <2>1 DEF l
<1> QED
  BY <1>1, <1>2, <1>5, <1>6, <1>7, <1>8

\* What the loop and the erase after it leave begins behind what was taken.
LEMMA LeftIs ==
    ASSUME NEW b \in Seq(Piece), NEW start \in Nat, NEW open \in Nat, start <= Len(b),
           open # 0 => start < open /\ open <= Len(b)
    PROVE  \E k \in start .. Len(b) : EraseStart(Rest(b, open), start) = Drop(b, k)
<1> DEFINE l == Len(b)   r == Rest(b, open)
<1>1. l \in Nat /\ Drop(b, 0) = b /\ Drop(b, l) = <<>>
  BY DropEnds
<1>2. PICK k \in start .. l : r = Drop(b, k)
  <2>1. CASE open = 0
    <3>1. r = Drop(b, l) /\ l \in start .. l
      BY <1>1, <2>1 DEF Rest
    <3> QED
      BY <3>1
  <2>2. CASE open > 1
    <3>1. r = Drop(b, open - 1) /\ open - 1 \in start .. l
      BY <1>1, <2>2 DEF Rest
    <3> QED
      BY <3>1
  <2>3. CASE open = 1
    <3>1. start = 0 /\ l >= 1
      BY <1>1, <2>3
    <3>2. Tail(b) = Drop(b, 1)
      BY <3>1, DropFirst
    <3>3. r = Drop(b, 1) \/ r = Drop(b, 0)
      BY <1>1, <2>3, <3>2 DEF Rest
    <3>4. 0 \in start .. l /\ 1 \in start .. l
      BY <1>1, <3>1
    <3> QED
      BY <3>3, <3>4
  <2> QED
    BY <2>1, <2>2, <2>3
<1> HIDE DEF r
<1>3. k \in 0 .. l
  BY <1>1
<1>4. Len(r) = l - k
  BY <1>2, <1>3, DropIs
<1>5. CASE start > 0 /\ start <= Len(r)
  <2>1. start \in 0 .. l - k
    BY <1>1, <1>4, <1>5
  <2>2. Drop(r, start) = Drop(b, k + start) /\ k + start \in 0 .. l
    BY <1>2, <1>3, <2>1, DropDrop
  <2>3. k + start \in start .. l
    BY <1>1, <1>3, <2>2
  <2>4. EraseStart(r, start) = Drop(b, k + start)
    BY <1>5, <2>2 DEF EraseStart
  <2> QED
    BY <2>3, <2>4 DEF r
<1>6. CASE ~(start > 0 /\ start <= Len(r))
  <2>1. EraseStart(r, start) = Drop(b, k)
    BY <1>2, <1>6, Zenon DEF EraseStart
  <2> QED
    BY <2>1 DEF r
<1> QED
  BY <1>5, <1>6

-----------------------------------------------------------------------------
(* What is taken from a stream, and what is left of it.                    *)

\* What was observed are ends of messages among the first k pieces, in their order.
TakenFrom(b, k, o) ==
    /\ o \in Seq(0 .. MaxAge)
    /\ \A i \in 1 .. Len(o) : \E p \in 1 .. k : EndsMessage(b[p]) /\ o[i] = b[p].age
    /\ Falls(b) => \A i, j \in 1 .. Len(o) : i < j => Above(o[i], o[j])

\* t is s without its first k pieces, as far as messages end there.
Carries(s, t, k) ==
    \A i \in 1 .. Len(t) : EndsMessage(t[i]) =>
        i + k \in 1 .. Len(s) /\ EndsMessage(s[i + k]) /\ t[i].age = s[i + k].age

AboveAll(x, s) == \A j \in 1 .. Len(s) : EndsMessage(s[j]) => Above(x, s[j].age)

LEMMA FallsOn ==
    ASSUME NEW s, NEW t, NEW k \in Nat, Len(t) \in Nat, Carries(s, t, k), Falls(s)
    PROVE  Falls(t)
<1> SUFFICES ASSUME NEW i \in 1 .. Len(t), NEW j \in 1 .. Len(t), i < j,
                    EndsMessage(t[i]), EndsMessage(t[j])
             PROVE  Above(t[i].age, t[j].age)
  BY DEF Falls
<1>1. /\ i + k \in 1 .. Len(s) /\ EndsMessage(s[i + k]) /\ t[i].age = s[i + k].age
      /\ j + k \in 1 .. Len(s) /\ EndsMessage(s[j + k]) /\ t[j].age = s[j + k].age
  BY DEF Carries
<1>2. i + k < j + k
  OBVIOUS
<1>3. Above(s[i + k].age, s[j + k].age)
  BY <1>1, <1>2 DEF Falls
<1> QED
  BY <1>1, <1>3

LEMMA AboveOn ==
    ASSUME NEW s, NEW t, NEW k \in Nat, Carries(s, t, k), NEW x, AboveAll(x, s)
    PROVE  AboveAll(x, t)
BY DEF Carries, AboveAll

LEMMA DropCarries ==
    ASSUME NEW b \in Seq(Piece), NEW k \in 0 .. Len(b)
    PROVE  Carries(b, Drop(b, k), k)
<1> DEFINE l == Len(b)
<1>1. Len(Drop(b, k)) = l - k /\ \A i \in 1 .. l - k : Drop(b, k)[i] = b[i + k]
  BY DropIs
<1>2. \A i \in 1 .. l - k : i + k \in 1 .. l
  OBVIOUS
<1> QED
  BY <1>1, <1>2 DEF Carries

\* What was taken before the cut goes before what is left.
LEMMA BeforeCut ==
    ASSUME NEW b \in Seq(Piece), NEW k \in 0 .. Len(b), Falls(b), NEW p \in 1 .. k, EndsMessage(b[p])
    PROVE  AboveAll(b[p].age, Drop(b, k))
<1> SUFFICES ASSUME NEW j \in 1 .. Len(Drop(b, k)), EndsMessage(Drop(b, k)[j])
             PROVE  Above(b[p].age, Drop(b, k)[j].age)
  BY DEF AboveAll
<1>1. /\ j + k \in 1 .. Len(b) /\ EndsMessage(b[j + k]) /\ Drop(b, k)[j].age = b[j + k].age
  BY DropCarries DEF Carries
<1>2. p \in 1 .. Len(b) /\ p < j + k
  BY <1>1
<1> QED
  BY <1>1, <1>2 DEF Falls

\* feed(): what it leaves is the end of what it had, what it returns was before that.
LEMMA FeedIs ==
    ASSUME NEW chunk, buffer \o chunk \in Seq(Piece)
    PROVE  LET b == buffer \o chunk
           IN  \E k \in 0 .. Len(b) : /\ Feed(chunk).buffer = Drop(b, k) /\ Len(b) - k <= MaxBuffer
                                      /\ TakenFrom(b, k, Feed(chunk).out)
<1> DEFINE b == buffer \o chunk   c == Resync(b)   r == Scan(c)   o == r.out
           left == EraseStart(Rest(c, r.open), r.start)
<1>1. b \in Seq(Piece) /\ Len(b) \in Nat
  OBVIOUS
<1>2. Feed(chunk).buffer = left /\ Feed(chunk).out = o
  BY DEF Feed
<1> HIDE DEF b
<1>3. PICK k0 \in 0 .. Len(b) : c = Drop(b, k0) /\ Len(b) - k0 <= MaxBuffer
  BY <1>1, ResyncIs
<1> HIDE DEF c
<1>4. c \in Seq(Piece) /\ Len(c) = Len(b) - k0 /\ \A i \in 1 .. Len(b) - k0 : c[i] = b[i + k0]
  BY <1>1, <1>3, DropIs
<1>5. Found(c, 0, r)
  BY <1>4, ScanFound
<1> HIDE DEF r
<1>6. /\ r.start \in Nat /\ r.open \in Nat /\ o \in Seq(0 .. MaxAge) /\ r.start <= Len(c)
      /\ r.open # 0 => r.start < r.open /\ r.open <= Len(c)
      /\ \A i \in 1 .. Len(o) : \E p \in 0 + 1 .. r.start : EndsMessage(c[p]) /\ o[i] = c[p].age
      /\ Falls(c) => \A i, j \in 1 .. Len(o) : i < j => Above(o[i], o[j])
  BY <1>5 DEF Found
<1>7. PICK k1 \in r.start .. Len(c) : left = Drop(c, k1)
  BY <1>4, <1>6, LeftIs
<1> HIDE DEF left, o
<1> DEFINE k == k0 + k1
<1>8. /\ k1 \in 0 .. Len(b) - k0 /\ k \in 0 .. Len(b) /\ Len(b) - k <= MaxBuffer
      /\ Len(b) - k0 \in Nat /\ k1 <= Len(b) - k0
  BY <1>1, <1>3, <1>4, <1>6, OdasAssumption
<1>9. left = Drop(b, k)
  BY <1>1, <1>3, <1>7, <1>8, DropDrop
<1>10. ASSUME NEW i \in 1 .. Len(o) PROVE \E p \in 1 .. k : EndsMessage(b[p]) /\ o[i] = b[p].age
  <2>1. PICK p \in 0 + 1 .. r.start : EndsMessage(c[p]) /\ o[i] = c[p].age
    BY <1>6
  <2>2. p \in 1 .. Len(b) - k0 /\ p + k0 \in 1 .. k
    BY <1>4, <1>6, <1>8
  <2>3. c[p] = b[p + k0]
    BY <1>4, <2>2
  <2> QED
    BY <2>1, <2>2, <2>3
<1>11. Falls(b) => Falls(c)
  BY <1>1, <1>3, <1>4, DropCarries, FallsOn
<1>12. TakenFrom(b, k, o)
  BY <1>6, <1>10, <1>11 DEF TakenFrom
<1>13. \E n \in 0 .. Len(b) : /\ Feed(chunk).buffer = Drop(b, n) /\ Len(b) - n <= MaxBuffer
                              /\ TakenFrom(b, n, Feed(chunk).out)
  BY <1>2, <1>8, <1>9, <1>12
<1> QED
  BY <1>13 DEF b

-----------------------------------------------------------------------------
(* The stream: what the parser holds, and then what is on its way.         *)

LEMMA JoinIs ==
    ASSUME NEW s \in Seq(Piece), NEW t \in Seq(Piece)
    PROVE  /\ s \o t \in Seq(Piece) /\ Len(s \o t) = Len(s) + Len(t)
           /\ \A i \in 1 .. Len(s) : (s \o t)[i] = s[i]
           /\ \A i \in 1 .. Len(t) : (s \o t)[i + Len(s)] = t[i]
<1>1. s \o t \in Seq(Piece) /\ Len(s \o t) = Len(s) + Len(t)
  OBVIOUS
<1>2. \A i \in 1 .. Len(s) : (s \o t)[i] = s[i]
  OBVIOUS
<1>3. \A i \in 1 .. Len(t) : (s \o t)[i + Len(s)] = t[i]
  OBVIOUS
<1> QED
  BY <1>1, <1>2, <1>3

LEMMA JoinJoin ==
    ASSUME NEW s \in Seq(Piece), NEW t \in Seq(Piece), NEW u \in Seq(Piece)
    PROVE  (s \o t) \o u = s \o (t \o u)
OBVIOUS

LEMMA PrefixIs ==
    ASSUME NEW s \in Seq(Piece), NEW n \in 0 .. Len(s)
    PROVE  /\ SubSeq(s, 1, n) \in Seq(Piece) /\ Len(SubSeq(s, 1, n)) = n
           /\ \A i \in 1 .. n : SubSeq(s, 1, n)[i] = s[i]
OBVIOUS

LEMMA JoinEquals ==
    ASSUME NEW s \in Seq(Piece), NEW t \in Seq(Piece), NEW u \in Seq(Piece),
           Len(u) = Len(s) + Len(t),
           \A i \in 1 .. Len(s) : u[i] = s[i],
           \A i \in 1 .. Len(t) : u[i + Len(s)] = t[i]
    PROVE  s \o t = u
<1> DEFINE j == s \o t
<1>1. /\ j \in Seq(Piece) /\ Len(j) = Len(s) + Len(t)
      /\ \A i \in 1 .. Len(s) : j[i] = s[i]
      /\ \A i \in 1 .. Len(t) : j[i + Len(s)] = t[i]
  BY JoinIs
<1> HIDE DEF j
<1>2. ASSUME NEW i \in 1 .. Len(u)
      PROVE  j[i] = u[i]
  <2> DEFINE c == i - Len(s)
  <2>1. CASE i <= Len(s)
    BY <2>1, <1>1
  <2>2. CASE ~(i <= Len(s))
    <3>1. c \in 1 .. Len(t) /\ i = c + Len(s)
      BY <2>2
    <3> HIDE DEF c
    <3> QED
      BY <3>1, <1>1
  <2> QED
    BY <2>1, <2>2
<1>3. j = u
  BY <1>1, <1>2, SamePieces
<1> QED
  BY <1>3 DEF j

LEMMA CutJoins ==
    ASSUME NEW s \in Seq(Piece), NEW n \in 0 .. Len(s)
    PROVE  SubSeq(s, 1, n) \o Drop(s, n) = s
<1> DEFINE p == SubSeq(s, 1, n)   d == Drop(s, n)
<1>1. p \in Seq(Piece) /\ Len(p) = n /\ \A i \in 1 .. n : p[i] = s[i]
  BY PrefixIs
<1>2. d \in Seq(Piece) /\ Len(d) = Len(s) - n /\ \A i \in 1 .. Len(s) - n : d[i] = s[i + n]
  BY DropIs
<1> HIDE DEF p, d
<1>3. Len(s) = Len(p) + Len(d)
  BY <1>1, <1>2
<1>4. \A i \in 1 .. Len(p) : s[i] = p[i]
  BY <1>1
<1>5. \A i \in 1 .. Len(d) : s[i + Len(p)] = d[i]
  BY <1>1, <1>2
<1>6. p \o d = s
  BY <1>1, <1>2, <1>3, <1>4, <1>5, JoinEquals
<1> QED
  BY <1>6 DEF p, d

LEMMA DropJoins ==
    ASSUME NEW s \in Seq(Piece), NEW t \in Seq(Piece), NEW k \in 0 .. Len(s)
    PROVE  Drop(s, k) \o t = Drop(s \o t, k) /\ k \in 0 .. Len(s \o t)
<1> DEFINE d == Drop(s, k)   u == s \o t   e == Drop(u, k)
<1>1. d \in Seq(Piece) /\ Len(d) = Len(s) - k /\ \A i \in 1 .. Len(s) - k : d[i] = s[i + k]
  BY DropIs
<1>2. /\ u \in Seq(Piece) /\ Len(u) = Len(s) + Len(t)
      /\ \A i \in 1 .. Len(s) : u[i] = s[i]
      /\ \A i \in 1 .. Len(t) : u[i + Len(s)] = t[i]
  BY JoinIs
<1>3. k \in 0 .. Len(u)
  BY <1>2
<1>4. e \in Seq(Piece) /\ Len(e) = Len(u) - k /\ \A i \in 1 .. Len(u) - k : e[i] = u[i + k]
  BY <1>2, <1>3, DropIs
<1> HIDE DEF d, u, e
<1>5. Len(e) = Len(d) + Len(t)
  BY <1>1, <1>2, <1>4
<1>6. ASSUME NEW i \in 1 .. Len(d)
      PROVE  e[i] = d[i]
  <2>1. i \in 1 .. Len(u) - k /\ i + k \in 1 .. Len(s) /\ i \in 1 .. Len(s) - k
    BY <1>1, <1>2
  <2> QED
    BY <2>1, <1>1, <1>2, <1>4
<1>7. ASSUME NEW i \in 1 .. Len(t)
      PROVE  e[i + Len(d)] = t[i]
  <2> DEFINE h == i + Len(d)
  <2>1. h \in 1 .. Len(u) - k /\ h + k = i + Len(s)
    BY <1>1, <1>2
  <2>2. e[h] = u[h + k]
    BY <2>1, <1>4
  <2> QED
    BY <2>1, <2>2, <1>2
<1>8. d \o t = e
  BY <1>1, <1>4, <1>5, <1>6, <1>7, JoinEquals
<1> QED
  BY <1>3, <1>8 DEF d, u, e

LEMMA StartCarries ==
    ASSUME NEW s \in Seq(Piece), NEW t \in Seq(Piece)
    PROVE  Carries(s \o t, s, 0)
<1>1. /\ Len(s \o t) = Len(s) + Len(t)
      /\ \A i \in 1 .. Len(s) : (s \o t)[i] = s[i]
  BY JoinIs
<1>2. \A i \in 1 .. Len(s) : i + 0 = i /\ i \in 1 .. Len(s) + Len(t)
  OBVIOUS
<1> QED
  BY <1>1, <1>2 DEF Carries

LEMMA FallsJoin ==
    ASSUME NEW s \in Seq(Piece), NEW t \in Seq(Piece), Falls(s), Falls(t),
           \A i \in 1 .. Len(s) : EndsMessage(s[i]) => AboveAll(s[i].age, t)
    PROVE  Falls(s \o t)
<1> DEFINE u == s \o t
<1>1. /\ u \in Seq(Piece) /\ Len(u) = Len(s) + Len(t)
      /\ \A i \in 1 .. Len(s) : u[i] = s[i]
      /\ \A i \in 1 .. Len(t) : u[i + Len(s)] = t[i]
  BY JoinIs
<1> HIDE DEF u
<1>2. ASSUME NEW i \in 1 .. Len(u), NEW j \in 1 .. Len(u), i < j, EndsMessage(u[i]), EndsMessage(u[j])
      PROVE  Above(u[i].age, u[j].age)
  <2> DEFINE a == i - Len(s)   c == j - Len(s)
  <2>1. CASE j <= Len(s)
    <3>1. i \in 1 .. Len(s) /\ j \in 1 .. Len(s)
      BY <2>1, <1>2
    <3> QED
      BY <3>1, <1>1, <1>2 DEF Falls
  <2>2. CASE i <= Len(s) /\ ~(j <= Len(s))
    <3>1. i \in 1 .. Len(s) /\ c \in 1 .. Len(t) /\ j = c + Len(s)
      BY <2>2, <1>1, <1>2
    <3> HIDE DEF c
    <3>2. u[i] = s[i] /\ u[j] = t[c]
      BY <3>1, <1>1
    <3> QED
      BY <3>1, <3>2, <1>2 DEF AboveAll
  <2>3. CASE ~(i <= Len(s))
    <3>1. a \in 1 .. Len(t) /\ c \in 1 .. Len(t) /\ a < c /\ i = a + Len(s) /\ j = c + Len(s)
      BY <2>3, <1>1, <1>2
    <3> HIDE DEF a, c
    <3>2. u[i] = t[a] /\ u[j] = t[c]
      BY <3>1, <1>1
    <3> QED
      BY <3>1, <3>2, <1>2 DEF Falls
  <2> QED
    BY <2>1, <2>2, <2>3
<1>3. Falls(u)
  BY <1>2 DEF Falls
<1> QED
  BY <1>3 DEF u

LEMMA AboveJoin ==
    ASSUME NEW s \in Seq(Piece), NEW t \in Seq(Piece), NEW x, AboveAll(x, s), AboveAll(x, t)
    PROVE  AboveAll(x, s \o t)
<1> DEFINE u == s \o t
<1>1. /\ u \in Seq(Piece) /\ Len(u) = Len(s) + Len(t)
      /\ \A i \in 1 .. Len(s) : u[i] = s[i]
      /\ \A i \in 1 .. Len(t) : u[i + Len(s)] = t[i]
  BY JoinIs
<1> HIDE DEF u
<1>2. ASSUME NEW j \in 1 .. Len(u), EndsMessage(u[j])
      PROVE  Above(x, u[j].age)
  <2> DEFINE c == j - Len(s)
  <2>1. CASE j <= Len(s)
    <3>1. j \in 1 .. Len(s)
      BY <2>1, <1>2
    <3> QED
      BY <3>1, <1>1, <1>2 DEF AboveAll
  <2>2. CASE ~(j <= Len(s))
    <3>1. c \in 1 .. Len(t) /\ j = c + Len(s)
      BY <2>2, <1>1, <1>2
    <3> HIDE DEF c
    <3>2. u[j] = t[c]
      BY <3>1, <1>1
    <3> QED
      BY <3>1, <3>2, <1>2 DEF AboveAll
  <2> QED
    BY <2>1, <2>2
<1>3. AboveAll(x, u)
  BY <1>2 DEF AboveAll
<1> QED
  BY <1>3 DEF u

-----------------------------------------------------------------------------
(* What the server sends.                                                  *)

LEMMA OlderIs ==
    ASSUME NEW x \in 0 .. MaxAge, NEW y \in 0 .. MaxAge
    PROVE  /\ Older(x) \in 0 .. MaxAge
           /\ Above(x, y) => Above(Older(x), Older(y))
           /\ Above(Older(x), 0)
BY OdasAssumption DEF Older, Least, Above

LEMMA AgesBounded ==
    ASSUME NEW s \in Seq(Piece)
    PROVE  \A i \in 1 .. Len(s) : s[i].age \in 0 .. MaxAge
<1>1. \A i \in 1 .. Len(s) : s[i] \in Piece
  OBVIOUS
<1> QED
  BY <1>1 DEF Piece

LEMMA AgedIs ==
    ASSUME NEW s \in Seq(Piece)
    PROVE  /\ Aged(s) \in Seq(Piece) /\ Len(Aged(s)) = Len(s)
           /\ \A i \in 1 .. Len(s) : /\ EndsMessage(Aged(s)[i]) <=> EndsMessage(s[i])
                                     /\ EndsMessage(s[i]) => Aged(s)[i].age = Older(s[i].age)
<1> DEFINE a == Aged(s)   l == Len(s)
<1>1. l \in Nat /\ DOMAIN s = 1 .. l /\ \A i \in 1 .. l : s[i] \in Piece
  OBVIOUS
<1>2. a = [i \in 1 .. l |-> IF EndsMessage(s[i]) THEN [s[i] EXCEPT !.age = Older(@)] ELSE s[i]]
  BY <1>1 DEF Aged
<1> HIDE DEF a, l
<1>3. ASSUME NEW i \in 1 .. l
      PROVE  /\ a[i] \in Piece
             /\ EndsMessage(a[i]) <=> EndsMessage(s[i])
             /\ EndsMessage(s[i]) => a[i].age = Older(s[i].age)
  <2> DEFINE p == s[i]   q == [p EXCEPT !.age = Older(@)]
  <2>1. a[i] = IF EndsMessage(p) THEN q ELSE p
    BY <1>2
  <2>2. p \in Piece
    BY <1>1
  <2> HIDE DEF p
  <2>3. Older(p.age) \in 0 .. MaxAge
    BY <2>2, OlderIs DEF Piece
  <2>4. q \in Piece /\ q.age = Older(p.age) /\ q.brace = p.brace /\ q.outer = p.outer
    BY <2>2, <2>3 DEF Piece
  <2> HIDE DEF q
  <2>5. EndsMessage(q) <=> EndsMessage(p)
    BY <2>4 DEF EndsMessage, IsOpen
  <2> QED
    BY <2>1, <2>2, <2>4, <2>5 DEF p
<1>4. a \in Seq(Piece) /\ Len(a) = l
  BY <1>1, <1>2, <1>3
<1> QED
  BY <1>3, <1>4 DEF a, l

LEMMA AgedFalls ==
    ASSUME NEW s \in Seq(Piece), Falls(s)
    PROVE  Falls(Aged(s))
<1> DEFINE a == Aged(s)
<1>1. /\ Len(a) = Len(s)
      /\ \A i \in 1 .. Len(s) : /\ EndsMessage(a[i]) <=> EndsMessage(s[i])
                                /\ EndsMessage(s[i]) => a[i].age = Older(s[i].age)
  BY AgedIs
<1> HIDE DEF a
<1>2. \A i \in 1 .. Len(s) : s[i].age \in 0 .. MaxAge
  BY AgesBounded
<1>3. ASSUME NEW i \in 1 .. Len(s), NEW j \in 1 .. Len(s), i < j, EndsMessage(a[i]), EndsMessage(a[j])
      PROVE  Above(a[i].age, a[j].age)
  <2>1. EndsMessage(s[i]) /\ EndsMessage(s[j])
    BY <1>1, <1>3
  <2>2. Above(s[i].age, s[j].age)
    BY <2>1, <1>3 DEF Falls
  <2>3. Above(Older(s[i].age), Older(s[j].age))
    BY <1>2, <2>2, OlderIs
  <2> QED
    BY <1>1, <2>1, <2>3
<1>4. Falls(a)
  BY <1>1, <1>3 DEF Falls
<1> QED
  BY <1>4 DEF a

LEMMA AgedAbove ==
    ASSUME NEW s \in Seq(Piece), NEW x \in 0 .. MaxAge, AboveAll(x, s)
    PROVE  AboveAll(Older(x), Aged(s))
<1> DEFINE a == Aged(s)
<1>1. /\ Len(a) = Len(s)
      /\ \A i \in 1 .. Len(s) : /\ EndsMessage(a[i]) <=> EndsMessage(s[i])
                                /\ EndsMessage(s[i]) => a[i].age = Older(s[i].age)
  BY AgedIs
<1> HIDE DEF a
<1>2. \A i \in 1 .. Len(s) : s[i].age \in 0 .. MaxAge
  BY AgesBounded
<1>3. ASSUME NEW j \in 1 .. Len(s), EndsMessage(a[j])
      PROVE  Above(Older(x), a[j].age)
  <2>1. EndsMessage(s[j])
    BY <1>1, <1>3
  <2>2. Above(x, s[j].age)
    BY <2>1 DEF AboveAll
  <2>3. Above(Older(x), Older(s[j].age))
    BY <1>2, <2>2, OlderIs
  <2> QED
    BY <1>1, <2>1, <2>3
<1>4. AboveAll(Older(x), a)
  BY <1>1, <1>3 DEF AboveAll
<1> QED
  BY <1>4 DEF a

\* Ageing a stream is ageing its parts.
LEMMA AgedJoin ==
    ASSUME NEW s \in Seq(Piece), NEW t \in Seq(Piece)
    PROVE  Aged(s) \o Aged(t) = Aged(s \o t)
<1> DEFINE G(p) == IF EndsMessage(p) THEN [p EXCEPT !.age = Older(@)] ELSE p
           u == s \o t   a == Aged(s)   b == Aged(t)   c == Aged(u)
<1>1. /\ u \in Seq(Piece) /\ Len(u) = Len(s) + Len(t)
      /\ \A i \in 1 .. Len(s) : u[i] = s[i]
      /\ \A i \in 1 .. Len(t) : u[i + Len(s)] = t[i]
  BY JoinIs
<1>2. /\ a \in Seq(Piece) /\ Len(a) = Len(s)
      /\ b \in Seq(Piece) /\ Len(b) = Len(t)
      /\ c \in Seq(Piece) /\ Len(c) = Len(u)
  BY <1>1, AgedIs
<1>3. DOMAIN s = 1 .. Len(s) /\ DOMAIN t = 1 .. Len(t) /\ DOMAIN u = 1 .. Len(u)
  BY <1>1
<1>4. \A i \in 1 .. Len(s) : a[i] = G(s[i])
  BY <1>3 DEF Aged
<1>5. \A i \in 1 .. Len(t) : b[i] = G(t[i])
  BY <1>3 DEF Aged
<1>6. \A i \in 1 .. Len(u) : c[i] = G(u[i])
  BY <1>3 DEF Aged
<1> HIDE DEF G, u, a, b, c
<1>7. \A i \in 1 .. Len(s) : i \in 1 .. Len(u)
  BY <1>1
<1>8. \A i \in 1 .. Len(t) : i + Len(s) \in 1 .. Len(u)
  BY <1>1
<1>9. \A i \in 1 .. Len(a) : c[i] = a[i]
  <2> SUFFICES ASSUME NEW i \in 1 .. Len(s)
               PROVE  c[i] = a[i]
    BY <1>2
  <2>1. c[i] = G(u[i])
    BY <1>6, <1>7
  <2> QED
    BY <2>1, <1>1, <1>4
<1>10. \A i \in 1 .. Len(b) : c[i + Len(a)] = b[i]
  <2> SUFFICES ASSUME NEW i \in 1 .. Len(t)
               PROVE  c[i + Len(s)] = b[i]
    BY <1>2
  <2>1. c[i + Len(s)] = G(u[i + Len(s)])
    BY <1>6, <1>8
  <2> QED
    BY <2>1, <1>1, <1>5
<1>11. Len(c) = Len(a) + Len(b)
  BY <1>1, <1>2
<1>12. a \o b = c
  BY <1>2, <1>9, <1>10, <1>11, JoinEquals
<1> QED
  BY <1>12 DEF a, b, c, u

\* Only the last piece of a message ends it, and its age is 0.
LEMMA MessageIs ==
    ASSUME NEW n \in SourceCounts
    PROVE  /\ Message(n) \in Seq(Piece) /\ Len(Message(n)) = 2 * n + 2 /\ n \in Nat /\ n > 0
           /\ \A i \in 1 .. 2 * n + 2 :
                 Message(n)[i].age = 0 /\ (EndsMessage(Message(n)[i]) => i = 2 * n + 2)
<1> DEFINE m == Message(n)   l == 2 * n + 2
           G(i) == [brace |-> IF i = 1 \/ (i % 2 = 0 /\ i <= 2 * n) THEN "open" ELSE "close",
                    outer |-> i \in {1, 2 * n + 2}, age |-> 0]
<1>1. n \in Nat /\ n > 0 /\ l \in Nat
  BY OdasAssumption
<1>2. m = [i \in 1 .. l |-> G(i)]
  BY DEF Message
<1>3. ASSUME NEW i \in 1 .. l
      PROVE  G(i) \in Piece /\ G(i).age = 0 /\ (EndsMessage(G(i)) => i = l)
  <2>1. G(i) \in Piece
    BY OdasAssumption DEF Piece
  <2>2. EndsMessage(G(i)) => i = l
    BY DEF EndsMessage, IsOpen
  <2> QED
    BY <2>1, <2>2
<1> HIDE DEF G, m
<1>4. m \in Seq(Piece) /\ Len(m) = l
  BY <1>1, <1>2, <1>3
<1>5. \A i \in 1 .. l : m[i] = G(i)
  BY <1>2
<1> QED
  BY <1>1, <1>3, <1>4, <1>5 DEF m

\* A message is younger than everything that was sent before it.
LEMMA MessageFollows ==
    ASSUME NEW n \in SourceCounts
    PROVE  Falls(Message(n)) /\ \A x \in 0 .. MaxAge : AboveAll(Older(x), Message(n))
<1> DEFINE m == Message(n)
<1>1. /\ m \in Seq(Piece) /\ Len(m) = 2 * n + 2 /\ n \in Nat
      /\ \A i \in 1 .. 2 * n + 2 : m[i].age = 0 /\ (EndsMessage(m[i]) => i = 2 * n + 2)
  BY MessageIs
<1> HIDE DEF m
<1>2. Falls(m)
  BY <1>1 DEF Falls
<1>3. \A x \in 0 .. MaxAge : AboveAll(Older(x), m)
  <2>1. \A x \in 0 .. MaxAge : Above(Older(x), 0)
    BY OlderIs, OdasAssumption
  <2> QED
    BY <1>1, <2>1 DEF AboveAll
<1> QED
  BY <1>2, <1>3 DEF m

-----------------------------------------------------------------------------
(* The inductive invariant.                                                *)

Newest == IF out = <<>> THEN last ELSE Last(out)

\* What is still to come is younger than what was observed, and comes in its order.
Stream == buffer \o wire
Arrives == Falls(Stream) /\ AboveAll(Newest, Stream)

IInv == TypeOK /\ InOrder /\ Arrives

\* InOrder, with its two cases apart.
Ordered(x, o) == /\ Len(o) > 0 => Above(x, o[1])
                 /\ \A i \in 1 .. Len(o) : i + 1 <= Len(o) => Above(o[i], o[i + 1])

LEMMA OrderedIs ==
    ASSUME NEW x \in 0 .. MaxAge, NEW o \in Seq(0 .. MaxAge)
    PROVE  LET seen == <<x>> \o o
           IN  (\A i \in 1 .. Len(o) : seen[i] > seen[i + 1] \/ seen[i] = MaxAge) <=> Ordered(x, o)
<1> DEFINE seen == <<x>> \o o   l == Len(o)
<1>1. l \in Nat /\ seen[1] = x
  OBVIOUS
<1>2. \A i \in 1 .. l : seen[i + 1] = o[i]
  OBVIOUS
<1> HIDE DEF seen, l
<1>3. (\A i \in 1 .. l : seen[i] > seen[i + 1] \/ seen[i] = MaxAge) <=>
      \A i \in 1 .. l : Above(seen[i], seen[i + 1])
  BY DEF Above
<1>4. ASSUME Ordered(x, o), NEW i \in 1 .. l
      PROVE  Above(seen[i], seen[i + 1])
  <2>1. CASE i = 1
    <3>1. l > 0 /\ seen[1 + 1] = o[1]
      BY <2>1, <1>1, <1>2
    <3> QED
      BY <2>1, <3>1, <1>1, <1>4 DEF Ordered, l
  <2>2. CASE i # 1
    <3> DEFINE j == i - 1
    <3>1. j \in 1 .. l /\ j + 1 = i /\ j + 1 <= l
      BY <2>2, <1>1
    <3> HIDE DEF j
    <3>2. Above(o[j], o[j + 1])
      BY <3>1, <1>4 DEF Ordered, l
    <3> QED
      BY <3>1, <3>2, <1>2
  <2> QED
    BY <2>1, <2>2
<1>5. ASSUME \A i \in 1 .. l : Above(seen[i], seen[i + 1])
      PROVE  Ordered(x, o)
  <2>1. l > 0 => Above(x, o[1])
    <3> SUFFICES ASSUME l > 0
                 PROVE  Above(x, o[1])
      OBVIOUS
    <3>1. 1 \in 1 .. l
      BY <1>1
    <3> QED
      BY <3>1, <1>1, <1>2, <1>5
  <2>2. ASSUME NEW i \in 1 .. l, i + 1 <= l
        PROVE  Above(o[i], o[i + 1])
    <3>1. i + 1 \in 1 .. l
      BY <2>2, <1>1
    <3>2. Above(seen[i + 1], seen[(i + 1) + 1])
      BY <3>1, <1>5
    <3> QED
      BY <3>1, <3>2, <1>2
  <2> QED
    BY <2>1, <2>2 DEF Ordered, l
<1> QED
  BY <1>3, <1>4, <1>5 DEF seen, l

LEMMA ElementsIn ==
    ASSUME NEW S, NEW s \in Seq(S)
    PROVE  Len(s) \in Nat /\ DOMAIN s = 1 .. Len(s) /\ \A i \in 1 .. Len(s) : s[i] \in S
OBVIOUS

LEMMA LastIs ==
    ASSUME NEW S, NEW s \in Seq(S), s # <<>>
    PROVE  Last(s) \in S
<1>1. Len(s) \in 1 .. Len(s)
  OBVIOUS
<1>2. s[Len(s)] \in S
  BY <1>1
<1> QED
  BY <1>2 DEF Last

LEMMA NewestIs ==
    ASSUME out \in Seq(0 .. MaxAge), last \in 0 .. MaxAge
    PROVE  Newest \in 0 .. MaxAge
BY LastIs DEF Newest

\* A call of poll() that observes nothing.
LEMMA NothingDelivered ==
    ASSUME TypeOK, Deliver(<<>>)
    PROVE  /\ out' \in Seq(0 .. MaxAge) /\ last' \in 0 .. MaxAge
           /\ InOrder' /\ Newest' = Newest
<1>1. out' = <<>> /\ last' = Newest
  BY DEF Deliver, Newest
<1>2. Newest \in 0 .. MaxAge
  BY NewestIs DEF TypeOK
<1>3. InOrder'
  BY <1>1 DEF InOrder
<1>4. Newest' = Newest
  BY <1>1 DEF Newest
<1> QED
  BY <1>1, <1>2, <1>3, <1>4

\* A call that does not touch the stream, and observes nothing.
LEMMA QuietStep ==
    ASSUME IInv, Deliver(<<>>), UNCHANGED <<listening, wire, stream>>,
           link' \in {"down", "open", "gone"}, healthy' \in BOOLEAN, healthy' => link' # "down",
           backoff' \in 1 .. MaxBackoff, wait' \in 0 .. MaxBackoff
    PROVE  IInv'
<1>1. /\ out' \in Seq(0 .. MaxAge) /\ last' \in 0 .. MaxAge
      /\ InOrder' /\ Newest' = Newest
  BY NothingDelivered DEF IInv
<1>2. TypeOK'
  BY <1>1 DEF IInv, TypeOK, stream
<1>3. Arrives'
  BY <1>1 DEF IInv, Arrives, Stream, AboveAll, Falls, stream
<1> QED
  BY <1>1, <1>2, <1>3 DEF IInv

LEMMA Arming ==
    ASSUME TypeOK, ArmReconnect
    PROVE  backoff' \in 1 .. MaxBackoff /\ wait' \in 0 .. MaxBackoff
BY OdasAssumption DEF TypeOK, ArmReconnect, Least

LEMMA PollWaitsStep ==
    ASSUME IInv, PollWaits
    PROVE  IInv'
<1>1. link' = "down" /\ healthy' = FALSE /\ backoff' = backoff /\ wait' = wait
      /\ Deliver(<<>>) /\ UNCHANGED <<listening, wire, stream>>
  BY DEF PollWaits, server
<1> QED
  BY <1>1, QuietStep DEF IInv, TypeOK

LEMMA ConnectFailsStep ==
    ASSUME IInv, ConnectFails
    PROVE  IInv'
<1>1. link' = "down" /\ healthy' = FALSE /\ ArmReconnect
      /\ Deliver(<<>>) /\ UNCHANGED <<listening, wire, stream>>
  BY DEF ConnectFails, server
<1>2. backoff' \in 1 .. MaxBackoff /\ wait' \in 0 .. MaxBackoff
  BY <1>1, Arming DEF IInv
<1> QED
  BY <1>1, <1>2, QuietStep

LEMMA ConnectStep ==
    ASSUME IInv, Connect
    PROVE  IInv'
<1>1. link' = "open" /\ healthy' = healthy /\ backoff' = 1 /\ wait' = wait
      /\ Deliver(<<>>) /\ UNCHANGED <<listening, wire, stream>>
  BY DEF Connect, server
<1>2. healthy' \in BOOLEAN /\ backoff' \in 1 .. MaxBackoff /\ wait' \in 0 .. MaxBackoff
  BY <1>1, OdasAssumption DEF IInv, TypeOK
<1> QED
  BY <1>1, <1>2, QuietStep

LEMMA RecvNothingStep ==
    ASSUME IInv, RecvNothing
    PROVE  IInv'
<1>1. link' = "open" /\ healthy' = healthy /\ backoff' = backoff /\ wait' = wait
      /\ Deliver(<<>>) /\ UNCHANGED <<listening, wire, stream>>
  BY DEF RecvNothing, server, socket
<1> QED
  BY <1>1, QuietStep DEF IInv, TypeOK

LEMMA RecvEndsStep ==
    ASSUME IInv, RecvEnds
    PROVE  IInv'
<1>1. link' = "down" /\ healthy' = FALSE /\ ArmReconnect
      /\ Deliver(<<>>) /\ UNCHANGED <<listening, wire, stream>>
  BY DEF RecvEnds, server
<1>2. backoff' \in 1 .. MaxBackoff /\ wait' \in 0 .. MaxBackoff
  BY <1>1, Arming DEF IInv
<1> QED
  BY <1>1, <1>2, QuietStep

-----------------------------------------------------------------------------
(* The steps.                                                              *)

\* What Recv observes follows what was observed, and goes before what is left.
LEMMA TakenFollows ==
    ASSUME NEW b \in Seq(Piece), NEW c \in Seq(Piece), NEW k \in 0 .. Len(b), NEW o, NEW x,
           TakenFrom(b, k, o), Falls(b \o c), AboveAll(x, b \o c)
    PROVE  /\ Ordered(x, o)
           /\ AboveAll(IF o = <<>> THEN x ELSE Last(o), Drop(b \o c, k))
<1> DEFINE u == b \o c   l == Len(o)
<1>1. u \in Seq(Piece) /\ k \in 0 .. Len(u) /\ \A p \in 1 .. k : p \in 1 .. Len(u) /\ u[p] = b[p]
  BY JoinIs
<1>2. Carries(u, b, 0) /\ Falls(u) /\ AboveAll(x, u) /\ Len(b) \in Nat /\ 0 \in Nat
  BY StartCarries
<1>3. Falls(b)
  BY <1>2, FallsOn
<1>4. /\ o \in Seq(0 .. MaxAge) /\ l \in Nat
      /\ \A i \in 1 .. l : \E p \in 1 .. k : EndsMessage(u[p]) /\ o[i] = u[p].age
      /\ \A i, j \in 1 .. l : i < j => Above(o[i], o[j])
  <2> HIDE DEF u
  <2>1. o \in Seq(0 .. MaxAge) /\ l \in Nat
    BY DEF TakenFrom
  <2>2. \A i \in 1 .. l : \E p \in 1 .. k : EndsMessage(b[p]) /\ o[i] = b[p].age
    BY DEF TakenFrom
  <2>3. \A i \in 1 .. l : \E p \in 1 .. k : EndsMessage(u[p]) /\ o[i] = u[p].age
    BY <1>1, <2>2
  <2>4. \A i, j \in 1 .. l : i < j => Above(o[i], o[j])
    BY <1>3 DEF TakenFrom
  <2> QED
    BY <2>1, <2>3, <2>4
<1> HIDE DEF u, l
<1>5. Ordered(x, o)
  <2>1. ASSUME l > 0
        PROVE  Above(x, o[1])
    <3>1. PICK p \in 1 .. k : EndsMessage(u[p]) /\ o[1] = u[p].age
      BY <1>4, <2>1
    <3> QED
      BY <3>1, <1>1, <1>2 DEF AboveAll
  <2>2. ASSUME NEW i \in 1 .. l, i + 1 <= l
        PROVE  Above(o[i], o[i + 1])
    <3>1. i + 1 \in 1 .. l /\ i < i + 1
      BY <2>2, <1>4
    <3> QED
      BY <3>1, <1>4
  <2> QED
    BY <2>1, <2>2 DEF Ordered, l
<1>6. CASE o = <<>>
  <2>1. Carries(u, Drop(u, k), k) /\ k \in Nat
    BY <1>1, DropCarries
  <2>2. AboveAll(x, Drop(u, k))
    BY <2>1, <1>2, AboveOn
  <2> QED
    BY <1>5, <1>6, <2>2 DEF u
<1>7. CASE o # <<>>
  <2>1. l \in 1 .. l
    BY <1>4, <1>7 DEF l
  <2>2. PICK p \in 1 .. k : EndsMessage(u[p]) /\ o[l] = u[p].age
    BY <2>1, <1>4
  <2>3. AboveAll(u[p].age, Drop(u, k))
    BY <2>2, <1>1, <1>2, BeforeCut
  <2>4. Last(o) = u[p].age
    BY <2>2 DEF Last, l
  <2> QED
    BY <1>5, <1>7, <2>3, <2>4 DEF u
<1> QED
  BY <1>6, <1>7

LEMMA RecvStep ==
    ASSUME IInv, NEW n \in 1 .. Len(wire), Recv(n)
    PROVE  IInv'
<1> DEFINE chunk == SubSeq(wire, 1, n)   w == Drop(wire, n)   b == buffer \o chunk
           f == Feed(chunk)
<1>1. /\ buffer \in Seq(Piece) /\ wire \in Seq(Piece) /\ Len(wire) \in Nat /\ n \in 0 .. Len(wire)
      /\ Falls(Stream) /\ AboveAll(Newest, Stream)
  BY DEF IInv, TypeOK, Arrives
<1>2. /\ wire' = w /\ buffer' = f.buffer /\ out' = f.out /\ last' = Newest /\ healthy' = TRUE
      /\ aligned' = EndsMessage(Last(chunk)) /\ link # "down"
      /\ link' = link /\ listening' = listening /\ backoff' = backoff /\ wait' = wait
  BY DEF Recv, Deliver, Newest
<1>3. chunk \in Seq(Piece) /\ Len(chunk) = n /\ w \in Seq(Piece) /\ chunk \o w = wire
  BY <1>1, PrefixIs, DropIs, CutJoins
<1>4. Last(chunk) \in Piece
  <2>1. n \in 1 .. Len(chunk)
    BY <1>3
  <2>2. chunk[Len(chunk)] \in Piece
    BY <1>3, <2>1
  <2> QED
    BY <2>2 DEF Last
<1>5. EndsMessage(Last(chunk)) \in BOOLEAN
  BY <1>4 DEF EndsMessage, IsOpen, Piece
<1> HIDE DEF chunk, w
<1>6. b \in Seq(Piece) /\ b \o w = Stream
  <2>1. b \in Seq(Piece)
    BY <1>1, <1>3, JoinIs
  <2>2. b \o w = buffer \o (chunk \o w)
    BY <1>1, <1>3, JoinJoin
  <2> QED
    BY <2>1, <2>2, <1>3 DEF Stream
<1>7. PICK k \in 0 .. Len(b) : /\ f.buffer = Drop(b, k) /\ Len(b) - k <= MaxBuffer
                               /\ TakenFrom(b, k, f.out)
  BY <1>6, FeedIs
<1> HIDE DEF b, f
<1>8. /\ f.buffer \in Seq(Piece) /\ Len(f.buffer) <= MaxBuffer
      /\ f.out \in Seq(0 .. MaxAge)
  BY <1>6, <1>7, DropIs DEF TakenFrom
<1>9. Newest \in 0 .. MaxAge
  BY NewestIs DEF IInv, TypeOK
<1>10. TypeOK'
  BY <1>2, <1>3, <1>5, <1>8, <1>9 DEF IInv, TypeOK
<1>11. k \in 0 .. Len(Stream) /\ Stream' = Drop(Stream, k)
  <2>1. Drop(b, k) \o w = Drop(b \o w, k) /\ k \in 0 .. Len(b \o w)
    BY <1>3, <1>6, DropJoins
  <2> QED
    BY <2>1, <1>2, <1>6, <1>7 DEF Stream
<1>12. Stream \in Seq(Piece)
  BY <1>3, <1>6, JoinIs
<1>13. /\ Ordered(Newest, f.out)
       /\ AboveAll(IF f.out = <<>> THEN Newest ELSE Last(f.out), Drop(Stream, k))
  BY <1>1, <1>3, <1>6, <1>7, TakenFollows
<1>14. Newest' = IF f.out = <<>> THEN Newest ELSE Last(f.out)
  BY <1>2 DEF Newest
<1>15. InOrder'
  <2>1. last' \in 0 .. MaxAge /\ out' \in Seq(0 .. MaxAge) /\ Ordered(last', out')
    BY <1>2, <1>8, <1>9, <1>13
  <2> QED
    BY <2>1, OrderedIs DEF InOrder
<1>16. Falls(Stream')
  <2>1. Carries(Stream, Drop(Stream, k), k) /\ Len(Drop(Stream, k)) \in Nat /\ k \in Nat
    BY <1>11, <1>12, DropCarries, DropIs
  <2> QED
    BY <2>1, <1>1, <1>11, FallsOn
<1>17. Arrives'
  BY <1>11, <1>13, <1>14, <1>16 DEF Arrives
<1> QED
  BY <1>10, <1>15, <1>17 DEF IInv

\* What was observed grows older with every message that is sent.
LEMMA OlderAll ==
    ASSUME NEW x \in 0 .. MaxAge, NEW o \in Seq(0 .. MaxAge), Ordered(x, o)
    PROVE  LET a == [i \in DOMAIN o |-> Older(o[i])]
           IN  /\ a \in Seq(0 .. MaxAge)
               /\ Ordered(Older(x), a)
               /\ (IF a = <<>> THEN Older(x) ELSE Last(a)) = Older(IF o = <<>> THEN x ELSE Last(o))
<1> DEFINE a == [i \in DOMAIN o |-> Older(o[i])]   l == Len(o)
<1>1. l \in Nat /\ DOMAIN o = 1 .. l /\ \A i \in 1 .. l : o[i] \in 0 .. MaxAge
  BY ElementsIn
<1>2. \A i \in 1 .. l : a[i] = Older(o[i]) /\ Older(o[i]) \in 0 .. MaxAge
  BY <1>1, OlderIs
<1>3. a \in Seq(0 .. MaxAge) /\ Len(a) = l
  <2>1. a = [i \in 1 .. l |-> Older(o[i])]
    BY <1>1
  <2> HIDE DEF l
  <2> QED
    BY <1>1, <1>2, <2>1
<1> HIDE DEF a, l
<1>4. l > 0 => Above(Older(x), a[1])
  <2> SUFFICES ASSUME l > 0
               PROVE  Above(Older(x), a[1])
    OBVIOUS
  <2>1. 1 \in 1 .. l /\ Above(x, o[1])
    BY <1>1 DEF Ordered, l
  <2>2. Above(Older(x), Older(o[1]))
    BY <1>1, <2>1, OlderIs
  <2> QED
    BY <1>2, <2>1, <2>2
<1>5. ASSUME NEW i \in 1 .. l, i + 1 <= l
      PROVE  Above(a[i], a[i + 1])
  <2>1. i + 1 \in 1 .. l /\ Above(o[i], o[i + 1])
    BY <1>1, <1>5 DEF Ordered, l
  <2>2. Above(Older(o[i]), Older(o[i + 1]))
    BY <1>1, <2>1, OlderIs
  <2> QED
    BY <1>2, <2>1, <2>2
<1>6. Ordered(Older(x), a)
  BY <1>3, <1>4, <1>5 DEF Ordered
<1>7. (IF a = <<>> THEN Older(x) ELSE Last(a)) = Older(IF o = <<>> THEN x ELSE Last(o))
  <2>1. CASE l = 0
    <3>1. o = <<>> /\ a = <<>>
      BY <1>3, <2>1 DEF l
    <3> QED
      BY <3>1
  <2>2. CASE l # 0
    <3>1. o # <<>> /\ a # <<>> /\ l \in 1 .. l
      BY <1>1, <1>3, <2>2 DEF l
    <3>2. Last(a) = Older(Last(o))
      BY <1>2, <1>3, <3>1 DEF Last, l
    <3> QED
      BY <3>1, <3>2
  <2> QED
    BY <2>1, <2>2
<1> QED
  BY <1>3, <1>6, <1>7 DEF a

LEMMA SendStep ==
    ASSUME IInv, NEW n \in SourceCounts, Send(n)
    PROVE  IInv'
<1> DEFINE m == Message(n)   s == Stream   t == Aged(Stream)
<1>1. /\ buffer \in Seq(Piece) /\ wire \in Seq(Piece) /\ Len(buffer) <= MaxBuffer
      /\ out \in Seq(0 .. MaxAge) /\ last \in 0 .. MaxAge
      /\ Falls(s) /\ AboveAll(Newest, s)
  BY DEF IInv, TypeOK, Arrives
<1>2. /\ wire' = Aged(wire) \o m /\ buffer' = Aged(buffer)
      /\ last' = Older(last) /\ out' = [i \in DOMAIN out |-> Older(out[i])]
      /\ link' = link /\ listening' = listening /\ aligned' = aligned
      /\ healthy' = healthy /\ backoff' = backoff /\ wait' = wait
  BY DEF Send, socket
<1>3. Ordered(last, out)
  BY <1>1, OrderedIs DEF IInv, InOrder
<1>4. /\ out' \in Seq(0 .. MaxAge) /\ last' \in 0 .. MaxAge
      /\ Ordered(last', out') /\ Newest' = Older(Newest)
  <2>1. Newest = IF out = <<>> THEN last ELSE Last(out)
    BY DEF Newest
  <2>2. Newest' = IF out' = <<>> THEN last' ELSE Last(out')
    BY DEF Newest
  <2>3. Older(last) \in 0 .. MaxAge
    BY <1>1, OlderIs
  <2> QED
    BY <1>1, <1>2, <1>3, <2>1, <2>2, <2>3, OlderAll
<1>5. InOrder'
  BY <1>4, OrderedIs DEF InOrder
<1>6. /\ Aged(buffer) \in Seq(Piece) /\ Len(Aged(buffer)) = Len(buffer)
      /\ Aged(wire) \in Seq(Piece)
  BY <1>1, AgedIs
<1>7. m \in Seq(Piece) /\ Falls(m) /\ \A x \in 0 .. MaxAge : AboveAll(Older(x), m)
  BY MessageIs, MessageFollows
<1> HIDE DEF m
<1>8. Aged(wire) \o m \in Seq(Piece)
  BY <1>6, <1>7, JoinIs
<1>9. TypeOK'
  BY <1>1, <1>2, <1>4, <1>6, <1>8 DEF IInv, TypeOK
<1>10. s \in Seq(Piece) /\ t \in Seq(Piece) /\ Falls(t)
  <2>1. s \in Seq(Piece)
    BY <1>1, JoinIs DEF Stream
  <2> QED
    BY <2>1, <1>1, AgedIs, AgedFalls
<1>11. Stream' = t \o m
  <2>1. Aged(buffer) \o Aged(wire) = t
    BY <1>1, AgedJoin DEF Stream
  <2>2. (Aged(buffer) \o Aged(wire)) \o m = Aged(buffer) \o (Aged(wire) \o m)
    BY <1>6, <1>7, JoinJoin
  <2>3. Stream' = Aged(buffer) \o (Aged(wire) \o m)
    BY <1>2 DEF Stream
  <2> QED
    BY <2>1, <2>2, <2>3
<1>12. \A i \in 1 .. Len(t) : EndsMessage(t[i]) => AboveAll(t[i].age, m)
  <2> SUFFICES ASSUME NEW i \in 1 .. Len(t), EndsMessage(t[i])
               PROVE  AboveAll(t[i].age, m)
    OBVIOUS
  <2>1. /\ Len(t) = Len(s)
        /\ \A j \in 1 .. Len(s) : /\ EndsMessage(t[j]) <=> EndsMessage(s[j])
                                  /\ EndsMessage(s[j]) => t[j].age = Older(s[j].age)
    BY <1>10, AgedIs
  <2>2. \A j \in 1 .. Len(s) : s[j].age \in 0 .. MaxAge
    BY <1>10, AgesBounded
  <2> HIDE DEF s, t
  <2>3. t[i].age = Older(s[i].age) /\ s[i].age \in 0 .. MaxAge
    BY <2>1, <2>2
  <2> QED
    BY <2>3, <1>7
<1>13. Falls(t \o m)
  BY <1>7, <1>10, <1>12, FallsJoin
<1>14. AboveAll(Older(Newest), t \o m)
  <2>1. Newest \in 0 .. MaxAge
    BY <1>1, NewestIs
  <2>2. AboveAll(Older(Newest), t)
    BY <1>1, <1>10, <2>1, AgedAbove
  <2>3. AboveAll(Older(Newest), m)
    BY <1>7, <2>1
  <2> QED
    BY <1>7, <1>10, <2>2, <2>3, AboveJoin
<1>15. Arrives'
  BY <1>4, <1>11, <1>13, <1>14 DEF Arrives
<1> QED
  BY <1>5, <1>9, <1>15 DEF IInv

\* Of a message that was cut short, the end is missing: the stream ends no other messages.
LEMMA CutCarries ==
    ASSUME NEW b \in Seq(Piece), NEW w \in Seq(Piece), NEW n \in SourceCounts,
           NEW k \in 0 .. Len(w) + Len(Message(n)) - 1
    PROVE  LET v == SubSeq(w \o Message(n), 1, k)
           IN  v \in Seq(Piece) /\ Carries(b \o w, b \o v, 0)
<1> DEFINE m == Message(n)   u == w \o m   v == SubSeq(u, 1, k)   s == b \o w   t == b \o v
<1>1. /\ m \in Seq(Piece) /\ Len(m) = 2 * n + 2 /\ n \in Nat /\ n > 0
      /\ \A i \in 1 .. 2 * n + 2 : m[i].age = 0 /\ (EndsMessage(m[i]) => i = 2 * n + 2)
  BY MessageIs
<1> HIDE DEF m
<1>2. /\ u \in Seq(Piece) /\ Len(u) = Len(w) + Len(m)
      /\ \A i \in 1 .. Len(w) : u[i] = w[i]
      /\ \A i \in 1 .. Len(m) : u[i + Len(w)] = m[i]
  BY <1>1, JoinIs
<1> HIDE DEF u
<1>3. k \in 0 .. Len(w) + Len(m) - 1
  BY DEF m
<1>4. k \in 0 .. Len(u)
  BY <1>1, <1>2, <1>3
<1>5. v \in Seq(Piece) /\ Len(v) = k /\ \A i \in 1 .. k : v[i] = u[i]
  BY <1>2, <1>4, PrefixIs
<1> HIDE DEF v
<1>6. /\ s \in Seq(Piece) /\ Len(s) = Len(b) + Len(w)
      /\ \A i \in 1 .. Len(b) : s[i] = b[i]
      /\ \A i \in 1 .. Len(w) : s[i + Len(b)] = w[i]
  BY JoinIs
<1>7. /\ t \in Seq(Piece) /\ Len(t) = Len(b) + Len(v)
      /\ \A i \in 1 .. Len(b) : t[i] = b[i]
      /\ \A i \in 1 .. Len(v) : t[i + Len(b)] = v[i]
  BY <1>5, JoinIs
<1> HIDE DEF s, t
<1>8. ASSUME NEW i \in 1 .. Len(t), EndsMessage(t[i])
      PROVE  i \in 1 .. Len(s) /\ t[i] = s[i]
  <2>1. CASE i <= Len(b)
    <3>1. i \in 1 .. Len(b) /\ i \in 1 .. Len(s)
      BY <2>1, <1>6
    <3> QED
      BY <3>1, <1>6, <1>7
  <2>2. CASE ~(i <= Len(b))
    <3> DEFINE h == i - Len(b)
    <3>1. h \in 1 .. k /\ i = h + Len(b)
      BY <2>2, <1>5, <1>7
    <3> HIDE DEF h
    <3>2. t[i] = u[h]
      BY <3>1, <1>5, <1>7
    <3>3. CASE h <= Len(w)
      <4>1. h \in 1 .. Len(w) /\ i \in 1 .. Len(s)
        BY <3>1, <3>3, <1>6
      <4>2. u[h] = w[h] /\ s[i] = w[h]
        BY <4>1, <3>1, <1>2, <1>6
      <4> QED
        BY <4>1, <4>2, <3>2
    <3>4. CASE ~(h <= Len(w))
      <4> DEFINE g == h - Len(w)
      <4>1. g \in 1 .. 2 * n + 2 /\ g # 2 * n + 2 /\ h = g + Len(w)
        BY <3>1, <3>4, <1>1, <1>3
      <4> HIDE DEF g
      <4>2. u[h] = m[g]
        BY <4>1, <1>1, <1>2
      <4> QED
        BY <4>1, <4>2, <3>2, <1>1, <1>8
    <3> QED
      BY <3>3, <3>4
  <2> QED
    BY <2>1, <2>2
<1>9. \A i \in 1 .. Len(t) : i + 0 = i
  BY <1>7
<1>10. Carries(s, t, 0)
  BY <1>8, <1>9 DEF Carries
<1> QED
  BY <1>5, <1>10 DEF s, t, v, u, m

-----------------------------------------------------------------------------
(* Crashes, time, and the theorems.                                        *)

LEMMA DieStep ==
    ASSUME IInv, NEW n \in SourceCounts, Die(n)
    PROVE  IInv'
<1>1. /\ buffer \in Seq(Piece) /\ wire \in Seq(Piece)
      /\ Falls(Stream) /\ AboveAll(Newest, Stream)
  BY DEF IInv, TypeOK, Arrives
<1>2. /\ listening' = FALSE /\ healthy' = healthy /\ backoff' = backoff /\ wait' = wait
      /\ out' = out /\ last' = last /\ buffer' = buffer /\ aligned' = aligned
  BY DEF Die, socket, delivery, stream
<1>3. /\ wire' \in Seq(Piece)
      /\ link' \in {"down", "open", "gone"} /\ (link # "down" => link' # "down")
      /\ Carries(Stream, Stream', 0) /\ Stream' \in Seq(Piece)
  <2>1. CASE link = "open"
    <3>1. PICK k \in 0 .. Len(wire) + Len(Message(n)) - 1 :
              link' = "gone" /\ wire' = SubSeq(wire \o Message(n), 1, k)
      BY <2>1 DEF Die
    <3>2. wire' \in Seq(Piece) /\ Carries(buffer \o wire, buffer \o wire', 0)
      BY <1>1, <3>1, CutCarries
    <3>3. buffer \o wire' \in Seq(Piece)
      BY <1>1, <3>2, JoinIs
    <3>4. Stream = buffer \o wire /\ Stream' = buffer \o wire'
      BY <1>2 DEF Stream
    <3> QED
      BY <3>1, <3>2, <3>3, <3>4
  <2>2. CASE link # "open"
    <3>1. link' = link /\ wire' = wire
      BY <2>2 DEF Die
    <3>2. Stream \in Seq(Piece) /\ Stream' = Stream
      BY <1>1, <1>2, <3>1, JoinIs DEF Stream
    <3>3. \A i \in 1 .. Len(Stream) : i + 0 = i
      BY <3>2
    <3>4. Carries(Stream, Stream, 0)
      BY <3>3 DEF Carries
    <3> QED
      BY <1>1, <3>1, <3>2, <3>4 DEF IInv, TypeOK
  <2> QED
    BY <2>1, <2>2
<1>4. TypeOK'
  BY <1>2, <1>3 DEF IInv, TypeOK
<1>5. InOrder'
  BY <1>2 DEF IInv, InOrder
<1>6. Newest' = Newest
  BY <1>2 DEF Newest
<1>7. Falls(Stream') /\ AboveAll(Newest, Stream')
  <2>1. Len(Stream') \in Nat /\ 0 \in Nat
    BY <1>3
  <2> QED
    BY <2>1, <1>1, <1>3, FallsOn, AboveOn
<1>8. Arrives'
  BY <1>6, <1>7 DEF Arrives
<1> QED
  BY <1>4, <1>5, <1>8 DEF IInv

\* A step that touches neither the stream nor what was observed.
LEMMA AsideStep ==
    ASSUME IInv, TypeOK', UNCHANGED <<wire, delivery, stream>>
    PROVE  IInv'
<1>1. out' = out /\ last' = last /\ buffer' = buffer /\ wire' = wire
  BY DEF delivery, stream
<1>2. InOrder' /\ Stream' = Stream /\ Newest' = Newest
  BY <1>1 DEF IInv, InOrder, Stream, Newest
<1>3. Arrives'
  BY <1>2 DEF IInv, Arrives
<1> QED
  BY <1>2, <1>3 DEF IInv

LEMMA ElapseStep ==
    ASSUME IInv, Elapse
    PROVE  IInv'
<1>1. UNCHANGED <<wire, delivery, stream>>
  BY DEF Elapse, server
<1>2. TypeOK'
  <2>1. wait' \in 0 .. MaxBackoff
    BY OdasAssumption DEF IInv, TypeOK, Elapse
  <2> QED
    BY <2>1 DEF IInv, TypeOK, Elapse, server, delivery, stream
<1> QED
  BY <1>1, <1>2, AsideStep

LEMMA RestartStep ==
    ASSUME IInv, Restart
    PROVE  IInv'
<1>1. UNCHANGED <<wire, delivery, stream>>
  BY DEF Restart
<1>2. TypeOK'
  BY DEF IInv, TypeOK, Restart, socket, delivery, stream
<1> QED
  BY <1>1, <1>2, AsideStep

LEMMA StutterStep ==
    ASSUME IInv, UNCHANGED vars
    PROVE  IInv'
<1>1. UNCHANGED <<wire, delivery, stream>>
  BY DEF vars, server
<1>2. TypeOK'
  BY DEF IInv, TypeOK, vars, server, socket, delivery, stream
<1> QED
  BY <1>1, <1>2, AsideStep

LEMMA Starts ==
    ASSUME Init
    PROVE  IInv
<1>1. buffer = <<>> /\ wire = <<>> /\ out = <<>>
  BY DEF Init
<1>2. TypeOK
  <2>1. buffer \in Seq(Piece) /\ wire \in Seq(Piece) /\ out \in Seq(0 .. MaxAge) /\ Len(buffer) = 0
    BY <1>1
  <2>2. backoff \in 1 .. MaxBackoff /\ wait \in 0 .. MaxBackoff /\ last \in 0 .. MaxAge /\ 0 <= MaxBuffer
    BY OdasAssumption DEF Init
  <2> QED
    BY <2>1, <2>2 DEF Init, TypeOK
<1>3. InOrder
  BY <1>1 DEF InOrder
<1>4. Stream = <<>>
  BY <1>1 DEF Stream
<1>5. Arrives
  BY <1>4 DEF Arrives, Falls, AboveAll
<1> QED
  BY <1>2, <1>3, <1>5 DEF IInv

LEMMA Invariance == Spec => []IInv
<1>1. Init => IInv
  BY Starts
<1>2. IInv /\ [Next]_vars => IInv'
  <2> SUFFICES ASSUME IInv, [Next]_vars
               PROVE  IInv'
    OBVIOUS
  <2>1. CASE PollWaits
    BY <2>1, PollWaitsStep
  <2>2. CASE ConnectFails
    BY <2>2, ConnectFailsStep
  <2>3. CASE Connect
    BY <2>3, ConnectStep
  <2>4. CASE RecvNothing
    BY <2>4, RecvNothingStep
  <2>5. CASE RecvEnds
    BY <2>5, RecvEndsStep
  <2>6. CASE \E n \in 1 .. Len(wire) : Recv(n)
    BY <2>6, RecvStep
  <2>7. CASE Elapse
    BY <2>7, ElapseStep
  <2>8. CASE Sends
    BY <2>8, SendStep DEF Sends
  <2>9. CASE Restart
    BY <2>9, RestartStep
  <2>10. CASE \E n \in SourceCounts : Die(n)
    BY <2>10, DieStep
  <2>11. CASE UNCHANGED vars
    BY <2>11, StutterStep
  <2> QED
    BY <2>1, <2>2, <2>3, <2>4, <2>5, <2>6, <2>7, <2>8, <2>9, <2>10, <2>11 DEF Next, Poll
<1> QED
  BY <1>1, <1>2, PTL DEF Spec

\* What poll() and feed() keep of the connection and of the stream stays in its bounds:
\* the backoff between one unit and kBackoffMaxMs, the buffer within max_buffer_bytes_
\* however the stream is split, and the provider healthy only while it is connected.
THEOREM TypeCorrect == Spec => []TypeOK
BY Invariance, PTL DEF IInv

\* Whatever recv() returns at a time, whatever feed() cuts off its buffer, and wherever the
\* server dies: the observations poll() returns are in the order in which the server
\* sent them, within a call and from one to the next, and none is returned twice, as
\* long as fewer than MaxAge messages have been sent since.
THEOREM ObservedInOrder == Spec => []InOrder
BY Invariance, PTL DEF IInv
===============================================================================
