------------------------- MODULE EdgeProcess_proof -------------------------
(***************************************************************************)
(* Proofs about EdgeProcess: its type invariant, that no child runs beside *)
(* the one the manager keeps, that a status belongs together, and that no  *)
(* line is lost or reordered on its way to the log.                        *)
(***************************************************************************)
EXTENDS EdgeProcess, SequenceTheorems, TLAPS

Pipes == Runs \X Streams

\* Who waits or reports holds the lock, and there is a child to wait for.
Locked ==
    \A h \in Handlers : request[h].at \in {"report", "wait", "killed"} =>
        lock = h /\ process # NoProcess

\* The child kept is the last one started.
Born ==
    /\ process # NoProcess => process = runs
    /\ \A c \in Runs : child[c] = "unborn" <=> c > runs

\* A reader ends with its child, when nothing is left to read.
Ends ==
    \A r \in Pipes :
        /\ reader[r] = "none" => child[r[1]] = "unborn"
        /\ reader[r] = "ended" => child[r[1]] = "dead" /\ held[r] = <<>> /\ pipe[r] = <<>>

\* What is held and what is in the pipe continues the log.
Continues ==
    \A r \in Pipes :
        /\ \A k \in 1 .. Len(held[r]) :
              /\ held[r][k].run = r[1] /\ held[r][k].stream = r[2]
              /\ held[r][k].n = logged[r] + k
        /\ \A k \in 1 .. Len(pipe[r]) :
              /\ pipe[r][k].run = r[1] /\ pipe[r][k].stream = r[2]
              /\ pipe[r][k].n = logged[r] + Len(held[r]) + k

Counted == \A r \in Pipes : written[r] = logged[r] + Len(held[r]) + Len(pipe[r])

InLog == \A r \in Pipes : Consecutive(logs, r, logged[r])

Inv == TypeOK /\ Locked /\ Born /\ OneChild /\ StatusTrue /\ Ends /\ Continues /\ Counted /\ InLog

-----------------------------------------------------------------------------
(* The deques.                                                             *)

LEMMA BoundedType ==
    ASSUME NEW S, NEW s \in Seq(S), NEW x \in S, NEW n \in Nat \ {0}, Len(s) <= n
    PROVE  Bounded(s, x, n) \in Seq(S) /\ Len(Bounded(s, x, n)) <= n
<1>1. CASE Len(s) >= n
  <2>1. s # <<>>
    BY <1>1
  <2>2. Tail(s) \in Seq(S) /\ Len(Tail(s)) = Len(s) - 1
    BY <2>1
  <2>3. Append(Tail(s), x) \in Seq(S) /\ Len(Append(Tail(s), x)) = Len(s)
    BY <2>2
  <2> QED
    BY <1>1, <2>3 DEF Bounded
<1>2. CASE ~(Len(s) >= n)
  <2>1. Append(s, x) \in Seq(S) /\ Len(Append(s, x)) = Len(s) + 1
    OBVIOUS
  <2> QED
    BY <1>2, <2>1 DEF Bounded
<1> QED
  BY <1>1, <1>2

LEMMA TailConsecutive ==
    ASSUME NEW s \in Seq(Lines), s # <<>>, NEW r \in Pipes, NEW last \in Nat,
           Consecutive(s, r, last)
    PROVE  Consecutive(Tail(s), r, last)
<1> DEFINE t == Tail(s)
<1>1. t \in Seq(Lines) /\ Len(t) = Len(s) - 1 /\ Len(s) \in Nat
  OBVIOUS
<1>2. \A i \in 1 .. Len(t) : t[i] = s[i + 1]
  OBVIOUS
<1> HIDE DEF t
<1> SUFFICES ASSUME NEW i \in 1 .. Len(t), OfStream(t[i], r)
             PROVE  /\ t[i].n <= last
                    /\ \A j \in 1 .. i - 1 : OfStream(t[j], r) => t[j].n < t[i].n
                    /\ t[i].n < last =>
                          \E j \in i + 1 .. Len(t) : OfStream(t[j], r) /\ t[j].n = t[i].n + 1
  BY DEF Consecutive, t
<1>3. i + 1 \in 1 .. Len(s) /\ t[i] = s[i + 1] /\ OfStream(s[i + 1], r)
  BY <1>1, <1>2
<1>4. t[i].n <= last
  BY <1>3 DEF Consecutive
<1>5. ASSUME NEW j \in 1 .. i - 1, OfStream(t[j], r)
      PROVE  t[j].n < t[i].n
  <2>1. j \in 1 .. Len(t) /\ j + 1 \in 1 .. (i + 1) - 1
    BY <1>1
  <2>2. t[j] = s[j + 1]
    BY <1>2, <2>1
  <2> QED
    BY <1>3, <1>5, <2>1, <2>2 DEF Consecutive
<1>6. ASSUME t[i].n < last
      PROVE  \E j \in i + 1 .. Len(t) : OfStream(t[j], r) /\ t[j].n = t[i].n + 1
  <2>1. PICK j \in (i + 1) + 1 .. Len(s) : OfStream(s[j], r) /\ s[j].n = s[i + 1].n + 1
    BY <1>3, <1>6 DEF Consecutive
  <2>2. j - 1 \in i + 1 .. Len(t) /\ j - 1 \in 1 .. Len(t) /\ (j - 1) + 1 = j
    BY <1>1
  <2>3. t[j - 1] = s[j]
    BY <1>2, <2>2
  <2> QED
    BY <1>3, <2>1, <2>2, <2>3
<1> QED
  BY <1>4, <1>5, <1>6

\* A line of the stream comes with the next number, a line of another stream
\* or one of the manager's own with any.
LEMMA AppendConsecutive ==
    ASSUME NEW s \in Seq(Lines), NEW x \in Lines, NEW r \in Pipes,
           NEW last \in Nat, NEW now \in Nat,
           Consecutive(s, r, last),
           IF OfStream(x, r) THEN now = last + 1 /\ x.n = now ELSE now = last
    PROVE  Consecutive(Append(s, x), r, now)
<1> DEFINE t == Append(s, x)
           m == Len(s)
<1>1. t \in Seq(Lines) /\ Len(t) = m + 1 /\ m \in Nat
  OBVIOUS
<1>2. t[m + 1] = x /\ \A i \in 1 .. m : t[i] = s[i]
  OBVIOUS
<1>3. \A i \in 1 .. m : s[i].n \in Nat
  <2> SUFFICES ASSUME NEW i \in 1 .. m
               PROVE  s[i].n \in Nat
    OBVIOUS
  <2>1. s[i] \in Lines
    OBVIOUS
  <2> QED
    BY <2>1 DEF Lines
<1> HIDE DEF t
<1> SUFFICES ASSUME NEW i \in 1 .. Len(t), OfStream(t[i], r)
             PROVE  /\ t[i].n <= now
                    /\ \A j \in 1 .. i - 1 : OfStream(t[j], r) => t[j].n < t[i].n
                    /\ t[i].n < now =>
                          \E j \in i + 1 .. Len(t) : OfStream(t[j], r) /\ t[j].n = t[i].n + 1
  BY DEF Consecutive, t
<1>4. CASE i = m + 1
  <2>1. t[i] = x /\ now = last + 1 /\ x.n = now
    BY <1>2, <1>4
  <2>2. ASSUME NEW j \in 1 .. i - 1, OfStream(t[j], r)
        PROVE  t[j].n < t[i].n
    <3>1. j \in 1 .. m /\ t[j] = s[j]
      BY <1>1, <1>2, <1>4
    <3>2. s[j].n <= last
      BY <2>2, <3>1 DEF Consecutive
    <3> QED
      BY <1>3, <2>1, <3>1, <3>2
  <2> QED
    BY <2>1, <2>2
<1>5. CASE i \in 1 .. m
  <2> DEFINE k == s[i].n
  <2>1. t[i] = s[i] /\ OfStream(s[i], r)
    BY <1>2, <1>5
  <2>2. k \in Nat /\ k <= last
    BY <1>3, <1>5, <2>1 DEF Consecutive
  <2>3. ASSUME NEW j \in 1 .. i - 1, OfStream(t[j], r)
        PROVE  t[j].n < t[i].n
    <3>1. j \in 1 .. m /\ t[j] = s[j]
      BY <1>1, <1>2, <1>5
    <3> QED
      BY <1>5, <2>1, <2>3, <3>1 DEF Consecutive
  <2>4. ASSUME k < last
        PROVE  \E j \in i + 1 .. Len(t) : OfStream(t[j], r) /\ t[j].n = t[i].n + 1
    <3>1. PICK j \in i + 1 .. m : OfStream(s[j], r) /\ s[j].n = k + 1
      BY <1>5, <2>1, <2>4 DEF Consecutive
    <3>2. j \in i + 1 .. Len(t) /\ j \in 1 .. m
      BY <1>1, <1>5
    <3>3. t[j] = s[j]
      BY <1>2, <3>2
    <3> QED
      BY <2>1, <3>1, <3>2, <3>3
  <2>5. ASSUME k = last, last < now
        PROVE  \E j \in i + 1 .. Len(t) : OfStream(t[j], r) /\ t[j].n = t[i].n + 1
    <3>1. OfStream(x, r) /\ x.n = last + 1
      BY <2>5
    <3>2. m + 1 \in i + 1 .. Len(t)
      BY <1>1, <1>5
    <3> QED
      BY <1>2, <2>1, <2>5, <3>1, <3>2
  <2>6. now = last \/ now = last + 1
    OBVIOUS
  <2>7. t[i].n <= now
    BY <2>1, <2>2, <2>6
  <2>8. ASSUME t[i].n < now
        PROVE  k < last \/ (k = last /\ last < now)
    BY <2>1, <2>2, <2>6, <2>8
  <2> HIDE DEF k
  <2> QED
    BY <2>3, <2>4, <2>5, <2>7, <2>8
<1> QED
  BY <1>1, <1>4, <1>5

LEMMA BoundedConsecutive ==
    ASSUME NEW s \in Seq(Lines), NEW x \in Lines, NEW r \in Pipes, NEW n \in Nat \ {0},
           NEW last \in Nat, NEW now \in Nat,
           Consecutive(s, r, last),
           IF OfStream(x, r) THEN now = last + 1 /\ x.n = now ELSE now = last
    PROVE  Consecutive(Bounded(s, x, n), r, now)
<1>1. CASE Len(s) >= n
  <2>1. s # <<>>
    BY <1>1
  <2>2. Tail(s) \in Seq(Lines)
    BY <2>1
  <2>3. Consecutive(Tail(s), r, last)
    BY <2>1, TailConsecutive
  <2>4. Consecutive(Append(Tail(s), x), r, now)
    BY <2>2, <2>3, AppendConsecutive
  <2> QED
    BY <1>1, <2>4 DEF Bounded
<1>2. CASE ~(Len(s) >= n)
  <2>1. Consecutive(Append(s, x), r, now)
    BY AppendConsecutive
  <2> QED
    BY <1>2, <2>1 DEF Bounded
<1> QED
  BY <1>1, <1>2

-----------------------------------------------------------------------------
(* Types.                                                                  *)

LEMMA AppendLogType ==
    ASSUME TypeOK, NEW line \in Lines, AppendLog(line) \/ (LogLine(line) /\ UNCHANGED profile)
    PROVE  /\ logs' \in Seq(Lines) /\ Len(logs') <= LogCapacity
           /\ errors' \in Seq(Lines) /\ Len(errors') <= ErrorCapacity
           /\ profile' \in Seq(Lines) /\ Len(profile') <= 1
<1>0. LogLine(line)
  BY DEF AppendLog
<1>1. LogCapacity \in Nat \ {0} /\ ErrorCapacity \in Nat \ {0}
  BY CapacityAssumption
<1>2. /\ logs \in Seq(Lines) /\ Len(logs) <= LogCapacity
      /\ errors \in Seq(Lines) /\ Len(errors) <= ErrorCapacity
      /\ profile \in Seq(Lines) /\ Len(profile) <= 1
  BY DEF TypeOK
<1>3. logs' \in Seq(Lines) /\ Len(logs') <= LogCapacity
  BY <1>0, <1>1, <1>2, BoundedType DEF LogLine
<1>4. errors' \in Seq(Lines) /\ Len(errors') <= ErrorCapacity
  <2>1. Bounded(errors, line, ErrorCapacity) \in Seq(Lines)
        /\ Len(Bounded(errors, line, ErrorCapacity)) <= ErrorCapacity
    BY <1>1, <1>2, BoundedType
  <2> QED
    BY <1>0, <1>2, <2>1 DEF LogLine
<1>5. profile' \in Seq(Lines) /\ Len(profile') <= 1
  <2>1. <<line>> \in Seq(Lines) /\ Len(<<line>>) = 1
    OBVIOUS
  <2> QED
    <3>1. profile' = <<line>> \/ profile' = profile
      BY DEF AppendLog
    <3>2. CASE profile' = <<line>>
      BY <2>1, <3>2
    <3>3. CASE profile' = profile
      BY <1>2, <3>3
    <3> QED
      BY <3>1, <3>2, <3>3
<1> QED
  BY <1>3, <1>4, <1>5

\* The manager's own line in Kill.
LEMMA KillLine ==
    ASSUME TypeOK, process # NoProcess
    PROVE  [run |-> process, stream |-> "stderr", n |-> 0, kind |-> "plain"] \in Lines
BY CapacityAssumption DEF TypeOK, Lines, Runs, Streams, NoProcess

LEMMA RequestTypes ==
    ASSUME TypeOK, NEW h \in Handlers
    PROVE  /\ request[h] \in Requests
           /\ (\E place \in {"-", "called", "report", "wait", "killed"} : Goes(h, place))
                  => request' \in [Handlers -> Requests]
           /\ Answers(h) => request' \in [Handlers -> Requests]
           /\ StopReturns(h) => request' \in [Handlers -> Requests]
<1>1. request \in [Handlers -> Requests]
  BY DEF TypeOK
<1>2. request[h] \in Requests
  BY <1>1
<1>3. ASSUME NEW place \in {"-", "called", "report", "wait", "killed"}, Goes(h, place)
      PROVE  request' \in [Handlers -> Requests]
  <2>1. [request[h] EXCEPT !.at = place] \in Requests
    BY <1>2 DEF Requests
  <2> QED
    BY <1>1, <1>3, <2>1 DEF Goes
<1>4. ASSUME Answers(h)
      PROVE  request' \in [Handlers -> Requests]
  <2>1. Idle \in Requests
    BY DEF Requests, Idle
  <2> QED
    BY <1>1, <1>4, <2>1 DEF Answers
<1>5. ASSUME StopReturns(h)
      PROVE  request' \in [Handlers -> Requests]
  <2>1. [request[h] EXCEPT !.op = "start", !.at = "called"] \in Requests
    BY <1>2 DEF Requests
  <2>2. Idle \in Requests
    BY DEF Requests, Idle
  <2> QED
    BY <1>1, <1>5, <2>1, <2>2 DEF StopReturns
<1> QED
  BY <1>2, <1>3, <1>4, <1>5

LEMMA ReapType ==
    ASSUME TypeOK, Reap
    PROVE  process' \in 0 .. MaxRuns /\ returncode' \in {Nothing, "exited", "killed"}
<1>1. CapacityAssumption
  BY CapacityAssumption
<1>2. process # NoProcess => process \in Runs
  BY <1>1 DEF TypeOK, Runs, NoProcess
<1> QED
  BY <1>1, <1>2 DEF TypeOK, Reap, NoProcess

LEMMA TypeInit == Init => TypeOK
<1> SUFFICES ASSUME Init PROVE TypeOK
  OBVIOUS
<1>1. <<>> \in Seq(Lines) /\ Len(<<>>) = 0
  OBVIOUS
<1>2. Idle \in Requests
  BY DEF Idle, Requests
<1>3. {pipe, held} \subseteq [Runs \X Streams -> Seq(Lines)]
      /\ \A r \in Runs \X Streams : Len(pipe[r]) <= PipeCapacity /\ Len(held[r]) <= 1
  <2>1. /\ pipe = [r \in Runs \X Streams |-> <<>>]
        /\ held = [r \in Runs \X Streams |-> <<>>]
    BY DEF Init
  <2> QED
    BY <1>1, <2>1, CapacityAssumption
<1>4. {written, logged} \subseteq [Runs \X Streams -> Nat]
      /\ reader \in [Runs \X Streams -> {"none", "reading", "ended", "failed"}]
  BY DEF Init
<1>5. request \in [Handlers -> Requests]
  BY <1>2 DEF Init
<1>6. /\ logs \in Seq(Lines) /\ Len(logs) <= LogCapacity
      /\ errors \in Seq(Lines) /\ Len(errors) <= ErrorCapacity
      /\ profile \in Seq(Lines) /\ Len(profile) <= 1
  BY <1>1, CapacityAssumption DEF Init
<1>7. /\ child \in [Runs -> {"unborn", "running", "killed", "dead"}]
      /\ code \in [Runs -> {Nothing, "exited", "killed"}]
      /\ startedWith \in [Runs -> Configs \cup {Nothing}]
      /\ lock \in Handlers \cup {Free}
      /\ config \in Configs \cup {Nothing} /\ returncode \in {Nothing, "exited", "killed"}
  BY DEF Init
<1>8. process \in 0 .. MaxRuns /\ runs \in 0 .. MaxRuns /\ calls \in 0 .. MaxCalls
  BY CapacityAssumption DEF Init, NoProcess
<1>9. forgotten \in BOOLEAN
  BY DEF Init
<1> QED
  BY <1>3, <1>4, <1>5, <1>6, <1>7, <1>8, <1>9 DEF TypeOK

LEMMA TypeStep == Inv /\ [Next]_vars => TypeOK'
<1> SUFFICES ASSUME Inv, [Next]_vars
             PROVE  TypeOK'
  OBVIOUS
<1> USE CapacityAssumption
<1>0. TypeOK
  BY DEF Inv
<1>1. CASE UNCHANGED vars
  BY <1>0, <1>1 DEF TypeOK, vars, manager, records, children, output
<1>2. ASSUME NEW h \in Handlers, NEW op \in {"start", "restart", "stop", "status"},
             NEW c \in Configs \cup {Nothing}, Call(h, op, c)
      PROVE  TypeOK'
  <2>1. [op |-> op, at |-> "called", config |-> c] \in Requests
    BY DEF Requests
  <2>2. request' \in [Handlers -> Requests]
    BY <1>0, <1>2, <2>1 DEF TypeOK, Call
  <2>3. calls' \in 0 .. MaxCalls
    BY <1>0, <1>2 DEF TypeOK, Call
  <2> QED
    BY <1>0, <1>2, <2>2, <2>3 DEF TypeOK, Call, manager, records, children, output
<1>3. ASSUME NEW h \in Handlers, Refuse(h)
      PROVE  TypeOK'
  <2>1. request' \in [Handlers -> Requests]
    BY <1>0, <1>3, RequestTypes DEF Refuse
  <2> QED
    BY <1>0, <1>3, <2>1 DEF TypeOK, Refuse, manager, records, children, output
<1>4. ASSUME NEW h \in Handlers, FailToSpawn(h)
      PROVE  TypeOK'
  <2>1. request' \in [Handlers -> Requests]
    BY <1>0, <1>4, RequestTypes DEF FailToSpawn
  <2>2. <<>> \in Seq(Lines) /\ Len(<<>>) = 0
    OBVIOUS
  <2> QED
    BY <1>0, <1>4, <2>1, <2>2, SMTT(30) DEF TypeOK, FailToSpawn, Forget, children, output
<1>5. ASSUME NEW h \in Handlers, Spawn(h)
      PROVE  TypeOK'
  <2>1. request' \in [Handlers -> Requests]
    BY <1>0, <1>5, RequestTypes DEF Spawn
  <2>2. <<>> \in Seq(Lines) /\ Len(<<>>) = 0
    OBVIOUS
  <2>3. runs' \in 1 .. MaxRuns /\ process' \in 0 .. MaxRuns
    BY <1>0, <1>5 DEF TypeOK, Spawn
  <2>4. request[h].config \in Configs \cup {Nothing}
    BY <1>0, RequestTypes DEF Requests
  <2>5. config' \in Configs \cup {Nothing}
        /\ startedWith' \in [Runs -> Configs \cup {Nothing}]
    BY <1>0, <1>5, <2>4 DEF TypeOK, Spawn
  <2>6. child' \in [Runs -> {"unborn", "running", "killed", "dead"}]
    BY <1>0, <1>5 DEF TypeOK, Spawn
  <2>7. reader' \in [Runs \X Streams -> {"none", "reading", "ended", "failed"}]
    BY <1>0, <1>5 DEF TypeOK, Spawn
  <2>8. /\ logs' \in Seq(Lines) /\ Len(logs') <= LogCapacity
        /\ errors' \in Seq(Lines) /\ Len(errors') <= ErrorCapacity
        /\ profile' \in Seq(Lines) /\ Len(profile') <= 1
        /\ returncode' \in {Nothing, "exited", "killed"}
    BY <1>5, <2>2 DEF Spawn, Forget
  <2>9. lock' \in Handlers \cup {Free} /\ UNCHANGED <<calls, code, pipe, written, held, logged>>
    BY <1>5 DEF Spawn
  <2>10. forgotten' \in BOOLEAN
    BY <1>5 DEF Spawn
  <2>11. runs' \in 0 .. MaxRuns
    BY <2>3
  <2> QED
    BY <1>0, <2>1, <2>3, <2>5, <2>6, <2>7, <2>8, <2>9, <2>10, <2>11 DEF TypeOK
<1>6. ASSUME NEW h \in Handlers, Status(h)
      PROVE  TypeOK'
  <2>1. request' \in [Handlers -> Requests]
    BY <1>0, <1>6, RequestTypes DEF Status
  <2>2. process' \in 0 .. MaxRuns /\ returncode' \in {Nothing, "exited", "killed"}
    BY <1>0, <1>6, ReapType DEF Status
  <2> QED
    BY <1>0, <1>6, <2>1, <2>2 DEF TypeOK, Status, records, children, output
<1>7. ASSUME NEW h \in Handlers, StopAtOnce(h)
      PROVE  TypeOK'
  <2>1. request' \in [Handlers -> Requests]
    BY <1>0, <1>7, RequestTypes DEF StopAtOnce
  <2>2. process' \in 0 .. MaxRuns /\ returncode' \in {Nothing, "exited", "killed"}
    BY <1>0, <1>7, ReapType DEF StopAtOnce
  <2> QED
    BY <1>0, <1>7, <2>1, <2>2 DEF TypeOK, StopAtOnce, records, children, output
<1>8. ASSUME NEW h \in Handlers, Terminate(h)
      PROVE  TypeOK'
  <2>1. request' \in [Handlers -> Requests]
    BY <1>0, <1>8, RequestTypes DEF Terminate
  <2> QED
    BY <1>0, <1>8, <2>1 DEF TypeOK, Terminate, manager, records, children, output
<1>9. ASSUME NEW h \in Handlers, Waited(h)
      PROVE  TypeOK'
  <2>1. request' \in [Handlers -> Requests]
    BY <1>0, <1>9, RequestTypes DEF Waited
  <2>2. process # NoProcess
    BY <1>9 DEF Waited, At, Inv, Locked
  <2>3. returncode' \in {Nothing, "exited", "killed"} /\ process' \in 0 .. MaxRuns
    <3>1. process \in Runs
      BY <1>0, <2>2 DEF TypeOK, Runs, NoProcess
    <3>2. returncode' = code[process] /\ process' = NoProcess
      BY <1>9 DEF Waited
    <3>3. code[process] \in {Nothing, "exited", "killed"}
      BY <1>0, <3>1 DEF TypeOK
    <3> QED
      BY <3>2, <3>3 DEF NoProcess
  <2> QED
    BY <1>0, <1>9, <2>1, <2>3 DEF TypeOK, Waited, records, children, output
<1>10. ASSUME NEW h \in Handlers, Kill(h)
       PROVE  TypeOK'
  <2>1. request' \in [Handlers -> Requests]
    BY <1>0, <1>10, RequestTypes DEF Kill
  <2>2. process # NoProcess
    BY <1>10 DEF Kill, At, Inv, Locked
  <2>3. /\ logs' \in Seq(Lines) /\ Len(logs') <= LogCapacity
        /\ errors' \in Seq(Lines) /\ Len(errors') <= ErrorCapacity
        /\ profile' \in Seq(Lines) /\ Len(profile') <= 1
    BY <1>0, <1>10, <2>2, KillLine, AppendLogType DEF Kill
  <2>4. child' \in [Runs -> {"unborn", "running", "killed", "dead"}]
    BY <1>0, <1>10 DEF TypeOK, Kill
  <2> QED
    BY <1>0, <1>10, <2>1, <2>3, <2>4 DEF TypeOK, Kill, manager, output
<1>11. ASSUME NEW h \in Handlers, GiveUp(h)
       PROVE  TypeOK'
  <2>1. request' \in [Handlers -> Requests]
    BY <1>0, <1>11, RequestTypes DEF GiveUp
  <2> QED
    BY <1>0, <1>11, <2>1 DEF TypeOK, GiveUp, manager, records, children, output
<1>12. ASSUME NEW c \in Runs, Exit(c)
       PROVE  TypeOK'
  BY <1>0, <1>12 DEF TypeOK, Exit, manager, records, output
<1>13. ASSUME NEW c \in Runs, NEW t \in Streams, NEW kind \in Kinds, Writes(c, t, kind)
       PROVE  TypeOK'
  <2> DEFINE r == <<c, t>>
  <2>1. r \in Runs \X Streams
    OBVIOUS
  <2>2. written' \in [Runs \X Streams -> Nat]
    <3>1. written \in [Runs \X Streams -> Nat] /\ written' = [written EXCEPT ![r] = @ + 1]
      BY <1>0, <1>13 DEF TypeOK, Writes
    <3> QED
      BY <2>1, <3>1
  <2>3. kind \in {"plain", "error", "profile"}
    BY KindsAssumption
  <2> DEFINE line == [run |-> c, stream |-> t, n |-> written'[r], kind |-> kind]
  <2>4. line \in Lines
    BY <2>1, <2>2, <2>3 DEF Lines
  <2>5. pipe' = [pipe EXCEPT ![r] = Append(pipe[r], line)] /\ Len(pipe[r]) < PipeCapacity
    BY <1>13 DEF Writes
  <2> HIDE DEF r, line
  <2>6. pipe \in [Runs \X Streams -> Seq(Lines)] /\ \A q \in Runs \X Streams : Len(pipe[q]) <= PipeCapacity
    BY <1>0 DEF TypeOK
  <2>7. Append(pipe[r], line) \in Seq(Lines) /\ Len(Append(pipe[r], line)) = Len(pipe[r]) + 1
    BY <2>1, <2>4, <2>6
  <2>8. pipe' \in [Runs \X Streams -> Seq(Lines)]
    BY <2>1, <2>5, <2>6, <2>7
  <2>9. \A q \in Runs \X Streams : Len(pipe'[q]) <= PipeCapacity
    BY <2>1, <2>5, <2>6, <2>7
  <2> QED
    BY <1>0, <1>13, <2>2, <2>8, <2>9 DEF TypeOK, Writes, manager, records, children
<1>14. ASSUME NEW r \in Runs \X Streams, ReadLine(r)
       PROVE  TypeOK'
  <2>1. pipe[r] \in Seq(Lines) /\ pipe[r] # <<>> /\ Len(pipe[r]) <= PipeCapacity
    BY <1>0, <1>14 DEF TypeOK, ReadLine
  <2>2. Head(pipe[r]) \in Lines /\ Tail(pipe[r]) \in Seq(Lines) /\ Len(Tail(pipe[r])) <= PipeCapacity
    BY <2>1
  <2>3. <<Head(pipe[r])>> \in Seq(Lines) /\ Len(<<Head(pipe[r])>>) = 1
    BY <2>2
  <2>4. {pipe', held'} \subseteq [Runs \X Streams -> Seq(Lines)]
    BY <1>0, <1>14, <2>2, <2>3, SMTT(30) DEF TypeOK, ReadLine
  <2>5. \A q \in Runs \X Streams : Len(pipe'[q]) <= PipeCapacity /\ Len(held'[q]) <= 1
    BY <1>0, <1>14, <2>2, <2>3 DEF TypeOK, ReadLine
  <2> QED
    BY <1>0, <1>14, <2>4, <2>5 DEF TypeOK, ReadLine, manager, records, children
<1>15. ASSUME NEW r \in Runs \X Streams, HandOver(r) \/ ParseFails(r)
       PROVE  TypeOK'
  <2>1. held[r] \in Seq(Lines) /\ held[r] # <<>>
    BY <1>0, <1>15 DEF TypeOK, HandOver, ParseFails
  <2>2. held[r][1] \in Lines
    BY <2>1
  <2>3. /\ logs' \in Seq(Lines) /\ Len(logs') <= LogCapacity
        /\ errors' \in Seq(Lines) /\ Len(errors') <= ErrorCapacity
        /\ profile' \in Seq(Lines) /\ Len(profile') <= 1
    BY <1>0, <1>15, <2>2, AppendLogType DEF HandOver, ParseFails
  <2>4. logged' \in [Runs \X Streams -> Nat]
    <3>1. logged \in [Runs \X Streams -> Nat] /\ logged' = [logged EXCEPT ![r] = @ + 1]
      BY <1>0, <1>15 DEF TypeOK, HandOver, ParseFails
    <3> QED
      BY <3>1
  <2>5. <<>> \in Seq(Lines) /\ Len(<<>>) = 0
    OBVIOUS
  <2>6. held' \in [Runs \X Streams -> Seq(Lines)] /\ \A q \in Runs \X Streams : Len(held'[q]) <= 1
    <3>1. /\ held \in [Runs \X Streams -> Seq(Lines)] /\ \A q \in Runs \X Streams : Len(held[q]) <= 1
          /\ held' = [held EXCEPT ![r] = <<>>]
      BY <1>0, <1>15 DEF TypeOK, HandOver, ParseFails
    <3>2. \A q \in Runs \X Streams : held'[q] = IF q = r THEN <<>> ELSE held[q]
      BY <3>1
    <3> QED
      BY <2>5, <3>1, <3>2
  <2>7. UNCHANGED <<lock, manager, request, calls, children, pipe, written, forgotten>>
    BY <1>15 DEF HandOver, ParseFails
  <2>8. /\ {written', logged'} \subseteq [Runs \X Streams -> Nat]
        /\ {pipe', held'} \subseteq [Runs \X Streams -> Seq(Lines)]
        /\ \A q \in Runs \X Streams : Len(pipe'[q]) <= PipeCapacity /\ Len(held'[q]) <= 1
    BY <1>0, <2>4, <2>6, <2>7, SMTT(30) DEF TypeOK
  <2>9. reader' \in [Runs \X Streams -> {"none", "reading", "ended", "failed"}]
    BY <1>0, <1>15 DEF TypeOK, HandOver, ParseFails
  <2> QED
    BY <1>0, <2>3, <2>7, <2>8, <2>9 DEF TypeOK, manager, children
<1>16. ASSUME NEW r \in Runs \X Streams, EndOfFile(r) \/ ReadFails(r)
       PROVE  TypeOK'
  <2>1. reader' \in [Runs \X Streams -> {"none", "reading", "ended", "failed"}]
    BY <1>0, <1>16 DEF TypeOK, EndOfFile, ReadFails
  <2>2. UNCHANGED <<lock, manager, records, request, calls, children, pipe, written, held, logged,
                    forgotten>>
    BY <1>16 DEF EndOfFile, ReadFails
  <2> QED
    BY <1>0, <2>1, <2>2 DEF TypeOK, manager, records, children
<1> QED
  BY <1>1, <1>2, <1>3, <1>4, <1>5, <1>6, <1>7, <1>8, <1>9, <1>10, <1>11, <1>12, <1>13,
     <1>14, <1>15, <1>16, Zenon DEF Next

-----------------------------------------------------------------------------
(* The lock and the child.                                                 *)

\* Whoever answers, or has stopped, neither waits nor reports.
LEMMA Leaves ==
    ASSUME TypeOK, NEW h \in Handlers, Answers(h) \/ StopReturns(h), NEW g \in Handlers,
           request'[g].at \in {"report", "wait", "killed"}
    PROVE  g # h /\ request'[g] = request[g]
<1>1. request \in [Handlers -> Requests] /\ request[h] \in Requests
  BY DEF TypeOK
<1>2. Idle.at = "-"
  BY DEF Idle
<1>3. [request[h] EXCEPT !.op = "start", !.at = "called"].at = "called"
  BY <1>1 DEF Requests
<1>4. request'[h].at \in {"-", "called"}
  <2>1. CASE Answers(h)
    BY <1>1, <1>2, <2>1 DEF Answers
  <2>2. CASE StopReturns(h)
    <3>1. CASE request[h].op = "restart"
      BY <1>1, <1>3, <2>2, <3>1 DEF StopReturns
    <3>2. CASE request[h].op # "restart"
      BY <1>1, <1>2, <2>2, <3>2 DEF StopReturns
    <3> QED
      BY <3>1, <3>2
  <2> QED
    BY <2>1, <2>2
<1>5. g # h
  BY <1>4
<1> QED
  BY <1>1, <1>5 DEF Answers, StopReturns

\* A thread that goes elsewhere does not come to hold the lock without need.
LEMMA LockedStep == Inv /\ [Next]_vars => Locked'
<1> SUFFICES ASSUME Inv, [Next]_vars, NEW g \in Handlers,
                    request'[g].at \in {"report", "wait", "killed"}
             PROVE  lock' = g /\ process' # NoProcess
  BY DEF Locked
<1>0. /\ request \in [Handlers -> Requests] /\ Locked /\ Free \notin Handlers
      /\ runs \in Nat /\ Idle.at = "-"
  BY CapacityAssumption, HandlersAssumption DEF Inv, TypeOK, Free, Idle
<1>1. CASE UNCHANGED <<lock, process, request>>
  BY <1>0, <1>1 DEF Locked
<1>2. ASSUME NEW h \in Handlers, NEW op, NEW c, Call(h, op, c)
      PROVE  lock' = g /\ process' # NoProcess
  <2>1. g # h
    BY <1>0, <1>2 DEF Call
  <2> QED
    BY <1>0, <1>2, <2>1 DEF Call, Locked, manager
<1>3. ASSUME NEW h \in Handlers, Refuse(h) \/ FailToSpawn(h)
      PROVE  lock' = g /\ process' # NoProcess
  <2>1. g # h
    BY <1>0, <1>3 DEF Refuse, FailToSpawn, Answers
  <2> QED
    BY <1>0, <1>3, <2>1 DEF Refuse, FailToSpawn, Answers, Locked, manager
<1>4. ASSUME NEW h \in Handlers, Spawn(h)
      PROVE  lock' = g /\ process' # NoProcess
  <2>1. g = h
    <3>1. lock = Free
      BY <1>4 DEF Spawn, Asked
    <3>2. g # h => request'[g] = request[g]
      BY <1>0, <1>4 DEF Spawn, Goes
    <3> QED
      BY <1>0, <3>1, <3>2 DEF Locked
  <2> QED
    BY <1>0, <1>4, <2>1 DEF Spawn, NoProcess
<1>5. ASSUME NEW h \in Handlers, Status(h) \/ StopAtOnce(h)
      PROVE  lock' = g /\ process' # NoProcess
  <2>1. g # h /\ request'[g] = request[g]
    BY <1>5, Leaves DEF Status, StopAtOnce, Inv
  <2>2. lock = g
    BY <1>0, <2>1 DEF Locked
  <2>3. lock # Free /\ lock # h
    BY <1>0, <2>1, <2>2
  <2> QED
    BY <1>5, <2>3 DEF Status, StopAtOnce, Asked
<1>6. ASSUME NEW h \in Handlers, Terminate(h)
      PROVE  lock' = g /\ process' # NoProcess
  <2>1. lock = Free /\ process # NoProcess /\ UNCHANGED process /\ lock' = h
    BY <1>6 DEF Terminate, Asked, IsRunning, manager
  <2>2. g # h => request'[g] = request[g]
    BY <1>0, <1>6 DEF Terminate, Goes
  <2> QED
    BY <1>0, <2>1, <2>2 DEF Locked
<1>7. ASSUME NEW h \in Handlers, Waited(h) \/ GiveUp(h)
      PROVE  lock' = g /\ process' # NoProcess
  <2>1. g # h /\ request'[g] = request[g]
    BY <1>7, Leaves DEF Waited, GiveUp, Inv
  <2>2. lock = h /\ lock = g
    BY <1>0, <1>7, <2>1 DEF Waited, GiveUp, At, Locked
  <2> QED
    BY <2>1, <2>2
<1>8. ASSUME NEW h \in Handlers, Kill(h)
      PROVE  lock' = g /\ process' # NoProcess
  <2>1. lock = h /\ process # NoProcess /\ UNCHANGED <<lock, process>>
    BY <1>0, <1>8 DEF Kill, At, Locked, manager
  <2>2. g # h => request'[g] = request[g]
    BY <1>0, <1>8 DEF Kill, Goes
  <2> QED
    BY <1>0, <2>1, <2>2 DEF Locked
<1>9. ASSUME NEW c \in Runs, NEW t, NEW k, Exit(c) \/ Writes(c, t, k)
      PROVE  UNCHANGED <<lock, process, request>>
  BY <1>9 DEF Exit, Writes, manager
<1>10. ASSUME NEW r,
              ReadLine(r) \/ HandOver(r) \/ EndOfFile(r) \/ ReadFails(r) \/ ParseFails(r)
       PROVE  UNCHANGED <<lock, process, request>>
  BY <1>10 DEF ReadLine, HandOver, EndOfFile, ReadFails, ParseFails, manager
<1>11. CASE UNCHANGED vars
  BY <1>1, <1>11 DEF vars, manager
<1>12. ASSUME NEW h \in Handlers
       PROVE  /\ (\E op \in {"start", "restart"}, c \in Configs : Call(h, op, c))
                    => lock' = g /\ process' # NoProcess
              /\ (\E op \in {"stop", "status"} : Call(h, op, Nothing))
                    => lock' = g /\ process' # NoProcess
  BY <1>2
<1> QED
  BY <1>1, <1>12, <1>3, <1>4, <1>5, <1>6, <1>7, <1>8, <1>9, <1>10, <1>11 DEF Next

ChildOK == Born /\ OneChild /\ StatusTrue

LEMMA ReapChildOK ==
    ASSUME TypeOK, ChildOK, Reap, UNCHANGED <<config, children, forgotten>>
    PROVE  ChildOK'
<1>1. CASE UNCHANGED <<process, returncode>>
  BY <1>1 DEF ChildOK, Born, OneChild, StatusTrue, Alive, children
<1>2. CASE process # NoProcess /\ ~Alive(process)
  <2>1. process' = NoProcess /\ returncode' = code[process] /\ process = runs
    BY <1>2 DEF Reap, ChildOK, Born
  <2>2. UNCHANGED <<runs, child, code, forgotten>>
    BY DEF children
  <2>3. \A c \in Runs : ~Alive(c)
    BY <1>2 DEF ChildOK, OneChild
  <2> QED
    BY <2>1, <2>2, <2>3 DEF ChildOK, Born, OneChild, StatusTrue, Alive
<1> QED
  BY <1>1, <1>2 DEF Reap

LEMMA ChildStep == Inv /\ [Next]_vars => ChildOK'
<1> SUFFICES ASSUME Inv, [Next]_vars
             PROVE  ChildOK'
  OBVIOUS
<1>0. /\ TypeOK /\ ChildOK /\ Locked /\ runs \in Nat /\ MaxRuns \in Nat
      /\ process # NoProcess => process \in Runs
      /\ child \in [Runs -> {"unborn", "running", "killed", "dead"}]
  BY CapacityAssumption DEF Inv, TypeOK, ChildOK, NoProcess, Runs
<1>1. CASE UNCHANGED <<process, config, returncode, children, forgotten>>
  BY <1>0, <1>1 DEF ChildOK, Born, OneChild, StatusTrue, Alive, children
<1>2. ASSUME NEW h \in Handlers, FailToSpawn(h)
      PROVE  ChildOK'
  <2>1. /\ UNCHANGED <<process, config, runs, child, code, startedWith>>
        /\ returncode' = Nothing /\ forgotten' = TRUE
    BY <1>2 DEF FailToSpawn, Forget, children
  <2> QED
    BY <1>0, <2>1 DEF ChildOK, Born, OneChild, StatusTrue, Alive
<1>3. ASSUME NEW h \in Handlers, Spawn(h)
      PROVE  ChildOK'
  <2>1. /\ runs' = runs + 1 /\ runs + 1 \in Runs /\ process' = runs + 1
        /\ returncode' = Nothing /\ config' = request[h].config
        /\ startedWith' = [startedWith EXCEPT ![runs + 1] = request[h].config]
        /\ child' = [child EXCEPT ![runs + 1] = "running"]
    BY <1>0, <1>3 DEF Spawn, Forget, Runs
  <2>2. \A c \in Runs : ~Alive(c)
    BY <1>0, <1>3 DEF Spawn, IsRunning, ChildOK, OneChild, Runs, NoProcess
  <2>3. \A c \in Runs : child'[c] = IF c = runs + 1 THEN "running" ELSE child[c]
    BY <1>0, <2>1
  <2>4. Born'
    BY <1>0, <2>1, <2>3 DEF ChildOK, Born, Runs
  <2>5. OneChild'
    BY <2>1, <2>2, <2>3 DEF OneChild, Alive
  <2>6. startedWith'[runs + 1] = request[h].config
    BY <1>0, <2>1 DEF TypeOK
  <2>7. StatusTrue'
    BY <1>0, <2>1, <2>6 DEF StatusTrue, NoProcess
  <2> QED
    BY <2>4, <2>5, <2>7 DEF ChildOK
<1>4. ASSUME NEW h \in Handlers, Status(h) \/ StopAtOnce(h)
      PROVE  ChildOK'
  BY <1>0, <1>4, ReapChildOK DEF Status, StopAtOnce
<1>5. ASSUME NEW h \in Handlers, Waited(h)
      PROVE  ChildOK'
  <2>1. process # NoProcess /\ ~Alive(process)
    BY <1>0, <1>5 DEF Waited, At, Locked
  <2>2. Reap /\ UNCHANGED <<config, children, forgotten>>
    BY <1>5, <2>1 DEF Waited, Reap
  <2> QED
    BY <1>0, <2>2, ReapChildOK
<1>6. ASSUME NEW h \in Handlers, Kill(h)
      PROVE  ChildOK'
  <2>1. /\ UNCHANGED <<process, config, returncode, runs, code, startedWith, forgotten>>
        /\ child' = [child EXCEPT ![process] = "killed"] /\ Alive(process)
    BY <1>6 DEF Kill, manager
  <2>2. process \in Runs
    BY <1>0, <1>6 DEF Kill, At, Locked
  <2>3. \A c \in Runs : child'[c] = IF c = process THEN "killed" ELSE child[c]
    BY <1>0, <2>1
  <2>4. child[process] # "unborn"
    BY <2>1 DEF Alive
  <2>5. Born'
    BY <1>0, <2>1, <2>2, <2>3, <2>4 DEF ChildOK, Born
  <2>6. OneChild'
    BY <1>0, <2>1, <2>3 DEF ChildOK, OneChild, Alive
  <2>7. StatusTrue'
    BY <1>0, <2>1 DEF ChildOK, StatusTrue
  <2> QED
    BY <2>5, <2>6, <2>7 DEF ChildOK
<1>7. ASSUME NEW c \in Runs, Exit(c)
      PROVE  ChildOK'
  <2>1. /\ UNCHANGED <<process, config, returncode, runs, startedWith, forgotten>>
        /\ child' = [child EXCEPT ![c] = "dead"] /\ Alive(c)
    BY <1>7 DEF Exit, manager
  <2>2. c = process /\ process # NoProcess
    BY <1>0, <2>1 DEF ChildOK, OneChild, Runs, NoProcess
  <2>3. \A d \in Runs : child'[d] = IF d = c THEN "dead" ELSE child[d]
    BY <1>0, <2>1
  <2>4. child[c] # "unborn"
    BY <2>1 DEF Alive
  <2>5. Born'
    BY <1>0, <2>1, <2>3, <2>4 DEF ChildOK, Born
  <2>6. OneChild'
    BY <1>0, <2>1, <2>3 DEF ChildOK, OneChild, Alive
  <2>7. StatusTrue'
    BY <1>0, <2>1, <2>2 DEF ChildOK, StatusTrue
  <2> QED
    BY <2>5, <2>6, <2>7 DEF ChildOK
<1>8. ASSUME NEW h, NEW op, NEW c,
             Call(h, op, c) \/ Refuse(h) \/ Terminate(h) \/ GiveUp(h)
      PROVE  UNCHANGED <<process, config, returncode, children, forgotten>>
  BY <1>8 DEF Call, Refuse, Terminate, GiveUp, manager
<1>9. ASSUME NEW r, NEW c, NEW t, NEW k,
             \/ Writes(c, t, k) \/ ReadLine(r) \/ HandOver(r)
             \/ EndOfFile(r) \/ ReadFails(r) \/ ParseFails(r)
      PROVE  UNCHANGED <<process, config, returncode, children, forgotten>>
  BY <1>9 DEF Writes, ReadLine, HandOver, EndOfFile, ReadFails, ParseFails, manager
<1>10. CASE UNCHANGED vars
  BY <1>1, <1>10 DEF vars, manager
<1> QED
  BY <1>1, <1>2, <1>3, <1>4, <1>5, <1>6, <1>7, <1>8, <1>9, <1>10 DEF Next

-----------------------------------------------------------------------------
(* The lines on their way to the log.                                      *)

LinesOK == Ends /\ Continues /\ Counted /\ InLog

\* A line of the manager's own, or none, reaches the log.
LEMMA LogKeeps ==
    ASSUME TypeOK, InLog, UNCHANGED logged,
           \/ UNCHANGED logs
           \/ logs' = <<>>
           \/ \E line \in Lines : line.n = 0 /\ AppendLog(line)
    PROVE  InLog'
<1> SUFFICES ASSUME NEW r \in Pipes
             PROVE  Consecutive(logs', r, logged[r])
  BY DEF InLog
<1>1. logs \in Seq(Lines) /\ logged[r] \in Nat /\ Consecutive(logs, r, logged[r])
  BY DEF TypeOK, InLog, Pipes
<1>2. CASE UNCHANGED logs
  BY <1>1, <1>2
<1>3. CASE logs' = <<>>
  BY <1>3 DEF Consecutive
<1>4. ASSUME NEW line \in Lines, line.n = 0, AppendLog(line)
      PROVE  Consecutive(logs', r, logged[r])
  <2>1. ~OfStream(line, r)
    BY <1>4 DEF OfStream
  <2>2. LogCapacity \in Nat \ {0}
    BY CapacityAssumption
  <2>3. Consecutive(Bounded(logs, line, LogCapacity), r, logged[r])
    BY <1>1, <2>1, <2>2, BoundedConsecutive
  <2> QED
    BY <1>4, <2>3 DEF AppendLog, LogLine
<1> QED
  BY <1>2, <1>3, <1>4

LEMMA LinesStep == Inv /\ [Next]_vars => LinesOK'
<1> SUFFICES ASSUME Inv, [Next]_vars
             PROVE  LinesOK'
  OBVIOUS
<1>0. /\ TypeOK /\ Ends /\ Continues /\ Counted /\ InLog /\ ChildOK /\ Locked
      /\ runs \in Nat /\ MaxRuns \in Nat
      /\ child \in [Runs -> {"unborn", "running", "killed", "dead"}]
      /\ reader \in [Pipes -> {"none", "reading", "ended", "failed"}]
      /\ written \in [Pipes -> Nat] /\ logged \in [Pipes -> Nat]
      /\ pipe \in [Pipes -> Seq(Lines)] /\ held \in [Pipes -> Seq(Lines)]
      /\ \A r \in Pipes : Len(held[r]) <= 1
  BY CapacityAssumption, SMTT(30) DEF Inv, TypeOK, ChildOK, Pipes
<1>1. ASSUME UNCHANGED <<child, output>>,
             \/ UNCHANGED logs
             \/ logs' = <<>>
             \/ \E line \in Lines : line.n = 0 /\ AppendLog(line)
      PROVE  LinesOK'
  <2>1. InLog'
    BY <1>0, <1>1, LogKeeps DEF output
  <2>2. Ends' /\ Continues' /\ Counted'
    BY <1>0, <1>1 DEF output, Ends, Continues, Counted
  <2> QED
    BY <2>1, <2>2 DEF LinesOK
<1>2. ASSUME NEW h, NEW op, NEW c,
             \/ Call(h, op, c) \/ Refuse(h) \/ Status(h)
             \/ StopAtOnce(h) \/ Terminate(h) \/ Waited(h) \/ GiveUp(h)
      PROVE  UNCHANGED <<child, output>> /\ UNCHANGED logs
  BY <1>2 DEF Call, Refuse, Status, StopAtOnce, Terminate, Waited, GiveUp, children, records
<1>3. ASSUME NEW h \in Handlers, FailToSpawn(h)
      PROVE  UNCHANGED <<child, output>> /\ logs' = <<>>
  BY <1>3 DEF FailToSpawn, Forget, children
<1>4. ASSUME NEW h \in Handlers, Spawn(h)
      PROVE  LinesOK'
  <2>1. /\ runs + 1 \in Runs /\ child' = [child EXCEPT ![runs + 1] = "running"]
        /\ reader' = [r \in Pipes |-> IF r[1] = runs + 1 THEN "reading" ELSE reader[r]]
        /\ UNCHANGED <<pipe, written, held, logged>> /\ logs' = <<>>
    BY <1>0, <1>4 DEF Spawn, Forget, Runs, Pipes
  <2>2. child[runs + 1] = "unborn"
    BY <1>0, <2>1 DEF ChildOK, Born
  <2>3. InLog'
    BY <1>0, <2>1, LogKeeps
  <2>4. Continues' /\ Counted'
    BY <1>0, <2>1 DEF Continues, Counted
  <2>5. Ends'
    <3>1. \A r \in Pipes : r[1] \in Runs
      BY DEF Pipes
    <3>2. \A d \in Runs : child'[d] = IF d = runs + 1 THEN "running" ELSE child[d]
      BY <1>0, <2>1
    <3>3. \A r \in Pipes : reader'[r] = IF r[1] = runs + 1 THEN "reading" ELSE reader[r]
      BY <2>1
    <3> QED
      BY <1>0, <2>1, <3>1, <3>2, <3>3 DEF Ends
  <2> QED
    BY <2>3, <2>4, <2>5 DEF LinesOK
<1>5. ASSUME NEW h \in Handlers, Kill(h)
      PROVE  LinesOK'
  <2>1. process # NoProcess /\ Alive(process)
    BY <1>0, <1>5 DEF Kill, At, Locked
  <2>2. \E line \in Lines : line.n = 0 /\ AppendLog(line)
    BY <1>0, <1>5, <2>1, KillLine DEF Kill
  <2>3. UNCHANGED output
    BY <1>5 DEF Kill
  <2>4. InLog'
    BY <1>0, <2>2, <2>3, LogKeeps DEF output
  <2>5. Continues' /\ Counted'
    BY <1>0, <2>3 DEF Continues, Counted, output
  <2>6. Ends'
    <3>1. \A r \in Pipes : r[1] \in Runs
      BY DEF Pipes
    <3>2. child' = [child EXCEPT ![process] = "killed"] /\ child[process] \in {"running", "killed"}
      BY <1>5, <2>1 DEF Kill, Alive
    <3>3. \A d \in Runs : child'[d] = child[d] \/ (d = process /\ child'[d] = "killed")
      BY <1>0, <3>2
    <3>4. UNCHANGED <<reader, held, pipe>>
      BY <2>3 DEF output
    <3> QED
      BY <1>0, <3>1, <3>2, <3>3, <3>4 DEF Ends
  <2> QED
    BY <2>4, <2>5, <2>6 DEF LinesOK
<1>6. ASSUME NEW c \in Runs, Exit(c)
      PROVE  LinesOK'
  <2>1. /\ UNCHANGED <<logs, output>> /\ child[c] \in {"running", "killed"}
        /\ child' = [child EXCEPT ![c] = "dead"]
    BY <1>6 DEF Exit, Alive, records
  <2>2. InLog'
    BY <1>0, <2>1, LogKeeps DEF output
  <2>3. Continues' /\ Counted'
    BY <1>0, <2>1 DEF Continues, Counted, output
  <2>4. Ends'
    <3>1. \A r \in Pipes : r[1] \in Runs
      BY DEF Pipes
    <3>2. \A d \in Runs : child'[d] = IF d = c THEN "dead" ELSE child[d]
      BY <1>0, <2>1
    <3>3. UNCHANGED <<reader, held, pipe>>
      BY <2>1 DEF output
    <3> QED
      BY <1>0, <2>1, <3>1, <3>2, <3>3 DEF Ends
  <2> QED
    BY <2>2, <2>3, <2>4 DEF LinesOK
<1>7. ASSUME NEW c \in Runs, NEW t \in Streams, NEW kind \in Kinds, Writes(c, t, kind)
      PROVE  LinesOK'
  <2> DEFINE q == <<c, t>>
             line == [run |-> c, stream |-> t, n |-> written[q] + 1, kind |-> kind]
  <2>1. q \in Pipes /\ q[1] = c /\ q[2] = t
    BY DEF Pipes
  <2>2. line.run = c /\ line.stream = t /\ line.n = written[q] + 1
    OBVIOUS
  <2>3. line \in Lines
    <3>1. kind \in {"plain", "error", "profile"}
      BY KindsAssumption
    <3>2. written[q] + 1 \in Nat
      BY <1>0, <2>1
    <3> QED
      BY <3>1, <3>2 DEF Lines
  <2>4. /\ written' = [written EXCEPT ![q] = @ + 1]
        /\ child[c] = "running"
        /\ UNCHANGED <<logs, child, reader, held, logged>>
    BY <1>7 DEF Writes, records, children
  <2>5. written'[q] = written[q] + 1
    BY <1>0, <2>1, <2>4
  <2>6. pipe' = [pipe EXCEPT ![q] = Append(@, line)]
    BY <1>7, <2>5 DEF Writes
  <2> HIDE DEF q, line
  <2> DEFINE p == pipe[q]
             m == Len(p)
  <2>7. pipe'[q] = Append(p, line) /\ \A r \in Pipes : r # q => pipe'[r] = pipe[r]
    BY <1>0, <2>1, <2>6
  <2>8. p \in Seq(Lines) /\ m \in Nat /\ Len(Append(p, line)) = m + 1
    BY <1>0, <2>1, <2>3
  <2>9. Append(p, line)[m + 1] = line /\ \A k \in 1 .. m : Append(p, line)[k] = p[k]
    BY <2>3, <2>8
  <2>10. \A r \in Pipes : r # q => written'[r] = written[r]
    BY <1>0, <2>1, <2>4
  <2>11. \A r \in Pipes : Len(held[r]) \in Nat /\ Len(pipe[r]) \in Nat /\ written[r] \in Nat /\ logged[r] \in Nat
    BY <1>0
  <2>12. InLog'
    BY <1>0, <2>4, LogKeeps
  <2>16. /\ Len(pipe'[q]) = m + 1 /\ Len(held[q]) \in Nat /\ logged[q] \in Nat
         /\ written[q] = logged[q] + Len(held[q]) + m
    BY <1>0, <2>1, <2>7, <2>8, <2>11 DEF Counted
  <2> HIDE DEF m
  <2>17. /\ written'[q] = logged[q] + Len(held[q]) + Len(pipe'[q])
         /\ logged[q] + Len(held[q]) + (m + 1) = written[q] + 1
    <3> DEFINE h == Len(held[q])   g == logged[q]   w == written[q]   l == Len(pipe'[q])
    <3>1. l = m + 1 /\ w = g + h + m /\ h \in Nat /\ g \in Nat /\ m \in Nat /\ written'[q] = w + 1
      BY <2>5, <2>8, <2>16
    <3> HIDE DEF h, g, w, l
    <3>2. w + 1 = g + h + l /\ g + h + (m + 1) = w + 1
      BY <3>1
    <3> QED
      BY <3>1, <3>2 DEF h, g, w, l
  <2> USE DEF m
  <2>13. Counted'
    <3> SUFFICES ASSUME NEW r \in Pipes
                 PROVE  written'[r] = logged[r] + Len(held[r]) + Len(pipe'[r])
      BY <2>4 DEF Counted
    <3>1. written[r] = logged[r] + Len(held[r]) + Len(pipe[r])
      BY <1>0 DEF Counted
    <3>2. CASE r = q
      BY <2>17, <3>2
    <3>3. CASE r # q
      BY <2>7, <2>10, <3>1, <3>3
    <3> QED
      BY <3>2, <3>3
  <2>14. Ends'
    <3>1. reader[q] # "ended"
      BY <1>0, <2>1, <2>4 DEF Ends
    <3> QED
      BY <1>0, <2>1, <2>4, <2>7, <3>1 DEF Ends
  <2>15. Continues'
    <3> SUFFICES ASSUME NEW r \in Pipes, NEW k \in 1 .. Len(pipe'[r])
                 PROVE  /\ pipe'[r][k].run = r[1] /\ pipe'[r][k].stream = r[2]
                        /\ pipe'[r][k].n = logged[r] + Len(held[r]) + k
      BY <1>0, <2>4 DEF Continues
    <3>1. CASE r # q
      BY <1>0, <2>7, <3>1, SMTT(30) DEF Continues
    <3>2. CASE r = q /\ k \in 1 .. m
      <4>1. pipe'[r][k] = pipe[r][k] /\ k \in 1 .. Len(pipe[r])
        BY <2>7, <2>9, <3>2
      <4> QED
        BY <1>0, <4>1 DEF Continues
    <3>3. CASE r = q /\ k = m + 1
      <4>1. pipe'[r][k] = line
        BY <2>7, <2>9, <3>3
      <4> QED
        BY <2>1, <2>2, <2>17, <3>3, <4>1
    <3>4. k \in 1 .. m \/ k = m + 1 \/ r # q
      BY <2>7, <2>8
    <3> QED
      BY <3>1, <3>2, <3>3, <3>4
  <2> QED
    BY <2>12, <2>13, <2>14, <2>15 DEF LinesOK
<1>8. ASSUME NEW q \in Pipes, ReadLine(q)
      PROVE  LinesOK'
  <2> DEFINE p == pipe[q]
             x == Head(p)
             m == Len(p)
  <2>1. /\ reader[q] = "reading" /\ held[q] = <<>> /\ p # <<>>
        /\ held' = [held EXCEPT ![q] = <<x>>] /\ pipe' = [pipe EXCEPT ![q] = Tail(p)]
        /\ UNCHANGED <<logs, child, written, reader, logged>>
    BY <1>8 DEF ReadLine, records, children
  <2>2. /\ held'[q] = <<x>> /\ pipe'[q] = Tail(p)
        /\ \A r \in Pipes : r # q => held'[r] = held[r] /\ pipe'[r] = pipe[r]
    BY <1>0, <2>1
  <2>3. /\ p \in Seq(Lines) /\ m \in Nat \ {0} /\ x = p[1] /\ Tail(p) \in Seq(Lines)
        /\ Len(Tail(p)) = m - 1 /\ \A k \in 1 .. m - 1 : Tail(p)[k] = p[k + 1]
    BY <1>0, <2>1
  <2>4. Len(<<x>>) = 1 /\ <<x>>[1] = x /\ Len(held[q]) = 0
    BY <2>1
  <2>5. logged[q] \in Nat
    BY <1>0
  <2>6. /\ x.run = q[1] /\ x.stream = q[2] /\ x.n = logged[q] + 1
        /\ \A k \in 1 .. m - 1 : /\ Tail(p)[k].run = q[1] /\ Tail(p)[k].stream = q[2]
                                  /\ Tail(p)[k].n = logged[q] + 1 + k
    <3>1. \A k \in 1 .. m : /\ p[k].run = q[1] /\ p[k].stream = q[2]
                            /\ p[k].n = logged[q] + Len(held[q]) + k
      BY <1>0 DEF Continues
    <3>2. \A k \in 1 .. m : p[k].n = logged[q] + k
      BY <2>4, <2>5, <3>1
    <3>3. ASSUME NEW k \in 1 .. m - 1
          PROVE  /\ Tail(p)[k].run = q[1] /\ Tail(p)[k].stream = q[2]
                 /\ Tail(p)[k].n = logged[q] + 1 + k
      <4>1. k + 1 \in 1 .. m /\ Tail(p)[k] = p[k + 1]
        BY <2>3
      <4>2. logged[q] + (k + 1) = logged[q] + 1 + k
        BY <2>5
      <4> QED
        BY <3>1, <3>2, <4>1, <4>2
    <3>4. 1 \in 1 .. m
      BY <2>3
    <3> QED
      BY <2>3, <3>1, <3>2, <3>3, <3>4
  <2> HIDE DEF p, x, m
  <2>7. InLog'
    BY <1>0, <2>1, LogKeeps
  <2>8. Counted'
    <3> SUFFICES ASSUME NEW r \in Pipes
                 PROVE  written[r] = logged[r] + Len(held'[r]) + Len(pipe'[r])
      BY <2>1 DEF Counted
    <3>1. written[r] = logged[r] + Len(held[r]) + Len(pipe[r])
      BY <1>0 DEF Counted
    <3>2. CASE r = q
      <4>1. /\ written[q] = logged[q] + Len(held[q]) + m
            /\ Len(held'[q]) = 1 /\ Len(pipe'[q]) = m - 1 /\ Len(held[q]) = 0
        BY <2>2, <2>3, <2>4, <3>1, <3>2 DEF p, m
      <4>2. written[q] = logged[q] + Len(held'[q]) + Len(pipe'[q])
        BY <2>3, <2>5, <4>1
      <4> QED
        BY <3>2, <4>2
    <3>3. CASE r # q
      BY <2>2, <3>1, <3>3
    <3> QED
      BY <3>2, <3>3
  <2>9. Ends'
    <3>1. reader[q] # "ended"
      BY <2>1
    <3> QED
      BY <1>0, <2>1, <2>2, <3>1 DEF Ends
  <2>10. Continues'
    <3> SUFFICES ASSUME NEW r \in Pipes
                 PROVE  /\ \A k \in 1 .. Len(held'[r]) :
                              /\ held'[r][k].run = r[1] /\ held'[r][k].stream = r[2]
                              /\ held'[r][k].n = logged[r] + k
                        /\ \A k \in 1 .. Len(pipe'[r]) :
                              /\ pipe'[r][k].run = r[1] /\ pipe'[r][k].stream = r[2]
                              /\ pipe'[r][k].n = logged[r] + Len(held'[r]) + k
      BY <2>1 DEF Continues
    <3>1. CASE r # q
      <4>1. held'[r] = held[r] /\ pipe'[r] = pipe[r]
        BY <2>2, <3>1
      <4> QED
        BY <1>0, <4>1 DEF Continues
    <3>2. CASE r = q
      <4>1. \A k \in 1 .. Len(held'[q]) : k = 1 /\ held'[q][k] = x
        <5>1. Len(held'[q]) = 1 /\ held'[q][1] = x
          BY <2>2, <2>4
        <5> QED
          BY <5>1
      <4>2. Len(pipe'[q]) = m - 1 /\ Len(held'[q]) = 1 /\ pipe'[q] = Tail(p)
        BY <2>2, <2>3, <2>4
      <4>3. \A k \in 1 .. Len(held'[q]) :
               /\ held'[q][k].run = q[1] /\ held'[q][k].stream = q[2]
               /\ held'[q][k].n = logged[q] + k
        BY <2>6, <4>1
      <4>4. \A k \in 1 .. Len(pipe'[q]) :
               /\ pipe'[q][k].run = q[1] /\ pipe'[q][k].stream = q[2]
               /\ pipe'[q][k].n = logged[q] + Len(held'[q]) + k
        BY <2>6, <4>2
      <4> QED
        BY <3>2, <4>3, <4>4
    <3> QED
      BY <3>1, <3>2
  <2> QED
    BY <2>7, <2>8, <2>9, <2>10 DEF LinesOK
<1>9. ASSUME NEW q \in Pipes, HandOver(q) \/ ParseFails(q)
      PROVE  LinesOK'
  <2> DEFINE x == held[q][1]
  <2>1. /\ held[q] # <<>> /\ held' = [held EXCEPT ![q] = <<>>]
        /\ logged' = [logged EXCEPT ![q] = @ + 1] /\ LogLine(x)
        /\ reader' = reader \/ reader' = [reader EXCEPT ![q] = "failed"]
        /\ UNCHANGED <<child, written, pipe>>
    BY <1>9 DEF HandOver, ParseFails, AppendLog, children
  <2>2. Len(held[q]) = 1 /\ held[q] \in Seq(Lines)
    <3>1. held[q] \in Seq(Lines) /\ Len(held[q]) <= 1
      BY <1>0
    <3>2. Len(held[q]) \in Nat \ {0}
      <4>1. held[q] # <<>>
        BY <2>1
      <4> QED
        BY <3>1, <4>1, EmptySeq, Zenon
    <3> DEFINE len == Len(held[q])
    <3> HIDE DEF len
    <3>3. len <= 1 /\ len \in Nat \ {0}
      BY <3>1, <3>2 DEF len
    <3>4. len = 1
      BY <3>3
    <3> QED
      BY <3>1, <3>4 DEF len
  <2>3. x \in Lines /\ x.run = q[1] /\ x.stream = q[2] /\ x.n = logged[q] + 1
    <3>1. 1 \in 1 .. Len(held[q])
      BY <2>2
    <3>2. x \in Lines
      BY <2>2, <3>1
    <3> QED
      BY <1>0, <3>1, <3>2 DEF Continues
  <2> HIDE DEF x
  <2>4. /\ logged'[q] = logged[q] + 1 /\ held'[q] = <<>> /\ Len(<<>>) = 0
        /\ \A r \in Pipes : r # q => held'[r] = held[r] /\ logged'[r] = logged[r]
    BY <1>0, <2>1
  <2>5. \A r \in Pipes : Len(pipe[r]) \in Nat /\ logged[r] \in Nat
    BY <1>0
  <2>6. InLog'
    <3> SUFFICES ASSUME NEW r \in Pipes
                 PROVE  Consecutive(logs', r, logged'[r])
      BY DEF InLog
    <3>1. logs \in Seq(Lines) /\ Consecutive(logs, r, logged[r])
      BY <1>0 DEF TypeOK, InLog
    <3>2. logs' = Bounded(logs, x, LogCapacity) /\ LogCapacity \in Nat \ {0}
      BY <2>1, CapacityAssumption DEF LogLine
    <3>3. logged[r] \in Nat /\ logged'[r] \in Nat
      BY <2>4, <2>5
    <3>4. r = q => OfStream(x, r) /\ logged'[r] = logged[r] + 1 /\ x.n = logged'[r]
      BY <2>3, <2>4, <2>5 DEF OfStream
    <3>5. r # q => ~OfStream(x, r) /\ logged'[r] = logged[r]
      BY <2>3, <2>4 DEF OfStream, Pipes
    <3>6. IF OfStream(x, r) THEN logged'[r] = logged[r] + 1 /\ x.n = logged'[r]
                            ELSE logged'[r] = logged[r]
      BY <3>4, <3>5
    <3> QED
      BY <2>3, <3>1, <3>2, <3>3, <3>6, BoundedConsecutive
  <2>7. Counted'
    <3> SUFFICES ASSUME NEW r \in Pipes
                 PROVE  written[r] = logged'[r] + Len(held'[r]) + Len(pipe[r])
      BY <2>1 DEF Counted
    <3>1. written[r] = logged[r] + Len(held[r]) + Len(pipe[r])
      BY <1>0 DEF Counted
    <3>2. CASE r = q
      <4>1. Len(held[q]) = 1 /\ Len(held'[q]) = 0 /\ logged'[q] = logged[q] + 1
        BY <2>2, <2>4
      <4> QED
        BY <2>5, <3>1, <3>2, <4>1
    <3>3. CASE r # q
      BY <2>4, <3>1, <3>3
    <3> QED
      BY <3>2, <3>3
  <2>8. Ends'
    <3>1. \A r \in Pipes : reader'[r] = reader[r] \/ reader'[r] = "failed"
      BY <1>0, <2>1
    <3> QED
      BY <1>0, <2>1, <2>4, <3>1 DEF Ends
  <2>9. Continues'
    <3> SUFFICES ASSUME NEW r \in Pipes
                 PROVE  /\ \A k \in 1 .. Len(held'[r]) :
                              /\ held'[r][k].run = r[1] /\ held'[r][k].stream = r[2]
                              /\ held'[r][k].n = logged'[r] + k
                        /\ \A k \in 1 .. Len(pipe[r]) :
                              /\ pipe[r][k].run = r[1] /\ pipe[r][k].stream = r[2]
                              /\ pipe[r][k].n = logged'[r] + Len(held'[r]) + k
      BY <2>1 DEF Continues
    <3>1. CASE r # q
      <4>1. held'[r] = held[r] /\ logged'[r] = logged[r]
        BY <2>4, <3>1
      <4> QED
        BY <1>0, <4>1, SMTT(30) DEF Continues
    <3>2. CASE r = q
      <4>1. Len(held[q]) = 1 /\ Len(held'[q]) = 0 /\ logged'[q] = logged[q] + 1
        BY <2>2, <2>4
      <4>2. logged[q] + Len(held[q]) = logged'[q] + Len(held'[q])
        BY <2>5, <4>1
      <4>3. \A k \in 1 .. Len(pipe[q]) :
               /\ pipe[q][k].run = q[1] /\ pipe[q][k].stream = q[2]
               /\ pipe[q][k].n = logged[q] + Len(held[q]) + k
        BY <1>0 DEF Continues
      <4> QED
        BY <3>2, <4>1, <4>2, <4>3
    <3> QED
      BY <3>1, <3>2
  <2> QED
    BY <2>6, <2>7, <2>8, <2>9 DEF LinesOK
<1>10. ASSUME NEW q \in Pipes, EndOfFile(q)
       PROVE  LinesOK'
  <2>1. /\ UNCHANGED <<logs, child, pipe, written, held, logged>>
        /\ child[q[1]] = "dead" /\ held[q] = <<>> /\ pipe[q] = <<>>
        /\ reader' = [reader EXCEPT ![q] = "ended"]
    BY <1>10 DEF EndOfFile, records, children
  <2>2. InLog'
    BY <1>0, <2>1, LogKeeps
  <2>3. Continues' /\ Counted'
    BY <1>0, <2>1 DEF Continues, Counted
  <2>4. Ends'
    BY <1>0, <2>1 DEF Ends
  <2> QED
    BY <2>2, <2>3, <2>4 DEF LinesOK
<1>13. ASSUME NEW q \in Pipes, ReadFails(q)
       PROVE  LinesOK'
  <2>1. /\ UNCHANGED <<logs, child, pipe, written, held, logged>>
        /\ reader' = [reader EXCEPT ![q] = "failed"]
    BY <1>13 DEF ReadFails, records, children
  <2>2. InLog'
    BY <1>0, <2>1, LogKeeps
  <2>3. Continues' /\ Counted'
    BY <1>0, <2>1 DEF Continues, Counted
  <2>4. Ends'
    BY <1>0, <2>1 DEF Ends
  <2> QED
    BY <2>2, <2>3, <2>4 DEF LinesOK
<1>11. CASE UNCHANGED vars
  BY <1>1, <1>11 DEF vars, records, children
<1>12. Pipes = Runs \X Streams
  BY DEF Pipes
<1> QED
  BY <1>1, <1>2, <1>3, <1>4, <1>5, <1>6, <1>7, <1>8, <1>9, <1>10, <1>11, <1>12, <1>13
     DEF Next

-----------------------------------------------------------------------------
LEMMA InvInit == Init => Inv
<1> SUFFICES ASSUME Init PROVE Inv
  OBVIOUS
<1>1. TypeOK
  BY TypeInit
<1>2. Locked /\ Born /\ OneChild /\ StatusTrue
  BY CapacityAssumption DEF Init, Locked, Born, OneChild, StatusTrue, Alive, Idle, Runs, NoProcess
<1>3. \A r \in Pipes : /\ reader[r] = "none" /\ held[r] = <<>> /\ pipe[r] = <<>>
                       /\ written[r] = 0 /\ logged[r] = 0 /\ child[r[1]] = "unborn"
  BY DEF Init, Pipes
<1>4. Len(<<>>) = 0
  OBVIOUS
<1>5. Ends /\ Continues /\ Counted
  BY <1>3, <1>4 DEF Ends, Continues, Counted
<1>6. InLog
  BY <1>4 DEF Init, InLog, Consecutive
<1> QED
  BY <1>1, <1>2, <1>5, <1>6 DEF Inv

LEMMA Invariance == Spec => []Inv
<1>1. Inv /\ [Next]_vars => Inv'
  BY TypeStep, LockedStep, ChildStep, LinesStep DEF Inv, ChildOK, LinesOK
<1> QED
  BY InvInit, <1>1, PTL DEF Spec

-----------------------------------------------------------------------------
\* Every variable of ProcessManager keeps its type, and neither the log nor the
\* list of errors outgrows its deque.
THEOREM TypeCorrect == Spec => []TypeOK
<1>1. Inv => TypeOK
  BY DEF Inv
<1> QED
  BY Invariance, <1>1, PTL

\* start(), stop() and restart(), from any number of threads, with every timeout
\* of stop(), never leave a child running that _process does not refer to.
THEOREM ChildIsKept == Spec => []OneChild
<1>1. Inv => OneChild
  BY DEF Inv
<1> QED
  BY Invariance, <1>1, PTL

\* status() never mixes the configuration or the return code of two children.
THEOREM StatusBelongsTogether == Spec => []StatusTrue
<1>1. Inv => StatusTrue
  BY DEF Inv
<1> QED
  BY Invariance, <1>1, PTL

\* _read_stream() and _append_log() lose and reorder no line, save those that
\* the deque drops from its other end.
THEOREM LinesAreDelivered == Spec => []Delivered
<1>1. Inv => Delivered
  <2> SUFFICES ASSUME Inv, NEW r \in Runs \X Streams
               PROVE  /\ written[r] = logged[r] + Len(held[r]) + Len(pipe[r])
                      /\ reader[r] = "ended" => logged[r] = written[r]
                      /\ Consecutive(logs, r, logged[r])
    BY DEF Delivered
  <2>1. /\ written[r] = logged[r] + Len(held[r]) + Len(pipe[r]) /\ Consecutive(logs, r, logged[r])
        /\ reader[r] = "ended" => held[r] = <<>> /\ pipe[r] = <<>>
    BY DEF Inv, Counted, InLog, Ends, Pipes
  <2>2. Len(<<>>) = 0 /\ logged[r] \in Nat
    BY DEF Inv, TypeOK
  <2> QED
    BY <2>1, <2>2
<1> QED
  BY Invariance, <1>1, PTL
=============================================================================
