---------------------- MODULE TestbenchRealtime_proof ----------------------
(***************************************************************************)
(* Proofs about TestbenchRealtime, for any number of workers, clicks and   *)
(* blocks: its type invariant, that the recordings belong together, that   *)
(* the queue keeps the newest blocks, and that a user who waits has one    *)
(* worker at a time.                                                       *)
(***************************************************************************)
EXTENDS TestbenchRealtime, SequenceTheorems, TLAPS

\* At most one request is on its way, and what comes back was asked for.
Talk(w) ==
    /\ pc[w] \in {"new", "open", "loop", "get", "send", "play", "raw", "processed"} =>
          stdin[w] = <<>> /\ stdout[w] = <<>>
    /\ pc[w] = "recv" =>
          LET asked == <<[seq |-> sent[w], of |-> block[w]]>>
          IN  \/ stdin[w] = asked /\ stdout[w] = <<>>
              \/ stdin[w] = <<>> /\ stdout[w] = asked
    /\ pc[w] \in {"send", "recv", "play", "raw", "processed"} => block[w] # None
    /\ pc[w] \in {"play", "raw", "processed"} => answer[w] = block[w]

\* What has been closed at the end of run(), unless an exception left its finally.
Released(w) ==
    /\ pc[w] \in {"new", "open", "ended", "crashed"} => streams[w] = {}
    /\ pc[w] \in {"wait", "emit", "stopped", "ended"} => open[w] = {}
    /\ pc[w] \in {"emit", "stopped", "ended"} => child[w] # "running"

\* The queue holds the newest blocks, all of them younger than the one taken.
Backlog(w) ==
    /\ \A i \in 1 .. Len(queue[w]) : queue[w][i] = captured[w] - Len(queue[w]) + i
    /\ pc[w] \in {"ended", "crashed"} => queue[w] = <<>>
    /\ pc[w] \notin {"ended", "crashed"} =>
          captured[w] = taken[w] + dropped[w] + Len(queue[w]) /\ block[w] <= captured[w] - Len(queue[w])

\* The recordings, and how far the block at hand has come.
Recorded(w) ==
    /\ \A i \in 1 .. Len(processed[w]) : processed[w][i] = raw[w][i]
    /\ failed[w] => pc[w] \in {"finally", "wait", "emit", "stopped", "raised", "ended", "crashed"}
    /\ \/ Len(raw[w]) = Len(processed[w]) /\ pc[w] # "processed"
       \/ Len(raw[w]) = Len(processed[w]) + 1 /\ (failed[w] \/ pc[w] = "processed")
    /\ pc[w] = "processed" => raw[w][Len(raw[w])] = block[w]
    /\ \A i \in 1 .. Len(raw[w]) - 1 : raw[w][i] < raw[w][i + 1]
    /\ pc[w] \notin {"ended", "crashed"} => \A i \in 1 .. Len(raw[w]) : raw[w][i] <= block[w]
    /\ pc[w] \in {"send", "recv", "play", "raw"} => \A i \in 1 .. Len(raw[w]) : raw[w][i] < block[w]

Local(w) == Talk(w) /\ Released(w) /\ Backlog(w) /\ Recorded(w)

\* Workers are created one after the other.
Created == \A w \in Workers : w > created => pc[w] = "new" /\ restarts[w] = 0

\* As long as the user waits, a worker at work is the last one created, no
\* restart is under way besides its own, and START is not offered.
Patient ==
    ~impatient =>
        /\ \A w \in Workers : Busy(w) =>
              w = worker /\ posted = <<>> /\ "start" \notin buttons /\ restarts[w] <= 1
        /\ Len(posted) <= 2
        /\ \A i \in 1 .. Len(posted) - 1 : posted[i].slot = "stopped" /\ posted[i + 1].slot = "restart"

Inv == TypeOK /\ Created /\ Patient /\ \A w \in Workers : Local(w)

-----------------------------------------------------------------------------
(* Types.                                                                  *)

LEMMA SetType ==
    ASSUME NEW S, NEW f \in [Workers -> S], NEW w \in Workers, NEW x \in S
    PROVE  /\ Set(f, w, x) \in [Workers -> S]
           /\ Set(f, w, x)[w] = x
           /\ \A v \in Workers : v # w => Set(f, w, x)[v] = f[v]
BY DEF Set

Requests == [seq : Nat, of : Nat]
Posts == [from : Workers, slot : {"stopped", "restart"}]

\* TypeOK, function by function.
LEMMA Types ==
    ASSUME TypeOK
    PROVE  /\ worker \in Workers \cup {Nobody} /\ created \in Workers \cup {0}
           /\ restarts \in [Workers -> Nat] /\ posted \in Seq(Posts)
           /\ pc \in [Workers -> Places] /\ child \in [Workers -> {"none", "running", "dead"}]
           /\ stop \in [Workers -> BOOLEAN] /\ recording \in [Workers -> BOOLEAN]
           /\ active \in [Workers -> BOOLEAN] /\ open \in [Workers -> SUBSET {"raw", "processed"}]
           /\ failed \in [Workers -> BOOLEAN] /\ streams \in [Workers -> SUBSET {"in", "out"}]
           /\ queue \in [Workers -> Seq(Blocks)] /\ raw \in [Workers -> Seq(Blocks)]
           /\ processed \in [Workers -> Seq(Blocks)]
           /\ captured \in [Workers -> Nat] /\ dropped \in [Workers -> Nat]
           /\ taken \in [Workers -> Nat] /\ block \in [Workers -> Nat]
           /\ answer \in [Workers -> Nat] /\ sent \in [Workers -> Nat] /\ next \in [Workers -> Nat]
           /\ stdin \in [Workers -> Seq(Requests)] /\ stdout \in [Workers -> Seq(Requests)]
           /\ \A w \in Workers : Len(queue[w]) <= QueueCapacity
BY DEF TypeOK, Requests, Posts

LEMMA Numbers ==
    /\ MaxWorkers \in Nat /\ MaxClicks \in Nat /\ QueueCapacity \in Nat \ {0}
    /\ \A w \in Workers : w \in Nat \ {0}
BY CapacityAssumption, BoundsAssumption DEF Workers

LEMMA StartTypes ==
    ASSUME TypeOK, OnStart
    PROVE  /\ worker' \in Workers \cup {Nobody} /\ created' \in Workers \cup {0}
           /\ buttons' \subseteq Buttons /\ pc' \in [Workers -> Places]
<1>1. CASE UNCHANGED <<worker, created, pc>> /\ buttons' = buttons
  BY <1>1 DEF TypeOK
<1>2. CASE /\ created + 1 \in Workers
           /\ created' = created + 1 /\ worker' = created'
           /\ pc' = Set(pc, worker', "open")
           /\ buttons' = (buttons \ {"start"}) \cup {"stop", "restart", "record"}
  <2>1. worker' \in Workers /\ pc' = Set(pc, worker', "open")
    BY <1>2
  <2>2. pc' \in [Workers -> Places]
    BY <2>1, Types, SetType DEF Places
  <2> QED
    BY <1>2, <2>2 DEF TypeOK, Buttons
<1> QED
  BY <1>1, <1>2 DEF OnStart

LEMMA TypeInit == Init => TypeOK
<1> SUFFICES ASSUME Init PROVE TypeOK
  OBVIOUS
<1> USE Numbers
<1>1. \A S : <<>> \in Seq(S) /\ Len(<<>>) = 0
  OBVIOUS
<1>2. /\ {queue, raw, processed} \subseteq [Workers -> Seq(Blocks)]
      /\ {stdin, stdout} \subseteq [Workers -> Seq([seq : Nat, of : Nat])]
      /\ \A w \in Workers : Len(queue[w]) <= QueueCapacity
  BY <1>1 DEF Init, Each
<1>3. posted \in Seq([from : Workers, slot : {"stopped", "restart"}])
  BY <1>1 DEF Init
<1>4. {stop, recording, active, failed} \subseteq [Workers -> BOOLEAN]
      /\ checked \in BOOLEAN /\ impatient \in BOOLEAN
  BY DEF Init, Each
<1>5. {captured, dropped, taken, block, answer, sent, next} \subseteq [Workers -> Nat]
      /\ restarts \in [Workers -> Nat]
  BY DEF Init, Each, None
<1>6. /\ pc \in [Workers -> Places] /\ child \in [Workers -> {"none", "running", "dead"}]
      /\ streams \in [Workers -> SUBSET {"in", "out"}]
      /\ open \in [Workers -> SUBSET {"raw", "processed"}]
  BY DEF Init, Each, Places
<1>7. /\ worker \in Workers \cup {Nobody} /\ created \in Workers \cup {0} /\ buttons \subseteq Buttons
      /\ clicks \in 0 .. MaxClicks
  BY DEF Init, Buttons
<1> QED
  BY <1>2, <1>3, <1>4, <1>5, <1>6, <1>7 DEF TypeOK

LEMMA GuiTypeStep ==
    ASSUME TypeOK,
           ClickStart \/ ClickStop \/ ClickRestart \/ ToggleRecord \/ WorkerStopped \/ RestartAfterStop
    PROVE  TypeOK'
<1> USE Numbers, Types
<1>1. \A b : Click(b) => clicks' \in 0 .. MaxClicks
  BY DEF TypeOK, Click
<1>2. CASE ClickStart
  <2>1. impatient' \in BOOLEAN
    BY <1>2 DEF ClickStart
  <2> QED
    BY <1>1, <1>2, <2>1, StartTypes DEF ClickStart, TypeOK, rest, files, capture, process, numbers
<1>3. CASE ClickStop
  <2>1. stop' \in [Workers -> BOOLEAN]
    BY <1>3, SetType DEF ClickStop
  <2>2. buttons' \subseteq Buttons
    BY <1>3 DEF ClickStop, TypeOK
  <2> QED
    BY <1>1, <1>3, <2>1, <2>2 DEF ClickStop, TypeOK, files, capture, process, numbers
<1>4. CASE ClickRestart
  <2>1. impatient' \in BOOLEAN
    BY <1>4 DEF ClickRestart
  <2>2. CASE worker # Nobody /\ IsRunning(worker)
    <3>1. /\ restarts' = Set(restarts, worker, restarts[worker] + 1)
          /\ stop' = Set(stop, worker, TRUE)
          /\ UNCHANGED <<worker, created, buttons, pc>>
      BY <1>4, <2>2 DEF ClickRestart
    <3>2. worker \in Workers /\ restarts[worker] + 1 \in Nat
      <4>1. worker \in Workers
        BY <2>2
      <4>2. restarts[worker] \in Nat
        BY <4>1
      <4>3. \A n \in Nat : n + 1 \in Nat
        OBVIOUS
      <4> QED
        BY <4>1, <4>2, <4>3, Zenon
    <3>3. restarts' \in [Workers -> Nat] /\ stop' \in [Workers -> BOOLEAN]
      BY <3>1, <3>2, SetType
    <3> QED
      BY <1>1, <1>4, <2>1, <3>1, <3>3 DEF ClickRestart, TypeOK, files, capture, process, numbers
  <2>3. CASE ~(worker # Nobody /\ IsRunning(worker))
    <3>1. OnStart /\ UNCHANGED <<restarts, stop>>
      BY <1>4, <2>3 DEF ClickRestart
    <3> QED
      BY <1>1, <1>4, <2>1, <3>1, StartTypes DEF ClickRestart, TypeOK, files, capture, process, numbers
  <2> QED
    BY <2>2, <2>3
<1>5. CASE ToggleRecord
  <2>1. checked' \in BOOLEAN
    BY <1>5 DEF ToggleRecord
  <2>2. recording' \in [Workers -> BOOLEAN]
    BY <1>5, <2>1, SetType DEF ToggleRecord, SetRecording
  <2>3. buttons' \subseteq Buttons
    BY <1>5 DEF ToggleRecord, TypeOK, Buttons
  <2> QED
    BY <1>1, <1>5, <2>1, <2>2, <2>3 DEF ToggleRecord, TypeOK, files, capture, process, numbers
<1>6. CASE WorkerStopped
  <2>1. recording' \in [Workers -> BOOLEAN]
    <3>1. recording' = recording \/ (worker # Nobody /\ recording' = Set(recording, worker, FALSE))
      BY <1>6 DEF WorkerStopped, SetRecording
    <3>2. FALSE \in BOOLEAN /\ recording \in [Workers -> BOOLEAN]
      OBVIOUS
    <3>3. worker # Nobody => Set(recording, worker, FALSE) \in [Workers -> BOOLEAN]
      BY <3>2, SetType
    <3> QED
      BY <3>1, <3>2, <3>3
  <2>2. buttons' \subseteq Buttons
    BY <1>6 DEF WorkerStopped, TypeOK, Buttons
  <2>3. posted' \in Seq([from : Workers, slot : {"stopped", "restart"}])
    BY <1>6 DEF WorkerStopped, TypeOK
  <2>4. checked' \in BOOLEAN
    BY <1>6 DEF WorkerStopped
  <2> QED
    BY <1>6, <2>1, <2>2, <2>3, <2>4 DEF WorkerStopped, TypeOK, files, capture, process, numbers
<1>7. CASE RestartAfterStop
  <2>1. posted' \in Seq([from : Workers, slot : {"stopped", "restart"}])
    BY <1>7 DEF RestartAfterStop, TypeOK
  <2>2. Head(posted) \in Posts
    BY <1>7 DEF RestartAfterStop
  <2>3. restarts' \in [Workers -> Nat]
    BY <1>7, <2>2, SetType DEF RestartAfterStop, Posts
  <2> QED
    BY <1>7, <2>1, <2>3, StartTypes
       DEF RestartAfterStop, TypeOK, rest, files, capture, process, numbers
<1> QED
  BY <1>2, <1>3, <1>4, <1>5, <1>6, <1>7

\* What the head of the loop and the finally clause make of a worker's state.
LEMMA Heads ==
    ASSUME NEW w \in Workers, LoopHead(w)
    PROVE  /\ pc[w] = "loop"
           /\ \/ pc' \in {Set(pc, w, "get"), Set(pc, w, "finally")} /\ failed' = failed
              \/ pc' = Set(pc, w, "finally") /\ failed' = Set(failed, w, TRUE)
           /\ \/ raw' = raw /\ processed' = processed
              \/ raw' = Set(raw, w, <<>>) /\ processed' = Set(processed, w, <<>>)
           /\ active' \in {active, Set(active, w, TRUE), Set(active, w, FALSE)}
           /\ open' \in {open, Set(open, w, {}), Set(open, w, {"raw"}),
                         Set(open, w, {"raw", "processed"}), Set(open, w, open[w] \ {"raw"})}
<1> USE DEF files
<1>1. CASE stop[w] /\ pc' = Set(pc, w, "finally") /\ UNCHANGED <<files, failed>>
  BY <1>1 DEF LoopHead
<1>2. CASE StartRecording(w)
  BY <1>2 DEF LoopHead, StartRecording, NewFiles, Fails
<1>3. CASE EndRecording(w)
  BY <1>3 DEF LoopHead, EndRecording, FilesClosed, CloseRaises, Fails
<1>4. CASE pc' = Set(pc, w, "get") /\ UNCHANGED <<files, failed>>
  BY <1>4 DEF LoopHead
<1> QED
  BY <1>1, <1>2, <1>3, <1>4 DEF LoopHead

LEMMA Ends ==
    ASSUME NEW w \in Workers, Finally(w)
    PROVE  /\ pc[w] = "finally"
           /\ \/ /\ pc' = Set(pc, w, "wait") /\ failed' = failed /\ open' = Set(open, w, {})
                 /\ \E left \in SUBSET streams[w] : streams' = Set(streams, w, left)
                 /\ stdin' \in {stdin, Set(stdin, w, Append(stdin[w], [seq |-> next[w], of |-> None]))}
              \/ /\ pc' = Set(pc, w, "raised") /\ failed' = Set(failed, w, TRUE)
                 /\ open' \in {Set(open, w, {}), Set(open, w, open[w] \ {"raw"})}
                 /\ streams' = streams /\ stdin' = stdin
<1>1. CASE pc' = Set(pc, w, "wait")
  BY <1>1 DEF Finally, FilesClosed, CloseRaises
<1>2. CASE pc' = Set(pc, w, "raised")
  BY <1>2 DEF Finally, FilesClosed, CloseRaises
<1> QED
  BY <1>1, <1>2 DEF Finally

LEMMA WorkerTypeStep ==
    ASSUME TypeOK, NEW w \in Workers, Talk(w),
           \/ Open(w) \/ LoopHead(w) \/ Get(w) \/ Send(w) \/ Recv(w) \/ Play(w)
           \/ WriteRaw(w) \/ WriteProcessed(w) \/ Finally(w) \/ Wait(w) \/ Emit(w) \/ ThreadEnds(w)
           \/ InputCallback(w) \/ ChildAnswers(w) \/ ChildDies(w)
    PROVE  TypeOK'
<1>t1. pc \in [Workers -> Places]
  BY Types
<1>t2. child \in [Workers -> {"none", "running", "dead"}]
  BY Types
<1>t3. streams \in [Workers -> SUBSET {"in", "out"}]
  BY Types
<1>t4. active \in [Workers -> BOOLEAN]
  BY Types
<1>t5. open \in [Workers -> SUBSET {"raw", "processed"}]
  BY Types
<1>t6. failed \in [Workers -> BOOLEAN]
  BY Types
<1>t7. queue \in [Workers -> Seq(Blocks)]
  BY Types
<1>t8. raw \in [Workers -> Seq(Blocks)]
  BY Types
<1>t9. processed \in [Workers -> Seq(Blocks)]
  BY Types
<1>t10. stdin \in [Workers -> Seq(Requests)]
  BY Types
<1>t11. stdout \in [Workers -> Seq(Requests)]
  BY Types
<1>t12. captured \in [Workers -> Nat]
  BY Types
<1>t13. dropped \in [Workers -> Nat]
  BY Types
<1>t14. taken \in [Workers -> Nat]
  BY Types
<1>t15. block \in [Workers -> Nat]
  BY Types
<1>t16. answer \in [Workers -> Nat]
  BY Types
<1>t17. sent \in [Workers -> Nat]
  BY Types
<1>t18. next \in [Workers -> Nat]
  BY Types
<1>t19. restarts \in [Workers -> Nat]
  BY Types
<1>a. queue[w] \in Seq(Blocks) /\ Len(queue[w]) <= QueueCapacity /\ QueueCapacity \in Nat \ {0}
  BY Types, Numbers
<1>b. queue[w] # <<>> =>
        /\ Head(queue[w]) \in Nat /\ Tail(queue[w]) \in Seq(Blocks)
        /\ Len(Tail(queue[w])) = Len(queue[w]) - 1
  BY <1>a DEF Blocks, None
<1>c. stdin[w] \in Seq(Requests) /\ stdout[w] \in Seq(Requests)
  BY <1>t10, <1>t11
<1>d. stdin[w] # <<>> =>
        /\ Head(stdin[w]) \in Requests /\ Tail(stdin[w]) \in Seq(Requests)
        /\ Append(stdout[w], Head(stdin[w])) \in Seq(Requests)
  BY <1>c
<1>e. stdout[w] # <<>> => Tail(stdout[w]) \in Seq(Requests) /\ Head(stdout[w]).of \in Nat
  <2>1. stdout[w] # <<>> => Tail(stdout[w]) \in Seq(Requests) /\ Head(stdout[w]) \in Requests
    BY <1>c
  <2> QED
    BY <2>1 DEF Requests
<1>f. \A S : <<>> \in Seq(S)
  OBVIOUS
<1>g. /\ next[w] \in Nat /\ next[w] + 1 \in Nat /\ taken[w] \in Nat /\ taken[w] + 1 \in Nat
      /\ captured[w] \in Nat /\ captured[w] + 1 \in Blocks /\ captured[w] + 1 \in Nat
      /\ dropped[w] \in Nat /\ dropped[w] + 0 \in Nat /\ dropped[w] + 1 \in Nat
      /\ block[w] \in Nat /\ answer[w] \in Nat /\ restarts[w] \in Nat
  BY <1>t12, <1>t13, <1>t14, <1>t15, <1>t16, <1>t18, <1>t19 DEF Blocks, None
<1>h. pc[w] \in {"raw", "processed"} => block[w] \in Blocks /\ answer[w] \in Blocks
  BY <1>g DEF Talk, Blocks
<1>i. None \in Nat /\ 1 \in Nat
  BY DEF None
<1>j. [seq |-> next[w], of |-> block[w]] \in Requests /\ [seq |-> next[w], of |-> None] \in Requests
  BY <1>g, <1>i DEF Requests
<1>k. \A x \in Requests : Append(stdin[w], x) \in Seq(Requests)
  BY <1>c
<1>1. CASE Open(w)
  <2>10. child' \in [Workers -> {"none", "running", "dead"}]
    BY <1>1, <1>t2 DEF Open, Fails, Set
  <2>11. streams' \in [Workers -> SUBSET {"in", "out"}]
    BY <1>1, <1>t3 DEF Open, Fails, Set
  <2>12. failed' \in [Workers -> BOOLEAN]
    BY <1>1, <1>t6 DEF Open, Fails, Set
  <2>13. pc' \in [Workers -> Places]
    BY <1>1, <1>t1 DEF Open, Fails, Set, Places
  <2> QED
    BY <1>1, Types, <2>10, <2>11, <2>12, <2>13
       DEF Open, Fails, TypeOK, Requests, gui, files, capture, process, numbers
<1>2. CASE LoopHead(w)
  <2>10. pc' \in [Workers -> Places]
    <3>1. pc' \in {Set(pc, w, "get"), Set(pc, w, "finally")}
      BY <1>2, Heads
    <3> QED
      BY <3>1, <1>t1 DEF Set, Places
  <2>11. active' \in [Workers -> BOOLEAN]
    <3>1. active' \in {active, Set(active, w, TRUE), Set(active, w, FALSE)}
      BY <1>2, Heads
    <3> QED
      BY <3>1, <1>t4 DEF Set
  <2>12. open' \in [Workers -> SUBSET {"raw", "processed"}]
    <3>1. open' \in {open, Set(open, w, {}), Set(open, w, {"raw"}),
                     Set(open, w, {"raw", "processed"}), Set(open, w, open[w] \ {"raw"})}
      BY <1>2, Heads
    <3> QED
      BY <3>1, <1>t5 DEF Set
  <2>13. raw' \in [Workers -> Seq(Blocks)]
    <3>1. raw' = raw \/ raw' = Set(raw, w, <<>>)
      BY <1>2, Heads
    <3> QED
      BY <3>1, <1>t8, <1>f DEF Set
  <2>14. processed' \in [Workers -> Seq(Blocks)]
    <3>1. processed' = processed \/ processed' = Set(processed, w, <<>>)
      BY <1>2, Heads
    <3> QED
      BY <3>1, <1>t9, <1>f DEF Set
  <2>15. failed' \in [Workers -> BOOLEAN]
    <3>1. failed' = failed \/ failed' = Set(failed, w, TRUE)
      BY <1>2, Heads
    <3> QED
      BY <3>1, <1>t6 DEF Set
  <2> QED
    BY <1>2, Types, <2>10, <2>11, <2>12, <2>13, <2>14, <2>15
       DEF LoopHead, TypeOK, Requests, gui, capture, process, numbers
<1>3. CASE Get(w)
  <2>1. \/ UNCHANGED <<queue, block, taken>>
        \/ /\ queue[w] # <<>> /\ queue' = Set(queue, w, Tail(queue[w]))
           /\ block' = Set(block, w, Head(queue[w])) /\ taken' = Set(taken, w, taken[w] + 1)
    BY <1>3 DEF Get
  <2>10. pc' \in [Workers -> Places]
    BY <1>3, <1>t1 DEF Get, Set, Places
  <2>11. queue' \in [Workers -> Seq(Blocks)]
    BY <1>t7, <2>1, <1>b DEF Set
  <2>12. block' \in [Workers -> Nat]
    BY <1>t15, <2>1, <1>b DEF Set
  <2>13. taken' \in [Workers -> Nat]
    BY <1>t14, <2>1, <1>g DEF Set
  <2>20. \A v \in Workers : Len(queue'[v]) <= QueueCapacity
    <3>1. CASE UNCHANGED queue
      BY <3>1, Types
    <3>2. CASE queue[w] # <<>> /\ queue' = Set(queue, w, Tail(queue[w]))
      <4>1. Len(Tail(queue[w])) <= QueueCapacity
        BY <1>a, <1>b, <3>2
      <4>2. queue'[w] = Tail(queue[w]) /\ \A v \in Workers : v # w => queue'[v] = queue[v]
        BY <1>t7, <3>2 DEF Set
      <4> QED
        BY <4>1, <4>2, Types
    <3> QED
      BY <2>1, <3>1, <3>2
  <2> QED
    BY <1>3, Types, <2>10, <2>11, <2>12, <2>13, <2>20
       DEF Get, TypeOK, Requests, gui, files, capture, process, numbers
<1>4. CASE Send(w)
  <2>1. \/ UNCHANGED <<sent, next>>
        \/ sent' = Set(sent, w, next[w]) /\ next' = Set(next, w, next[w] + 1)
    BY <1>4 DEF Send, numbers
  <2>10. pc' \in [Workers -> Places]
    BY <1>4, <1>t1 DEF Send, Fails, Set, Places
  <2>11. failed' \in [Workers -> BOOLEAN]
    BY <1>4, <1>t6 DEF Send, Fails, Set
  <2>12. stdin' \in [Workers -> Seq(Requests)]
    BY <1>4, <1>t10, <1>j, <1>k DEF Send, Fails, Set
  <2>13. sent' \in [Workers -> Nat]
    BY <1>t17, <2>1, <1>g DEF Set
  <2>14. next' \in [Workers -> Nat]
    BY <1>t18, <2>1, <1>g DEF Set
  <2> QED
    BY <1>4, Types, <2>10, <2>11, <2>12, <2>13, <2>14
       DEF Send, Fails, TypeOK, Requests, gui, files, capture, process, numbers
<1>5. CASE Recv(w)
  <2>1. /\ UNCHANGED stdout \/ (stdout[w] # <<>> /\ stdout' = Set(stdout, w, Tail(stdout[w])))
        /\ UNCHANGED answer \/ (stdout[w] # <<>> /\ answer' = Set(answer, w, Head(stdout[w]).of))
    BY <1>5 DEF Recv
  <2>10. pc' \in [Workers -> Places]
    BY <1>5, <1>t1 DEF Recv, Fails, Set, Places
  <2>11. failed' \in [Workers -> BOOLEAN]
    BY <1>5, <1>t6 DEF Recv, Fails, Set
  <2>12. stdout' \in [Workers -> Seq(Requests)]
    BY <1>t11, <2>1, <1>e DEF Set
  <2>13. answer' \in [Workers -> Nat]
    BY <1>t16, <2>1, <1>e DEF Set
  <2> QED
    BY <1>5, Types, <2>10, <2>11, <2>12, <2>13
       DEF Recv, Fails, TypeOK, Requests, gui, files, capture, process, numbers
<1>6. CASE Play(w)
  <2>10. pc' \in [Workers -> Places]
    BY <1>6, <1>t1 DEF Play, Fails, Set, Places
  <2>11. failed' \in [Workers -> BOOLEAN]
    BY <1>6, <1>t6 DEF Play, Fails, Set
  <2> QED
    BY <1>6, Types, <2>10, <2>11
       DEF Play, Fails, TypeOK, Requests, gui, files, capture, process, numbers
<1>7. CASE WriteRaw(w)
  <2>1. Append(raw[w], block[w]) \in Seq(Blocks)
    <3>1. raw[w] \in Seq(Blocks) /\ block[w] \in Blocks
      BY <1>7, <1>h, <1>t8 DEF WriteRaw
    <3> QED
      BY <3>1
  <2>2. UNCHANGED raw \/ raw' = Set(raw, w, Append(raw[w], block[w]))
    BY <1>7 DEF WriteRaw
  <2>10. pc' \in [Workers -> Places]
    BY <1>7, <1>t1 DEF WriteRaw, Fails, Set, Places
  <2>11. failed' \in [Workers -> BOOLEAN]
    BY <1>7, <1>t6 DEF WriteRaw, Fails, Set
  <2>12. raw' \in [Workers -> Seq(Blocks)]
    BY <1>t8, <2>1, <2>2 DEF Set
  <2> QED
    BY <1>7, Types, <2>10, <2>11, <2>12
       DEF WriteRaw, Fails, TypeOK, Requests, gui, files, capture, process, numbers
<1>8. CASE WriteProcessed(w)
  <2>1. Append(processed[w], answer[w]) \in Seq(Blocks)
    <3>1. processed[w] \in Seq(Blocks) /\ answer[w] \in Blocks
      BY <1>8, <1>h, <1>t9 DEF WriteProcessed
    <3> QED
      BY <3>1
  <2>2. UNCHANGED processed \/ processed' = Set(processed, w, Append(processed[w], answer[w]))
    BY <1>8 DEF WriteProcessed
  <2>10. pc' \in [Workers -> Places]
    BY <1>8, <1>t1 DEF WriteProcessed, Fails, Set, Places
  <2>11. failed' \in [Workers -> BOOLEAN]
    BY <1>8, <1>t6 DEF WriteProcessed, Fails, Set
  <2>12. processed' \in [Workers -> Seq(Blocks)]
    BY <1>t9, <2>1, <2>2 DEF Set
  <2> QED
    BY <1>8, Types, <2>10, <2>11, <2>12
       DEF WriteProcessed, Fails, TypeOK, Requests, gui, files, capture, process, numbers
<1>9. CASE Finally(w)
  <2>10. pc' \in [Workers -> Places]
    <3>1. pc' \in {Set(pc, w, "wait"), Set(pc, w, "raised")}
      BY <1>9, Ends
    <3> QED
      BY <3>1, <1>t1 DEF Set, Places
  <2>11. open' \in [Workers -> SUBSET {"raw", "processed"}]
    <3>1. open' \in {Set(open, w, {}), Set(open, w, open[w] \ {"raw"})}
      BY <1>9, Ends
    <3> QED
      BY <3>1, <1>t5 DEF Set
  <2>12. streams' \in [Workers -> SUBSET {"in", "out"}]
    <3>1. \/ streams' = streams
          \/ \E left \in SUBSET streams[w] : streams' = Set(streams, w, left)
      BY <1>9, Ends
    <3> QED
      BY <3>1, <1>t3 DEF Set
  <2>13. stdin' \in [Workers -> Seq(Requests)]
    <3>1. stdin' \in {stdin, Set(stdin, w, Append(stdin[w], [seq |-> next[w], of |-> None]))}
      BY <1>9, Ends
    <3> QED
      BY <3>1, <1>t10, <1>j, <1>k DEF Set
  <2>14. failed' \in [Workers -> BOOLEAN]
    <3>1. failed' = failed \/ failed' = Set(failed, w, TRUE)
      BY <1>9, Ends
    <3> QED
      BY <3>1, <1>t6 DEF Set
  <2> QED
    BY <1>9, Types, <2>10, <2>11, <2>12, <2>13, <2>14
       DEF Finally, TypeOK, Requests, gui, capture, process, numbers
<1>15. CASE Wait(w)
  <2>10. pc' \in [Workers -> Places]
    BY <1>15, <1>t1 DEF Wait, Set, Places
  <2>11. child' \in [Workers -> {"none", "running", "dead"}]
    BY <1>15, <1>t2 DEF Wait, Set
  <2>12. stdin' \in [Workers -> Seq(Requests)]
    BY <1>15, <1>t10, <1>f DEF Wait, Set
  <2>13. stdout' \in [Workers -> Seq(Requests)]
    BY <1>15, <1>t11, <1>f DEF Wait, Set
  <2> QED
    BY <1>15, Types, <2>10, <2>11, <2>12, <2>13
       DEF Wait, TypeOK, Requests, gui, files, capture, process, numbers
<1>10. CASE Emit(w)
  <2>10. pc' \in [Workers -> Places]
    BY <1>10, <1>t1 DEF Emit, Set, Places
  <2>20. posted' \in Seq([from : Workers, slot : {"stopped", "restart"}])
    <3>1. [from |-> w, slot |-> "stopped"] \in Posts /\ [from |-> w, slot |-> "restart"] \in Posts
      BY DEF Posts
    <3>2. <<[from |-> w, slot |-> "stopped"]>> \in Seq(Posts) /\ posted \in Seq(Posts)
      BY <3>1, Types
    <3> DEFINE again == [i \in 1 .. restarts[w] |-> [from |-> w, slot |-> "restart"]]
    <3>3. again \in Seq(Posts)
      <4>1. again \in [1 .. restarts[w] -> Posts]
        BY <3>1
      <4> HIDE DEF again
      <4> QED
        BY <1>g, <4>1, SeqDef
    <3> HIDE DEF again
    <3>4. posted' = posted \o <<[from |-> w, slot |-> "stopped"]>> \o again
      BY <1>10 DEF Emit, again
    <3>5. posted' \in Seq(Posts)
      BY <3>2, <3>3, <3>4
    <3> QED
      BY <3>5 DEF Posts
  <2> QED
    BY <1>10, Types, <2>10, <2>20
       DEF Emit, TypeOK, Requests, gui, files, capture, process, numbers
<1>11. CASE ThreadEnds(w)
  <2>10. pc' \in [Workers -> Places]
    BY <1>11, <1>t1 DEF ThreadEnds, Set, Places
  <2>11. queue' \in [Workers -> Seq(Blocks)]
    BY <1>11, <1>t7, <1>f DEF ThreadEnds, Set
  <2>12. dropped' \in [Workers -> Nat]
    BY <1>11, <1>t13, <1>i DEF ThreadEnds, Set
  <2>13. taken' \in [Workers -> Nat]
    BY <1>11, <1>t14, <1>i DEF ThreadEnds, Set
  <2>14. block' \in [Workers -> Nat]
    BY <1>11, <1>t15, <1>i DEF ThreadEnds, Set
  <2>15. answer' \in [Workers -> Nat]
    BY <1>11, <1>t16, <1>i DEF ThreadEnds, Set
  <2>16. sent' \in [Workers -> Nat]
    BY <1>11, <1>t17, <1>i DEF ThreadEnds, Set
  <2>17. next' \in [Workers -> Nat]
    BY <1>11, <1>t18, <1>i DEF ThreadEnds, Set
  <2>18. streams' \in [Workers -> SUBSET {"in", "out"}]
    BY <1>11, <1>t3 DEF ThreadEnds, Set
  <2>20. \A v \in Workers : Len(queue'[v]) <= QueueCapacity
    <3>1. Len(<<>>) <= QueueCapacity
      BY <1>a
    <3>2. queue'[w] = <<>> /\ \A v \in Workers : v # w => queue'[v] = queue[v]
      BY <1>11, <1>t7 DEF ThreadEnds, Set
    <3> QED
      BY <3>1, <3>2, Types
  <2> QED
    BY <1>11, Types, <2>10, <2>11, <2>12, <2>13, <2>14, <2>15, <2>16, <2>17, <2>18, <2>20
       DEF ThreadEnds, TypeOK, Requests, gui, files, capture, process, numbers
<1>12. CASE InputCallback(w)
  <2> DEFINE kept == IF Len(queue[w]) >= QueueCapacity THEN Tail(queue[w]) ELSE queue[w]
  <2>1. queue' = Set(queue, w, Append(kept, captured[w] + 1))
    BY <1>12 DEF InputCallback
  <2>2. kept \in Seq(Blocks) /\ Len(kept) + 1 <= QueueCapacity
    <3>1. CASE Len(queue[w]) >= QueueCapacity
      <4>1. queue[w] # <<>>
        BY <1>a, <3>1
      <4> QED
        BY <1>a, <1>b, <3>1, <4>1
    <3>2. CASE ~(Len(queue[w]) >= QueueCapacity)
      BY <1>a, <3>2
    <3> QED
      BY <3>1, <3>2
  <2>3. dropped' \in {Set(dropped, w, dropped[w] + 0), Set(dropped, w, dropped[w] + 1)}
    BY <1>12 DEF InputCallback
  <2> HIDE DEF kept
  <2>6. Append(kept, captured[w] + 1) \in Seq(Blocks)
        /\ Len(Append(kept, captured[w] + 1)) <= QueueCapacity
    BY <1>g, <2>2
  <2>10. captured' \in [Workers -> Nat]
    BY <1>12, <1>t12, <1>g DEF InputCallback, Set
  <2>11. queue' \in [Workers -> Seq(Blocks)]
    BY <1>t7, <2>1, <2>6 DEF Set
  <2>12. dropped' \in [Workers -> Nat]
    BY <1>t13, <2>3, <1>g DEF Set
  <2>20. \A v \in Workers : Len(queue'[v]) <= QueueCapacity
    <3>1. queue'[w] = Append(kept, captured[w] + 1) /\ \A v \in Workers : v # w => queue'[v] = queue[v]
      BY <1>t7, <2>1 DEF Set
    <3> QED
      BY <2>6, <3>1, Types
  <2> QED
    BY <1>12, Types, <2>10, <2>11, <2>12, <2>20
       DEF InputCallback, TypeOK, Requests, gui, files, capture, process, numbers
<1>13. CASE ChildAnswers(w)
  <2>1. \/ UNCHANGED stdout
        \/ stdin[w] # <<>> /\ stdout' = Set(stdout, w, Append(stdout[w], Head(stdin[w])))
    BY <1>13 DEF ChildAnswers
  <2>10. child' \in [Workers -> {"none", "running", "dead"}]
    BY <1>13, <1>t2 DEF ChildAnswers, Set
  <2>11. stdin' \in [Workers -> Seq(Requests)]
    BY <1>13, <1>t10, <1>d DEF ChildAnswers, Set
  <2>12. stdout' \in [Workers -> Seq(Requests)]
    BY <1>t11, <2>1, <1>d DEF Set
  <2> QED
    BY <1>13, Types, <2>10, <2>11, <2>12
       DEF ChildAnswers, TypeOK, Requests, gui, files, capture, process, numbers
<1>14. CASE ChildDies(w)
  <2>10. child' \in [Workers -> {"none", "running", "dead"}]
    BY <1>14, <1>t2 DEF ChildDies, Set
  <2> QED
    BY <1>14, Types, <2>10
       DEF ChildDies, TypeOK, Requests, gui, files, capture, process, numbers
<1> QED
  BY <1>1, <1>2, <1>3, <1>4, <1>5, <1>6, <1>7, <1>8, <1>9, <1>10, <1>11, <1>12, <1>13, <1>14, <1>15

-----------------------------------------------------------------------------
(* One worker.                                                             *)

\* Whatever leaves a worker's own state alone keeps what is said about it.
LEMMA Frame ==
    ASSUME NEW v, Local(v),
           /\ pc'[v] = pc[v] /\ stdin'[v] = stdin[v] /\ stdout'[v] = stdout[v]
           /\ sent'[v] = sent[v] /\ block'[v] = block[v] /\ answer'[v] = answer[v]
           /\ streams'[v] = streams[v] /\ open'[v] = open[v] /\ child'[v] = child[v]
           /\ queue'[v] = queue[v] /\ captured'[v] = captured[v] /\ taken'[v] = taken[v]
           /\ dropped'[v] = dropped[v] /\ failed'[v] = failed[v] /\ raw'[v] = raw[v]
           /\ processed'[v] = processed[v]
    PROVE  Local(v)'
<1>1. Talk(v)'
  BY DEF Local, Talk
<1>2. Released(v)'
  BY DEF Local, Released
<1>3. Backlog(v)'
  BY DEF Local, Backlog
<1>4. Recorded(v)'
  BY DEF Local, Recorded
<1> QED
  BY <1>1, <1>2, <1>3, <1>4 DEF Local

LEMMA LocalInit == Init => \A w \in Workers : Local(w)
<1> SUFFICES ASSUME Init, NEW w \in Workers PROVE Local(w)
  OBVIOUS
<1>1. Len(<<>>) = 0
  OBVIOUS
<1>2. Talk(w) /\ Released(w)
  BY DEF Init, Each, Talk, Released
<1>3. Backlog(w)
  BY <1>1 DEF Init, Each, Backlog, None
<1>4. Recorded(w)
  BY <1>1 DEF Init, Each, Recorded
<1> QED
  BY <1>2, <1>3, <1>4 DEF Local

LEMMA GuiLocalStep ==
    ASSUME TypeOK, Created, NEW v \in Workers, Local(v),
           ClickStart \/ ClickStop \/ ClickRestart \/ ToggleRecord \/ WorkerStopped \/ RestartAfterStop
    PROVE  Local(v)'
<1> USE Types
<1>1. UNCHANGED <<files, failed, capture, block, answer, streams, process, numbers>>
  BY DEF ClickStart, ClickStop, ClickRestart, ToggleRecord, WorkerStopped, RestartAfterStop, rest
<1>2. UNCHANGED pc \/ OnStart
  BY DEF ClickStart, ClickStop, ClickRestart, ToggleRecord, WorkerStopped, RestartAfterStop
<1>3. pc'[v] = pc[v] \/ (pc[v] = "new" /\ pc'[v] = "open")
  <2>1. CASE UNCHANGED pc
    BY <2>1
  <2>2. CASE created + 1 \in Workers /\ pc' = Set(pc, created + 1, "open")
    <3>1. created \in Nat
      BY SMTT(30), Numbers
    <3>2. pc[created + 1] = "new"
      BY <2>2, <3>1 DEF Created
    <3> QED
      BY <2>2, <3>2 DEF Set
  <2> QED
    BY <1>2, <2>1, <2>2 DEF OnStart
<1>4. CASE pc'[v] = pc[v]
  BY <1>1, <1>4, Frame DEF files, capture, process, numbers
<1>5. CASE pc[v] = "new" /\ pc'[v] = "open"
  <2>1. Talk(v)'
    BY <1>1, <1>5 DEF Local, Talk, files, capture, process, numbers
  <2>2. Released(v)'
    BY <1>1, <1>5 DEF Local, Released, files, capture, process, numbers
  <2>3. Backlog(v)'
    BY <1>1, <1>5 DEF Local, Backlog, files, capture, process, numbers
  <2>4. Recorded(v)'
    BY <1>1, <1>5 DEF Local, Recorded, files, capture, process, numbers
  <2> QED
    BY <2>1, <2>2, <2>3, <2>4 DEF Local
<1> QED
  BY <1>3, <1>4, <1>5

LEMMA OthersStep ==
    ASSUME TypeOK, NEW w \in Workers, NEW v \in Workers, v # w, Local(v),
           \/ Open(w) \/ LoopHead(w) \/ Get(w) \/ Send(w) \/ Recv(w) \/ Play(w)
           \/ WriteRaw(w) \/ WriteProcessed(w) \/ Finally(w) \/ Wait(w) \/ Emit(w) \/ ThreadEnds(w)
           \/ InputCallback(w) \/ ChildAnswers(w) \/ ChildDies(w)
    PROVE  Local(v)' /\ pc'[v] = pc[v]
<1> DEFINE Kept ==
             /\ pc'[v] = pc[v] /\ stdin'[v] = stdin[v] /\ stdout'[v] = stdout[v]
             /\ sent'[v] = sent[v] /\ block'[v] = block[v] /\ answer'[v] = answer[v]
             /\ streams'[v] = streams[v] /\ open'[v] = open[v] /\ child'[v] = child[v]
             /\ queue'[v] = queue[v] /\ captured'[v] = captured[v] /\ taken'[v] = taken[v]
             /\ dropped'[v] = dropped[v] /\ failed'[v] = failed[v] /\ raw'[v] = raw[v]
             /\ processed'[v] = processed[v]
<1> USE DEF files, capture, process, numbers, gui
<1>1. Open(w) => Kept
  BY Types DEF Open, Fails, Set
<1>2. LoopHead(w) => Kept
  <2> SUFFICES ASSUME LoopHead(w) PROVE Kept
    OBVIOUS
  <2>1. UNCHANGED <<stdin, stdout, child, sent, block, answer, streams, capture>>
    BY DEF LoopHead
  <2>2. pc'[v] = pc[v] /\ failed'[v] = failed[v]
    <3>1. /\ pc' \in {Set(pc, w, "get"), Set(pc, w, "finally")}
          /\ failed' = failed \/ failed' = Set(failed, w, TRUE)
      BY Heads
    <3> QED
      BY <3>1, Types DEF Set
  <2>3. raw'[v] = raw[v] /\ processed'[v] = processed[v]
    <3>1. \/ raw' = raw /\ processed' = processed
          \/ raw' = Set(raw, w, <<>>) /\ processed' = Set(processed, w, <<>>)
      BY Heads
    <3> QED
      BY <3>1, Types DEF Set
  <2>4. open'[v] = open[v]
    <3>1. open' \in {open, Set(open, w, {}), Set(open, w, {"raw"}),
                     Set(open, w, {"raw", "processed"}), Set(open, w, open[w] \ {"raw"})}
      BY Heads
    <3> QED
      BY <3>1, Types DEF Set
  <2> QED
    BY <2>1, <2>2, <2>3, <2>4
<1>3. Get(w) => Kept
  <2>1. ASSUME Get(w), queue[w] = <<>> PROVE Kept
    BY <2>1, Types DEF Get, Set
  <2>2. ASSUME Get(w), ~(queue[w] = <<>>) PROVE Kept
    BY <2>2, Types DEF Get, Set
  <2> QED
    BY <2>1, <2>2
<1>4. Send(w) => Kept
  <2>1. ASSUME Send(w), child[w] = "dead" PROVE Kept
    BY <2>1, Types DEF Send, Fails, Set
  <2>2. ASSUME Send(w), ~(child[w] = "dead") PROVE Kept
    BY <2>2, Types DEF Send, Fails, Set
  <2> QED
    BY <2>1, <2>2
<1>5. Recv(w) => Kept
  <2>1. ASSUME Recv(w), Fails(w) PROVE Kept
    BY <2>1, Types DEF Recv, Fails, Set
  <2>2. ASSUME Recv(w), pc' = Set(pc, w, "play"), UNCHANGED failed PROVE Kept
    BY <2>2, Types DEF Recv, Set
  <2> QED
    BY <2>1, <2>2 DEF Recv
<1>6. Play(w) => Kept
  BY Types DEF Play, Fails, Set
<1>7. WriteRaw(w) => Kept
  BY Types DEF WriteRaw, Fails, Set
<1>8. WriteProcessed(w) => Kept
  BY Types DEF WriteProcessed, Fails, Set
<1>9. Finally(w) => Kept
  <2> SUFFICES ASSUME Finally(w) PROVE Kept
    OBVIOUS
  <2>1. UNCHANGED <<raw, processed, stdout, child, sent, block, answer, capture>>
    BY DEF Finally
  <2>2. pc'[v] = pc[v] /\ failed'[v] = failed[v] /\ open'[v] = open[v]
    <3>1. /\ pc' \in {Set(pc, w, "wait"), Set(pc, w, "raised")}
          /\ failed' = failed \/ failed' = Set(failed, w, TRUE)
          /\ open' \in {Set(open, w, {}), Set(open, w, open[w] \ {"raw"})}
      BY Ends
    <3> QED
      BY <3>1, Types DEF Set
  <2>3. streams'[v] = streams[v] /\ stdin'[v] = stdin[v]
    <3>1. /\ \/ streams' = streams
             \/ \E left \in SUBSET streams[w] : streams' = Set(streams, w, left)
          /\ stdin' \in {stdin, Set(stdin, w, Append(stdin[w], [seq |-> next[w], of |-> None]))}
      BY Ends
    <3> QED
      BY <3>1, Types DEF Set
  <2> QED
    BY <2>1, <2>2, <2>3
<1>15. Wait(w) => Kept
  BY Types DEF Wait, Set
<1>10. Emit(w) => Kept
  BY Types DEF Emit, Set
<1>11. ThreadEnds(w) => Kept
  BY Types DEF ThreadEnds, Set
<1>12. InputCallback(w) => Kept
  BY Types DEF InputCallback, Set
<1>13. ChildAnswers(w) => Kept
  BY Types DEF ChildAnswers, Set
<1>14. ChildDies(w) => Kept
  BY Types DEF ChildDies, Set
<1>q. Kept
  BY <1>1, <1>2, <1>3, <1>4, <1>5, <1>6, <1>7, <1>8, <1>9, <1>10, <1>11, <1>12, <1>13, <1>14, <1>15
<1> QED
  BY <1>q, Frame

\* What a step of a worker makes of its own state.
LEMMA OpenLocal ==
    ASSUME TypeOK, NEW w \in Workers, Local(w), Open(w)
    PROVE  Local(w)'
<1>1. /\ pc[w] = "open" /\ stdin'[w] = stdin[w]
      /\ (pc'[w] = "loop" /\ failed'[w] = failed[w]) \/ (pc'[w] = "finally" /\ failed'[w] = TRUE)
  BY Types DEF Open, Fails, Set
<1>2. /\ stdout'[w] = stdout[w] /\ sent'[w] = sent[w] /\ block'[w] = block[w]
      /\ answer'[w] = answer[w] /\ open'[w] = open[w] /\ queue'[w] = queue[w]
      /\ captured'[w] = captured[w] /\ taken'[w] = taken[w] /\ dropped'[w] = dropped[w]
      /\ raw'[w] = raw[w] /\ processed'[w] = processed[w]
  BY Types DEF Open, Fails, Set, files, capture, process, numbers
<1>3. Talk(w) /\ Released(w) /\ Backlog(w) /\ Recorded(w)
  BY DEF Local
<1>4. /\ block[w] \in Nat /\ captured[w] \in Nat /\ taken[w] \in Nat /\ dropped[w] \in Nat
      /\ queue[w] \in Seq(Blocks) /\ raw[w] \in Seq(Blocks) /\ processed[w] \in Seq(Blocks)
  BY Types
<1>5. Talk(w)'
  BY <1>1, <1>2, <1>3 DEF Talk
<1>6. Released(w)'
  BY <1>1, <1>2, <1>3 DEF Released
<1>7. Backlog(w)'
  BY <1>1, <1>2, <1>3 DEF Backlog
<1>8. Recorded(w)'
  BY <1>1, <1>2, <1>3 DEF Recorded
<1> QED
  BY <1>5, <1>6, <1>7, <1>8 DEF Local

LEMMA LoopHeadLocal ==
    ASSUME TypeOK, NEW w \in Workers, Local(w), LoopHead(w)
    PROVE  Local(w)'
<1>1. /\ pc[w] = "loop"
      /\ \/ pc'[w] \in {"get", "finally"} /\ failed'[w] = failed[w]
         \/ pc'[w] = "finally" /\ failed'[w] = TRUE
      /\ (raw'[w] = raw[w] /\ processed'[w] = processed[w]) \/ (raw'[w] = <<>> /\ processed'[w] = <<>>)
  <2>1. \/ pc'[w] \in {"get", "finally"} /\ failed'[w] = failed[w]
        \/ pc'[w] = "finally" /\ failed'[w] = TRUE
    <3>1. \/ pc' \in {Set(pc, w, "get"), Set(pc, w, "finally")} /\ failed' = failed
          \/ pc' = Set(pc, w, "finally") /\ failed' = Set(failed, w, TRUE)
      BY Heads
    <3> QED
      BY <3>1, Types DEF Set
  <2>2. \/ raw' = raw /\ processed' = processed
        \/ raw' = Set(raw, w, <<>>) /\ processed' = Set(processed, w, <<>>)
    BY Heads
  <2>3. (raw'[w] = raw[w] /\ processed'[w] = processed[w]) \/ (raw'[w] = <<>> /\ processed'[w] = <<>>)
    BY <2>2, Types DEF Set
  <2> QED
    BY <2>1, <2>3, Heads
<1>2. /\ stdin'[w] = stdin[w] /\ stdout'[w] = stdout[w] /\ sent'[w] = sent[w]
      /\ block'[w] = block[w] /\ answer'[w] = answer[w] /\ streams'[w] = streams[w]
      /\ child'[w] = child[w] /\ queue'[w] = queue[w] /\ captured'[w] = captured[w]
      /\ taken'[w] = taken[w] /\ dropped'[w] = dropped[w]
  BY DEF LoopHead, capture, process, numbers
<1>3. Talk(w) /\ Released(w) /\ Backlog(w) /\ Recorded(w)
  BY DEF Local
<1>4. /\ block[w] \in Nat /\ captured[w] \in Nat /\ taken[w] \in Nat /\ dropped[w] \in Nat
      /\ queue[w] \in Seq(Blocks) /\ raw[w] \in Seq(Blocks) /\ processed[w] \in Seq(Blocks)
  BY Types
<1>h. Len(<<>>) = 0
  OBVIOUS
<1>5. Talk(w)'
  BY <1>1, <1>2, <1>3 DEF Talk
<1>6. Released(w)'
  BY <1>1, <1>2, <1>3 DEF Released
<1>7. Backlog(w)'
  BY <1>1, <1>2, <1>3 DEF Backlog
<1>8. Recorded(w)'
  <2>1. CASE raw'[w] = raw[w] /\ processed'[w] = processed[w]
    BY <1>1, <1>2, <1>3, <2>1 DEF Recorded
  <2>2. CASE raw'[w] = <<>> /\ processed'[w] = <<>>
    BY <1>1, <1>2, <1>3, <1>h, <2>2 DEF Recorded
  <2> QED
    BY <1>1, <2>1, <2>2
<1> QED
  BY <1>5, <1>6, <1>7, <1>8 DEF Local

LEMMA GetLocal ==
    ASSUME TypeOK, NEW w \in Workers, Local(w), Get(w)
    PROVE  Local(w)'
<1>1. /\ pc[w] = "get"
      /\ \/ /\ pc'[w] = "loop" /\ queue'[w] = queue[w] /\ block'[w] = block[w] /\ taken'[w] = taken[w]
         \/ /\ queue[w] # <<>> /\ pc'[w] = "send" /\ queue'[w] = Tail(queue[w])
            /\ block'[w] = Head(queue[w]) /\ taken'[w] = taken[w] + 1
  <2>1. CASE queue[w] = <<>>
    BY <2>1, Types DEF Get, Set
  <2>2. CASE queue[w] # <<>>
    BY <2>2, Types DEF Get, Set
  <2> QED
    BY <2>1, <2>2
<1>2. /\ stdin'[w] = stdin[w] /\ stdout'[w] = stdout[w] /\ sent'[w] = sent[w]
      /\ answer'[w] = answer[w] /\ streams'[w] = streams[w] /\ open'[w] = open[w]
      /\ child'[w] = child[w] /\ captured'[w] = captured[w] /\ dropped'[w] = dropped[w]
      /\ failed'[w] = failed[w] /\ raw'[w] = raw[w] /\ processed'[w] = processed[w]
  <2>1. CASE queue[w] = <<>>
    BY <2>1, Types DEF Get, Set, files, capture, process, numbers
  <2>2. CASE ~(queue[w] = <<>>)
    BY <2>2, Types DEF Get, Set, files, capture, process, numbers
  <2> QED
    BY <2>1, <2>2
<1>3. Talk(w) /\ Released(w) /\ Backlog(w) /\ Recorded(w)
  BY DEF Local
<1>4. /\ block[w] \in Nat /\ captured[w] \in Nat /\ taken[w] \in Nat /\ dropped[w] \in Nat
      /\ queue[w] \in Seq(Blocks) /\ raw[w] \in Seq(Blocks) /\ processed[w] \in Seq(Blocks)
  BY Types
<1>h. queue[w] # <<>> =>
        /\ Head(queue[w]) = queue[w][1] /\ Head(queue[w]) \in Blocks /\ Len(queue[w]) \in Nat \ {0}
        /\ Len(Tail(queue[w])) = Len(queue[w]) - 1
        /\ \A i \in 1 .. Len(queue[w]) - 1 : Tail(queue[w])[i] = queue[w][i + 1]
  BY <1>4
<1>i. queue[w] # <<>> => Head(queue[w]) = captured[w] - Len(queue[w]) + 1 /\ block[w] < Head(queue[w])
  BY <1>1, <1>3, <1>4, <1>h DEF Backlog
<1>5. Talk(w)'
  BY <1>1, <1>2, <1>3, <1>h DEF Talk, Blocks
<1>6. Released(w)'
  BY <1>1, <1>2, <1>3 DEF Released
<1>7. Backlog(w)'
  <2>1. CASE pc'[w] = "loop" /\ queue'[w] = queue[w] /\ block'[w] = block[w] /\ taken'[w] = taken[w]
    BY <1>1, <1>2, <1>3, <2>1 DEF Backlog
  <2>2. CASE /\ queue[w] # <<>> /\ pc'[w] = "send" /\ queue'[w] = Tail(queue[w])
             /\ block'[w] = Head(queue[w]) /\ taken'[w] = taken[w] + 1
    <3>0. /\ captured[w] = taken[w] + dropped[w] + Len(queue[w])
          /\ Len(queue'[w]) = Len(queue[w]) - 1 /\ Len(queue[w]) \in Nat \ {0}
          /\ captured'[w] = captured[w] /\ dropped'[w] = dropped[w]
      BY <1>1, <1>2, <1>3, <1>h, <2>2 DEF Backlog
    <3>1. \A i \in 1 .. Len(queue'[w]) : queue'[w][i] = captured'[w] - Len(queue'[w]) + i
      <4> SUFFICES ASSUME NEW i \in 1 .. Len(queue[w]) - 1
                   PROVE  Tail(queue[w])[i] = captured[w] - (Len(queue[w]) - 1) + i
        BY <2>2, <3>0
      <4>1. Tail(queue[w])[i] = queue[w][i + 1] /\ i + 1 \in 1 .. Len(queue[w])
        BY <1>h, <2>2, <3>0
      <4>2. queue[w][i + 1] = captured[w] - Len(queue[w]) + (i + 1)
        BY <1>3, <4>1 DEF Backlog
      <4>3. captured[w] \in Nat /\ Len(queue[w]) \in Nat /\ i \in Nat
        BY <1>4, <3>0
      <4>4. captured[w] - (Len(queue[w]) - 1) + i = captured[w] - Len(queue[w]) + (i + 1)
        BY <4>3
      <4> QED
        BY <4>1, <4>2, <4>4, Zenon
    <3>2. captured'[w] = taken'[w] + dropped'[w] + Len(queue'[w])
      BY <1>4, <2>2, <3>0
    <3>3. block'[w] <= captured'[w] - Len(queue'[w])
      BY <1>2, <1>4, <1>h, <1>i, <2>2
    <3> QED
      BY <2>2, <3>1, <3>2, <3>3 DEF Backlog
  <2> QED
    BY <1>1, <2>1, <2>2
<1>8. Recorded(w)'
  <2>1. CASE pc'[w] = "loop" /\ block'[w] = block[w]
    BY <1>1, <1>2, <1>3, <2>1 DEF Recorded
  <2>2. CASE queue[w] # <<>> /\ pc'[w] = "send" /\ block'[w] = Head(queue[w])
    <3> DEFINE b == block'[w]
    <3>0. \A i \in 1 .. Len(raw[w]) : raw[w][i] <= block[w]
      BY <1>1, <1>3 DEF Recorded
    <3>1. \A i \in 1 .. Len(raw[w]) : raw[w][i] \in Nat
      <4>1. raw[w] \in Seq(Blocks)
        BY Types
      <4> QED
        BY <4>1 DEF Blocks
    <3>2. block[w] < b /\ b \in Nat /\ block[w] \in Nat
      <4>1. Head(queue[w]) \in Nat
        BY <1>h, <2>2 DEF Blocks
      <4> QED
        BY <1>4, <1>i, <2>2, <4>1
    <3> HIDE DEF b
    <3>3. \A i \in 1 .. Len(raw[w]) : raw[w][i] < b /\ raw[w][i] <= b
      BY <3>0, <3>1, <3>2
    <3> QED
      BY <1>1, <1>2, <1>3, <2>2, <3>3 DEF Recorded, b
  <2> QED
    BY <1>1, <2>1, <2>2
<1> QED
  BY <1>5, <1>6, <1>7, <1>8 DEF Local

LEMMA SendLocal ==
    ASSUME TypeOK, NEW w \in Workers, Local(w), Send(w)
    PROVE  Local(w)'
<1>1. /\ pc[w] = "send"
      /\ \/ /\ pc'[w] = "finally" /\ failed'[w] = TRUE
         \/ /\ pc'[w] = "recv" /\ failed'[w] = failed[w] /\ sent'[w] = next[w]
            /\ stdin'[w] = Append(stdin[w], [seq |-> next[w], of |-> block[w]])
  <2>1. CASE child[w] = "dead"
    BY <2>1, Types DEF Send, Fails, Set
  <2>2. CASE child[w] # "dead"
    BY <2>2, Types DEF Send, Fails, Set
  <2> QED
    BY <2>1, <2>2
<1>2. /\ stdout'[w] = stdout[w] /\ block'[w] = block[w] /\ answer'[w] = answer[w]
      /\ streams'[w] = streams[w] /\ open'[w] = open[w] /\ child'[w] = child[w]
      /\ queue'[w] = queue[w] /\ captured'[w] = captured[w] /\ taken'[w] = taken[w]
      /\ dropped'[w] = dropped[w] /\ raw'[w] = raw[w] /\ processed'[w] = processed[w]
  <2>1. CASE child[w] = "dead"
    BY <2>1, Types DEF Send, Fails, Set, files, capture, process, numbers
  <2>2. CASE ~(child[w] = "dead")
    BY <2>2, Types DEF Send, Fails, Set, files, capture, process, numbers
  <2> QED
    BY <2>1, <2>2
<1>3. Talk(w) /\ Released(w) /\ Backlog(w) /\ Recorded(w)
  BY DEF Local
<1>4. /\ block[w] \in Nat /\ captured[w] \in Nat /\ taken[w] \in Nat /\ dropped[w] \in Nat
      /\ queue[w] \in Seq(Blocks) /\ raw[w] \in Seq(Blocks) /\ processed[w] \in Seq(Blocks)
  BY Types
<1>h. \A x : Append(<<>>, x) = <<x>>
  OBVIOUS
<1>5. Talk(w)'
  BY <1>1, <1>2, <1>3, <1>h DEF Talk
<1>6. Released(w)'
  BY <1>1, <1>2, <1>3 DEF Released
<1>7. Backlog(w)'
  BY <1>1, <1>2, <1>3 DEF Backlog
<1>8. Recorded(w)'
  BY <1>1, <1>2, <1>3 DEF Recorded
<1> QED
  BY <1>5, <1>6, <1>7, <1>8 DEF Local

LEMMA RecvLocal ==
    ASSUME TypeOK, NEW w \in Workers, Local(w), Recv(w)
    PROVE  Local(w)'
<1>1. /\ pc[w] = "recv"
      /\ \/ /\ pc'[w] = "finally" /\ failed'[w] = TRUE
         \/ /\ stdout[w] # <<>> /\ pc'[w] = "play" /\ failed'[w] = failed[w]
            /\ answer'[w] = Head(stdout[w]).of /\ stdout'[w] = Tail(stdout[w])
  BY Types DEF Recv, Fails, Set
<1>2. /\ stdin'[w] = stdin[w] /\ sent'[w] = sent[w] /\ block'[w] = block[w]
      /\ streams'[w] = streams[w] /\ open'[w] = open[w] /\ child'[w] = child[w]
      /\ queue'[w] = queue[w] /\ captured'[w] = captured[w] /\ taken'[w] = taken[w]
      /\ dropped'[w] = dropped[w] /\ raw'[w] = raw[w] /\ processed'[w] = processed[w]
  BY Types DEF Recv, Fails, Set, files, capture, process, numbers
<1>3. Talk(w) /\ Released(w) /\ Backlog(w) /\ Recorded(w)
  BY DEF Local
<1>4. /\ block[w] \in Nat /\ captured[w] \in Nat /\ taken[w] \in Nat /\ dropped[w] \in Nat
      /\ queue[w] \in Seq(Blocks) /\ raw[w] \in Seq(Blocks) /\ processed[w] \in Seq(Blocks)
  BY Types
<1>h. \A x : Tail(<<x>>) = <<>> /\ Head(<<x>>) = x /\ <<x>> # <<>>
  OBVIOUS
<1>5. Talk(w)'
  <2>1. CASE pc'[w] = "finally"
    BY <2>1 DEF Talk
  <2>2. CASE stdout[w] # <<>> /\ pc'[w] = "play" /\ answer'[w] = Head(stdout[w]).of
             /\ stdout'[w] = Tail(stdout[w])
    <3> DEFINE asked == [seq |-> sent[w], of |-> block[w]]
    <3>1. stdin[w] = <<>> /\ stdout[w] = <<asked>>
      BY <1>1, <1>3, <2>2 DEF Talk
    <3>2. stdout'[w] = <<>> /\ answer'[w] = block[w]
      BY <2>2, <3>1, <1>h
    <3> QED
      BY <1>1, <1>2, <1>3, <2>2, <3>1, <3>2 DEF Talk
  <2> QED
    BY <1>1, <2>1, <2>2
<1>6. Released(w)'
  BY <1>1, <1>2, <1>3 DEF Released
<1>7. Backlog(w)'
  BY <1>1, <1>2, <1>3 DEF Backlog
<1>8. Recorded(w)'
  BY <1>1, <1>2, <1>3 DEF Recorded
<1> QED
  BY <1>5, <1>6, <1>7, <1>8 DEF Local

LEMMA PlayLocal ==
    ASSUME TypeOK, NEW w \in Workers, Local(w), Play(w)
    PROVE  Local(w)'
<1>1. /\ pc[w] = "play"
      /\ \/ pc'[w] = "finally" /\ failed'[w] = TRUE
         \/ pc'[w] \in {"raw", "loop"} /\ failed'[w] = failed[w]
  BY Types DEF Play, Fails, Set
<1>2. /\ stdin'[w] = stdin[w] /\ stdout'[w] = stdout[w] /\ sent'[w] = sent[w]
      /\ block'[w] = block[w] /\ answer'[w] = answer[w] /\ streams'[w] = streams[w]
      /\ open'[w] = open[w] /\ child'[w] = child[w] /\ queue'[w] = queue[w]
      /\ captured'[w] = captured[w] /\ taken'[w] = taken[w] /\ dropped'[w] = dropped[w]
      /\ raw'[w] = raw[w] /\ processed'[w] = processed[w]
  BY Types DEF Play, Fails, Set, files, capture, process, numbers
<1>3. Talk(w) /\ Released(w) /\ Backlog(w) /\ Recorded(w)
  BY DEF Local
<1>4. /\ block[w] \in Nat /\ captured[w] \in Nat /\ taken[w] \in Nat /\ dropped[w] \in Nat
      /\ queue[w] \in Seq(Blocks) /\ raw[w] \in Seq(Blocks) /\ processed[w] \in Seq(Blocks)
  BY Types
<1>5. Talk(w)'
  BY <1>1, <1>2, <1>3 DEF Talk
<1>6. Released(w)'
  BY <1>1, <1>2, <1>3 DEF Released
<1>7. Backlog(w)'
  BY <1>1, <1>2, <1>3 DEF Backlog
<1>8. Recorded(w)'
  BY <1>1, <1>2, <1>3 DEF Recorded
<1> QED
  BY <1>5, <1>6, <1>7, <1>8 DEF Local

LEMMA WriteRawLocal ==
    ASSUME TypeOK, NEW w \in Workers, Local(w), WriteRaw(w)
    PROVE  Local(w)'
<1>1. /\ pc[w] = "raw"
      /\ \/ pc'[w] = "finally" /\ failed'[w] = TRUE /\ raw'[w] = raw[w]
         \/ /\ pc'[w] = "processed" /\ failed'[w] = failed[w] /\ raw'[w] = Append(raw[w], block[w])
  BY Types DEF WriteRaw, Fails, Set
<1>2. /\ stdin'[w] = stdin[w] /\ stdout'[w] = stdout[w] /\ sent'[w] = sent[w]
      /\ block'[w] = block[w] /\ answer'[w] = answer[w] /\ streams'[w] = streams[w]
      /\ open'[w] = open[w] /\ child'[w] = child[w] /\ queue'[w] = queue[w]
      /\ captured'[w] = captured[w] /\ taken'[w] = taken[w] /\ dropped'[w] = dropped[w]
      /\ processed'[w] = processed[w]
  BY Types DEF WriteRaw, Fails, Set, files, capture, process, numbers
<1>3. Talk(w) /\ Released(w) /\ Backlog(w) /\ Recorded(w)
  BY DEF Local
<1>4. /\ block[w] \in Nat /\ captured[w] \in Nat /\ taken[w] \in Nat /\ dropped[w] \in Nat
      /\ queue[w] \in Seq(Blocks) /\ raw[w] \in Seq(Blocks) /\ processed[w] \in Seq(Blocks)
  BY Types
<1>h. /\ Len(Append(raw[w], block[w])) = Len(raw[w]) + 1
      /\ Append(raw[w], block[w])[Len(raw[w]) + 1] = block[w]
      /\ \A i \in 1 .. Len(raw[w]) : Append(raw[w], block[w])[i] = raw[w][i]
      /\ Len(raw[w]) \in Nat /\ \A i \in 1 .. Len(raw[w]) : raw[w][i] \in Nat
  BY <1>4 DEF Blocks
<1>5. Talk(w)'
  BY <1>1, <1>2, <1>3 DEF Talk
<1>6. Released(w)'
  BY <1>1, <1>2, <1>3 DEF Released
<1>7. Backlog(w)'
  BY <1>1, <1>2, <1>3 DEF Backlog
<1>8. Recorded(w)'
  <2>1. CASE pc'[w] = "finally" /\ failed'[w] = TRUE /\ raw'[w] = raw[w]
    BY <1>1, <1>2, <1>3, <2>1 DEF Recorded
  <2>2. CASE pc'[w] = "processed" /\ failed'[w] = failed[w] /\ raw'[w] = Append(raw[w], block[w])
    <3>1. Len(raw[w]) = Len(processed[w]) /\ ~failed[w]
      BY <1>1, <1>3 DEF Recorded
    <3>2. \A i \in 1 .. Len(processed'[w]) : processed'[w][i] = raw'[w][i]
      BY <1>2, <1>3, <1>h, <2>2, <3>1 DEF Recorded
    <3>3. Len(raw'[w]) = Len(processed'[w]) + 1 /\ raw'[w][Len(raw'[w])] = block'[w]
      BY <1>2, <1>h, <2>2, <3>1
    <3>4. \A i \in 1 .. Len(raw'[w]) - 1 : raw'[w][i] < raw'[w][i + 1]
      <4> SUFFICES ASSUME NEW i \in 1 .. Len(raw[w]) PROVE raw'[w][i] < raw'[w][i + 1]
        BY <1>h, <2>2
      <4>1. CASE i < Len(raw[w])
        <5>1. raw[w][i] < raw[w][i + 1] /\ i + 1 \in 1 .. Len(raw[w])
          BY <1>3, <1>h, <4>1 DEF Recorded
        <5> QED
          BY <1>h, <2>2, <5>1
      <4>2. CASE i = Len(raw[w])
        <5>1. raw[w][i] < block[w]
          BY <1>1, <1>3 DEF Recorded
        <5> QED
          BY <1>h, <2>2, <4>2, <5>1
      <4> QED
        BY <1>h, <4>1, <4>2
    <3>5. \A i \in 1 .. Len(raw'[w]) : raw'[w][i] <= block'[w]
      <4>1. \A i \in 1 .. Len(raw[w]) : raw[w][i] <= block[w]
        BY <1>1, <1>3 DEF Recorded
      <4> QED
        BY <1>2, <1>4, <1>h, <2>2, <4>1
    <3> QED
      BY <1>2, <2>2, <3>1, <3>2, <3>3, <3>4, <3>5 DEF Recorded
  <2> QED
    BY <1>1, <2>1, <2>2
<1> QED
  BY <1>5, <1>6, <1>7, <1>8 DEF Local

LEMMA WriteProcessedLocal ==
    ASSUME TypeOK, NEW w \in Workers, Local(w), WriteProcessed(w)
    PROVE  Local(w)'
<1>1. /\ pc[w] = "processed"
      /\ \/ pc'[w] = "finally" /\ failed'[w] = TRUE /\ processed'[w] = processed[w]
         \/ /\ pc'[w] = "loop" /\ failed'[w] = failed[w]
            /\ processed'[w] = Append(processed[w], answer[w])
  BY Types DEF WriteProcessed, Fails, Set
<1>2. /\ stdin'[w] = stdin[w] /\ stdout'[w] = stdout[w] /\ sent'[w] = sent[w]
      /\ block'[w] = block[w] /\ answer'[w] = answer[w] /\ streams'[w] = streams[w]
      /\ open'[w] = open[w] /\ child'[w] = child[w] /\ queue'[w] = queue[w]
      /\ captured'[w] = captured[w] /\ taken'[w] = taken[w] /\ dropped'[w] = dropped[w]
      /\ raw'[w] = raw[w]
  BY Types DEF WriteProcessed, Fails, Set, files, capture, process, numbers
<1>3. Talk(w) /\ Released(w) /\ Backlog(w) /\ Recorded(w)
  BY DEF Local
<1>4. /\ block[w] \in Nat /\ captured[w] \in Nat /\ taken[w] \in Nat /\ dropped[w] \in Nat
      /\ queue[w] \in Seq(Blocks) /\ raw[w] \in Seq(Blocks) /\ processed[w] \in Seq(Blocks)
  BY Types
<1>h. /\ Len(Append(processed[w], answer[w])) = Len(processed[w]) + 1
      /\ Append(processed[w], answer[w])[Len(processed[w]) + 1] = answer[w]
      /\ \A i \in 1 .. Len(processed[w]) : Append(processed[w], answer[w])[i] = processed[w][i]
      /\ Len(processed[w]) \in Nat /\ Len(raw[w]) \in Nat
  BY <1>4
<1>5. Talk(w)'
  BY <1>1, <1>2, <1>3 DEF Talk
<1>6. Released(w)'
  BY <1>1, <1>2, <1>3 DEF Released
<1>7. Backlog(w)'
  BY <1>1, <1>2, <1>3 DEF Backlog
<1>8. Recorded(w)'
  <2>1. CASE pc'[w] = "finally" /\ failed'[w] = TRUE /\ processed'[w] = processed[w]
    BY <1>1, <1>2, <1>3, <2>1 DEF Recorded
  <2>2. CASE /\ pc'[w] = "loop" /\ failed'[w] = failed[w]
             /\ processed'[w] = Append(processed[w], answer[w])
    <3>1. Len(raw[w]) = Len(processed[w]) + 1 /\ raw[w][Len(raw[w])] = answer[w] /\ ~failed[w]
      BY <1>1, <1>3 DEF Recorded, Talk
    <3>2. \A i \in 1 .. Len(processed'[w]) : processed'[w][i] = raw'[w][i]
      BY <1>2, <1>3, <1>h, <2>2, <3>1 DEF Recorded
    <3>3. Len(raw'[w]) = Len(processed'[w])
      BY <1>2, <1>h, <2>2, <3>1
    <3> QED
      BY <1>1, <1>2, <1>3, <2>2, <3>1, <3>2, <3>3 DEF Recorded
  <2> QED
    BY <1>1, <2>1, <2>2
<1> QED
  BY <1>5, <1>6, <1>7, <1>8 DEF Local

LEMMA FinallyLocal ==
    ASSUME TypeOK, NEW w \in Workers, Local(w), Finally(w)
    PROVE  Local(w)'
<1>1. /\ pc[w] = "finally"
      /\ \/ pc'[w] = "wait" /\ failed'[w] = failed[w] /\ open'[w] = {}
         \/ pc'[w] = "raised" /\ failed'[w] = TRUE
  <2>1. /\ pc[w] = "finally"
        /\ \/ pc' = Set(pc, w, "wait") /\ failed' = failed /\ open' = Set(open, w, {})
           \/ pc' = Set(pc, w, "raised") /\ failed' = Set(failed, w, TRUE)
    BY Ends
  <2> QED
    BY <2>1, Types DEF Set
<1>2. /\ stdout'[w] = stdout[w] /\ sent'[w] = sent[w] /\ block'[w] = block[w]
      /\ answer'[w] = answer[w] /\ child'[w] = child[w] /\ queue'[w] = queue[w]
      /\ captured'[w] = captured[w] /\ taken'[w] = taken[w] /\ dropped'[w] = dropped[w]
      /\ raw'[w] = raw[w] /\ processed'[w] = processed[w]
  BY DEF Finally, capture, numbers
<1>3. Talk(w) /\ Released(w) /\ Backlog(w) /\ Recorded(w)
  BY DEF Local
<1>4. /\ block[w] \in Nat /\ captured[w] \in Nat /\ taken[w] \in Nat /\ dropped[w] \in Nat
      /\ queue[w] \in Seq(Blocks) /\ raw[w] \in Seq(Blocks) /\ processed[w] \in Seq(Blocks)
  BY Types
<1>5. Talk(w)'
  BY <1>1, <1>2, <1>3 DEF Talk
<1>6. Released(w)'
  BY <1>1, <1>2, <1>3 DEF Released
<1>7. Backlog(w)'
  BY <1>1, <1>2, <1>3 DEF Backlog
<1>8. Recorded(w)'
  BY <1>1, <1>2, <1>3 DEF Recorded
<1> QED
  BY <1>5, <1>6, <1>7, <1>8 DEF Local

LEMMA WaitLocal ==
    ASSUME TypeOK, NEW w \in Workers, Local(w), Wait(w)
    PROVE  Local(w)'
<1>1. /\ pc[w] = "wait" /\ pc'[w] = "emit" /\ child'[w] # "running"
  BY Types DEF Wait, Set
<1>2. /\ sent'[w] = sent[w] /\ block'[w] = block[w] /\ answer'[w] = answer[w]
      /\ streams'[w] = streams[w] /\ open'[w] = open[w] /\ queue'[w] = queue[w]
      /\ captured'[w] = captured[w] /\ taken'[w] = taken[w] /\ dropped'[w] = dropped[w]
      /\ failed'[w] = failed[w] /\ raw'[w] = raw[w] /\ processed'[w] = processed[w]
  BY Types DEF Wait, Set, files, capture, process, numbers
<1>3. Talk(w) /\ Released(w) /\ Backlog(w) /\ Recorded(w)
  BY DEF Local
<1>4. /\ block[w] \in Nat /\ captured[w] \in Nat /\ taken[w] \in Nat /\ dropped[w] \in Nat
      /\ queue[w] \in Seq(Blocks) /\ raw[w] \in Seq(Blocks) /\ processed[w] \in Seq(Blocks)
  BY Types
<1>5. Talk(w)'
  BY <1>1, <1>2, <1>3 DEF Talk
<1>6. Released(w)'
  BY <1>1, <1>2, <1>3 DEF Released
<1>7. Backlog(w)'
  BY <1>1, <1>2, <1>3 DEF Backlog
<1>8. Recorded(w)'
  BY <1>1, <1>2, <1>3 DEF Recorded
<1> QED
  BY <1>5, <1>6, <1>7, <1>8 DEF Local

LEMMA EmitLocal ==
    ASSUME TypeOK, NEW w \in Workers, Local(w), Emit(w)
    PROVE  Local(w)'
<1>1. /\ pc[w] = "emit" /\ pc'[w] = "stopped"
  BY Types DEF Emit, Set
<1>2. /\ stdin'[w] = stdin[w] /\ stdout'[w] = stdout[w] /\ child'[w] = child[w]
      /\ sent'[w] = sent[w] /\ block'[w] = block[w] /\ answer'[w] = answer[w]
      /\ streams'[w] = streams[w] /\ open'[w] = open[w] /\ queue'[w] = queue[w]
      /\ captured'[w] = captured[w] /\ taken'[w] = taken[w] /\ dropped'[w] = dropped[w]
      /\ failed'[w] = failed[w] /\ raw'[w] = raw[w] /\ processed'[w] = processed[w]
  BY Types DEF Emit, Set, files, capture, process, numbers
<1>3. Talk(w) /\ Released(w) /\ Backlog(w) /\ Recorded(w)
  BY DEF Local
<1>4. /\ block[w] \in Nat /\ captured[w] \in Nat /\ taken[w] \in Nat /\ dropped[w] \in Nat
      /\ queue[w] \in Seq(Blocks) /\ raw[w] \in Seq(Blocks) /\ processed[w] \in Seq(Blocks)
  BY Types
<1>5. Talk(w)'
  BY <1>1, <1>2, <1>3 DEF Talk
<1>6. Released(w)'
  BY <1>1, <1>2, <1>3 DEF Released
<1>7. Backlog(w)'
  BY <1>1, <1>2, <1>3 DEF Backlog
<1>8. Recorded(w)'
  BY <1>1, <1>2, <1>3 DEF Recorded
<1> QED
  BY <1>5, <1>6, <1>7, <1>8 DEF Local

LEMMA ThreadEndsLocal ==
    ASSUME TypeOK, NEW w \in Workers, Local(w), ThreadEnds(w)
    PROVE  Local(w)'
<1>1. /\ \/ pc[w] = "stopped" /\ pc'[w] = "ended"
         \/ pc[w] = "raised" /\ pc'[w] = "crashed"
      /\ queue'[w] = <<>> /\ streams'[w] = {}
  BY Types DEF ThreadEnds, Set
<1>2. /\ stdin'[w] = stdin[w] /\ stdout'[w] = stdout[w]
      /\ open'[w] = open[w] /\ child'[w] = child[w] /\ captured'[w] = captured[w]
      /\ failed'[w] = failed[w] /\ raw'[w] = raw[w] /\ processed'[w] = processed[w]
  BY Types DEF ThreadEnds, Set, files, capture, process, numbers
<1>3. Talk(w) /\ Released(w) /\ Backlog(w) /\ Recorded(w)
  BY DEF Local
<1>4. /\ block[w] \in Nat /\ captured[w] \in Nat /\ taken[w] \in Nat /\ dropped[w] \in Nat
      /\ queue[w] \in Seq(Blocks) /\ raw[w] \in Seq(Blocks) /\ processed[w] \in Seq(Blocks)
  BY Types
<1>h. Len(<<>>) = 0
  OBVIOUS
<1>5. Talk(w)'
  BY <1>1, <1>2, <1>3 DEF Talk
<1>6. Released(w)'
  BY <1>1, <1>2, <1>3 DEF Released
<1>7. Backlog(w)'
  BY <1>1, <1>2, <1>h DEF Backlog
<1>8. Recorded(w)'
  BY <1>1, <1>2, <1>3 DEF Recorded
<1> QED
  BY <1>5, <1>6, <1>7, <1>8 DEF Local

LEMMA InputCallbackLocal ==
    ASSUME TypeOK, NEW w \in Workers, Local(w), InputCallback(w)
    PROVE  Local(w)'
<1>1. /\ streams[w] = {"in", "out"} /\ captured'[w] = captured[w] + 1
      /\ \/ /\ Len(queue[w]) >= QueueCapacity /\ dropped'[w] = dropped[w] + 1
            /\ queue'[w] = Append(Tail(queue[w]), captured[w] + 1)
         \/ dropped'[w] = dropped[w] /\ queue'[w] = Append(queue[w], captured[w] + 1)
  <2> DEFINE full == Len(queue[w]) >= QueueCapacity
  <2>1. /\ streams[w] = {"in", "out"} /\ captured' = Set(captured, w, captured[w] + 1)
        /\ queue' = Set(queue, w, Append(IF full THEN Tail(queue[w]) ELSE queue[w], captured[w] + 1))
        /\ dropped' = Set(dropped, w, dropped[w] + (IF full THEN 1 ELSE 0))
    BY DEF InputCallback
  <2>2. dropped[w] \in Nat
    BY Types
  <2>3. CASE full
    BY <2>1, <2>2, <2>3, Types DEF Set
  <2>4. CASE ~full
    BY <2>1, <2>2, <2>4, Types DEF Set
  <2> QED
    BY <2>3, <2>4
<1>2. /\ pc'[w] = pc[w] /\ stdin'[w] = stdin[w] /\ stdout'[w] = stdout[w] /\ sent'[w] = sent[w]
      /\ block'[w] = block[w] /\ answer'[w] = answer[w] /\ streams'[w] = streams[w]
      /\ open'[w] = open[w] /\ child'[w] = child[w] /\ taken'[w] = taken[w]
      /\ failed'[w] = failed[w] /\ raw'[w] = raw[w] /\ processed'[w] = processed[w]
  BY Types DEF InputCallback, Set, files, capture, process, numbers
<1>3. Talk(w) /\ Released(w) /\ Backlog(w) /\ Recorded(w)
  BY DEF Local
<1>4. /\ block[w] \in Nat /\ captured[w] \in Nat /\ taken[w] \in Nat /\ dropped[w] \in Nat
      /\ queue[w] \in Seq(Blocks) /\ raw[w] \in Seq(Blocks) /\ processed[w] \in Seq(Blocks)
  BY Types
<1>h. /\ Len(queue[w]) \in Nat /\ QueueCapacity \in Nat \ {0}
      /\ pc[w] \notin {"new", "open", "ended", "crashed"}
  BY <1>1, <1>3, <1>4, Numbers DEF Released
<1>i. \E k \in {0, 1}, kept \in Seq(Blocks) :
        /\ queue'[w] = Append(kept, captured[w] + 1) /\ dropped'[w] = dropped[w] + k
        /\ Len(kept) = Len(queue[w]) - k /\ \A i \in 1 .. Len(kept) : kept[i] = queue[w][i + k]
  <2>1. CASE /\ Len(queue[w]) >= QueueCapacity /\ dropped'[w] = dropped[w] + 1
             /\ queue'[w] = Append(Tail(queue[w]), captured[w] + 1)
    <3>1. queue[w] # <<>>
      BY <1>h, <2>1
    <3>2. /\ Tail(queue[w]) \in Seq(Blocks) /\ Len(Tail(queue[w])) = Len(queue[w]) - 1
          /\ \A i \in 1 .. Len(Tail(queue[w])) : Tail(queue[w])[i] = queue[w][i + 1]
      BY <1>4, <3>1
    <3> QED
      BY <2>1, <3>2
  <2>2. CASE dropped'[w] = dropped[w] /\ queue'[w] = Append(queue[w], captured[w] + 1)
    <3>1. dropped[w] = dropped[w] + 0 /\ Len(queue[w]) = Len(queue[w]) - 0
      BY <1>4, <1>h
    <3>2. \A i \in 1 .. Len(queue[w]) : queue[w][i] = queue[w][i + 0]
      BY <1>h
    <3> QED
      BY <1>4, <2>2, <3>1, <3>2
  <2> QED
    BY <1>1, <2>1, <2>2
<1>5. Talk(w)'
  BY <1>1, <1>2, <1>3 DEF Talk
<1>6. Released(w)'
  BY <1>2, <1>3 DEF Released
<1>7. Backlog(w)'
  <2>1. PICK k \in {0, 1}, kept \in Seq(Blocks) :
          /\ queue'[w] = Append(kept, captured[w] + 1) /\ dropped'[w] = dropped[w] + k
          /\ Len(kept) = Len(queue[w]) - k /\ \A i \in 1 .. Len(kept) : kept[i] = queue[w][i + k]
    BY <1>i
  <2>0. dropped'[w] = dropped[w] + k /\ Len(kept) = Len(queue[w]) - k
    BY <2>1
  <2>2. /\ Len(queue'[w]) = Len(kept) + 1 /\ queue'[w][Len(kept) + 1] = captured[w] + 1
        /\ \A i \in 1 .. Len(kept) : queue'[w][i] = kept[i]
        /\ Len(kept) \in Nat
    BY <2>1
  <2> DEFINE c == captured[w]   c1 == captured'[w]   n == Len(queue[w])   m == Len(kept)
             m1 == Len(queue'[w])   t == taken[w]   d == dropped[w]   d1 == dropped'[w]
             b == block[w]
  <2>3. /\ m1 = m + 1 /\ c1 = c + 1 /\ d1 = d + k /\ m = n - k
        /\ taken'[w] = t /\ block'[w] = b
    BY <1>1, <1>2, <2>0, <2>2
  <2>4. /\ c \in Nat /\ t \in Nat /\ d \in Nat /\ b \in Nat /\ n \in Nat /\ m \in Nat /\ k \in Nat
    BY <1>4, <1>h, <2>2
  <2>5. c = t + d + n /\ b <= c - n /\ \A i \in 1 .. n : queue[w][i] = c - n + i
    BY <1>3, <1>h DEF Backlog
  <2>6. /\ queue'[w][m + 1] = c + 1 /\ \A i \in 1 .. m : queue'[w][i] = kept[i]
        /\ \A i \in 1 .. m : kept[i] = queue[w][i + k]
    BY <2>1, <2>2
  <2>8. \A i \in 1 .. Len(queue'[w]) : queue'[w][i] = captured'[w] - Len(queue'[w]) + i
    <3> SUFFICES ASSUME NEW i \in 1 .. m1 PROVE queue'[w][i] = c1 - m1 + i
      OBVIOUS
    <3> HIDE DEF c, c1, n, m, m1, t, d, d1, b
    <3>1. i \in Nat /\ (i \in 1 .. m \/ i = m + 1)
      BY <2>3, <2>4
    <3>2. c1 - m1 + i = c - n + (i + k) /\ c1 - m1 + (m + 1) = c + 1
      BY <2>3, <2>4, <3>1
    <3>3. CASE i \in 1 .. m
      <4>1. i + k \in 1 .. n
        BY <2>3, <2>4, <3>3
      <4>2. queue[w][i + k] = c - n + (i + k)
        BY <2>5, <4>1
      <4> QED
        BY <2>6, <3>2, <3>3, <4>2
    <3>4. CASE i = m + 1
      BY <2>6, <3>2, <3>4
    <3> QED
      BY <3>1, <3>3, <3>4
  <2>9. c1 = taken'[w] + d1 + m1 /\ block'[w] <= c1 - m1
    <3> HIDE DEF c, c1, n, m, m1, t, d, d1, b
    <3>1. c1 = t + d1 + m1 /\ b <= c1 - m1
      BY <2>3, <2>4, <2>5
    <3> QED
      BY <2>3, <3>1
  <2>7. pc'[w] \notin {"ended", "crashed"}
    BY <1>2, <1>h
  <2> QED
    BY <2>7, <2>8, <2>9 DEF Backlog
<1>8. Recorded(w)'
  BY <1>1, <1>2, <1>3 DEF Recorded
<1> QED
  BY <1>5, <1>6, <1>7, <1>8 DEF Local

LEMMA ChildAnswersLocal ==
    ASSUME TypeOK, NEW w \in Workers, Local(w), ChildAnswers(w)
    PROVE  Local(w)'
<1>1. /\ child[w] = "running" /\ stdin[w] # <<>> /\ stdin'[w] = Tail(stdin[w])
      /\ \/ Head(stdin[w]).of = None /\ stdout'[w] = stdout[w] /\ child'[w] = "dead"
         \/ /\ Head(stdin[w]).of # None /\ child'[w] = child[w]
            /\ stdout'[w] = Append(stdout[w], Head(stdin[w]))
  BY Types DEF ChildAnswers, Set
<1>2. /\ pc'[w] = pc[w] /\ sent'[w] = sent[w] /\ block'[w] = block[w] /\ answer'[w] = answer[w]
      /\ streams'[w] = streams[w] /\ open'[w] = open[w] /\ queue'[w] = queue[w]
      /\ captured'[w] = captured[w] /\ taken'[w] = taken[w] /\ dropped'[w] = dropped[w]
      /\ failed'[w] = failed[w] /\ raw'[w] = raw[w] /\ processed'[w] = processed[w]
  BY Types DEF ChildAnswers, Set, files, capture, process, numbers
<1>3. Talk(w) /\ Released(w) /\ Backlog(w) /\ Recorded(w)
  BY DEF Local
<1>4. /\ block[w] \in Nat /\ captured[w] \in Nat /\ taken[w] \in Nat /\ dropped[w] \in Nat
      /\ queue[w] \in Seq(Blocks) /\ raw[w] \in Seq(Blocks) /\ processed[w] \in Seq(Blocks)
  BY Types
<1>h. \A x : Tail(<<x>>) = <<>> /\ Head(<<x>>) = x /\ <<x>> # <<>> /\ Append(<<>>, x) = <<x>>
  OBVIOUS
<1>5. Talk(w)'
  <2>1. CASE pc[w] # "recv"
    BY <1>1, <1>2, <1>3, <2>1 DEF Talk
  <2>2. CASE pc[w] = "recv"
    <3> DEFINE asked == [seq |-> sent[w], of |-> block[w]]
    <3>1. stdin[w] = <<asked>> /\ stdout[w] = <<>> /\ block[w] # None
      BY <1>1, <1>3, <2>2 DEF Talk
    <3>2. Head(stdin[w]) = asked /\ Tail(stdin[w]) = <<>> /\ asked.of = block[w]
      BY <3>1, <1>h
    <3>3. stdin'[w] = <<>> /\ stdout'[w] = <<asked>>
      BY <1>1, <1>h, <3>1, <3>2
    <3> QED
      BY <1>2, <2>2, <3>1, <3>3 DEF Talk
  <2> QED
    BY <2>1, <2>2
<1>6. Released(w)'
  BY <1>1, <1>2, <1>3 DEF Released
<1>7. Backlog(w)'
  BY <1>1, <1>2, <1>3 DEF Backlog
<1>8. Recorded(w)'
  BY <1>1, <1>2, <1>3 DEF Recorded
<1> QED
  BY <1>5, <1>6, <1>7, <1>8 DEF Local

LEMMA ChildDiesLocal ==
    ASSUME TypeOK, NEW w \in Workers, Local(w), ChildDies(w)
    PROVE  Local(w)'
<1>1. /\ child[w] = "running" /\ child'[w] = "dead"
  BY Types DEF ChildDies, Set
<1>2. /\ pc'[w] = pc[w] /\ stdin'[w] = stdin[w] /\ stdout'[w] = stdout[w] /\ sent'[w] = sent[w]
      /\ block'[w] = block[w] /\ answer'[w] = answer[w] /\ streams'[w] = streams[w]
      /\ open'[w] = open[w] /\ queue'[w] = queue[w] /\ captured'[w] = captured[w]
      /\ taken'[w] = taken[w] /\ dropped'[w] = dropped[w] /\ failed'[w] = failed[w]
      /\ raw'[w] = raw[w] /\ processed'[w] = processed[w]
  BY Types DEF ChildDies, Set, files, capture, process, numbers
<1>3. Talk(w) /\ Released(w) /\ Backlog(w) /\ Recorded(w)
  BY DEF Local
<1>4. /\ block[w] \in Nat /\ captured[w] \in Nat /\ taken[w] \in Nat /\ dropped[w] \in Nat
      /\ queue[w] \in Seq(Blocks) /\ raw[w] \in Seq(Blocks) /\ processed[w] \in Seq(Blocks)
  BY Types
<1>5. Talk(w)'
  BY <1>1, <1>2, <1>3 DEF Talk
<1>6. Released(w)'
  BY <1>1, <1>2, <1>3 DEF Released
<1>7. Backlog(w)'
  BY <1>1, <1>2, <1>3 DEF Backlog
<1>8. Recorded(w)'
  BY <1>1, <1>2, <1>3 DEF Recorded
<1> QED
  BY <1>5, <1>6, <1>7, <1>8 DEF Local

LEMMA LocalStep ==
    ASSUME TypeOK, NEW w \in Workers, \A v \in Workers : Local(v),
           \/ Open(w) \/ LoopHead(w) \/ Get(w) \/ Send(w) \/ Recv(w) \/ Play(w)
           \/ WriteRaw(w) \/ WriteProcessed(w) \/ Finally(w) \/ Wait(w) \/ Emit(w) \/ ThreadEnds(w)
           \/ InputCallback(w) \/ ChildAnswers(w) \/ ChildDies(w)
    PROVE  \A v \in Workers : Local(v)'
<1>1. Local(w)'
  BY OpenLocal, LoopHeadLocal, GetLocal, SendLocal, RecvLocal, PlayLocal, WriteRawLocal,
     WriteProcessedLocal, FinallyLocal, WaitLocal, EmitLocal, ThreadEndsLocal, InputCallbackLocal,
     ChildAnswersLocal, ChildDiesLocal
<1>2. \A v \in Workers : v # w => Local(v)'
  BY OthersStep
<1> QED
  BY <1>1, <1>2

-----------------------------------------------------------------------------
(* One worker at a time.                                                   *)

\* No step of a worker or of its subprocess makes it busy.
LEMMA BusyStep ==
    ASSUME TypeOK, NEW w \in Workers, \A v \in Workers : Local(v),
           \/ Open(w) \/ LoopHead(w) \/ Get(w) \/ Send(w) \/ Recv(w) \/ Play(w)
           \/ WriteRaw(w) \/ WriteProcessed(w) \/ Finally(w) \/ Wait(w) \/ Emit(w) \/ ThreadEnds(w)
           \/ InputCallback(w) \/ ChildAnswers(w) \/ ChildDies(w)
    PROVE  /\ UNCHANGED <<worker, created, buttons, restarts, impatient>>
           /\ \A v \in Workers : (Busy(v)' => Busy(v)) /\ (pc[v] = "new" => pc'[v] = "new")
           /\ UNCHANGED posted \/ (Emit(w) /\ pc[w] = "emit" /\ pc'[w] = "stopped")
<1>1. UNCHANGED <<worker, created, buttons, restarts, impatient>>
  BY DEF gui, Open, LoopHead, Get, Send, Recv, Play, WriteRaw, WriteProcessed,
         Finally, Wait, Emit, ThreadEnds, InputCallback, ChildAnswers, ChildDies
<1>2. \A v \in Workers : v # w => pc'[v] = pc[v]
  BY OthersStep
<1>3. \/ pc'[w] = pc[w] \/ (Busy(w) /\ pc[w] # "new")
      \/ (pc[w] \in {"stopped", "raised"} /\ pc'[w] \in {"ended", "crashed"})
  <2>1. Open(w) => Busy(w) /\ pc[w] # "new"
    BY DEF Open, Busy
  <2>2. LoopHead(w) => Busy(w) /\ pc[w] # "new"
    BY DEF LoopHead, Busy
  <2>3. Get(w) => Busy(w) /\ pc[w] # "new"
    BY DEF Get, Busy
  <2>4. Send(w) => Busy(w) /\ pc[w] # "new"
    BY DEF Send, Busy
  <2>5. Recv(w) => Busy(w) /\ pc[w] # "new"
    BY DEF Recv, Busy
  <2>6. Play(w) => Busy(w) /\ pc[w] # "new"
    BY DEF Play, Busy
  <2>7. WriteRaw(w) => Busy(w) /\ pc[w] # "new"
    BY DEF WriteRaw, Busy
  <2>8. WriteProcessed(w) => Busy(w) /\ pc[w] # "new"
    BY DEF WriteProcessed, Busy
  <2>9. Finally(w) => Busy(w) /\ pc[w] # "new"
    BY DEF Finally, Busy
  <2>10. Emit(w) => Busy(w) /\ pc[w] # "new"
    BY DEF Emit, Busy
  <2>11. ThreadEnds(w) => pc[w] \in {"stopped", "raised"} /\ pc'[w] \in {"ended", "crashed"}
    BY Types DEF ThreadEnds, Set
  <2>12. InputCallback(w) => pc'[w] = pc[w]
    BY DEF InputCallback
  <2>13. ChildAnswers(w) => pc'[w] = pc[w]
    BY DEF ChildAnswers
  <2>14. ChildDies(w) => pc'[w] = pc[w]
    BY DEF ChildDies
  <2>15. Wait(w) => Busy(w) /\ pc[w] # "new"
    BY DEF Wait, Busy
  <2> QED
    BY <2>1, <2>2, <2>3, <2>4, <2>5, <2>6, <2>7, <2>8, <2>9, <2>10, <2>11, <2>12, <2>13, <2>14, <2>15
<1>4. UNCHANGED posted \/ (Emit(w) /\ pc[w] = "emit" /\ pc'[w] = "stopped")
  <2>1. Emit(w) => pc[w] = "emit" /\ pc'[w] = "stopped"
    BY Types DEF Emit, Set
  <2> QED
    BY <2>1 DEF gui, Open, LoopHead, Get, Send, Recv, Play, WriteRaw, WriteProcessed,
         Finally, Wait, ThreadEnds, InputCallback, ChildAnswers, ChildDies
<1> QED
  BY <1>1, <1>2, <1>3, <1>4 DEF Busy

LEMMA CreatedStep ==
    ASSUME TypeOK, Created,
           ClickStart \/ ClickStop \/ ClickRestart \/ ToggleRecord \/ WorkerStopped \/ RestartAfterStop
    PROVE  Created'
<1>t. /\ created \in Nat /\ posted \in Seq(Posts) /\ worker \in Workers \cup {Nobody}
      /\ restarts \in [Workers -> Nat] /\ pc \in [Workers -> Places] /\ \A w \in Workers : w \in Nat
  <2>1. created \in Workers \cup {0} /\ \A w \in Workers : w \in Nat
    BY Types, Numbers
  <2>2. created \in Nat
    BY <2>1
  <2>3. /\ posted \in Seq(Posts) /\ worker \in Workers \cup {Nobody}
        /\ restarts \in [Workers -> Nat] /\ pc \in [Workers -> Places]
    BY Types
  <2> QED
    BY <2>1, <2>2, <2>3
<1>1. \/ UNCHANGED <<created, pc>>
      \/ /\ created + 1 \in Workers /\ created' = created + 1
         /\ pc' = Set(pc, created + 1, "open")
  BY DEF ClickStart, ClickStop, ClickRestart, ToggleRecord, WorkerStopped, RestartAfterStop, OnStart
<1>2. \A v \in Workers : v > created' => v > created /\ pc'[v] = pc[v]
  <2>1. created \in Nat /\ \A v \in Workers : v \in Nat
    BY <1>t
  <2>2. CASE UNCHANGED <<created, pc>>
    BY <2>2
  <2>3. CASE created' = created + 1 /\ pc' = Set(pc, created + 1, "open")
    <3> SUFFICES ASSUME NEW v \in Workers, v > created'
                 PROVE  v > created /\ pc'[v] = pc[v]
      OBVIOUS
    <3>1. v > created /\ v # created + 1
      <4>1. v \in Nat /\ created \in Nat /\ v > created + 1
        BY <2>1, <2>3
      <4> QED
        BY <4>1
    <3> QED
      BY <1>t, <2>3, <3>1 DEF Set
  <2> QED
    BY <1>1, <2>2, <2>3
<1>3. \A v \in Workers : v > created => restarts'[v] = 0
  <2>1. CASE UNCHANGED restarts
    BY <2>1 DEF Created
  <2>2. CASE worker # Nobody /\ IsRunning(worker) /\ restarts' = Set(restarts, worker, restarts[worker] + 1)
    <3>1. \A v \in Workers : v > created => v # worker
      BY <1>t, <2>2 DEF Created, IsRunning
    <3> QED
      BY <1>t, <2>2, <3>1 DEF Set, Created
  <2>3. CASE posted # <<>> /\ restarts' = Set(restarts, Head(posted).from, 0)
    BY <1>t, <2>3 DEF Set, Created
  <2> QED
    <3>1. \/ UNCHANGED restarts
          \/ worker # Nobody /\ IsRunning(worker) /\ restarts' = Set(restarts, worker, restarts[worker] + 1)
          \/ posted # <<>> /\ restarts' = Set(restarts, Head(posted).from, 0)
      BY DEF ClickStart, ClickStop, ClickRestart, ToggleRecord, WorkerStopped, RestartAfterStop
    <3> QED
      BY <2>1, <2>2, <2>3, <3>1
<1> QED
  BY <1>2, <1>3 DEF Created

\* When nobody is busy and nothing is posted, a start makes one worker busy.
LEMMA Starts ==
    ASSUME TypeOK, Created, Patient, OnStart, \A w \in Workers : ~Busy(w), posted' = <<>>,
           \A w \in Workers : w > created => restarts'[w] = 0
    PROVE  Patient'
<1>t. /\ created \in Nat /\ posted \in Seq(Posts) /\ worker \in Workers \cup {Nobody}
      /\ restarts \in [Workers -> Nat] /\ pc \in [Workers -> Places] /\ \A w \in Workers : w \in Nat
  <2>1. created \in Workers \cup {0} /\ \A w \in Workers : w \in Nat
    BY Types, Numbers
  <2>2. created \in Nat
    BY <2>1
  <2>3. /\ posted \in Seq(Posts) /\ worker \in Workers \cup {Nobody}
        /\ restarts \in [Workers -> Nat] /\ pc \in [Workers -> Places]
    BY Types
  <2> QED
    BY <2>1, <2>2, <2>3
<1>1. Len(posted') = 0
  OBVIOUS
<1>2. \A w \in Workers : Busy(w)' =>
         w = worker' /\ posted' = <<>> /\ "start" \notin buttons' /\ restarts'[w] <= 1
  <2>1. CASE UNCHANGED <<worker, created, pc>>
    BY <2>1 DEF Busy
  <2>2. CASE /\ created + 1 \in Workers
             /\ created' = created + 1 /\ worker' = created'
             /\ pc' = Set(pc, worker', "open")
             /\ buttons' = (buttons \ {"start"}) \cup {"stop", "restart", "record"}
    <3> SUFFICES ASSUME NEW w \in Workers, Busy(w)'
                 PROVE  w = worker' /\ "start" \notin buttons' /\ restarts'[w] <= 1
      OBVIOUS
    <3>1. w = worker'
      BY <1>t, <2>2 DEF Busy, Set
    <3>2. restarts'[w] = 0
      <4>1. created \in Nat /\ w = created + 1
        BY <1>t, <2>2, <3>1
      <4>2. w > created
        BY <4>1
      <4> QED
        BY <4>2, Zenon
    <3> QED
      BY <2>2, <3>1, <3>2
  <2> QED
    BY <2>1, <2>2 DEF OnStart
<1> QED
  BY <1>1, <1>2 DEF Patient

LEMMA PatientGuiStep ==
    ASSUME TypeOK, Created, Patient,
           ClickStart \/ ClickStop \/ ClickRestart \/ ToggleRecord \/ WorkerStopped \/ RestartAfterStop
    PROVE  Patient'
<1>t. posted \in Seq(Posts) /\ worker \in Workers \cup {Nobody} /\ restarts \in [Workers -> Nat]
  BY Types
<1>n. \A w \in Workers : w \in Nat \ {0}
  BY Numbers
<1>1. CASE impatient'
  BY <1>1 DEF Patient
<1>2. CASE ~impatient'
  <2>0. /\ ~impatient /\ Len(posted) <= 2 /\ Len(posted) \in Nat
        /\ \A w \in Workers : Busy(w) =>
              w = worker /\ posted = <<>> /\ "start" \notin buttons /\ restarts[w] <= 1
        /\ \A i \in 1 .. Len(posted) - 1 :
              posted[i].slot = "stopped" /\ posted[i + 1].slot = "restart"
    <3>1. ~impatient
      BY <1>2 DEF ClickStart, ClickStop, ClickRestart, ToggleRecord, WorkerStopped, RestartAfterStop
    <3> QED
      BY <1>t, <3>1 DEF Patient
  <2>1. CASE ClickStart
    <3>1. posted = <<>> /\ posted' = <<>> /\ UNCHANGED restarts /\ OnStart
      BY <1>2, <2>1 DEF ClickStart, Unsettled
    <3>2. \A w \in Workers : ~Busy(w)
      BY <2>0, <2>1 DEF ClickStart, Click
    <3> QED
      BY <3>1, <3>2, Starts DEF Created
  <2>2. CASE ClickStop \/ ToggleRecord
    <3>1. UNCHANGED <<worker, restarts, posted, pc>> /\ ("start" \in buttons' => "start" \in buttons)
      BY <2>2 DEF ClickStop, ToggleRecord
    <3> QED
      BY <2>0, <3>1 DEF Patient, Busy
  <2>3. CASE ClickRestart
    <3>1. posted = <<>> /\ posted' = <<>> /\ \A w \in Workers : Busy(w) => restarts[w] = 0
      <4>1. posted = <<>> /\ posted' = <<>> /\ \A w \in Workers : Busy(w) => ~(restarts[w] > 0)
        BY <1>2, <2>3 DEF ClickRestart, Unsettled
      <4>2. \A w \in Workers : restarts[w] \in Nat
        BY <1>t
      <4> QED
        BY <4>1, <4>2
    <3>2. CASE worker # Nobody /\ IsRunning(worker)
      <4>1. UNCHANGED <<worker, buttons, pc, posted>>
            /\ restarts' = Set(restarts, worker, restarts[worker] + 1)
        BY <2>3, <3>2 DEF ClickRestart
      <4>2. \A w \in Workers : Busy(w) => restarts'[w] <= 1
        BY <1>t, <2>0, <3>1, <4>1 DEF Set
      <4> QED
        BY <2>0, <4>1, <4>2 DEF Patient, Busy
    <3>3. CASE ~(worker # Nobody /\ IsRunning(worker))
      <4>1. OnStart /\ UNCHANGED restarts
        BY <2>3, <3>3 DEF ClickRestart
      <4>2. \A w \in Workers : ~Busy(w)
        BY <1>n, <2>0, <3>3 DEF Busy, IsRunning, Nobody
      <4> QED
        BY <3>1, <4>1, <4>2, Starts DEF Created
    <3> QED
      BY <3>2, <3>3
  <2>4. CASE WorkerStopped
    <3>1. posted # <<>> /\ posted' = Tail(posted) /\ UNCHANGED <<worker, pc, restarts>>
      BY <2>4 DEF WorkerStopped
    <3>2. \A w \in Workers : ~Busy(w)'
      BY <2>0, <3>1 DEF Busy
    <3>3. Len(posted') <= 1 /\ Len(posted') \in Nat
      <4>1. Len(posted) \in Nat /\ Len(posted) <= 2 /\ posted \in Seq(Posts) /\ posted # <<>>
        BY <1>t, <2>0, <3>1
      <4>2. Len(Tail(posted)) = Len(posted) - 1 /\ Len(Tail(posted)) \in Nat
        BY <4>1
      <4> QED
        BY <3>1, <4>1, <4>2
    <3>4. \A i \in 1 .. Len(posted') - 1 : FALSE
      BY <3>3
    <3>5. Len(posted') <= 2
      BY <3>3
    <3> QED
      BY <3>2, <3>4, <3>5 DEF Patient
  <2>5. CASE RestartAfterStop
    <3>1. /\ posted # <<>> /\ posted' = Tail(posted) /\ Head(posted).slot = "restart"
          /\ restarts' = Set(restarts, Head(posted).from, 0) /\ OnStart
      BY <2>5 DEF RestartAfterStop
    <3>2. \A w \in Workers : ~Busy(w)
      BY <2>0, <3>1
    <3>3. posted' = <<>>
      <4>0. posted \in Seq(Posts) /\ posted # <<>>
        BY <1>t, <3>1
      <4>1. Len(posted) >= 1 /\ Len(Tail(posted)) = Len(posted) - 1
        BY <4>0
      <4>h. Head(posted) = posted[1]
        BY <4>0
      <4>2. Len(posted) # 2
        <5>1. SUFFICES ASSUME Len(posted) = 2 PROVE FALSE
          OBVIOUS
        <5>2. 1 \in 1 .. Len(posted) - 1
          BY <5>1
        <5>3. posted[1].slot = "stopped"
          BY <2>0, <5>2
        <5> QED
          BY <3>1, <4>h, <5>3
      <4>3. Len(posted) \in Nat /\ Len(posted) <= 2
        BY <2>0
      <4>4. Len(Tail(posted)) = 0
        <5> DEFINE n == Len(posted)   l == Len(Tail(posted))
        <5>1. n \in Nat /\ n <= 2 /\ n # 2 /\ n >= 1 /\ l = n - 1
          BY <4>1, <4>2, <4>3
        <5> HIDE DEF n, l
        <5>2. l = 0
          BY <5>1
        <5> QED
          BY <5>2 DEF l
      <4>5. Tail(posted) \in Seq(Posts)
        BY <4>0
      <4> QED
        BY <3>1, <4>4, <4>5, EmptySeq
    <3>4. \A w \in Workers : w > created => restarts'[w] = 0
      BY <1>t, <3>1 DEF Created, Set
    <3> QED
      BY <3>1, <3>2, <3>3, <3>4, Starts
  <2> QED
    BY <2>1, <2>2, <2>3, <2>4, <2>5
<1> QED
  BY <1>1, <1>2

LEMMA PatientWorkerStep ==
    ASSUME TypeOK, Patient, NEW w \in Workers, \A v \in Workers : Local(v),
           \/ Open(w) \/ LoopHead(w) \/ Get(w) \/ Send(w) \/ Recv(w) \/ Play(w)
           \/ WriteRaw(w) \/ WriteProcessed(w) \/ Finally(w) \/ Wait(w) \/ Emit(w) \/ ThreadEnds(w)
           \/ InputCallback(w) \/ ChildAnswers(w) \/ ChildDies(w)
    PROVE  Patient'
<1>t. posted \in Seq(Posts) /\ restarts[w] \in Nat
  BY Types
<1>1. /\ UNCHANGED <<worker, buttons, restarts, impatient>>
      /\ \A v \in Workers : Busy(v)' => Busy(v)
  BY BusyStep
<1>2. CASE impatient
  BY <1>1, <1>2 DEF Patient
<1>3. CASE ~impatient /\ UNCHANGED posted
  BY <1>1, <1>3 DEF Patient
<1>4. CASE ~impatient /\ Emit(w) /\ pc[w] = "emit" /\ pc'[w] = "stopped"
  <2>1. Busy(w) /\ ~Busy(w)'
    BY <1>4 DEF Busy
  <2>2. posted = <<>> /\ restarts[w] \in {0, 1} /\ \A v \in Workers : Busy(v) => v = w
    <3>1. posted = <<>> /\ restarts[w] <= 1 /\ \A v \in Workers : Busy(v) => v = w
      BY <1>4, <2>1 DEF Patient
    <3>2. restarts[w] <= 1 => restarts[w] \in {0, 1}
      BY <1>t
    <3> QED
      BY <3>1, <3>2
  <2>3. \A v \in Workers : ~Busy(v)'
    BY <1>1, <2>1, <2>2
  <2> DEFINE stopped == [from |-> w, slot |-> "stopped"]
             again   == [i \in 1 .. restarts[w] |-> [from |-> w, slot |-> "restart"]]
  <2>4. posted' = posted \o <<stopped>> \o again
    BY <1>4 DEF Emit
  <2>5. /\ Len(posted') <= 2 /\ Len(posted') \in Nat
        /\ \A i \in 1 .. Len(posted') - 1 :
              posted'[i].slot = "stopped" /\ posted'[i + 1].slot = "restart"
    <3>1. stopped \in Posts /\ stopped.slot = "stopped"
      BY DEF Posts
    <3>2. again \in Seq(Posts) /\ Len(again) = restarts[w]
          /\ \A i \in 1 .. Len(again) : again[i].slot = "restart"
      <4>1. again \in [1 .. restarts[w] -> Posts]
        BY DEF Posts
      <4>2. \A i \in 1 .. restarts[w] : again[i].slot = "restart"
        OBVIOUS
      <4>3. restarts[w] \in Nat
        BY <1>t
      <4> HIDE DEF again
      <4>4. again \in Seq(Posts) /\ Len(again) = restarts[w]
        BY <4>1, <4>3, SeqDef
      <4>5. \A i \in 1 .. Len(again) : again[i].slot = "restart"
        BY <4>2, <4>4
      <4> QED
        BY <4>4, <4>5
    <3> HIDE DEF stopped, again
    <3>3. posted \o <<stopped>> = <<stopped>>
      BY <2>2, <3>1
    <3>4. posted' = <<stopped>> \o again
      BY <2>4, <3>3
    <3>5. /\ Len(posted') = 1 + Len(again) /\ posted'[1] = stopped
          /\ \A i \in 1 .. Len(again) : posted'[i + 1] = again[i]
      BY <3>1, <3>2, <3>4
    <3>6. Len(again) \in {0, 1}
      BY <2>2, <3>2
    <3>7. ASSUME NEW i \in 1 .. Len(posted') - 1
          PROVE  posted'[i].slot = "stopped" /\ posted'[i + 1].slot = "restart"
      <4>1. i = 1 /\ i \in 1 .. Len(again)
        BY <3>5, <3>6
      <4> QED
        BY <3>1, <3>2, <3>5, <4>1
    <3> QED
      BY <3>5, <3>6, <3>7
  <2> QED
    BY <2>3, <2>5 DEF Patient
<1> QED
  BY <1>2, <1>3, <1>4, BusyStep

-----------------------------------------------------------------------------
LEMMA InvInit == Init => Inv
<1> SUFFICES ASSUME Init PROVE Inv
  OBVIOUS
<1>1. TypeOK /\ \A w \in Workers : Local(w)
  BY TypeInit, LocalInit
<1>2. Created
  BY DEF Init, Each, Created
<1>3. Patient
  <2>1. Len(posted) = 0
    BY DEF Init
  <2> QED
    BY <2>1 DEF Init, Each, Patient, Busy
<1> QED
  BY <1>1, <1>2, <1>3 DEF Inv

LEMMA InvNext == Inv /\ [Next]_vars => Inv'
<1> SUFFICES ASSUME Inv, [Next]_vars PROVE Inv'
  OBVIOUS
<1>0. TypeOK /\ Created /\ Patient /\ \A w \in Workers : Local(w)
  BY DEF Inv
<1>1. CASE \/ ClickStart \/ ClickStop \/ ClickRestart \/ ToggleRecord
          \/ WorkerStopped \/ RestartAfterStop
  <2>1. TypeOK' /\ Created' /\ Patient'
    BY <1>0, <1>1, GuiTypeStep, CreatedStep, PatientGuiStep
  <2>2. \A w \in Workers : Local(w)'
    BY <1>0, <1>1, GuiLocalStep
  <2> QED
    BY <2>1, <2>2 DEF Inv
<1>2. ASSUME NEW w \in Workers,
           \/ Open(w) \/ LoopHead(w) \/ Get(w) \/ Send(w) \/ Recv(w) \/ Play(w)
           \/ WriteRaw(w) \/ WriteProcessed(w) \/ Finally(w) \/ Wait(w) \/ Emit(w) \/ ThreadEnds(w)
           \/ InputCallback(w) \/ ChildAnswers(w) \/ ChildDies(w)
      PROVE  Inv'
  <2>1. Talk(w)
    BY <1>0 DEF Local
  <2>2. TypeOK'
    BY <1>0, <1>2, <2>1, WorkerTypeStep
  <2>3. \A v \in Workers : Local(v)'
    BY <1>0, <1>2, LocalStep
  <2>4. Patient'
    BY <1>0, <1>2, PatientWorkerStep
  <2>5. Created'
    <3>1. created' = created /\ restarts' = restarts /\ \A v \in Workers : pc[v] = "new" => pc'[v] = "new"
      BY <1>0, <1>2, BusyStep
    <3> QED
      BY <1>0, <3>1 DEF Created
  <2> QED
    BY <2>2, <2>3, <2>4, <2>5 DEF Inv
<1>3. CASE UNCHANGED vars
  <2> USE <1>3 DEF vars, gui, files, capture, process, numbers
  <2>1. TypeOK'
    BY <1>0 DEF TypeOK
  <2>2. Created'
    BY <1>0 DEF Created
  <2>3. Patient'
    BY <1>0 DEF Patient, Busy
  <2>4. \A w \in Workers : Local(w)'
    BY <1>0, Frame
  <2> QED
    BY <2>1, <2>2, <2>3, <2>4 DEF Inv
<1> QED
  BY <1>1, <1>2, <1>3 DEF Next

LEMMA Invariance == Spec => []Inv
BY InvInit, InvNext, PTL DEF Spec

\* Every variable has its type, and the queue keeps to its capacity, however
\* many workers, blocks and clicks there are.
THEOREM TypeCorrect == Spec => []TypeOK
<1>1. Inv => TypeOK
  BY DEF Inv
<1> QED
  BY <1>1, Invariance, PTL

\* The processed recording holds, block for block, what was computed from the
\* raw one, and is behind by the block in progress or that failed, only
\* (RealtimeWorker.run).
THEOREM RecordingsBelongTogether == Spec => []Paired
<1>1. Inv => Paired
  <2> SUFFICES ASSUME Inv, NEW w \in Workers
               PROVE  /\ Len(raw[w]) - Len(processed[w]) \in {0, 1}
                      /\ \A i \in 1 .. Len(processed[w]) : processed[w][i] = raw[w][i]
                      /\ Len(raw[w]) # Len(processed[w]) => failed[w] \/ pc[w] = "processed"
                      /\ \A i \in 1 .. Len(raw[w]) - 1 : raw[w][i] < raw[w][i + 1]
    BY DEF Paired
  <2>1. Recorded(w)
    BY DEF Inv, Local
  <2>2. Len(raw[w]) \in Nat /\ Len(processed[w]) \in Nat
    <3>1. TypeOK
      BY DEF Inv
    <3>2. raw[w] \in Seq(Blocks) /\ processed[w] \in Seq(Blocks)
      BY <3>1, Types
    <3> QED
      BY <3>2
  <2>3. Len(raw[w]) - Len(processed[w]) \in {0, 1}
    <3>1. Len(raw[w]) = Len(processed[w]) \/ Len(raw[w]) = Len(processed[w]) + 1
      BY <2>1 DEF Recorded
    <3> QED
      BY <2>2, <3>1
  <2> QED
    BY <2>1, <2>3 DEF Recorded
<1> QED
  BY <1>1, Invariance, PTL

\* The queue holds the newest blocks, and taken, dropped and queued blocks are
\* all that was captured (DropOldestQueue, and the count shown to the user).
THEOREM QueueKeepsTheNewest == Spec => []NewestWins
<1>1. Inv => NewestWins
  BY DEF Inv, Local, Backlog, NewestWins
<1> QED
  BY <1>1, Invariance, PTL

\* A user who waits has one worker at a time at the sound card, and a worker that
\* has reported its end has closed its files and left no subprocess (RealtimeTab,
\* RealtimeWorker.run).
THEOREM OneAtATime == Spec => []OneWorker
<1>1. Inv => OneWorker
  BY DEF Inv, Patient, Local, Released, OneWorker
<1> QED
  BY <1>1, Invariance, PTL
=============================================================================
