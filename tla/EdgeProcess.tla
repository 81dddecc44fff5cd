---------------------------- MODULE EdgeProcess ----------------------------
(***************************************************************************)
(* The remote controller of Sound_Bubble/edge/controller: the threads of   *)
(* the HTTP server call one ProcessManager, which keeps one child process  *)
(* (the edge pipeline) and two reader threads for each child it started.   *)
(*                                                                         *)
(* The manager's re-entrant lock is held by nobody between two actions,    *)
(* save while stop() waits for the child and between Popen and the status  *)
(* that start() returns: every other section is one action.  The poll of   *)
(* a Popen object is the child's state.                                    *)
(***************************************************************************)
EXTENDS Integers, Sequences, SequencesExt

CONSTANTS
    Handlers,      \* the server's request threads
    Configs,       \* the configurations a request may carry
    Invalid,       \* those validate_config raises for
    LogCapacity,   \* log_capacity
    ErrorCapacity, \* error_capacity
    PipeCapacity,  \* lines a pipe of the child holds
    MaxRuns,       \* bound: children started
    MaxCalls,      \* bound: requests
    Kinds,         \* the lines a child writes: "plain", "error", "profile"
    MaxLines       \* bound: lines all children write

ASSUME CapacityAssumption ==
    /\ {LogCapacity, ErrorCapacity, PipeCapacity} \subseteq Nat \ {0}
    /\ {MaxRuns, MaxCalls, MaxLines} \subseteq Nat
ASSUME ConfigAssumption == Invalid \subseteq Configs
ASSUME HandlersAssumption == "free" \notin Handlers
ASSUME KindsAssumption == Kinds \subseteq {"plain", "error", "profile"}

NoProcess == 0
Free      == "free"
Nothing   == "none"      \* None, for a configuration or a return code
Idle      == [op |-> "idle", at |-> "-", config |-> Nothing]
Streams   == {"stdout", "stderr"}
Runs      == 1 .. MaxRuns

VARIABLES
    lock,        \* who holds _lock
    process,     \* _process: the number of the child, or NoProcess
    config,      \* _current_config
    returncode,  \* _last_returncode
    logs,        \* _logs
    errors,      \* _errors
    profile,     \* _last_profile, or none: <<>>
    request,     \* per handler: what it was asked and how far it is
    calls,       \* requests so far
    runs,        \* children started so far
    child,       \* "unborn", "running", "killed" (on its way out), "dead"
    code,        \* the child's exit status
    pipe,        \* the lines it has written that no reader has read
    written,     \* lines the child has written
    reader,      \* reader thread: "none", "reading", "ended", "failed"
    held,        \* the line it has read and not yet handed over
    logged,      \* history: lines of a stream handed to the log
    startedWith, \* history: the configuration of a child
    forgotten    \* history: the return code was cleared by a start that failed

manager  == <<process, config, returncode>>
records  == <<logs, errors, profile>>
children == <<runs, child, code, startedWith>>
output   == <<pipe, written, reader, held, logged>>
vars == <<lock, manager, records, request, calls, children, output, forgotten>>

-----------------------------------------------------------------------------
Init ==
    /\ lock = Free /\ process = NoProcess /\ config = Nothing /\ returncode = Nothing
    /\ logs = <<>> /\ errors = <<>> /\ profile = <<>>
    /\ request = [h \in Handlers |-> Idle] /\ calls = 0
    /\ runs = 0 /\ child = [c \in Runs |-> "unborn"] /\ code = [c \in Runs |-> Nothing]
    /\ startedWith = [c \in Runs |-> Nothing]
    /\ pipe = [r \in Runs \X Streams |-> <<>>] /\ written = [r \in Runs \X Streams |-> 0]
    /\ reader = [r \in Runs \X Streams |-> "none"] /\ held = [r \in Runs \X Streams |-> <<>>]
    /\ logged = [r \in Runs \X Streams |-> 0]
    /\ forgotten = FALSE

Alive(c) == child[c] \in {"running", "killed"}

\* self._process is not None and self._process.poll() is None
IsRunning == process # NoProcess /\ Alive(process)

Valid(c) == c \notin Invalid

\* Mutant of Bounded: an element goes only when the deque is over its length.
BoundedLate(s, x, n) == IF Len(s) > n THEN Append(Tail(s), x) ELSE Append(s, x)

\* A deque of bounded length.
Bounded(s, x, n) == IF Len(s) >= n THEN Append(Tail(s), x) ELSE Append(s, x)

LogLine(line) ==
    /\ logs' = Bounded(logs, line, LogCapacity)
    /\ errors' = IF line.stream = "stderr" \/ line.kind = "error"
                 THEN Bounded(errors, line, ErrorCapacity) ELSE errors

AppendLog(line) ==
    /\ LogLine(line)
    /\ profile' = IF line.kind = "profile" THEN <<line>> ELSE profile

-----------------------------------------------------------------------------
(* A handler thread.  A restart is a stop followed by a start, with the    *)
(* lock released between them.                                             *)

Call(h, op, c) ==
    /\ request[h] = Idle /\ calls < MaxCalls
    /\ request' = [request EXCEPT ![h] = [op |-> op, at |-> "called", config |-> c]]
    /\ calls' = calls + 1
    /\ UNCHANGED <<lock, manager, records, children, output, forgotten>>

Asked(h, ops) == request[h].op \in ops /\ request[h].at = "called" /\ lock = Free
At(h, place)  == request[h].at = place
Goes(h, place) == request' = [request EXCEPT ![h].at = place]
Answers(h)    == request' = [request EXCEPT ![h] = Idle]

\* The first half of restart() is over: the second begins.
StopReturns(h) ==
    request' = [request EXCEPT ![h] =
                    IF @.op = "restart" THEN [@ EXCEPT !.op = "start", !.at = "called"] ELSE Idle]

\* start(): already running, or a configuration that does not validate.
Refuse(h) ==
    /\ Asked(h, {"start"})
    /\ IsRunning \/ ~Valid(request[h].config)
    /\ Answers(h)
    /\ UNCHANGED <<lock, manager, records, calls, children, output, forgotten>>

Forget == logs' = <<>> /\ errors' = <<>> /\ profile' = <<>> /\ returncode' = Nothing

\* start(): Popen raises, when the records are already cleared.
FailToSpawn(h) ==
    /\ Asked(h, {"start"}) /\ ~IsRunning /\ Valid(request[h].config)
    /\ Forget /\ forgotten' = TRUE
    /\ Answers(h)
    /\ UNCHANGED <<lock, process, config, calls, children, output>>

Spawn(h) ==
    /\ Asked(h, {"start"}) /\ ~IsRunning /\ Valid(request[h].config)
    /\ runs < MaxRuns
    /\ Forget /\ forgotten' = FALSE
    /\ runs' = runs + 1
    /\ process' = runs' /\ config' = request[h].config
    /\ child' = [child EXCEPT ![runs'] = "running"]
    /\ startedWith' = [startedWith EXCEPT ![runs'] = request[h].config]
    /\ reader' = [r \in Runs \X Streams |-> IF r[1] = runs' THEN "reading" ELSE reader[r]]
    /\ lock' = h /\ Goes(h, "report")
    /\ UNCHANGED <<calls, code, pipe, written, held, logged>>

\* Mutant of Reap: the return code of the child found dead is not kept.
ReapSilently ==
    /\ process' = IF process # NoProcess /\ ~Alive(process) THEN NoProcess ELSE process
    /\ UNCHANGED returncode

\* status(): a child found dead is taken off.
Reap ==
    IF process # NoProcess /\ ~Alive(process)
    THEN returncode' = code[process] /\ process' = NoProcess
    ELSE UNCHANGED <<returncode, process>>

Status(h) ==
    /\ Asked(h, {"status"}) \/ (At(h, "report") /\ lock = h)
    /\ Reap
    /\ lock' = Free /\ Answers(h)
    /\ UNCHANGED <<config, records, calls, children, output, forgotten>>

\* stop() with nothing to wait for.
StopAtOnce(h) ==
    /\ Asked(h, {"stop", "restart"}) /\ ~IsRunning
    /\ Reap
    /\ StopReturns(h)
    /\ UNCHANGED <<lock, config, records, calls, children, output, forgotten>>

\* terminate(), which the child may obey or ignore; the lock is kept.
Terminate(h) ==
    /\ Asked(h, {"stop", "restart"}) /\ IsRunning
    /\ lock' = h /\ Goes(h, "wait")
    /\ UNCHANGED <<manager, records, calls, children, output, forgotten>>

\* wait() returns: the child is dead.
Waited(h) ==
    /\ At(h, "wait") \/ At(h, "killed")
    /\ ~Alive(process)
    /\ returncode' = code[process] /\ process' = NoProcess
    /\ lock' = Free /\ StopReturns(h)
    /\ UNCHANGED <<config, records, calls, children, output, forgotten>>

\* Mutant of Kill: wait() has no timeout.
KillNever(h) == FALSE

\* wait() times out: one line for the log, and kill().
Kill(h) ==
    /\ At(h, "wait") /\ Alive(process)
    /\ AppendLog([run |-> process, stream |-> "stderr", n |-> 0, kind |-> "plain"])
    /\ child' = [child EXCEPT ![process] = "killed"]
    /\ Goes(h, "killed")
    /\ UNCHANGED <<lock, manager, calls, runs, code, startedWith, output, forgotten>>

\* Mutant of GiveUp: the child is forgotten although it lives.
GiveUpForgets(h) ==
    /\ At(h, "killed") /\ Alive(process)
    /\ process' = NoProcess
    /\ lock' = Free /\ Answers(h)
    /\ UNCHANGED <<config, returncode, records, calls, children, output, forgotten>>

\* The second wait() times out: the exception leaves stop(), and _process set.
GiveUp(h) ==
    /\ At(h, "killed") /\ Alive(process)
    /\ lock' = Free /\ Answers(h)
    /\ UNCHANGED <<manager, records, calls, children, output, forgotten>>

HandlerStep(h) ==
    \/ Refuse(h) \/ FailToSpawn(h) \/ Spawn(h) \/ Status(h)
    \/ StopAtOnce(h) \/ Terminate(h) \/ Waited(h) \/ Kill(h) \/ GiveUp(h)

-----------------------------------------------------------------------------
(* The child and its readers.                                              *)

\* A pipe whose reader failed is closed: the child's write raises.
Writes(c, s, kind) ==
    /\ child[c] = "running" /\ reader[<<c, s>>] # "failed"
    /\ FoldFunction(+, 0, written) < MaxLines /\ Len(pipe[<<c, s>>]) < PipeCapacity
    /\ written' = [written EXCEPT ![<<c, s>>] = @ + 1]
    /\ pipe' = [pipe EXCEPT ![<<c, s>>] =
                    Append(@, [run |-> c, stream |-> s, n |-> written'[<<c, s>>], kind |-> kind])]
    /\ UNCHANGED <<lock, manager, records, request, calls, children, reader, held, logged, forgotten>>

\* Of itself, on SIGTERM, or killed.
Exit(c) ==
    /\ Alive(c)
    /\ code' = [code EXCEPT ![c] = IF child[c] = "killed" THEN "killed" ELSE "exited"]
    /\ child' = [child EXCEPT ![c] = "dead"]
    /\ UNCHANGED <<lock, manager, records, request, calls, runs, startedWith, output, forgotten>>

\* stream.readline(), the lock not held.
ReadLine(r) ==
    /\ reader[r] = "reading" /\ held[r] = <<>> /\ pipe[r] # <<>>
    /\ held' = [held EXCEPT ![r] = <<Head(pipe[r])>>]
    /\ pipe' = [pipe EXCEPT ![r] = Tail(@)]
    /\ UNCHANGED <<lock, manager, records, request, calls, children, written, reader, logged,
                   forgotten>>

HandOver(r) ==
    /\ held[r] # <<>> /\ lock = Free
    /\ AppendLog(held[r][1])
    /\ logged' = [logged EXCEPT ![r] = @ + 1]
    /\ held' = [held EXCEPT ![r] = <<>>]
    /\ UNCHANGED <<lock, manager, request, calls, children, pipe, written, reader, forgotten>>

\* Mutant of EndOfFile: the reader stops with the child, whatever is in the pipe.
EndOfChild(r) ==
    /\ reader[r] = "reading" /\ child[r[1]] = "dead" /\ held[r] = <<>>
    /\ reader' = [reader EXCEPT ![r] = "ended"]
    /\ UNCHANGED <<lock, manager, records, request, calls, children, pipe, written, held, logged,
                   forgotten>>

\* End of file: the child has closed its end and the pipe is empty.
EndOfFile(r) ==
    /\ reader[r] = "reading" /\ child[r[1]] = "dead" /\ held[r] = <<>> /\ pipe[r] = <<>>
    /\ reader' = [reader EXCEPT ![r] = "ended"]
    /\ UNCHANGED <<lock, manager, records, request, calls, children, pipe, written, held, logged,
                   forgotten>>

\* readline() raises, on text it cannot decode: the stream is closed, with what
\* is left in it.
ReadFails(r) ==
    /\ reader[r] = "reading" /\ held[r] = <<>> /\ pipe[r] # <<>>
    /\ reader' = [reader EXCEPT ![r] = "failed"]
    /\ UNCHANGED <<lock, manager, records, request, calls, children, pipe, written, held, logged,
                   forgotten>>

\* parse_profile_line() raises, on a field that is no number: the line is logged,
\* the profile is not replaced.
ParseFails(r) ==
    /\ held[r] # <<>> /\ lock = Free
    /\ held[r][1].kind = "profile" /\ LogLine(held[r][1])
    /\ logged' = [logged EXCEPT ![r] = @ + 1]
    /\ held' = [held EXCEPT ![r] = <<>>]
    /\ reader' = [reader EXCEPT ![r] = "failed"]
    /\ UNCHANGED <<lock, manager, profile, request, calls, children, pipe, written, forgotten>>

ReaderStep(r) == ReadLine(r) \/ HandOver(r) \/ EndOfFile(r) \/ ReadFails(r) \/ ParseFails(r)

Next ==
    \/ \E h \in Handlers :
          \/ \E op \in {"start", "restart"}, c \in Configs : Call(h, op, c)
          \/ \E op \in {"stop", "status"} : Call(h, op, Nothing)
          \/ Refuse(h) \/ FailToSpawn(h) \/ Spawn(h) \/ Status(h)
          \/ StopAtOnce(h) \/ Terminate(h) \/ Waited(h) \/ Kill(h) \/ GiveUp(h)
    \/ \E c \in Runs : Exit(c) \/ \E s \in Streams, k \in Kinds : Writes(c, s, k)
    \/ \E r \in Runs \X Streams :
          ReadLine(r) \/ HandOver(r) \/ EndOfFile(r) \/ ReadFails(r) \/ ParseFails(r)

Spec == Init /\ [][Next]_vars

\* Threads run, and the system carries a SIGKILL out.
FairSpec ==
    /\ Spec
    /\ \A h \in Handlers : WF_vars(HandlerStep(h))
    /\ \A r \in Runs \X Streams : WF_vars(ReaderStep(r))
    /\ \A c \in Runs : WF_vars(child[c] = "killed" /\ Exit(c))

-----------------------------------------------------------------------------
Lines == [run : Runs, stream : Streams, n : Nat, kind : {"plain", "error", "profile"}]
Requests == [op : {"idle", "start", "restart", "stop", "status"},
             at : {"-", "called", "report", "wait", "killed"},
             config : Configs \cup {Nothing}]

\* Every variable has its type and the deques keep to their capacity.
TypeOK ==
    /\ lock \in Handlers \cup {Free}
    /\ process \in 0 .. MaxRuns /\ runs \in 0 .. MaxRuns /\ calls \in 0 .. MaxCalls
    /\ config \in Configs \cup {Nothing} /\ returncode \in {Nothing, "exited", "killed"}
    /\ logs \in Seq(Lines) /\ Len(logs) <= LogCapacity
    /\ errors \in Seq(Lines) /\ Len(errors) <= ErrorCapacity
    /\ profile \in Seq(Lines) /\ Len(profile) <= 1
    /\ request \in [Handlers -> Requests]
    /\ child \in [Runs -> {"unborn", "running", "killed", "dead"}]
    /\ code \in [Runs -> {Nothing, "exited", "killed"}]
    /\ startedWith \in [Runs -> Configs \cup {Nothing}]
    /\ reader \in [Runs \X Streams -> {"none", "reading", "ended", "failed"}]
    /\ {written, logged} \subseteq [Runs \X Streams -> Nat]
    /\ {pipe, held} \subseteq [Runs \X Streams -> Seq(Lines)]
    /\ \A r \in Runs \X Streams : Len(pipe[r]) <= PipeCapacity /\ Len(held[r]) <= 1
    /\ forgotten \in BOOLEAN

\* Whatever requests overlap, time out or fail, no child runs beside the one the
\* manager keeps: stop() can always reach it, and the sound card has one user.
OneChild == \A c \in Runs : Alive(c) => c = process

\* What a status tells belongs together: with a kept child there is the
\* configuration it was started with and no return code of an earlier one; with
\* none, the return code is that of the child started last, unless a failed
\* start has cleared it.
StatusTrue ==
    /\ process # NoProcess => config = startedWith[process] /\ returncode = Nothing
    /\ process = NoProcess /\ runs > 0 =>
          returncode = code[runs] \/ (forgotten /\ returncode = Nothing)

OfStream(line, r) == line.run = r[1] /\ line.stream = r[2] /\ line.n > 0

\* The lines of stream r in the log s have consecutive numbers up to `last'.
Consecutive(s, r, last) ==
    \A i \in 1 .. Len(s) : OfStream(s[i], r) =>
        /\ s[i].n <= last
        /\ \A j \in 1 .. i - 1 : OfStream(s[j], r) => s[j].n < s[i].n
        /\ s[i].n < last =>
              \E j \in i + 1 .. Len(s) : OfStream(s[j], r) /\ s[j].n = s[i].n + 1

\* No line of a child is lost or reordered between its pipe and the log, whoever
\* holds the lock and whenever the child dies: what was written is logged, held
\* or unread; a reader that does not fail ends when all is logged, and one that
\* fails loses what it has not read and nothing else; and of one stream the log
\* keeps a run of consecutive lines, the last one of which was logged last.
Delivered ==
    \A r \in Runs \X Streams :
        /\ written[r] = logged[r] + Len(held[r]) + Len(pipe[r])
        /\ reader[r] = "ended" => logged[r] = written[r]
        /\ Consecutive(logs, r, logged[r])

\* Every request is answered, also when the child ignores SIGTERM or does not
\* die of SIGKILL in time, and although stop() keeps the lock while it waits.
Answered == \A h \in Handlers : request[h] # Idle ~> request[h] = Idle
=============================================================================
