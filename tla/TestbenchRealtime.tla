------------------------- MODULE TestbenchRealtime -------------------------
(***************************************************************************)
(* The live mode of the test bench: the RealtimeTab of the user interface, *)
(* the RealtimeWorker threads it starts (controller/realtime_controller.py *)
(* over audio_io/block_queue.py), and for each worker the input stream and *)
(* the subprocess behind processing/stream_adapter.py.                     *)
(*                                                                         *)
(* A block is named by its capture number, an answer of the subprocess by  *)
(* the block it was computed from.                                         *)
(***************************************************************************)
EXTENDS Integers, Sequences, Functions

CONSTANTS
    MaxWorkers,    \* bound: workers the tab creates
    QueueCapacity, \* the queue's capacity
    MaxBlocks,     \* bound: blocks the streams of all workers capture
    MaxClicks      \* bound: what the user does

ASSUME CapacityAssumption == QueueCapacity \in Nat \ {0}
ASSUME BoundsAssumption   == {MaxWorkers, MaxBlocks, MaxClicks} \subseteq Nat

Workers == 1 .. MaxWorkers
Nobody == 0      \* _worker is None
None   == 0      \* no block, no sequence number

VARIABLES
    worker,      \* _worker: the last one created
    created,     \* workers created so far
    buttons,     \* the buttons that are enabled
    checked,     \* RECORD is checked
    restarts,    \* per worker: connections of stopped to _restart_after_stop
    posted,      \* deliveries of `stopped' waiting for the GUI thread
    clicks,      \* what the user has done so far
    impatient,   \* history: a start was asked for before the last one was settled
    pc,          \* where run() is
    stop,        \* _stop_event
    recording,   \* _recording_requested
    active,      \* _recording_active
    raw,         \* blocks written to the raw recording
    processed,   \* blocks written to the processed recording
    open,        \* the files that are open: "raw", "processed"
    failed,      \* history: run() was left by an exception
    queue,       \* DropOldestQueue
    captured,    \* blocks captured
    dropped,     \* _dropped_blocks
    taken,       \* history: blocks taken from the queue
    block,       \* device_block
    answer,      \* processed_block: the block it was computed from
    streams,     \* the open streams that run() holds: "in", "out"
    child,       \* the subprocess: "none", "running", "dead"
    stdin,       \* requests in its pipe: sequence number and block
    stdout,      \* its answers
    sent,        \* _last_sent_sequence
    next         \* _next_sequence

gui     == <<worker, created, buttons, checked, restarts, posted, clicks, impatient>>
files   == <<active, raw, processed, open>>
capture == <<queue, captured, dropped, taken>>
process == <<child, stdin, stdout>>
numbers == <<sent, next>>
vars == <<gui, pc, stop, recording, files, failed, capture, block, answer, streams, process, numbers>>

-----------------------------------------------------------------------------
Each(x) == [w \in Workers |-> x]

Init ==
    /\ worker = Nobody /\ created = 0
    /\ buttons = {"start"} /\ checked = FALSE
    /\ restarts = Each(0) /\ posted = <<>> /\ clicks = 0 /\ impatient = FALSE
    /\ pc = Each("new") /\ stop = Each(FALSE) /\ recording = Each(FALSE)
    /\ active = Each(FALSE) /\ raw = Each(<<>>) /\ processed = Each(<<>>) /\ open = Each({})
    /\ failed = Each(FALSE)
    /\ queue = Each(<<>>) /\ captured = Each(0) /\ dropped = Each(0) /\ taken = Each(0)
    /\ block = Each(None) /\ answer = Each(None) /\ streams = Each({})
    /\ child = Each("none") /\ stdin = Each(<<>>) /\ stdout = Each(<<>>)
    /\ sent = Each(None) /\ next = Each(1)

Set(f, w, x) == [f EXCEPT ![w] = x]

\* Between the start of run() and its last signal, or the exception that takes
\* its place; and until the thread has ended.
Busy(w)      == pc[w] \notin {"new", "stopped", "raised", "ended", "crashed"}
IsRunning(w) == pc[w] \notin {"new", "ended", "crashed"}

-----------------------------------------------------------------------------
(* The GUI thread.                                                         *)

\* _on_start(): nothing happens when a device or the configuration is wrong.
OnStart ==
    \/ UNCHANGED <<worker, created, pc>> /\ buttons' = buttons
    \/ /\ created + 1 \in Workers
       /\ created' = created + 1 /\ worker' = created'
       /\ pc' = Set(pc, worker', "open")
       /\ buttons' = (buttons \ {"start"}) \cup {"stop", "restart", "record"}

Click(b) == b \in buttons /\ clicks < MaxClicks /\ clicks' = clicks + 1

\* A restart to come, or the end of a worker not yet shown to the user.
Unsettled == posted # <<>> \/ \E w \in Workers : Busy(w) /\ restarts[w] > 0

rest == <<stop, recording, files, failed, capture, block, answer, streams, process, numbers>>

ClickStart ==
    /\ Click("start")
    /\ OnStart
    /\ impatient' = (impatient \/ Unsettled)
    /\ UNCHANGED <<checked, restarts, posted, rest>>

ClickStop ==
    /\ Click("stop")
    /\ stop' = IF worker = Nobody THEN stop ELSE Set(stop, worker, TRUE)
    /\ buttons' = buttons \ {"stop"}
    /\ UNCHANGED <<worker, created, checked, restarts, posted, impatient, pc, recording, files,
                   failed, capture, block, answer, streams, process, numbers>>

\* Mutant of ClickRestart: the new worker is started at once.
ClickRestartAtOnce ==
    /\ Click("restart")
    /\ impatient' = (impatient \/ Unsettled)
    /\ stop' = IF worker = Nobody THEN stop ELSE Set(stop, worker, TRUE)
    /\ OnStart
    /\ UNCHANGED <<restarts, checked, posted, recording, files, failed, capture, block, answer, streams,
                   process, numbers>>

\* Also a changed pipeline file or setting, while a worker runs.
ClickRestart ==
    /\ Click("restart")
    /\ impatient' = (impatient \/ Unsettled)
    /\ IF worker # Nobody /\ IsRunning(worker)
       THEN /\ restarts' = Set(restarts, worker, restarts[worker] + 1)
            /\ stop' = Set(stop, worker, TRUE)
            /\ UNCHANGED <<worker, created, buttons, pc>>
       ELSE OnStart /\ UNCHANGED <<restarts, stop>>
    /\ UNCHANGED <<checked, posted, recording, files, failed, capture, block, answer, streams,
                   process, numbers>>

SetRecording(on) == recording' = IF worker = Nobody THEN recording ELSE Set(recording, worker, on)

ToggleRecord ==
    /\ Click("record")
    /\ checked' = ~checked
    /\ SetRecording(checked')
    /\ buttons' = IF checked' THEN buttons \ {"save"} ELSE buttons \cup {"save"}
    /\ UNCHANGED <<worker, created, restarts, posted, impatient, pc, stop, files, failed, capture,
                   block, answer, streams, process, numbers>>

\* _on_worker_stopped(): unchecking RECORD reaches the worker that is now current.
WorkerStopped ==
    /\ posted # <<>> /\ Head(posted).slot = "stopped"
    /\ posted' = Tail(posted)
    /\ checked' = FALSE
    /\ IF checked THEN SetRecording(FALSE) ELSE UNCHANGED recording
    /\ buttons' = (buttons \ {"stop", "record"}) \cup {"start", "restart"}
                    \cup (IF checked THEN {"save"} ELSE {})
    /\ UNCHANGED <<worker, created, restarts, clicks, impatient, pc, stop, files, failed, capture,
                   block, answer, streams, process, numbers>>

\* _restart_after_stop(): disconnect() removes every connection of the sender,
\* but not what has been posted.
RestartAfterStop ==
    /\ posted # <<>> /\ Head(posted).slot = "restart"
    /\ posted' = Tail(posted)
    /\ restarts' = Set(restarts, Head(posted).from, 0)
    /\ OnStart
    /\ UNCHANGED <<checked, clicks, impatient, rest>>

Deliver == WorkerStopped \/ RestartAfterStop

-----------------------------------------------------------------------------
(* A worker thread.                                                        *)

Fails(w) == failed' = Set(failed, w, TRUE) /\ pc' = Set(pc, w, "finally")

\* The subprocess and the two streams, opened in this order and then started.
Open(w) ==
    /\ pc[w] = "open"
    /\ \/ /\ child' = Set(child, w, "running") /\ streams' = Set(streams, w, {"in", "out"})
          /\ pc' = Set(pc, w, "loop") /\ UNCHANGED failed
       \/ /\ \/ UNCHANGED <<child, streams>>
             \/ /\ child' = Set(child, w, "running")
                /\ \E opened \in {{}, {"in"}, {"in", "out"}} : streams' = Set(streams, w, opened)
          /\ Fails(w)
    /\ UNCHANGED <<gui, stop, recording, files, capture, block, answer, stdin, stdout, numbers>>

\* _close_recording_files(): the raw file first. A close() that raises has given
\* the file up nevertheless, and skips what comes after it.
FilesClosed(w) == open' = Set(open, w, {})
CloseRaises(w) ==
    \/ "raw" \in open[w] /\ open' = Set(open, w, open[w] \ {"raw"})
    \/ "processed" \in open[w] /\ FilesClosed(w)

\* _sync_recording_state(), RECORD checked: two new files, opened one after the
\* other. It raises before there are any, or with none or one of them open.
NewFiles(w) == raw' = Set(raw, w, <<>>) /\ processed' = Set(processed, w, <<>>)
StartRecording(w) ==
    /\ recording[w] /\ ~active[w]
    /\ \/ /\ NewFiles(w) /\ open' = Set(open, w, {"raw", "processed"})
          /\ active' = Set(active, w, TRUE)
          /\ pc' = Set(pc, w, "get") /\ UNCHANGED failed
       \/ UNCHANGED files /\ Fails(w)
       \/ NewFiles(w) /\ open' \in {open, Set(open, w, {"raw"})} /\ UNCHANGED active /\ Fails(w)

\* ... and unchecked.
EndRecording(w) ==
    /\ ~recording[w] /\ active[w]
    /\ \/ /\ FilesClosed(w) /\ active' = Set(active, w, FALSE)
          /\ pc' = Set(pc, w, "get") /\ UNCHANGED failed
       \/ CloseRaises(w) /\ UNCHANGED active /\ Fails(w)
    /\ UNCHANGED <<raw, processed>>

\* The head of the loop.
LoopHead(w) ==
    /\ pc[w] = "loop"
    /\ \/ stop[w] /\ pc' = Set(pc, w, "finally") /\ UNCHANGED <<files, failed>>
       \/ /\ ~stop[w]
          /\ \/ StartRecording(w)
             \/ EndRecording(w)
             \/ /\ recording[w] = active[w]
                /\ pc' = Set(pc, w, "get") /\ UNCHANGED <<files, failed>>
    /\ UNCHANGED <<gui, stop, recording, capture, block, answer, streams, process, numbers>>

\* input_queue.get(timeout=0.5): a block, or none and round again.
Get(w) ==
    /\ pc[w] = "get"
    /\ IF queue[w] = <<>>
       THEN pc' = Set(pc, w, "loop") /\ UNCHANGED <<queue, block, taken>>
       ELSE /\ block' = Set(block, w, Head(queue[w]))
            /\ queue' = Set(queue, w, Tail(queue[w]))
            /\ taken' = Set(taken, w, taken[w] + 1)
            /\ pc' = Set(pc, w, "send")
    /\ UNCHANGED <<gui, stop, recording, files, failed, captured, dropped, answer, streams, process,
                   numbers>>

\* send_block(): the process has exited, or the pipe is broken.
Send(w) ==
    /\ pc[w] = "send"
    /\ IF child[w] = "dead"
       THEN Fails(w) /\ UNCHANGED <<stdin, numbers>>
       ELSE /\ stdin' = Set(stdin, w, Append(stdin[w], [seq |-> next[w], of |-> block[w]]))
            /\ sent' = Set(sent, w, next[w]) /\ next' = Set(next, w, next[w] + 1)
            /\ pc' = Set(pc, w, "recv") /\ UNCHANGED failed
    /\ UNCHANGED <<gui, stop, recording, files, capture, block, answer, streams, child, stdout>>

\* recv_block(), without a timeout: an answer, checked against the last number
\* sent, or the end of the file. (A request that fills the pipe makes send_block()
\* wait for the same subprocess; that wait is part of this one.)
Recv(w) ==
    /\ pc[w] = "recv"
    /\ \/ /\ stdout[w] # <<>>
          /\ stdout' = Set(stdout, w, Tail(stdout[w]))
          /\ IF Head(stdout[w]).seq = sent[w]
             THEN /\ answer' = Set(answer, w, Head(stdout[w]).of)
                  /\ pc' = Set(pc, w, "play") /\ UNCHANGED failed
             ELSE Fails(w) /\ UNCHANGED answer
       \/ /\ stdout[w] = <<>> /\ child[w] = "dead"
          /\ Fails(w) /\ UNCHANGED <<stdout, answer>>
    /\ UNCHANGED <<gui, stop, recording, files, capture, block, streams, child, stdin, numbers>>

\* output_stream.write(), which may raise.
Play(w) ==
    /\ pc[w] = "play"
    /\ \/ pc' = Set(pc, w, IF active[w] THEN "raw" ELSE "loop") /\ UNCHANGED failed
       \/ Fails(w)
    /\ UNCHANGED <<gui, stop, recording, files, capture, block, answer, streams, process, numbers>>

\* The two writes of the recording, each of which may raise (a full disk).
WriteRaw(w) ==
    /\ pc[w] = "raw"
    /\ \/ /\ raw' = Set(raw, w, Append(raw[w], block[w]))
          /\ pc' = Set(pc, w, "processed") /\ UNCHANGED failed
       \/ Fails(w) /\ UNCHANGED raw
    /\ UNCHANGED <<gui, stop, recording, active, processed, open, capture, block, answer, streams,
                   process, numbers>>

\* Mutant of WriteProcessed: an error of the second write is passed over.
WriteProcessedQuietly(w) ==
    /\ pc[w] = "processed"
    /\ processed' \in {processed, Set(processed, w, Append(processed[w], answer[w]))}
    /\ pc' = Set(pc, w, "loop")
    /\ UNCHANGED <<gui, stop, recording, active, raw, open, failed, capture, block, answer, streams,
                   process, numbers>>

WriteProcessed(w) ==
    /\ pc[w] = "processed"
    /\ \/ /\ processed' = Set(processed, w, Append(processed[w], answer[w]))
          /\ pc' = Set(pc, w, "loop") /\ UNCHANGED failed
       \/ Fails(w) /\ UNCHANGED processed
    /\ UNCHANGED <<gui, stop, recording, active, raw, open, capture, block, answer, streams, process,
                   numbers>>

\* finally: the files are closed, then the streams, then the process is told to
\* shut down. An error of a file leaves run() there and then, with the streams and
\* the process as they are; a stream that cannot be stopped or closed stays open.
Finally(w) ==
    /\ pc[w] = "finally"
    /\ \/ /\ FilesClosed(w)
          /\ \E left \in SUBSET streams[w] : streams' = Set(streams, w, left)
          /\ stdin' = IF child[w] = "running"
                      THEN Set(stdin, w, Append(stdin[w], [seq |-> next[w], of |-> None])) ELSE stdin
          /\ pc' = Set(pc, w, "wait") /\ UNCHANGED failed
       \/ /\ CloseRaises(w)
          /\ failed' = Set(failed, w, TRUE) /\ pc' = Set(pc, w, "raised")
          /\ UNCHANGED <<streams, stdin>>
    /\ UNCHANGED <<gui, stop, recording, active, raw, processed, capture, block, answer,
                   child, stdout, numbers>>

\* The rest of close(): wait(timeout=5), then kill.
Wait(w) ==
    /\ pc[w] = "wait"
    /\ child' = IF child[w] = "running" THEN Set(child, w, "dead") ELSE child
    /\ stdin' = Set(stdin, w, <<>>) /\ stdout' = Set(stdout, w, <<>>)
    /\ pc' = Set(pc, w, "emit")
    /\ UNCHANGED <<gui, stop, recording, files, failed, capture, block, answer, streams, numbers>>

\* Mutant of Emit: the signal stands at the end of the loop, not in finally.
EmitAfterLoop(w) ==
    /\ pc[w] = "emit"
    /\ posted' = IF failed[w] THEN posted
                 ELSE posted \o <<[from |-> w, slot |-> "stopped"]>>
                             \o [i \in 1 .. restarts[w] |-> [from |-> w, slot |-> "restart"]]
    /\ pc' = Set(pc, w, "stopped")
    /\ UNCHANGED <<worker, created, buttons, checked, restarts, clicks, impatient, stop, recording,
                   files, failed, capture, block, answer, streams, process, numbers>>

\* `stopped' is emitted, once for every connection.
Emit(w) ==
    /\ pc[w] = "emit"
    /\ posted' = posted \o <<[from |-> w, slot |-> "stopped"]>>
                        \o [i \in 1 .. restarts[w] |-> [from |-> w, slot |-> "restart"]]
    /\ pc' = Set(pc, w, "stopped")
    /\ UNCHANGED <<worker, created, buttons, checked, restarts, clicks, impatient, stop, recording,
                   files, failed, capture, block, answer, streams, process, numbers>>

\* run() has been left, and what was local to it is gone.
ThreadEnds(w) ==
    /\ \/ pc[w] = "stopped" /\ pc' = Set(pc, w, "ended")
       \/ pc[w] = "raised"  /\ pc' = Set(pc, w, "crashed")
    /\ queue' = Set(queue, w, <<>>) /\ dropped' = Set(dropped, w, 0) /\ taken' = Set(taken, w, 0)
    /\ block' = Set(block, w, None) /\ answer' = Set(answer, w, None)
    /\ sent' = Set(sent, w, None) /\ next' = Set(next, w, 1) /\ streams' = Set(streams, w, {})
    /\ UNCHANGED <<gui, stop, recording, files, failed, captured, process>>

\* recv_block() waits, and nobody but the subprocess can end that: the one place
\* where a running worker has no step to take.
Hangs(w) == pc[w] = "recv" /\ stdout[w] = <<>> /\ child[w] = "running"

WorkerReady(w) == IsRunning(w) /\ ~Hangs(w)
WorkerMoves(w) == pc'[w] # pc[w]

-----------------------------------------------------------------------------
(* The sound card and the subprocess.                                      *)

\* Mutants of InputCallback: the newest queued block is the one that goes; none
\* goes in time.
PutDropsLast(w) ==
    /\ streams[w] = {"in", "out"} /\ FoldFunction(+, 0, captured) < MaxBlocks
    /\ captured' = Set(captured, w, captured[w] + 1)
    /\ LET full == Len(queue[w]) >= QueueCapacity
           kept == IF full THEN SubSeq(queue[w], 1, Len(queue[w]) - 1) ELSE queue[w]
       IN  /\ queue' = Set(queue, w, Append(kept, captured[w] + 1))
           /\ dropped' = Set(dropped, w, dropped[w] + (IF full THEN 1 ELSE 0))
    /\ UNCHANGED <<gui, pc, stop, recording, files, failed, taken, block, answer, streams, process,
                   numbers>>

PutOverfull(w) ==
    /\ streams[w] = {"in", "out"} /\ FoldFunction(+, 0, captured) < MaxBlocks
    /\ captured' = Set(captured, w, captured[w] + 1)
    /\ queue' = Set(queue, w, Append(queue[w], captured[w] + 1))
    /\ UNCHANGED <<gui, pc, stop, recording, files, failed, dropped, taken, block, answer, streams,
                   process, numbers>>

\* input_callback: DropOldestQueue.put(). The streams are started when both are open.
InputCallback(w) ==
    /\ streams[w] = {"in", "out"} /\ FoldFunction(+, 0, captured) < MaxBlocks
    /\ captured' = Set(captured, w, captured[w] + 1)
    /\ LET full == Len(queue[w]) >= QueueCapacity
       IN  /\ queue' = Set(queue, w, Append(IF full THEN Tail(queue[w]) ELSE queue[w], captured[w] + 1))
           /\ dropped' = Set(dropped, w, dropped[w] + (IF full THEN 1 ELSE 0))
    /\ UNCHANGED <<gui, pc, stop, recording, files, failed, taken, block, answer, streams, process,
                   numbers>>

\* It answers every block with the block's number, and leaves on the shutdown message.
ChildAnswers(w) ==
    /\ child[w] = "running" /\ stdin[w] # <<>>
    /\ stdin' = Set(stdin, w, Tail(stdin[w]))
    /\ IF Head(stdin[w]).of = None
       THEN child' = Set(child, w, "dead") /\ UNCHANGED stdout
       ELSE stdout' = Set(stdout, w, Append(stdout[w], Head(stdin[w]))) /\ UNCHANGED child
    /\ UNCHANGED <<gui, pc, stop, recording, files, failed, capture, block, answer, streams, numbers>>

\* An error of its own, or a signal.
ChildDies(w) ==
    /\ child[w] = "running"
    /\ child' = Set(child, w, "dead")
    /\ UNCHANGED <<gui, pc, stop, recording, files, failed, capture, block, answer, streams, stdin,
                   stdout, numbers>>

Next ==
    \/ ClickStart \/ ClickStop \/ ClickRestart \/ ToggleRecord
    \/ WorkerStopped \/ RestartAfterStop
    \/ \E w \in Workers :
          \/ Open(w) \/ LoopHead(w) \/ Get(w) \/ Send(w) \/ Recv(w) \/ Play(w)
          \/ WriteRaw(w) \/ WriteProcessed(w) \/ Finally(w) \/ Wait(w) \/ Emit(w) \/ ThreadEnds(w)
          \/ InputCallback(w) \/ ChildAnswers(w) \/ ChildDies(w)

Spec == Init /\ [][Next]_vars

\* Threads run and the event loop delivers; the subprocess owes nothing. Weak
\* fairness of WorkerStep(w), with its ENABLED written out.
FairSpec ==
    /\ Spec
    /\ WF_vars(Deliver)
    /\ \A w \in Workers : []<>~WorkerReady(w) \/ []<><<WorkerMoves(w)>>_pc

-----------------------------------------------------------------------------
Buttons == {"start", "stop", "restart", "record", "save"}
Places  == {"new", "open", "loop", "get", "send", "recv", "play", "raw", "processed", "finally",
            "wait", "emit", "stopped", "raised", "ended", "crashed"}

Blocks == Nat \ {None}

\* Every variable has its type, and the queue keeps to its capacity.
TypeOK ==
    /\ worker \in Workers \cup {Nobody} /\ created \in Workers \cup {0} /\ buttons \subseteq Buttons
    /\ checked \in BOOLEAN /\ impatient \in BOOLEAN /\ clicks \in 0 .. MaxClicks
    /\ restarts \in [Workers -> Nat]
    /\ posted \in Seq([from : Workers, slot : {"stopped", "restart"}])
    /\ pc \in [Workers -> Places] /\ child \in [Workers -> {"none", "running", "dead"}]
    /\ {stop, recording, active, failed} \subseteq [Workers -> BOOLEAN]
    /\ streams \in [Workers -> SUBSET {"in", "out"}] /\ open \in [Workers -> SUBSET {"raw", "processed"}]
    /\ {queue, raw, processed} \subseteq [Workers -> Seq(Blocks)]
    /\ {captured, dropped, taken, block, answer, sent, next} \subseteq [Workers -> Nat]
    /\ {stdin, stdout} \subseteq [Workers -> Seq([seq : Nat, of : Nat])]
    /\ \A w \in Workers : Len(queue[w]) <= QueueCapacity

\* The two recordings belong together block for block: whatever is dropped,
\* toggled, stopped or fails, the processed one holds what was computed from
\* the blocks of the raw one and is behind by one block at most, by none unless
\* a write failed or is in progress.
Paired ==
    \A w \in Workers :
        /\ Len(raw[w]) - Len(processed[w]) \in {0, 1}
        /\ \A i \in 1 .. Len(processed[w]) : processed[w][i] = raw[w][i]
        /\ Len(raw[w]) # Len(processed[w]) => failed[w] \/ pc[w] = "processed"
        /\ \A i \in 1 .. Len(raw[w]) - 1 : raw[w][i] < raw[w][i + 1]

\* The queue holds the newest blocks, and the count of dropped blocks that the
\* user is shown accounts for every block that was not taken: the backlog is
\* never larger than the queue.
NewestWins ==
    \A w \in Workers :
        /\ \A i \in 1 .. Len(queue[w]) : queue[w][i] = captured[w] - Len(queue[w]) + i
        /\ pc[w] \notin {"ended", "crashed"} => captured[w] = taken[w] + dropped[w] + Len(queue[w])
        /\ pc[w] = "send" => block[w] <= captured[w] - Len(queue[w])

\* A user who asks for a start or a restart only when no restart is to come and
\* the end of the last worker is shown has one worker at a time at the sound
\* card; and whichever file, stream or process failed to open or to close, a
\* worker that has reported `stopped' has closed its files and left no subprocess.
OneWorker ==
    /\ ~impatient => \A v, w \in Workers : Busy(v) /\ Busy(w) => v = w
    /\ \A w \in Workers : pc[w] \in {"stopped", "ended"} => open[w] = {} /\ child[w] # "running"

\* Stopping: once the user leaves it alone, every worker told to stop, or with an
\* error, has come to its end, unless its subprocess neither answers nor exits:
\* there is no other place where it can stay. And START is offered again, unless
\* the last worker is at work, or crashed when its recordings were closed.
AtRest ==
    /\ \A w \in Workers : IsRunning(w) /\ (stop[w] \/ failed[w]) => Hangs(w)
    /\ "start" \notin buttons => Busy(worker) \/ pc[worker] = "crashed"
Stops == <>[]AtRest
=============================================================================
