---------------------------- MODULE OdasProvider ----------------------------
(***************************************************************************)
(* OdasProviderImpl (src/spatial/odas_provider.cpp) with the parser it     *)
(* feeds, OdasMessageParser (src/spatial/odas_message_parser.cpp), and the *)
(* ODAS server at the other end of the stream socket.                      *)
(*                                                                         *)
(* A message is one JSON object with an object per source inside.  Of its  *)
(* text only the braces are kept, for they are all that feed() looks at    *)
(* when it cuts the stream into objects: the text up to and including a    *)
(* brace is one piece.  The last piece of a message knows its age: how     *)
(* many messages were sent after it.  A recv returns a part of the stream  *)
(* that ends anywhere between pieces.                                      *)
(***************************************************************************)
EXTENDS Integers, Sequences, SequencesExt

CONSTANTS SourceCounts,  \* how many sources a message may have
          MaxBuffer,     \* max_buffer_bytes_, in pieces
          MaxBackoff,    \* kBackoffMaxMs, in units of kBackoffMinMs
          Unreliable,    \* whether the server may die
          RecvLimit,     \* the size of buf in poll(), in pieces
          WireLimit,     \* bound: pieces sent and not received
          MaxAge         \* bound: the age from which on messages are not told apart

ASSUME OdasAssumption == /\ SourceCounts \subseteq Nat \ {0}
                         /\ MaxBuffer \in Nat \ {0}
                         /\ MaxBackoff \in Nat \ {0}
                         /\ Unreliable \in BOOLEAN
                         /\ RecvLimit \in Nat \ {0}
                         /\ WireLimit \in Nat
                         /\ MaxAge \in Nat

VARIABLES listening,  \* whether the server accepts connections
          link,       \* fd_ is -1, its peer is there, its peer is gone
          wire,       \* what the server has sent and recv has not returned
          healthy,    \* healthy_
          backoff,    \* reconnect_backoff_ms_
          wait,       \* how far away next_reconnect_tp_ is
          buffer,     \* buffer_
          out,        \* the output argument of poll(): the messages observed
          last,       \* history: the last message observed before that
          aligned     \* whether the last recv ended between two messages

server == <<listening, wire>>
socket == <<healthy, backoff, wait>>
delivery == <<out, last>>
stream == <<buffer, aligned>>
vars == <<link, server, socket, delivery, stream>>

Piece == [brace : {"open", "close"}, outer : BOOLEAN, age : 0 .. MaxAge]

\* A message with n sources that is being sent.
Message(n) == [i \in 1 .. 2 * n + 2 |->
                  [brace |-> IF i = 1 \/ (i % 2 = 0 /\ i <= 2 * n) THEN "open" ELSE "close",
                   outer |-> i \in {1, 2 * n + 2}, age |-> 0]]

Init == /\ listening \in BOOLEAN
        /\ link = "down"
        /\ wire = <<>>
        /\ healthy = FALSE /\ backoff = 1 /\ wait = 0
        /\ buffer = <<>> /\ aligned = TRUE /\ out = <<>> /\ last = MaxAge
-----------------------------------------------------------------------------
\* OdasMessageParser::feed

IsOpen(piece) == piece.brace = "open"
FirstOpen(b, start) == SelectInSubSeq(b, start + 1, Len(b), IsOpen)

\* findMatchingBrace: where the depth comes back to 0, or 0
Balanced(b, open, i) == 2 * Cardinality({k \in open .. i : IsOpen(b[k])}) = i - open + 1
MatchingBrace(b, open) ==
    LET closed == {i \in open .. Len(b) : Balanced(b, open, i)}
    IN  IF closed = {} THEN 0 ELSE Min(closed)

\* parseOneObject finds sources in an object that has a "src" member: only the
\* outer object of a message has.
Observed(b, open, close) == IF b[open].outer /\ b[close].outer THEN <<b[close].age>> ELSE <<>>

Least(a, b) == IF a < b THEN a ELSE b
Drop(b, n) == SubSeq(b, n + 1, Len(b))

\* the buffer is cut back to the last '{', or to its last MaxBuffer pieces
Resync(b) ==
    LET lastOpen == SelectLastInSeq(b, IsOpen) IN
    IF Len(b) <= MaxBuffer THEN b
    ELSE IF lastOpen = 0 THEN <<>>
    ELSE IF Len(b) - lastOpen + 1 <= MaxBuffer THEN Drop(b, lastOpen - 1)
    ELSE Drop(b, Len(b) - MaxBuffer)

\* the loop over the complete objects: where it stops, and what they contain
Scan(b) ==
    LET scan[start \in 0 .. Len(b)] ==
            LET open == FirstOpen(b, start)
                close == IF open = 0 THEN 0 ELSE MatchingBrace(b, open)
            IN  IF close = 0 THEN [start |-> start, open |-> open, out |-> <<>>]
                ELSE [scan[close] EXCEPT !.out = Observed(b, open, close) \o @]
    IN  scan[0]

\* what the loop leaves of the buffer when it stops
Rest(b, open) == IF open = 0 THEN <<>>
                 ELSE IF open > 1 THEN Drop(b, open - 1)
                 ELSE IF Len(b) >= MaxBuffer THEN Tail(b)
                 ELSE b

\* the erase after the loop
EraseStart(rest, start) == IF start > 0 /\ start <= Len(rest) THEN Drop(rest, start) ELSE rest

Feed(chunk) == LET b == Resync(buffer \o chunk)
                   s == Scan(b)
               IN  [buffer |-> EraseStart(Rest(b, s.open), s.start), out |-> s.out]
-----------------------------------------------------------------------------
\* OdasProviderImpl::poll, called by the control thread

\* Mutant of ArmReconnect: the backoff is not capped.
ArmUncapped == wait' = backoff /\ backoff' = 2 * backoff

\* armReconnectBackoff
ArmReconnect == wait' = backoff /\ backoff' = Least(2 * backoff, MaxBackoff)

\* Mutant of Deliver: the output argument is not cleared.
DeliverMore(observed) == /\ out' = out \o observed
                         /\ last' = IF out = <<>> THEN last ELSE Last(out)

\* poll() clears its output argument and adds what it observes.
Deliver(observed) == /\ out' = observed
                     /\ last' = IF out = <<>> THEN last ELSE Last(out)

\* ensureConnected: too early
PollWaits == /\ link = "down"
             /\ wait > 0
             /\ healthy' = FALSE
             /\ Deliver(<<>>)
             /\ UNCHANGED <<link, server, backoff, wait, stream>>

\* ensureConnected: connect fails or times out
ConnectFails == /\ link = "down"
                /\ wait = 0
                /\ ~listening
                /\ healthy' = FALSE
                /\ ArmReconnect
                /\ Deliver(<<>>)
                /\ UNCHANGED <<link, server, stream>>

\* ensureConnected: connect succeeds; there is nothing to receive yet
Connect == /\ link = "down"
           /\ wait = 0
           /\ listening
           /\ link' = "open"
           /\ backoff' = 1
           /\ Deliver(<<>>)
           /\ UNCHANGED <<server, healthy, wait, stream>>

\* recv would block
RecvNothing == /\ link = "open"
               /\ wire = <<>>
               /\ Deliver(<<>>)
               /\ UNCHANGED <<link, server, socket, stream>>

EndsMessage(piece) == piece.outer /\ ~IsOpen(piece)

\* recv returns n pieces
Recv(n) == LET chunk == SubSeq(wire, 1, n)
               fed == Feed(chunk)
           IN  /\ link # "down"
               /\ n <= RecvLimit
               /\ wire' = Drop(wire, n)
               /\ healthy' = TRUE
               /\ buffer' = fed.buffer
               /\ Deliver(fed.out)
               /\ aligned' = EndsMessage(Last(chunk))
               /\ UNCHANGED <<link, listening, backoff, wait>>

\* Mutant of RecvEnds: the descriptor is not reset.
RecvEndsOpen == /\ link = "gone"
                /\ wire = <<>>
                /\ healthy' = FALSE
                /\ ArmReconnect
                /\ Deliver(<<>>)
                /\ UNCHANGED <<link, server, stream>>

\* recv returns 0 or an error: closeAndArmReconnect
RecvEnds == /\ link = "gone"
            /\ wire = <<>>
            /\ link' = "down"
            /\ healthy' = FALSE
            /\ ArmReconnect
            /\ Deliver(<<>>)
            /\ UNCHANGED <<server, stream>>

Poll == \/ PollWaits \/ ConnectFails \/ Connect
        \/ RecvNothing \/ RecvEnds \/ \E n \in 1 .. Len(wire) : Recv(n)

Elapse == /\ wait > 0
          /\ wait' = wait - 1
          /\ UNCHANGED <<link, server, healthy, backoff, delivery, stream>>
-----------------------------------------------------------------------------
\* The server.
Older(age) == Least(age + 1, MaxAge)
Aged(s) == [i \in DOMAIN s |-> IF EndsMessage(s[i]) THEN [s[i] EXCEPT !.age = Older(@)] ELSE s[i]]

Send(n) == /\ link = "open"
           /\ Len(wire) + Len(Message(n)) <= WireLimit
           /\ wire' = Aged(wire) \o Message(n)
           /\ buffer' = Aged(buffer)
           /\ last' = Older(last) /\ out' = [i \in DOMAIN out |-> Older(out[i])]
           /\ UNCHANGED <<link, listening, socket, aligned>>

\* It dies in the middle of a message, and only a part of what it sent arrives.
Die(n) == /\ Unreliable
          /\ listening
          /\ listening' = FALSE
          /\ IF link = "open"
             THEN /\ link' = "gone"
                  /\ \E k \in 0 .. Len(wire) + Len(Message(n)) - 1 :
                        wire' = SubSeq(wire \o Message(n), 1, k)
             ELSE UNCHANGED <<link, wire>>
          /\ UNCHANGED <<socket, delivery, stream>>

Restart == /\ ~listening
           /\ listening' = TRUE
           /\ UNCHANGED <<link, wire, socket, delivery, stream>>

Sends == \E n \in SourceCounts : Send(n)

Next == Poll \/ Elapse \/ Sends \/ Restart \/ \E n \in SourceCounts : Die(n)

Spec == Init /\ [][Next]_vars

\* The control thread polls.  This is weak fairness of Poll, as long as it has
\* something to do, without mentioning Feed: in that form it is cheap to check.
PollIdles == \/ link = "open" /\ wire = <<>>
             \/ link = "down" /\ wait > 0
Polled == /\ UNCHANGED listening
          /\ Len(wire') < Len(wire) \/ link' # link \/ wait' > wait
PollFairness == []<>PollIdles \/ []<><<Polled>>_vars

\* Besides, time passes, and a server that is connected sends.
FairSpec == Spec /\ PollFairness /\ WF_vars(Elapse) /\ WF_vars(Sends)
-----------------------------------------------------------------------------
TypeOK == /\ listening \in BOOLEAN
          /\ link \in {"down", "open", "gone"}
          /\ wire \in Seq(Piece)
          /\ healthy \in BOOLEAN
          /\ healthy => link # "down"
          /\ backoff \in 1 .. MaxBackoff
          /\ wait \in 0 .. MaxBackoff
          /\ buffer \in Seq(Piece)
          /\ Len(buffer) <= MaxBuffer
          /\ out \in Seq(0 .. MaxAge)
          /\ last \in 0 .. MaxAge
          /\ aligned \in BOOLEAN

\* Observations are delivered in the order in which the server sent them and
\* none twice, however the stream is split and whatever was lost before: as far as
\* ages are told apart, each one is younger than the one before.
InOrder == LET seen == <<last>> \o out IN
           \A i \in 1 .. Len(out) : seen[i] > seen[i + 1] \/ seen[i] = MaxAge

\* When the server has stopped dying, and recv no longer splits messages, there
\* are observations again and again: what earlier connections left in the
\* buffer does not keep the parser from recovering.
Resumes == <>[](listening /\ aligned) => []<>(out # <<>>)

\* A message is delivered when it has been received to its end, whether or not
\* it was split.
Ages(s) == [i \in DOMAIN s |-> s[i].age]
SplitFrameParsed ==
    [][\A n \in 1 .. Len(wire) :
          Recv(n) => out' = Ages(SelectSeq(SubSeq(wire, 1, n), EndsMessage))]_vars
=============================================================================
