----------------------------- MODULE TerminalHost -----------------------------
(***************************************************************************)
(* The event loop of a terminal host (crates/terminal-host/src/host.rs):   *)
(* one thread that polls its listener, the connections waiting for their   *)
(* Hello, its one client, the pty and a signal pipe, and serves what is    *)
(* ready.                                                                  *)
(*                                                                         *)
(* One iteration (Host::step) is the agenda todo: the handlers left to run *)
(* in this iteration, in order, computed from what poll reported.  Each    *)
(* handler is an action that takes itself off the agenda, and puts the     *)
(* handlers it calls in its place.  The environment (clients, the program  *)
(* on the pty, signals, time) moves between any two of them, so what poll  *)
(* reported may be stale when a handler runs.                              *)
(*                                                                         *)
(* Frames are whole.  A client's frame is its kind; the bytes received and *)
(* not acted on are the frames acted + 1 .. received of what it sent.  A   *)
(* frame to the client is FRAME units long, so that one may be partly      *)
(* written, and an Input carries INPUT_LEN bytes.  The journal is the      *)
(* sequence of its records; how it trims and snapshots is module Journal.  *)
(***************************************************************************)
EXTENDS Integers, Sequences, FiniteSets, SequencesExt

CONSTANTS
    Conns,                    \* connections that may be made
    Foreign,                  \* those of another user
    Hellos,                   \* first frames a connection may send
    Frames,                   \* frames it may send after that
    Faults,                   \* what else may happen, see the environment
    FRAME,                    \* units in a frame to the client
    INPUT_LEN,                \* bytes in an Input
    INPUT_COST,
    MAX_PENDING_INPUT,
    OUTGOING_HIGH_WATER,      \* in units
    RECEIVE_LIMIT,            \* in frames
    MAX_BEFORE_HELLO,         \* in frames, the Hello included
    MAX_PENDING_CONNECTIONS,
    READ_BUDGET,              \* chunks of output one read_pty takes
    EXIT_DRAIN_BYTES,         \* in chunks
    SOCKET_ROOM,              \* units a client's socket holds
    PTY_ROOM,                 \* bytes of input the pty holds
    MaxFrames,                \* bound: frames a connection sends, its Hello included
    MaxOutput,                \* bound: chunks of output
    None

ASSUME HostConstants ==
    /\ Foreign \subseteq Conns
    /\ Hellos \subseteq {"Hello", "HelloTakeOver", "HelloZero", "NotHello"}
    /\ Frames \subseteq {"Hello", "Info", "Snapshot", "Read", "Input", "Resize", "Shutdown", "Malformed"}
    /\ Faults \subseteq {"exit", "let_go", "sigterm", "descriptors", "half_close"}
    /\ FRAME \in Nat \ {0, 1}
    /\ INPUT_LEN \in Nat \ {0}
    /\ INPUT_COST \in Nat
    /\ MAX_PENDING_INPUT \in Nat
    /\ MAX_PENDING_INPUT >= INPUT_LEN + INPUT_COST    \* an Input fits when nothing is pending
    /\ OUTGOING_HIGH_WATER \in Nat \ {0}
    /\ RECEIVE_LIMIT \in Nat \ {0}
    /\ MAX_BEFORE_HELLO \in 1 .. RECEIVE_LIMIT
    /\ MAX_PENDING_CONNECTIONS \in Nat \ {0}
    /\ READ_BUDGET \in Nat \ {0}
    /\ EXIT_DRAIN_BYTES \in Nat \ {0}
    /\ SOCKET_ROOM \in Nat \ {0}
    /\ PTY_ROOM \in Nat \ {0}
    /\ MaxFrames \in Nat /\ MaxOutput \in Nat
    /\ None \notin Conns

VARIABLES
    \* struct Host
    todo,                     \* the handlers left in this iteration
    client,                   \* the client, or None
    pending,                  \* connections waiting for their Hello, oldest first
    journal,                  \* the records journaled
    pty_open,
    child_exit,               \* was the child reaped
    draining,                 \* chunks read since the child was reaped, or None
    delivered_end,            \* the last output record written to a client in full
    accept_paused,
    ended,                    \* None or "Shutdown"
    result,                   \* what run returned, None while it has not
    \* The kernel's side of the connections, and what each came to
    status,                   \* where each connection is
    backlog,                  \* connections on the listener, oldest first
    sent,                     \* the frames each peer sent
    received,                 \* how many of them the host read
    acted,                    \* how many of them the host acted on
    peer,                     \* is the peer's end open, half closed or closed
    room,                     \* units the client's socket takes now
    \* The pty, the child, signals and time
    output,                   \* chunks in the pty, each named for its writer
    ptyRoom,                  \* bytes of input the pty takes now
    slave,                    \* who holds the slave: the child, others it started
    child,                    \* "running", "zombie" or "reaped"
    sigPipe,                  \* is there a byte in the signal pipe
    sigterm,                  \* TERMINATED
    due,                      \* the deadlines that have passed
    descriptors               \* does accept find a descriptor

hostVars == <<todo, client, pending, journal, pty_open, child_exit, draining,
              delivered_end, accept_paused, ended, result>>
connVars == <<status, backlog, sent, received, acted, peer, room>>
kernelVars == <<output, ptyRoom, slave, child, sigPipe, sigterm, due, descriptors>>
vars == <<hostVars, connVars, kernelVars>>

-----------------------------------------------------------------------------
(* The agenda.                                                             *)

Do(op) == [op |-> op, conn |-> None, n |-> 0]
Serve(c) == [op |-> "read_pending", conn |-> c, n |-> 0]
Accept(n) == [op |-> "accept", conn |-> None, n |-> n]
When(condition, op) == IF condition THEN <<Do(op)>> ELSE <<>>

Running(op) == todo # <<>> /\ Head(todo).op = op
Return == todo' = Tail(todo)
Call(ops) == todo' = ops \o Tail(todo)

-----------------------------------------------------------------------------
(* The client's queues.                                                    *)

Out(kind, value) == [kind |-> kind, value |-> value, written |-> 0]

\* first, last, ack and record are what the peer was handed: its first and its
\* last frame, the total of its last acknowledgement, its last record.
NewClient(c) ==
    [conn |-> c, outgoing |-> <<Out("Welcome", 0)>>, unsent |-> FRAME, reading |-> FALSE,
     cursor |-> 0, input |-> <<>>, input_cost |-> 0, written |-> 0, discarded |-> 0,
     closing |-> FALSE, gone |-> FALSE,
     first |-> None, last |-> None, ack |-> 0, record |-> 0]

Sum(numbers) == FoldLeft(LAMBDA n, m : n + m, 0, numbers)

Unsent(outgoing) == Sum([i \in DOMAIN outgoing |-> FRAME - outgoing[i].written])

\* What of a sequence is in S, in order.
Keep(seq, S) == FoldLeft(LAMBDA kept, x : IF x \in S THEN Append(kept, x) ELSE kept, <<>>, seq)

queue(cl, out) ==
    IF cl.gone THEN cl
    ELSE [cl EXCEPT !.outgoing = Append(@, out), !.unsent = @ + FRAME]

\* Bring an acknowledgement that is last and not started up to date, or queue one.
acknowledge(cl) ==
    LET n == Len(cl.outgoing)
        ack == Out("InputAck", cl.written + cl.discarded)
    IN  IF cl.gone THEN cl
        ELSE IF n > 0 /\ cl.outgoing[n].kind = "InputAck" /\ cl.outgoing[n].written = 0
        THEN [cl EXCEPT !.outgoing[n] = ack]
        ELSE [cl EXCEPT !.outgoing = Append(@, ack), !.unsent = @ + FRAME]

\* One Input of which w bytes reached the pty leaves the pending queue.
resolve(cl, w) ==
    [cl EXCEPT !.input = Tail(@),
               !.input_cost = @ - ((INPUT_LEN - w) + INPUT_COST),
               !.written = @ + w,
               !.discarded = @ + (INPUT_LEN - w)]

\* Mutant: input is discarded without saying so.
discard_input_silently(cl) ==
    IF cl = None \/ cl.input = <<>> THEN cl
    ELSE FoldLeft(resolve, cl, cl.input)

discard_input(cl) ==
    IF cl = None \/ cl.input = <<>> THEN cl
    ELSE acknowledge(FoldLeft(resolve, cl, cl.input))

\* Mutant: a Welcome not started is dropped with the rest.
drop_unstarted_welcome(outgoing) == Keep(outgoing, {out \in Range(outgoing) : out.written > 0})

\* A frame partly written stays, or the framing would break, and so does a
\* Welcome, whose version everything after it assumes.
drop_unstarted(outgoing) ==
    Keep(outgoing, {out \in Range(outgoing) : out.written > 0 \/ out.kind = "Welcome"})

\* Close the connection with one last frame.
end_connection(cl, kind) ==
    LET kept == drop_unstarted(cl.outgoing)
        quiet == [cl EXCEPT !.input = <<>>, !.input_cost = 0, !.reading = FALSE,
                            !.outgoing = kept, !.unsent = Unsent(kept)]
    IN  [queue(quiet, Out(kind, 0)) EXCEPT !.closing = TRUE]

refuse_client == client' = end_connection(client, "Error")

\* The client's place is given up; what its connection came to is fate.
drop_client(fate) ==
    /\ client' = None
    /\ status' = IF client = None THEN status ELSE [status EXCEPT ![client.conn] = fate]
    /\ due' = due \ {"flush"}

-----------------------------------------------------------------------------
(* One iteration: Host::step.                                              *)

Buffered(c) == received[c] - acted[c]
InSocket(c) == Len(sent[c]) - received[c]

\* What the client is polled for.
ClientIn == client # None /\ ~ client.closing /\ Buffered(client.conn) < RECEIVE_LIMIT
ClientOut == client # None /\ client.outgoing # <<>>
PtyOut == pty_open /\ client # None /\ client.input # <<>>
Listening == ended = None /\ ~ accept_paused

\* What is ready.
SignalsReady == sigPipe
PtyInReady == pty_open /\ (output # <<>> \/ slave = {})
PtyOutReady == PtyOut /\ ptyRoom > 0
ClientHup == (ClientIn \/ ClientOut) /\ peer[client.conn] = "closed"
ClientInReady == ClientIn /\ (InSocket(client.conn) > 0 \/ peer[client.conn] # "open")
ClientOutReady == ClientOut /\ (room[client.conn] > 0 \/ peer[client.conn] = "closed")
PendingReady(c) == InSocket(c) > 0 \/ peer[c] # "open"
ReadyPending == Keep(pending, {c \in Conns : PendingReady(c)})
ListenerReady == Listening /\ backlog # <<>>

\* The deadlines poll waits for.
Deadlines ==
    (IF client # None /\ client.closing THEN {"flush"} ELSE {})
    \cup (IF draining # None THEN {"drain"} ELSE {})
    \cup (IF accept_paused THEN {"pause"} ELSE {})
    \cup Range(pending)

Ready ==
    \/ SignalsReady \/ PtyInReady \/ PtyOutReady
    \/ ClientHup \/ ClientInReady \/ ClientOutReady
    \/ \E c \in Range(pending) : PendingReady(c)
    \/ ListenerReady
    \/ Deadlines \cap due # {}

\* The pipe is emptied before the child is looked for: an exit after that
\* leaves a byte for the next poll.
LookForChild == When(SignalsReady, "drain_signal_pipe") \o <<Do("reap_child")>>

\* Mutant: held frames are not looked at again before the next poll.
LastLook_skipped == <<Do("write_input"), Do("refill_outgoing")>>

\* What no event would announce again is done before the next poll; except that
\* an Input act_on_buffered lets through here waits for the next iteration, for
\* which nothing is polled when the output is at its end.
LastLook == <<Do("write_input"), Do("act_on_buffered"), Do("refill_outgoing")>>

\* The handlers of an iteration, by what poll reported.  Pending connections
\* are served from the newest to the oldest.
Agenda ==
    LookForChild
    \o When(PtyInReady, "read_pty")
    \o When(PtyOutReady, "write_input")
    \o <<Do("finish_drain")>>
    \o When(ClientOutReady, "write_client")
    \o (IF ClientHup THEN <<Do("close_client")>> ELSE When(ClientInReady, "read_client"))
    \o [i \in 1 .. Len(ReadyPending) |-> Serve(Reverse(ReadyPending)[i])]
    \o <<Do("expire_pending")>>
    \o (IF ListenerReady THEN <<Accept(MAX_PENDING_CONNECTIONS)>> ELSE <<>>)
    \o LastLook

\* The start of an iteration, up to poll.
step_terminated ==
    /\ result = None /\ todo = <<>>
    /\ sigterm
    /\ result' = "Terminated"
    /\ UNCHANGED <<todo, client, pending, journal, pty_open, child_exit, draining,
                   delivered_end, accept_paused, ended, connVars, kernelVars>>

FlushOver == client # None /\ client.closing /\ "flush" \in due
Flushed == client # None => FlushOver \/ client.outgoing = <<>>

step_ended ==
    /\ result = None /\ todo = <<>>
    /\ ~ sigterm
    /\ ended # None /\ Flushed
    /\ result' = ended
    /\ IF FlushOver THEN drop_client("late") ELSE UNCHANGED <<client, status, due>>
    /\ UNCHANGED <<todo, pending, journal, pty_open, child_exit, draining, delivered_end,
                   accept_paused, ended, backlog, sent, received, acted, peer, room,
                   output, ptyRoom, slave, child, sigPipe, sigterm, descriptors>>

step_begin ==
    /\ result = None /\ todo = <<>>
    /\ ~ sigterm
    /\ ~ (ended # None /\ Flushed)
    /\ client' = IF FlushOver THEN None ELSE client
    /\ status' = IF FlushOver THEN [status EXCEPT ![client.conn] = "late"] ELSE status
    /\ accept_paused' = (accept_paused /\ "pause" \notin due)
    /\ due' = due \ ({"pause"} \cup (IF FlushOver THEN {"flush"} ELSE {}))
    /\ todo' = <<Do("refill_outgoing"), Do("poll")>>
    /\ UNCHANGED <<pending, journal, pty_open, child_exit, draining, delivered_end, ended,
                   result, backlog, sent, received, acted, peer, room, output, ptyRoom,
                   slave, child, sigPipe, sigterm, descriptors>>

poll ==
    /\ Running("poll")
    /\ Ready
    /\ Call(Agenda)
    /\ UNCHANGED <<client, pending, journal, pty_open, child_exit, draining, delivered_end,
                   accept_paused, ended, result, connVars, kernelVars>>

\* A signal interrupted poll: nothing was reported, and the iteration does what
\* needs no report.
poll_interrupted ==
    /\ Running("poll")
    /\ sigPipe
    /\ Call(<<Do("reap_child"), Do("finish_drain"), Do("expire_pending")>> \o LastLook)
    /\ UNCHANGED <<client, pending, journal, pty_open, child_exit, draining, delivered_end,
                   accept_paused, ended, result, connVars, kernelVars>>

-----------------------------------------------------------------------------
(* The signal pipe, the child and the pty.                                 *)

drain_signal_pipe ==
    /\ Running("drain_signal_pipe")
    /\ sigPipe' = FALSE
    /\ Return
    /\ UNCHANGED <<client, pending, journal, pty_open, child_exit, draining, delivered_end,
                   accept_paused, ended, result, connVars, output, ptyRoom, slave, child,
                   sigterm, due, descriptors>>

reap_child ==
    /\ Running("reap_child")
    /\ IF ~ child_exit /\ child = "zombie"
       THEN /\ child' = "reaped"
            /\ child_exit' = TRUE
            /\ draining' = 0
            /\ Call(<<Do("read_pty")>>)
       ELSE /\ Return
            /\ UNCHANGED <<child, child_exit, draining>>
    /\ UNCHANGED <<client, pending, journal, pty_open, delivered_end, accept_paused, ended,
                   result, connVars, output, ptyRoom, slave, sigPipe, sigterm, due, descriptors>>

\* Read until the budget is spent or the pty is empty; an empty pty whose
\* slave nobody holds is the end of output.
read_pty ==
    /\ Running("read_pty")
    /\ LET n == IF ~ pty_open THEN 0
                ELSE IF Len(output) < READ_BUDGET THEN Len(output) ELSE READ_BUDGET
           endOfOutput == pty_open /\ n < READ_BUDGET /\ slave = {}
       IN  /\ journal' = journal \o SubSeq(output, 1, n)
           /\ output' = SubSeq(output, n + 1, Len(output))
           /\ draining' = IF draining = None THEN None ELSE draining + n
           /\ pty_open' = (pty_open /\ ~ endOfOutput)
           /\ client' = IF endOfOutput THEN discard_input(client) ELSE client
    /\ Return
    /\ UNCHANGED <<pending, child_exit, delivered_end, accept_paused, ended, result, connVars,
                   ptyRoom, slave, child, sigPipe, sigterm, due, descriptors>>

\* Mutant: the exit does not wait for output that is there.
pty_has_more_never == FALSE

pty_has_more == pty_open /\ output # <<>>

\* The exit is journaled once the pty has nothing more, or the drain is cut
\* short by one of its bounds.
finish_drain ==
    /\ Running("finish_drain")
    /\ IF draining # None
          /\ (~ pty_has_more \/ "drain" \in due \/ draining >= EXIT_DRAIN_BYTES)
       THEN /\ journal' = Append(journal, IF pty_has_more THEN "exited_early" ELSE "exited")
            /\ draining' = None
            /\ due' = due \ {"drain"}
       ELSE UNCHANGED <<journal, draining, due>>
    /\ Return
    /\ UNCHANGED <<client, pending, pty_open, child_exit, delivered_end, accept_paused, ended,
                   result, connVars, output, ptyRoom, slave, child, sigPipe, sigterm, descriptors>>

\* Offer an Input, of which w bytes are written, to a pty that takes at.ptyRoom
\* bytes, unless it took less than all of an earlier one.
OfferInput(at, w) ==
    LET rest == INPUT_LEN - w
        n == IF at.full THEN 0 ELSE Min({rest, at.ptyRoom})
        wrote == [at.cl EXCEPT !.input[1] = @ + n, !.input_cost = @ - n]
    IN  IF at.full THEN at
        ELSE [cl |-> IF n = rest THEN resolve(wrote, INPUT_LEN) ELSE wrote,
              ptyRoom |-> at.ptyRoom - n,
              full |-> n < rest,
              resolved |-> at.resolved \/ n = rest]

\* Offer the pending Inputs in order, each with one write, and acknowledge
\* those this wrote in full.  A pty nobody reads any more refuses input.
write_input ==
    /\ Running("write_input")
    /\ IF client = None
       THEN UNCHANGED <<client, ptyRoom>>
       ELSE IF ~ pty_open \/ slave = {}
       THEN client' = discard_input(client) /\ UNCHANGED ptyRoom
       ELSE LET at == FoldLeft(OfferInput,
                               [cl |-> client, ptyRoom |-> ptyRoom, full |-> FALSE, resolved |-> FALSE],
                               client.input)
            IN  /\ client' = IF at.resolved THEN acknowledge(at.cl) ELSE at.cl
                /\ ptyRoom' = at.ptyRoom
    /\ Return
    /\ UNCHANGED <<pending, journal, pty_open, child_exit, draining, delivered_end,
                   accept_paused, ended, result, connVars, output, slave, child, sigPipe,
                   sigterm, due, descriptors>>

-----------------------------------------------------------------------------
(* The client.                                                             *)

\* Queue the next record of the stream while less than the high water waits.
CanRefill ==
    /\ client # None
    /\ client.reading
    /\ client.unsent < OUTGOING_HIGH_WATER
    /\ client.cursor < Len(journal)

refill_outgoing ==
    /\ Running("refill_outgoing")
    /\ IF CanRefill
       THEN /\ client' = [client EXCEPT !.outgoing = Append(@, Out("Record", client.cursor + 1)),
                                        !.unsent = @ + FRAME,
                                        !.cursor = @ + 1]
            /\ UNCHANGED todo
       ELSE /\ Return
            /\ UNCHANGED client
    /\ UNCHANGED <<pending, journal, pty_open, child_exit, draining, delivered_end,
                   accept_paused, ended, result, connVars, kernelVars>>

\* Write n units from the front of the queue.
WriteFront(cl, n) ==
    LET out == Head(cl.outgoing)
    IN  IF out.written + n < FRAME
        THEN [cl EXCEPT !.outgoing[1].written = @ + n, !.unsent = @ - n]
        ELSE [cl EXCEPT !.outgoing = Tail(@), !.unsent = @ - n,
                        !.first = IF @ = None THEN out.kind ELSE @,
                        !.last = out.kind,
                        !.ack = IF out.kind = "InputAck" THEN out.value ELSE @,
                        !.record = IF out.kind = "Record" THEN out.value ELSE @]

\* Write the frame at the front as far as the socket takes it, and go on with
\* the next; a write to a closed peer fails.
write_client ==
    /\ Running("write_client")
    /\ IF client = None
       THEN Return /\ UNCHANGED <<client, status, due, delivered_end, room>>
       ELSE IF client.outgoing = <<>>
       THEN /\ IF client.closing THEN drop_client("flushed") ELSE UNCHANGED <<client, status, due>>
            /\ Return
            /\ UNCHANGED <<delivered_end, room>>
       ELSE IF peer[client.conn] = "closed"
       THEN /\ Call(<<Do("close_client")>>)
            /\ UNCHANGED <<client, status, due, delivered_end, room>>
       ELSE LET out == Head(client.outgoing)
                n == Min({FRAME - out.written, room[client.conn]})
                whole == out.written + n = FRAME
            IN  /\ client' = WriteFront(client, n)
                /\ room' = [room EXCEPT ![client.conn] = @ - n]
                /\ delivered_end' =
                       IF whole /\ out.kind = "Record" /\ journal[out.value] \in {"child", "other"}
                       THEN Max({delivered_end, out.value}) ELSE delivered_end
                /\ IF whole THEN UNCHANGED todo ELSE Return
                /\ UNCHANGED <<status, due>>
    /\ UNCHANGED <<pending, journal, pty_open, child_exit, draining, accept_paused, ended,
                   result, backlog, sent, received, acted, peer, output, ptyRoom, slave, child,
                   sigPipe, sigterm, descriptors>>

\* Read what the socket of c has, until limit frames are buffered.
Received(c, limit) ==
    IF Buffered(c) >= limit THEN received[c] ELSE Min({Len(sent[c]), acted[c] + limit})

Outcome(c, limit) ==
    IF Received(c, limit) - acted[c] >= limit THEN "Full"
    ELSE IF peer[c] # "open" THEN "Ended" ELSE "Drained"

read_client ==
    /\ Running("read_client")
    /\ IF client = None
       THEN Return /\ UNCHANGED received
       ELSE /\ received' = [received EXCEPT ![client.conn] = Received(client.conn, RECEIVE_LIMIT)]
            /\ IF Outcome(client.conn, RECEIVE_LIMIT) = "Ended"
               THEN Call(<<Do("close_client")>>)
               ELSE Call(<<Do("act_on_buffered")>>)
    /\ UNCHANGED <<client, pending, journal, pty_open, child_exit, draining, delivered_end,
                   accept_paused, ended, result, status, backlog, sent, acted, peer, room,
                   kernelVars>>

\* Mutant: what is still in the socket is not read.
close_client_unread ==
    /\ Running("close_client")
    /\ IF client = None
       THEN Return /\ UNCHANGED client
       ELSE /\ client' = [client EXCEPT !.gone = TRUE, !.input = <<>>, !.input_cost = 0,
                                        !.outgoing = <<>>, !.unsent = 0]
            /\ Call(<<Do("act_on_buffered"), Do("close_drop")>>)
    /\ UNCHANGED <<pending, journal, pty_open, child_exit, draining, delivered_end,
                   accept_paused, ended, result, connVars, kernelVars>>

\* The connection ended: what it sent is acted on, first what is buffered,
\* then what one more read finds, and then it is dropped.
close_client ==
    /\ Running("close_client")
    /\ IF client = None
       THEN Return /\ UNCHANGED client
       ELSE /\ client' = [client EXCEPT !.gone = TRUE, !.input = <<>>, !.input_cost = 0,
                                        !.outgoing = <<>>, !.unsent = 0]
            /\ Call(<<Do("act_on_buffered"), Do("close_receive"), Do("act_on_buffered"),
                      Do("close_drop")>>)
    /\ UNCHANGED <<pending, journal, pty_open, child_exit, draining, delivered_end,
                   accept_paused, ended, result, connVars, kernelVars>>

close_receive ==
    /\ Running("close_receive")
    /\ received' = IF client.closing THEN received
                   ELSE [received EXCEPT ![client.conn] =
                             Received(client.conn, Buffered(client.conn) + RECEIVE_LIMIT)]
    /\ Return
    /\ UNCHANGED <<client, pending, journal, pty_open, child_exit, draining, delivered_end,
                   accept_paused, ended, result, status, backlog, sent, acted, peer, room,
                   kernelVars>>

close_drop ==
    /\ Running("close_drop")
    /\ drop_client("gone")
    /\ Return
    /\ UNCHANGED <<pending, journal, pty_open, child_exit, draining, delivered_end,
                   accept_paused, ended, result, backlog, sent, received, acted, peer, room,
                   output, ptyRoom, slave, child, sigPipe, sigterm, descriptors>>

-----------------------------------------------------------------------------
(* Acting on the client's frames, one by one: act_on_buffered and handle.  *)

NextFrame == sent[client.conn][acted[client.conn] + 1]

\* Whether act_on_buffered stops before the next frame of the client.
OverHighWater == ~ client.gone /\ client.unsent > OUTGOING_HIGH_WATER
NoFrame == Buffered(client.conn) = 0
InputHeld ==
    /\ ~ NoFrame
    /\ NextFrame = "Input"
    /\ ~ client.gone
    /\ client.input_cost + INPUT_LEN + INPUT_COST > MAX_PENDING_INPUT
Stops == client # None => client.closing \/ OverHighWater \/ NoFrame \/ InputHeld

act_on_buffered ==
    /\ Running("act_on_buffered")
    /\ Stops
    /\ Return
    /\ UNCHANGED <<client, pending, journal, pty_open, child_exit, draining, delivered_end,
                   accept_paused, ended, result, connVars, kernelVars>>

Acting(frames) ==
    /\ Running("act_on_buffered")
    /\ ~ Stops
    /\ NextFrame \in frames
    /\ UNCHANGED <<todo, pty_open, child_exit, draining, delivered_end, accept_paused, result,
                   backlog, sent, received, peer, room, output, ptyRoom, slave, child, sigPipe,
                   sigterm, descriptors>>

TakeFrame == acted' = [acted EXCEPT ![client.conn] = @ + 1]

\* A malformed frame stays in the buffer, which is not looked at again.
handle_malformed ==
    /\ Acting({"Malformed"})
    /\ refuse_client
    /\ UNCHANGED <<pending, journal, ended, acted, status, due>>

handle_hello ==
    /\ Acting({"Hello"})
    /\ TakeFrame
    /\ refuse_client
    /\ UNCHANGED <<pending, journal, ended, status, due>>

\* Each is answered with one reply (a Snapshot's effect is in module Journal).
handle_info_snapshot ==
    /\ Acting({"Info", "Snapshot"})
    /\ TakeFrame
    /\ client' = queue(client, Out("Reply", 0))
    /\ UNCHANGED <<pending, journal, ended, status, due>>

\* One stream per connection.
handle_read ==
    /\ Acting({"Read"})
    /\ TakeFrame
    /\ IF client.reading THEN refuse_client ELSE client' = [client EXCEPT !.reading = TRUE]
    /\ UNCHANGED <<pending, journal, ended, status, due>>

handle_input ==
    /\ Acting({"Input"})
    /\ TakeFrame
    /\ client' = IF client.gone THEN client
                 ELSE [client EXCEPT !.input = Append(@, 0),
                                     !.input_cost = @ + INPUT_LEN + INPUT_COST]
    /\ UNCHANGED <<pending, journal, ended, status, due>>

handle_resize ==
    /\ Acting({"Resize"})
    /\ TakeFrame
    /\ journal' = Append(journal, "resized")
    /\ UNCHANGED <<client, pending, ended, status, due>>

handle_shutdown ==
    /\ Acting({"Shutdown"})
    /\ TakeFrame
    /\ client' = end_connection(client, "Goodbye")
    /\ pending' = <<>>
    /\ ended' = "Shutdown"
    /\ status' = [c \in Conns |-> IF c \in Range(pending) THEN "closed" ELSE status[c]]
    /\ due' = due \ Range(pending)
    /\ UNCHANGED journal

-----------------------------------------------------------------------------
(* Connections that wait for their Hello.                                  *)

\* read_pending: the Hello of c, if it came, makes it the client.
Waiting(c) == pending' = Keep(pending, Conns \ {c})

read_pending ==
    /\ Running("read_pending")
    /\ LET c == Head(todo).conn
           got == Received(c, MAX_BEFORE_HELLO)
           outcome == Outcome(c, MAX_BEFORE_HELLO)
           leave(fate) == /\ Waiting(c)
                          /\ status' = [status EXCEPT ![c] = fate]
                          /\ due' = due \ {c}
                          /\ Return
                          /\ UNCHANGED <<client, acted>>
       IN  IF ended # None
           THEN Return /\ UNCHANGED <<client, pending, status, due, received, acted>>
           ELSE /\ received' = [received EXCEPT ![c] = got]
                /\ IF got = 0
                   THEN IF outcome = "Ended"
                        THEN leave("rejected")
                        ELSE Return /\ UNCHANGED <<client, pending, status, due, acted>>
                   ELSE IF sent[c][1] \in {"NotHello", "HelloZero"}
                   THEN leave("rejected")
                   ELSE IF client # None /\ sent[c][1] # "HelloTakeOver"
                   THEN leave("busy")
                   ELSE /\ Waiting(c)
                        /\ client' = NewClient(c)
                        /\ status' = [d \in Conns |-> IF d = c THEN "client"
                                                      ELSE IF status[d] = "client" THEN "displaced"
                                                      ELSE status[d]]
                        /\ due' = due \ {c, "flush"}
                        /\ acted' = [acted EXCEPT ![c] = 1]
                        /\ Call(IF outcome = "Ended" THEN <<Do("close_client")>>
                                                     ELSE <<Do("act_on_buffered")>>)
    /\ UNCHANGED <<journal, pty_open, child_exit, draining, delivered_end, accept_paused, ended,
                   result, backlog, sent, peer, room, output, ptyRoom, slave, child, sigPipe,
                   sigterm, descriptors>>

expire_pending ==
    /\ Running("expire_pending")
    /\ pending' = Keep(pending, Conns \ due)
    /\ status' = [c \in Conns |-> IF c \in Range(pending) \cap due THEN "expired" ELSE status[c]]
    /\ due' = due \ Range(pending)
    /\ Return
    /\ UNCHANGED <<client, journal, pty_open, child_exit, draining, delivered_end, accept_paused,
                   ended, result, backlog, sent, received, acted, peer, room, output, ptyRoom,
                   slave, child, sigPipe, sigterm, descriptors>>

\* Accept up to n more connections.  Those of another user are closed, and a
\* newcomer takes the place of the oldest when all places are taken.
accept ==
    /\ Running("accept")
    /\ IF ended # None \/ Head(todo).n = 0 \/ backlog = <<>>
       THEN Return /\ UNCHANGED <<pending, status, due, backlog, accept_paused>>
       ELSE IF ~ descriptors
       THEN /\ accept_paused' = TRUE
            /\ Return
            /\ UNCHANGED <<pending, status, due, backlog>>
       ELSE LET c == Head(backlog)
                full == Len(pending) >= MAX_PENDING_CONNECTIONS
                evicted == IF full /\ c \notin Foreign THEN {Head(pending)} ELSE {}
            IN  /\ backlog' = Tail(backlog)
                /\ pending' = IF c \in Foreign THEN pending
                              ELSE Append(IF full THEN Tail(pending) ELSE pending, c)
                /\ status' = [d \in Conns |-> IF d = c THEN IF c \in Foreign THEN "rejected" ELSE "pending"
                                              ELSE IF d \in evicted THEN "evicted"
                                              ELSE status[d]]
                /\ due' = due \ evicted
                /\ Call(<<Accept(Head(todo).n - 1)>>)
                /\ UNCHANGED accept_paused
    /\ UNCHANGED <<client, journal, pty_open, child_exit, draining, delivered_end, ended, result,
                   sent, received, acted, peer, room, output, ptyRoom, slave, child, sigPipe,
                   sigterm, descriptors>>

-----------------------------------------------------------------------------
(* The environment.                                                        *)

\* It moves between handlers.  These look at nothing it changes, so that its
\* moves commute with theirs and are made before them.
Undisturbed == {"act_on_buffered", "refill_outgoing", "close_client", "close_drop"}

Environment ==
    /\ result = None
    /\ \A op \in Undisturbed : ~ Running(op)
    /\ UNCHANGED hostVars

connect(c) ==
    /\ Environment
    /\ status[c] = "none"
    /\ status' = [status EXCEPT ![c] = "backlog"]
    /\ backlog' = Append(backlog, c)
    /\ UNCHANGED <<sent, received, acted, peer, room, kernelVars>>

\* A peer sends its Hello, then frames, as far as its socket takes them.  (What
\* one of another user sends is never looked at.)
peer_sends(c, frame) ==
    /\ Environment
    /\ c \notin Foreign
    /\ status[c] \in {"backlog", "pending", "client"}
    /\ peer[c] = "open"
    /\ Len(sent[c]) < MaxFrames
    /\ frame \in IF sent[c] = <<>> THEN Hellos ELSE Frames
    /\ InSocket(c) < RECEIVE_LIMIT
    /\ sent' = [sent EXCEPT ![c] = Append(@, frame)]
    /\ UNCHANGED <<status, backlog, received, acted, peer, room, kernelVars>>

peer_closes(c, how) ==
    /\ Environment
    /\ status[c] \in {"backlog", "pending", "client"}
    /\ peer[c] # "closed" /\ peer[c] # how
    /\ how = "half" => "half_close" \in Faults
    /\ peer' = [peer EXCEPT ![c] = how]
    /\ UNCHANGED <<status, backlog, sent, received, acted, room, kernelVars>>

peer_takes(c) ==
    /\ Environment
    /\ status[c] = "client"
    /\ peer[c] # "closed"
    /\ room[c] < SOCKET_ROOM
    /\ room' = [room EXCEPT ![c] = SOCKET_ROOM]
    /\ UNCHANGED <<status, backlog, sent, received, acted, peer, kernelVars>>

Chunks == Len(output) + Cardinality({i \in 1 .. Len(journal) : journal[i] \in {"child", "other"}})

program_writes(who) ==
    /\ Environment
    /\ who \in slave
    /\ Chunks < MaxOutput
    /\ output' = Append(output, who)
    /\ UNCHANGED <<connVars, ptyRoom, slave, child, sigPipe, sigterm, due, descriptors>>

program_takes ==
    /\ Environment
    /\ slave # {}
    /\ ptyRoom < PTY_ROOM
    /\ ptyRoom' = PTY_ROOM
    /\ UNCHANGED <<connVars, output, slave, child, sigPipe, sigterm, due, descriptors>>

\* SIGCHLD writes to the signal pipe.
child_exits ==
    /\ Environment
    /\ "exit" \in Faults
    /\ child = "running"
    /\ child' = "zombie"
    /\ slave' = slave \ {"child"}
    /\ sigPipe' = TRUE
    /\ UNCHANGED <<connVars, output, ptyRoom, sigterm, due, descriptors>>

\* The child, or a process it started, lets go of the terminal.
let_go(who) ==
    /\ Environment
    /\ "let_go" \in Faults
    /\ who \in slave
    /\ slave' = slave \ {who}
    /\ UNCHANGED <<connVars, output, ptyRoom, child, sigPipe, sigterm, due, descriptors>>

sigterm_arrives ==
    /\ Environment
    /\ "sigterm" \in Faults
    /\ ~ sigterm
    /\ sigterm' = TRUE
    /\ sigPipe' = TRUE
    /\ UNCHANGED <<connVars, output, ptyRoom, slave, child, due, descriptors>>

deadline_passes(d) ==
    /\ Environment
    /\ d \in Deadlines \ due
    /\ due' = due \cup {d}
    /\ UNCHANGED <<connVars, output, ptyRoom, slave, child, sigPipe, sigterm, descriptors>>

descriptors_change ==
    /\ Environment
    /\ "descriptors" \in Faults
    /\ descriptors' = ~ descriptors
    /\ UNCHANGED <<connVars, output, ptyRoom, slave, child, sigPipe, sigterm, due>>

-----------------------------------------------------------------------------
Init ==
    /\ todo = <<>> /\ client = None /\ pending = <<>> /\ journal = <<>>
    /\ pty_open = TRUE /\ child_exit = FALSE /\ draining = None
    /\ delivered_end = 0 /\ accept_paused = FALSE /\ ended = None /\ result = None
    /\ status = [c \in Conns |-> "none"]
    /\ backlog = <<>>
    /\ sent = [c \in Conns |-> <<>>]
    /\ received = [c \in Conns |-> 0]
    /\ acted = [c \in Conns |-> 0]
    /\ peer = [c \in Conns |-> "open"]
    /\ room = [c \in Conns |-> SOCKET_ROOM]
    /\ output = <<>> /\ ptyRoom = PTY_ROOM
    /\ \/ slave = {"child"}
       \/ "let_go" \in Faults /\ slave = {"child", "other"}
    /\ child = "running"
    /\ sigPipe = FALSE /\ sigterm = FALSE /\ due = {} /\ descriptors = TRUE

HostStep ==
    \/ step_terminated \/ step_ended \/ step_begin \/ poll \/ poll_interrupted
    \/ drain_signal_pipe \/ reap_child \/ read_pty \/ finish_drain \/ write_input
    \/ refill_outgoing \/ write_client \/ read_client
    \/ close_client \/ close_receive \/ close_drop
    \/ act_on_buffered \/ handle_malformed \/ handle_hello \/ handle_info_snapshot
    \/ handle_read \/ handle_input \/ handle_resize \/ handle_shutdown
    \/ read_pending \/ expire_pending \/ accept

EnvironmentStep ==
    \/ \E c \in Conns : connect(c)
    \/ \E c \in Conns : \E frame \in Hellos \cup Frames : peer_sends(c, frame)
    \/ \E c \in Conns : \E how \in {"half", "closed"} : peer_closes(c, how)
    \/ \E c \in Conns : peer_takes(c)
    \/ \E who \in {"child", "other"} : program_writes(who)
    \/ program_takes \/ child_exits \/ sigterm_arrives
    \/ \E who \in {"child", "other"} : let_go(who)
    \/ \E d \in {"flush", "drain", "pause"} \cup Conns : deadline_passes(d)
    \/ descriptors_change

Next == HostStep \/ EnvironmentStep

Spec == Init /\ [][Next]_vars

-----------------------------------------------------------------------------
(* Properties.                                                             *)

Statuses == {"none", "backlog", "pending", "client", "rejected", "busy", "evicted", "expired",
             "closed", "displaced", "gone", "flushed", "late"}

Ops == {"refill_outgoing", "poll", "drain_signal_pipe", "reap_child", "read_pty", "write_input",
        "finish_drain", "write_client", "close_client", "read_client", "read_pending",
        "expire_pending", "accept", "act_on_buffered", "close_receive", "close_drop"}

Entry == [op : Ops, conn : Conns \cup {None}, n : Nat]

Kinds == {"Welcome", "Reply", "Record", "InputAck", "Error", "Goodbye"}

Clients ==
    [conn : Conns, outgoing : Seq([kind : Kinds, value : Nat, written : 0 .. (FRAME - 1)]),
     unsent : Nat, reading : BOOLEAN, cursor : Nat, input : Seq(0 .. (INPUT_LEN - 1)),
     input_cost : Nat, written : Nat, discarded : Nat, closing : BOOLEAN, gone : BOOLEAN,
     first : Kinds \cup {None}, last : Kinds \cup {None}, ack : Nat, record : Nat]

ASSUME NoneIsNothing ==
    /\ None \notin Clients /\ None \notin Nat /\ None \notin Kinds
    /\ None \notin {"Shutdown", "Terminated"}

\* The fields of Host and of its client, and the kernel's side of them, keep
\* their types: a frame is taken from the queue no later than its last unit is
\* written, and an Input from the pending ones no later than its last byte.
TypeOK ==
    /\ todo \in Seq(Entry)
    /\ client \in Clients \cup {None}
    /\ pending \in Seq(Conns) /\ backlog \in Seq(Conns)
    /\ journal \in Seq({"child", "other", "resized", "exited", "exited_early"})
    /\ draining \in Nat \cup {None}
    /\ delivered_end \in Nat
    /\ ended \in {None, "Shutdown"} /\ result \in {None, "Shutdown", "Terminated"}
    /\ \A b \in {pty_open, child_exit, accept_paused, sigPipe, sigterm, descriptors} : b \in BOOLEAN
    /\ status \in [Conns -> Statuses]
    /\ sent \in [Conns -> Seq(Hellos \cup Frames)]
    /\ received \in [Conns -> Nat] /\ acted \in [Conns -> Nat]
    /\ peer \in [Conns -> {"open", "half", "closed"}]
    /\ room \in [Conns -> 0 .. SOCKET_ROOM]
    /\ output \in Seq({"child", "other"}) /\ ptyRoom \in 0 .. PTY_ROOM
    /\ slave \subseteq {"child", "other"} /\ child \in {"running", "zombie", "reaped"}
    /\ due \subseteq {"flush", "drain", "pause"} \cup Conns

\* What the loop leaves undone when it goes to sleep, something will wake it for:
\* there is no buffered frame that a bound no longer holds back, no record the
\* stream has room for, no exit whose output was all read, no child to reap and
\* no SIGTERM to act on without a byte in the pipe, none of which anything would
\* announce again.  Pending input waits for the pty to take it; the exception
\* are Inputs that the last act_on_buffered let through when the output is at
\* its end: they wait for an unrelated event, but are the only ones, none of
\* which is started (see InputBringsWakeup).  And what only time can end has a
\* deadline: a client being told its last frame, a pause of accept, a connection
\* without a Hello.
NoLostWakeup ==
    Running("poll") =>
        /\ Stops
        /\ ~ CanRefill
        /\ client # None /\ client.input # <<>> =>
               PtyOut \/ (~ pty_open /\ \A i \in 1 .. Len(client.input) : client.input[i] = 0)
        /\ draining # None => PtyInReady
        /\ child = "zombie" \/ sigterm => sigPipe
        /\ client # None /\ client.closing => "flush" \in Deadlines
        /\ ended = None /\ ~ Listening => "pause" \in Deadlines
        /\ \A c \in Conns : status[c] = "pending" => c \in Deadlines

\* "no held frame that could be acted on is left for the next poll; whatever it
\* queues brings its own wakeup (the pty becoming writable for input, the socket
\* for replies)" (host.rs:404-407, of act_on_buffered at the end of Host::step):
\* with input pending, the loop polls the pty for room, or has something to send
\* whose sending wakes it.
InputBringsWakeup ==
    Running("poll") /\ client # None /\ client.input # <<>> => PtyOut \/ ClientOut

\* Whether frame i of c would be acted on, were the bounds to let it through:
\* nothing before it ended the connection.
Effective(c, i) ==
    /\ \A j \in 2 .. (i - 1) : sent[c][j] \notin {"Hello", "Malformed", "Shutdown"}
    /\ Cardinality({j \in 2 .. (i - 1) : sent[c][j] = "Read"}) <= 1

\* A close never loses what was sent before it, wherever it sat behind held
\* input, in the buffer or in the socket; a Shutdown among it ends the host.
CloseActsOnEverything ==
    \A c \in Conns : status[c] = "gone" =>
        \A i \in 2 .. Len(sent[c]) : Effective(c, i) =>
            /\ sent[c][i] # "Malformed" => acted[c] >= i
            /\ sent[c][i] = "Shutdown" => ended = "Shutdown"

InputsActedOn(c) == Cardinality({i \in 2 .. acted[c] : sent[c][i] = "Input"})

\* The totals an InputAck carries are the size of the first Inputs the client
\* sent, whether they were written whole, in parts, or discarded half written;
\* what is pending is the rest, only the first of it started, and its running
\* cost is exact and within the bound.
InputAccounted ==
    client # None /\ ~ client.closing /\ ~ client.gone =>
        /\ client.written + client.discarded
               = INPUT_LEN * (InputsActedOn(client.conn) - Len(client.input))
        /\ client.input_cost = Sum([i \in DOMAIN client.input |-> (INPUT_LEN - client.input[i]) + INPUT_COST])
        /\ client.input_cost <= MAX_PENDING_INPUT
        /\ \A i \in 2 .. Len(client.input) : client.input[i] = 0

OfKind(outgoing, kinds) == Keep(outgoing, [kind : kinds, value : Nat, written : 0 .. (FRAME - 1)])

Acks(outgoing) == OfKind(outgoing, {"InputAck"})

\* Acknowledgements only ever tell of progress, and once the loop sleeps the
\* last one, handed or queued, tells of all of it.
AcksTellProgress ==
    client # None =>
        LET told == <<client.ack>> \o [i \in 1 .. Len(Acks(client.outgoing)) |->
                                           Acks(client.outgoing)[i].value]
        IN  /\ \A i \in 2 .. Len(told) : told[i - 1] < told[i]
            /\ Running("poll") /\ ~ client.closing =>
                   told[Len(told)] = client.written + client.discarded

\* What a client is told of its input is what became of it.
AcksAccounted == InputAccounted /\ AcksTellProgress

\* The queue's running total is exact; replies and records never exceed the
\* high water, or a frame that is larger, by more than a frame, and
\* acknowledgements number at most two more than the other frames.
QueueBounded ==
    client # None =>
        LET others == OfKind(client.outgoing, Kinds \ {"InputAck"})
        IN  /\ client.unsent = Unsent(client.outgoing)
            /\ Unsent(others) <= Max({OUTGOING_HIGH_WATER, FRAME}) + FRAME
            /\ Len(Acks(client.outgoing)) <= Len(others) + 2

LastFrames == {"Error", "Goodbye"}

\* Welcome comes before everything else, whatever ends the connection; an Error
\* or a Goodbye comes after everything else; only the front frame is started.
FramesInOrder ==
    client # None /\ ~ client.gone =>
        LET n == Len(client.outgoing)
        IN  /\ client.first \in {None, "Welcome"}
            /\ client.first = None <=> n > 0 /\ client.outgoing[1].kind = "Welcome"
            /\ \A i \in 2 .. n : client.outgoing[i].kind # "Welcome" /\ client.outgoing[i].written = 0
            /\ \A i \in 1 .. n : client.outgoing[i].kind \in LastFrames <=> client.closing /\ i = n
            /\ client.last \in LastFrames => client.closing /\ n = 0

\* The stream hands out every record once, in order, and what was handed counts
\* as delivered.
StreamInOrder ==
    client # None /\ ~ client.gone /\ ~ client.closing =>
        LET records == OfKind(client.outgoing, {"Record"})
        IN  /\ \A i \in 1 .. Len(records) : records[i].value = client.record + i
            /\ client.cursor = client.record + Len(records)
            /\ \A i \in 1 .. client.record : journal[i] \in {"child", "other"} => delivered_end >= i

\* Unless the drain was cut short, everything the child wrote before it exited
\* is journaled before its exit.
ExitAfterOutput ==
    \A i \in 1 .. Len(journal) : journal[i] = "exited" =>
        /\ "child" \notin Range(output)
        /\ \A j \in (i + 1) .. Len(journal) : journal[j] # "child"

\* What the child wrote reaches the client once, in order, and before its exit.
OutputInOrder == StreamInOrder /\ ExitAfterOutput

\* Every connection is in one place, and a place is never kept for one that was
\* closed; a client is displaced only by a connection that asked to take over.
ConnectionsPlaced ==
    /\ \A c \in Conns :
           /\ status[c] = "backlog" <=> c \in Range(backlog)
           /\ status[c] = "pending" <=> c \in Range(pending)
           /\ status[c] = "client" <=> client # None /\ client.conn = c
           /\ status[c] = "displaced" =>
                  \E d \in Conns \ {c} : sent[d] # <<>> /\ sent[d][1] = "HelloTakeOver"
    /\ Len(pending) <= MAX_PENDING_CONNECTIONS

\* What Host holds of its client, its queues and its connections fits together:
\* no path that ends a connection, whatever it was in the middle of, leaves a
\* total, a frame or a place behind.
Consistent == TypeOK /\ QueueBounded /\ FramesInOrder /\ ConnectionsPlaced

=============================================================================
