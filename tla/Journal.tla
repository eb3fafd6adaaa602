------------------------------- MODULE Journal -------------------------------
(***************************************************************************)
(* The journal of one terminal (crates/terminal-host/src/journal.rs): the  *)
(* latest snapshot plus the tail of output and resizes after it, bounded   *)
(* by a cap, and the cursor that streams it to the one client.             *)
(*                                                                         *)
(* How the output is packed into blocks is left to JournalBlocks, which is *)
(* shown to implement this module.  Here the retained output is the range  *)
(* start.offset .. end-1 of the output stream, and the retained resizes    *)
(* are the entries of resizeLog from start.resizes on; the entries below   *)
(* it are history, which no operation looks at except through startSize.   *)
(* A byte of output is its offset in the stream.                           *)
(*                                                                         *)
(* The reader (rx) is the client's end of the stream.  It is computed from *)
(* the records it receives and from nothing else.                          *)
(***************************************************************************)
EXTENDS JournalParameters, Sequences

VARIABLES
    snapshot,       \* position of the stored snapshot
    blob,           \* the stored snapshot: the terminal size it holds, or None
    start,          \* position where retained records start
    startSize,      \* the size in force at start
    trimmed,        \* was anything after the snapshot trimmed
    end,            \* offset of the next output byte
    resizeLog,      \* every resize so far: its offset and its size
    exit,           \* position of the child's exit, or None
    cursor,         \* the client's cursor
    rx              \* what the client made of the records it received

journalVars == <<snapshot, blob, start, startSize, trimmed, end, resizeLog, exit>>
vars == <<journalVars, cursor, rx>>

Position == [offset : Nat, resizes : Nat]
Pos(o, r) == [offset |-> o, resizes |-> r]
Origin == Pos(0, 0)

\* The order of positions the journal compares them by.
AtOrAfter(p, q) == p.offset >= q.offset /\ p.resizes >= q.resizes

resize_count == Len(resizeLog)
current == Pos(end, resize_count)

\* The size in force once every resize numbered below r was applied.
SizeAt(r) == IF r = 0 THEN InitialSize ELSE resizeLog[r].size

size == SizeAt(resize_count)

\* Resize number i (from 0) is entry i + 1 of the log.  These are the
\* numbers of the entries a tail that starts at p still holds.
Retained(p, log) == (p.resizes + 1) .. Len(log)

\* What the tail from p on costs against the cap.
Cost(p, e, log) == (e - p.offset) + RECORD_COST * (Len(log) - p.resizes)

(***************************************************************************)
(* p lies between the resizes below it and those at or above it, judged    *)
(* by the resizes retained in log from start on.                           *)
(***************************************************************************)
consistent(p, log) ==
    /\ p.resizes \in start.resizes .. Len(log)
    /\ \A i \in Retained(start, log) :
           IF i <= p.resizes THEN log[i].offset <= p.offset
                             ELSE log[i].offset >= p.offset

\* p is a point of the tail of a journal with end e and resizes log.
InTail(p, e, log) ==
    /\ p.offset \in start.offset .. e
    /\ consistent(p, log)

(***************************************************************************)
(* Trimming.  The loop drops the oldest record, a resize before the output *)
(* at its offset and output byte by byte up to the next resize, until the  *)
(* rest fits the cap: the new start is the first point of the tail from    *)
(* which the tail fits.                                                    *)
(***************************************************************************)
FirstThatFits(p, e, log) ==
    /\ InTail(p, e, log)
    /\ Cost(p, e, log) <= Cap
    /\ \A q \in [offset : start.offset .. e, resizes : start.resizes .. Len(log)] :
           InTail(q, e, log) /\ Cost(q, e, log) <= Cap => AtOrAfter(q, p)

trim(e, log) ==
    \E p \in [offset : start.offset .. e, resizes : start.resizes .. Len(log)] :
        /\ FirstThatFits(p, e, log)
        /\ start' = p
        /\ startSize' = IF p.resizes > start.resizes THEN log[p.resizes].size
                                                     ELSE startSize
        /\ trimmed' = (trimmed \/ p # start)

-----------------------------------------------------------------------------
(* The event loop's operations on the journal.                             *)

\* The pty was read: n more bytes of output.
push_output(n) ==
    /\ end + n <= MaxBytes
    /\ end' = end + n
    /\ trim(end + n, resizeLog)
    /\ UNCHANGED <<snapshot, blob, resizeLog, exit, cursor, rx>>

\* A resize was applied, at the current offset.
push_resize(s) ==
    /\ resize_count < MaxResizes
    /\ resizeLog' = Append(resizeLog, [offset |-> end, size |-> s])
    /\ trim(end, Append(resizeLog, [offset |-> end, size |-> s]))
    /\ UNCHANGED <<snapshot, blob, end, exit, cursor, rx>>

\* The child was reaped and its output drained; only the first call counts.
push_exit ==
    /\ exit = None
    /\ exit' = current
    /\ UNCHANGED <<snapshot, blob, start, startSize, trimmed, end, resizeLog, cursor, rx>>

\* Why a snapshot at p is rejected (the size check comes first in the code
\* and looks at nothing but the blob).
BeforeCurrent(p) == ~ AtOrAfter(p, snapshot)
OutsideRetained(p) == p.offset \notin start.offset .. end
Acceptable(p) == ~ BeforeCurrent(p) /\ ~ OutsideRetained(p) /\ consistent(p, resizeLog)

\* A client's snapshot of its own state at p: it holds the size in force there.
accept_snapshot(p) ==
    /\ Acceptable(p)
    /\ snapshot' = p
    /\ blob' = SizeAt(p.resizes)
    /\ start' = p
    /\ startSize' = IF p.resizes > start.resizes THEN resizeLog[p.resizes].size
                                                 ELSE startSize
    /\ trimmed' = FALSE
    /\ UNCHANGED <<end, resizeLog, exit, cursor, rx>>

-----------------------------------------------------------------------------
(* The client's stream.                                                    *)

NoCursor == [state |-> "None", position |-> Origin, exit_sent |-> FALSE]

\* A reader that has processed everything before p, in a terminal of size s.
\* seen and lost are the output it received and was told it lost since.
Reader(p, s) ==
    [base |-> p, pos |-> p, size |-> s, exited |-> FALSE, seen |-> {}, lost |-> {}]

\* Whether a read from p continues in the tail or rebuilds from scratch.
Within(p) ==
    /\ ~ (blob # None /\ p = snapshot)
    /\ InTail(p, end, resizeLog)

read(p) ==
    /\ cursor.state = "None"
    /\ IF Within(p)
       THEN /\ cursor' = [state |-> "Tail", position |-> p, exit_sent |-> FALSE]
            /\ rx' = Reader(p, SizeAt(p.resizes))
       ELSE /\ cursor' = [state |-> "SendSnapshot", position |-> snapshot, exit_sent |-> FALSE]
            /\ rx' = Reader(Origin, InitialSize)
    /\ UNCHANGED journalVars

\* The connection ended: a later read starts a new stream.
disconnect ==
    /\ cursor.state # "None"
    /\ cursor' = NoCursor
    /\ rx' = Reader(Origin, InitialSize)
    /\ UNCHANGED journalVars

\* The gap record: output from `from` on was dropped up to start, where the
\* size is startSize.
ReceiveGap(from) ==
    rx' = [rx EXCEPT !.pos = start, !.size = startSize,
                     !.lost = @ \cup (from .. (start.offset - 1))]

\* A call of next moves the cursor over what there is nothing to send for
\* before it looks at the tail: a snapshot that does not exist, a gap that is
\* empty because the tail starts where the snapshot ends.
PastSnapshot ==
    IF cursor.state = "SendSnapshot" /\ blob = None
    THEN [cursor EXCEPT !.state = "SendGap", !.position = snapshot]
    ELSE cursor

Settled ==
    IF PastSnapshot.state = "SendGap" /\ ~ trimmed /\ PastSnapshot.position = start
    THEN [PastSnapshot EXCEPT !.state = "Tail"]
    ELSE PastSnapshot

\* SendSnapshot: the stored snapshot goes first; the reader rebuilds from it.
next_snapshot ==
    /\ Settled.state = "SendSnapshot"
    /\ cursor' = [cursor EXCEPT !.state = "SendGap", !.position = snapshot]
    /\ rx' = Reader(snapshot, blob)
    /\ UNCHANGED journalVars

\* SendGap: the tail no longer starts where the snapshot sent ends, because
\* records were trimmed or because a newer snapshot was accepted since.
next_gap ==
    /\ Settled.state = "SendGap"
    /\ cursor' = [Settled EXCEPT !.state = "Tail", !.position = start]
    /\ ReceiveGap(Settled.position.offset)
    /\ UNCHANGED journalVars

\* The next records were trimmed, or dropped by a snapshot.
Behind == ~ AtOrAfter(Settled.position, start)

next_in_tail_gap ==
    /\ Settled.state = "Tail"
    /\ Behind
    /\ cursor' = [Settled EXCEPT !.position = start]
    /\ ReceiveGap(Settled.position.offset)
    /\ UNCHANGED journalVars

ExitDue ==
    /\ exit # None
    /\ ~ Settled.exit_sent
    /\ AtOrAfter(Settled.position, exit)

next_in_tail_exit ==
    /\ Settled.state = "Tail"
    /\ ~ Behind
    /\ ExitDue
    /\ cursor' = [Settled EXCEPT !.exit_sent = TRUE]
    /\ rx' = [rx EXCEPT !.exited = TRUE]
    /\ UNCHANGED journalVars

\* The next resize of the cursor, if there is one at or before its offset.
ResizeDue ==
    /\ Settled.position.resizes < resize_count
    /\ resizeLog[Settled.position.resizes + 1].offset <= Settled.position.offset

next_in_tail_resize ==
    /\ Settled.state = "Tail"
    /\ ~ Behind
    /\ ~ ExitDue
    /\ ResizeDue
    /\ cursor' = [Settled EXCEPT !.position.resizes = @ + 1]
    /\ rx' = [rx EXCEPT !.pos.resizes = Settled.position.resizes + 1,
                        !.size = resizeLog[Settled.position.resizes + 1].size]
    /\ UNCHANGED journalVars

\* An Output stops at the next resize and at an exit not sent yet.
OutputLimit ==
    LET toResize == IF Settled.position.resizes < resize_count
                    THEN resizeLog[Settled.position.resizes + 1].offset
                    ELSE end
    IN  IF exit # None /\ ~ Settled.exit_sent
           /\ exit.offset > Settled.position.offset /\ exit.offset < toResize
        THEN exit.offset
        ELSE toResize

\* Where in the limit one Output ends is the block's business.
next_in_tail_output(to) ==
    /\ Settled.state = "Tail"
    /\ ~ Behind
    /\ ~ ExitDue
    /\ ~ ResizeDue
    /\ Settled.position.offset < end
    /\ to \in (Settled.position.offset + 1) .. OutputLimit
    /\ cursor' = [Settled EXCEPT !.position.offset = to]
    /\ rx' = [rx EXCEPT !.pos.offset = to,
                        !.seen = @ \cup (Settled.position.offset .. (to - 1))]
    /\ UNCHANGED journalVars

\* There is nothing to send now, but the call settled the cursor.
next_nothing ==
    /\ Settled.state = "Tail"
    /\ ~ Behind
    /\ ~ ExitDue
    /\ ~ ResizeDue
    /\ Settled.position.offset >= end
    /\ cursor' = Settled
    /\ UNCHANGED <<journalVars, rx>>

next ==
    \/ next_snapshot
    \/ next_gap
    \/ next_in_tail_gap
    \/ next_in_tail_exit
    \/ next_in_tail_resize
    \/ \E to \in 1 .. MaxBytes : next_in_tail_output(to)
    \/ next_nothing

-----------------------------------------------------------------------------
Init ==
    /\ snapshot = Origin
    /\ blob \in {None, InitialSize}
    /\ start = Origin
    /\ startSize = InitialSize
    /\ trimmed = FALSE
    /\ end = 0
    /\ resizeLog = <<>>
    /\ exit = None
    /\ cursor = NoCursor
    /\ rx = Reader(Origin, InitialSize)

\* A client may name any position, one it never reached included.
NamedPositions == [offset : 0 .. MaxBytes, resizes : 0 .. MaxResizes]

Next ==
    \/ \E n \in 1 .. MaxBytes : push_output(n)
    \/ \E s \in Sizes : push_resize(s)
    \/ push_exit
    \/ \E p \in NamedPositions : accept_snapshot(p)
    \/ \E p \in NamedPositions : read(p)
    \/ disconnect
    \/ next

Spec == Init /\ [][Next]_vars

-----------------------------------------------------------------------------
(* Properties.                                                             *)

Readers == [base : Position, pos : Position, size : Sizes, exited : BOOLEAN,
            seen : SUBSET Nat, lost : SUBSET Nat]

\* The fields of Journal, the cursor and the reader keep their types: offsets
\* and counts never become negative, and no size is ever unknown.
TypeOK ==
    /\ snapshot \in Position
    /\ blob \in Sizes \cup {None}
    /\ start \in Position
    /\ startSize \in Sizes
    /\ trimmed \in BOOLEAN
    /\ end \in Nat
    /\ resizeLog \in Seq([offset : Nat, size : Sizes])
    /\ exit \in Position \cup {None}
    /\ cursor \in [state : {"None", "SendSnapshot", "SendGap", "Tail"},
                   position : Position, exit_sent : BOOLEAN]
    /\ rx \in Readers

\* The size stated where retained records start, which every gap carries, is
\* the size in force after every resize dropped so far: dropped resizes are
\* folded into it by trim and by accept_snapshot alike.
StartSizeInForce == startSize = SizeAt(start.resizes)

\* Trimming and snapshots keep output and resizes in one order: no dropped
\* resize lies after retained output, no retained one before it, and the
\* start lies between the snapshot and the end.
TailInOrder ==
    /\ AtOrAfter(start, snapshot)
    /\ AtOrAfter(current, start)
    /\ \A i \in 1 .. resize_count :
           IF i <= start.resizes THEN resizeLog[i].offset <= start.offset
                                 ELSE resizeLog[i].offset >= start.offset
    /\ \A i, j \in 1 .. resize_count : i < j => resizeLog[i].offset <= resizeLog[j].offset

\* The tail never costs more than the cap, and starts at the snapshot unless
\* something was trimmed.
TailBounded ==
    /\ Cost(start, end, resizeLog) <= Cap
    /\ trimmed \/ start = snapshot

\* However resizes, output, snapshots and trims alternate, what is retained is
\* one stretch of the stream, within the cap, whose first size is known.
TailSound == TypeOK /\ StartSizeInForce /\ TailInOrder /\ TailBounded

\* A reader knows the size in force where it stands, whichever of the initial
\* size, a snapshot record, a gap or a resize told it, and whatever was
\* trimmed or snapshotted between two records of its stream.
ReaderKnowsSize == cursor.state = "Tail" => rx.size = SizeAt(rx.pos.resizes)

\* Every byte between where the reader started (or rebuilt) and where it
\* stands was either received or covered by a gap it was told of: the stream
\* never skips output silently, also when a newer snapshot replaced the one
\* it is rebuilding from.
NoSilentHole ==
    /\ cursor.state = "Tail" => rx.pos = cursor.position
    /\ rx.base.offset .. (rx.pos.offset - 1) = rx.seen \cup rx.lost

\* No byte reaches a reader twice, and none it received is also reported lost.
NothingTwice == rx.seen \cap rx.lost = {}

\* The exit is told after every record before it, and no output after it is
\* sent to a reader that has not been told.
ExitInOrder ==
    /\ rx.exited => exit # None /\ AtOrAfter(rx.pos, exit)
    /\ exit # None /\ ~ rx.exited => \A o \in rx.seen : o < exit.offset

\* The stream a reader is sent: no silent hole, nothing twice, the exit in its
\* place and the size always known, whatever was trimmed, snapshotted or
\* superseded between two reads.
StreamTold == NoSilentHole /\ NothingTwice /\ ExitInOrder /\ ReaderKnowsSize

\* Nothing the journal keeps goes back: positions of the snapshot, of the
\* start and of the end only advance, and the exit stays where it is.
NeverBackwards ==
    [][ /\ AtOrAfter(snapshot', snapshot)
        /\ AtOrAfter(start', start)
        /\ AtOrAfter(current', current)
        /\ exit # None => exit' = exit ]_vars

=============================================================================
