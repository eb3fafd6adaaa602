---------------------------- MODULE JournalBlocks ----------------------------
(***************************************************************************)
(* The journal as crates/terminal-host/src/journal.rs stores it: output    *)
(* packed into blocks that are filled at the back and cut at the front,    *)
(* the retained resizes in a queue of their own, and a running cost.  It   *)
(* implements module Journal, which has neither blocks nor loops.          *)
(*                                                                         *)
(* A byte of output is its offset in the stream, and a block holds its     *)
(* bytes, so a slice that is taken wrongly delivers the wrong bytes.  The  *)
(* stream's messages are built from the journal alone and the reader from  *)
(* the messages alone.                                                     *)
(***************************************************************************)
EXTENDS JournalParameters, Sequences, SequencesExt

CONSTANT MAX_OUTPUT_CHUNK     \* bytes a block holds

ASSUME BlocksHoldOutput == MAX_OUTPUT_CHUNK \in Nat \ {0}

VARIABLES
    j,                        \* struct Journal
    cursor,                   \* the client's Cursor
    rx,                       \* the client's end of the stream
    history                   \* every resize so far (no operation reads it)

vars == <<j, cursor, rx, history>>

Pos(o, r) == [offset |-> o, resizes |-> r]

-----------------------------------------------------------------------------
(* Block and Journal.                                                      *)

len(block) == Len(block.data) - block.skip
bytes(block) == SubSeq(block.data, block.skip + 1, Len(block.data))
block_end(block) == block.offset + len(block)
cut_front(block, n) == [block EXCEPT !.skip = @ + n, !.offset = @ + n]

new(initial) ==
    [snapshot |-> Pos(0, 0), blob |-> initial, output |-> <<>>, resizes |-> <<>>, cost |-> 0,
     start |-> Pos(0, 0), start_size |-> InitialSize, trimmed |-> FALSE, end |-> 0,
     resize_count |-> 0, size |-> InitialSize, exit |-> None]

current == Pos(j.end, j.resize_count)

ResizeFirst(jn) ==
    /\ jn.resizes # <<>>
    /\ jn.output = <<>> \/ Head(jn.resizes).offset <= Head(jn.output).offset

\* Mutant: the size of a dropped resize is not kept.
DropResize_forgotten(jn) ==
    [jn EXCEPT !.resizes = Tail(@), !.cost = @ - RECORD_COST,
               !.start.resizes = Head(jn.resizes).index + 1]

DropResize(jn) ==
    [jn EXCEPT !.resizes = Tail(@), !.cost = @ - RECORD_COST,
               !.start_size = Head(jn.resizes).size,
               !.start.resizes = Head(jn.resizes).index + 1]

\* Mutant: a block is dropped whole, or up to the next resize.
CutOutput_whole(jn) ==
    LET block == Head(jn.output)
        room == IF jn.resizes = <<>> THEN len(block) ELSE Head(jn.resizes).offset - block.offset
        cut == Min({len(block), room})
        rest == cut_front(block, cut)
    IN  [jn EXCEPT !.output = (IF len(rest) = 0 THEN <<>> ELSE <<rest>>) \o Tail(@),
                   !.cost = @ - cut]

\* Output is cut no further than the first retained resize.
CutOutput(jn) ==
    LET block == Head(jn.output)
        room == IF jn.resizes = <<>> THEN len(block) ELSE Head(jn.resizes).offset - block.offset
        cut == Min({jn.cost - Cap, len(block), room})
        rest == cut_front(block, cut)
    IN  [jn EXCEPT !.output = (IF len(rest) = 0 THEN <<>> ELSE <<rest>>) \o Tail(@),
                   !.cost = @ - cut]

RECURSIVE trim(_)
trim(jn) ==
    IF jn.cost <= Cap THEN jn
    ELSE LET cut == IF ResizeFirst(jn) THEN DropResize(jn) ELSE CutOutput(jn)
         IN  trim([cut EXCEPT !.trimmed = TRUE,
                              !.start.offset = IF cut.output = <<>> THEN cut.end
                                               ELSE Head(cut.output).offset])

Room(output) == IF output = <<>> THEN 0 ELSE MAX_OUTPUT_CHUNK - Len(Last(output).data)

RECURSIVE Fill(_, _)
Fill(jn, data) ==
    IF data = <<>> THEN jn
    ELSE IF Room(jn.output) = 0
    THEN Fill([jn EXCEPT !.output = Append(@, [offset |-> jn.end, data |-> <<>>, skip |-> 0])], data)
    ELSE LET take == Min({Len(data), Room(jn.output)})
         IN  Fill([jn EXCEPT !.output[Len(jn.output)].data = @ \o SubSeq(data, 1, take),
                             !.end = @ + take, !.cost = @ + take],
                  SubSeq(data, take + 1, Len(data)))

\* Mutant: every push starts a block of its own.
push_output_apart(n) ==
    /\ j.end + n <= MaxBytes
    /\ j' = trim(Fill([j EXCEPT !.output = Append(@, [offset |-> j.end, data |-> <<>>, skip |-> 0])],
                      [i \in 1 .. n |-> j.end + i - 1]))
    /\ UNCHANGED <<cursor, rx, history>>

push_output(n) ==
    /\ j.end + n <= MaxBytes
    /\ j' = trim(Fill(j, [i \in 1 .. n |-> j.end + i - 1]))
    /\ UNCHANGED <<cursor, rx, history>>

\* Mutant: a resize costs nothing.
push_resize_free(s) ==
    /\ j.resize_count < MaxResizes
    /\ j' = trim([j EXCEPT !.resizes = Append(@, [offset |-> j.end, index |-> j.resize_count, size |-> s]),
                           !.resize_count = @ + 1, !.size = s])
    /\ history' = Append(history, [offset |-> j.end, size |-> s])
    /\ UNCHANGED <<cursor, rx>>

push_resize(s) ==
    /\ j.resize_count < MaxResizes
    /\ j' = trim([j EXCEPT !.resizes = Append(@, [offset |-> j.end, index |-> j.resize_count, size |-> s]),
                           !.resize_count = @ + 1, !.size = s, !.cost = @ + RECORD_COST])
    /\ history' = Append(history, [offset |-> j.end, size |-> s])
    /\ UNCHANGED <<cursor, rx>>

push_exit ==
    /\ j.exit = None
    /\ j' = [j EXCEPT !.exit = current]
    /\ UNCHANGED <<cursor, rx, history>>

\* Only the two retained resizes around p are looked at.
consistent(p) ==
    LET at == p.resizes - j.start.resizes + 1
    IN  /\ p.resizes \in j.start.resizes .. j.resize_count
        /\ at - 1 \in DOMAIN j.resizes => j.resizes[at - 1].offset <= p.offset
        /\ at \in DOMAIN j.resizes => j.resizes[at].offset >= p.offset

Acceptable(p) ==
    /\ p.offset >= j.snapshot.offset /\ p.resizes >= j.snapshot.resizes
    /\ p.offset \in j.start.offset .. j.end
    /\ consistent(p)

RECURSIVE DropOutputBefore(_, _)
DropOutputBefore(jn, offset) ==
    IF jn.output = <<>> THEN jn
    ELSE LET block == Head(jn.output)
             cut == IF offset > block.offset THEN offset - block.offset ELSE 0
         IN  IF block_end(block) <= offset
             THEN DropOutputBefore([jn EXCEPT !.output = Tail(@), !.cost = @ - len(block)], offset)
             ELSE [jn EXCEPT !.output[1] = cut_front(@, cut), !.cost = @ - cut]

RECURSIVE DropResizesBefore(_, _)
DropResizesBefore(jn, index) ==
    IF jn.resizes = <<>> \/ Head(jn.resizes).index >= index THEN jn
    ELSE DropResizesBefore([jn EXCEPT !.start_size = Head(jn.resizes).size,
                                      !.cost = @ - RECORD_COST,
                                      !.resizes = Tail(@)], index)

\* A client's snapshot at p holds the size in force there.
SizeAt(r) == IF r = 0 THEN InitialSize ELSE history[r].size

accept_snapshot(p) ==
    /\ Acceptable(p)
    /\ j' = [DropResizesBefore(DropOutputBefore(j, p.offset), p.resizes)
                 EXCEPT !.snapshot = p, !.blob = SizeAt(p.resizes), !.start = p, !.trimmed = FALSE]
    /\ UNCHANGED <<cursor, rx, history>>

-----------------------------------------------------------------------------
(* The stream: next moves the cursor and returns a message or None.        *)

At(state, p, sent) == [state |-> state, position |-> p, exit_sent |-> sent]
Stream(c, message) == [cursor |-> c, message |-> message]

gap_message(from) ==
    [kind |-> "Gap", from |-> from, to |-> j.start.offset, resizes |-> j.start.resizes,
     size |-> j.start_size]

next_in_tail(c) ==
    LET p == c.position
        at == p.resizes - j.start.resizes + 1
        resizeNext == at \in DOMAIN j.resizes
        toResize == IF resizeNext THEN j.resizes[at].offset ELSE j.end
        limit == IF j.exit # None /\ ~ c.exit_sent
                 THEN IF j.exit.offset > p.offset THEN Min({toResize, j.exit.offset}) ELSE toResize
                 ELSE toResize
        block == SelectSeq(j.output, LAMBDA b : block_end(b) > p.offset)[1]
        data == SubSeq(bytes(block), p.offset - block.offset + 1, Min({limit - block.offset, len(block)}))
    IN  IF p.offset < j.start.offset \/ p.resizes < j.start.resizes
        THEN Stream([c EXCEPT !.position = j.start], gap_message(p.offset))
        ELSE IF j.exit # None /\ ~ c.exit_sent
                /\ (j.exit # None => j.exit.offset <= p.offset /\ j.exit.resizes <= p.resizes)
        THEN Stream([c EXCEPT !.exit_sent = TRUE], [kind |-> "Exited", offset |-> j.exit.offset])
        ELSE IF resizeNext /\ toResize <= p.offset
        THEN Stream([c EXCEPT !.position.resizes = @ + 1],
                    [kind |-> "Resized", offset |-> toResize, index |-> j.resizes[at].index,
                     size |-> j.resizes[at].size])
        ELSE IF p.offset >= j.end
        THEN Stream(c, None)
        ELSE Stream([c EXCEPT !.position.offset = @ + Len(data)],
                    [kind |-> "Output", offset |-> p.offset, data |-> data])

\* Mutant: a snapshot accepted since is not told from the one sent.
GapDue_superseded(c) == j.trimmed

GapDue(c) == j.trimmed \/ c.position # j.start

RECURSIVE Produce(_)
Produce(c) ==
    CASE c.state = "SendSnapshot" ->
             LET to == [c EXCEPT !.state = "SendGap", !.position = j.snapshot]
             IN  IF j.blob # None
                 THEN Stream(to, [kind |-> "SnapshotRecord", position |-> j.snapshot, blob |-> j.blob])
                 ELSE Produce(to)
      [] c.state = "SendGap" ->
             LET to == [c EXCEPT !.state = "Tail", !.position = j.start]
             IN  IF GapDue(c)
                 THEN Stream(to, gap_message(c.position.offset))
                 ELSE Produce(to)
      [] c.state = "Tail" -> next_in_tail(c)

Reader(p, s) ==
    [base |-> p, pos |-> p, size |-> s, exited |-> FALSE, seen |-> {}, lost |-> {}]

\* The reader after message m.
Receive(m) ==
    CASE m.kind = "SnapshotRecord" -> Reader(m.position, m.blob)
      [] m.kind = "Gap" -> [rx EXCEPT !.pos = Pos(m.to, m.resizes), !.size = m.size,
                                      !.lost = @ \cup (m.from .. (m.to - 1))]
      [] m.kind = "Resized" -> [rx EXCEPT !.pos.resizes = m.index + 1, !.size = m.size]
      [] m.kind = "Output" -> [rx EXCEPT !.pos.offset = m.offset + Len(m.data),
                                         !.seen = @ \cup ToSet(m.data)]
      [] m.kind = "Exited" -> [rx EXCEPT !.exited = TRUE]

\* Mutant: a reader at the end is taken to have been told everything.
next_idle_first ==
    /\ cursor.state # "None"
    /\ cursor.state = "Tail" => cursor.position # current
    /\ LET to == Produce(cursor)
       IN  /\ cursor' = to.cursor
           /\ rx' = IF to.message = None THEN rx ELSE Receive(to.message)
    /\ UNCHANGED <<j, history>>

next ==
    /\ cursor.state # "None"
    /\ LET to == Produce(cursor)
       IN  /\ cursor' = to.cursor
           /\ rx' = IF to.message = None THEN rx ELSE Receive(to.message)
    /\ UNCHANGED <<j, history>>

read(p) ==
    /\ cursor.state = "None"
    /\ LET within == /\ ~ (j.blob # None /\ p = j.snapshot)
                     /\ p.offset \in j.start.offset .. j.end
                     /\ consistent(p)
       IN  /\ cursor' = IF within THEN At("Tail", p, FALSE) ELSE At("SendSnapshot", j.snapshot, FALSE)
           /\ rx' = IF within THEN Reader(p, SizeAt(p.resizes)) ELSE Reader(Pos(0, 0), InitialSize)
    /\ UNCHANGED <<j, history>>

disconnect ==
    /\ cursor.state # "None"
    /\ cursor' = At("None", Pos(0, 0), FALSE)
    /\ rx' = Reader(Pos(0, 0), InitialSize)
    /\ UNCHANGED <<j, history>>

-----------------------------------------------------------------------------
Init ==
    /\ \E initial \in {None, InitialSize} : j = new(initial)
    /\ cursor = At("None", Pos(0, 0), FALSE)
    /\ rx = Reader(Pos(0, 0), InitialSize)
    /\ history = <<>>

NamedPositions == [offset : 0 .. MaxBytes, resizes : 0 .. MaxResizes]

Next ==
    \/ \E n \in 1 .. MaxBytes : push_output(n)
    \/ \E s \in Sizes : push_resize(s)
    \/ push_exit
    \/ \E p \in NamedPositions : accept_snapshot(p)
    \/ \E p \in NamedPositions : read(p)
    \/ disconnect
    \/ next

Spec == Init /\ [][Next]_vars

FairSpec == Spec /\ WF_vars(next)

-----------------------------------------------------------------------------
(* Properties.                                                             *)

Abstract == INSTANCE Journal WITH
    snapshot <- j.snapshot, blob <- j.blob, start <- j.start, startSize <- j.start_size,
    trimmed <- j.trimmed, end <- j.end, resizeLog <- history, exit <- j.exit

\* Every operation on blocks and queues does what module Journal says of it:
\* trim's loop stops at the first point that fits the cap, a position judged by
\* two resizes is judged as by all of them, and a message carries the bytes of
\* the range it claims.
ImplementsJournal == Abstract!Spec

\* However resizes, output, snapshots and trims alternate, what is retained is
\* one stretch of the stream, within the cap, whose first size is known
\* (module Journal says it part by part).
TailSound == Abstract!TailSound

\* The stream a reader is sent: no silent hole, nothing twice, the exit in its
\* place and the size always known, whatever was trimmed, snapshotted or
\* superseded between two reads.
StreamTold == Abstract!StreamTold

\* The running cost is what is retained, however blocks were cut, and start
\* and end are where the blocks and the resizes say.
CostExact ==
    /\ j.cost = FoldLeft(LAMBDA n, b : n + len(b), 0, j.output) + RECORD_COST * Len(j.resizes)
    /\ j.start.offset = (IF j.output = <<>> THEN j.end ELSE Head(j.output).offset)
    /\ j.start.resizes = j.resize_count - Len(j.resizes)
    /\ j.resizes = [i \in 1 .. Len(j.resizes) |->
                        [offset |-> history[j.start.resizes + i].offset,
                         index |-> j.start.resizes + i - 1,
                         size |-> history[j.start.resizes + i].size]]

\* "Only the first can be partly trimmed and only the last partly filled, so the
\* blocks hold less than two blocks' worth beyond the retained output": no
\* block is empty, and they follow one another.
LessThanTwoBlocksExtra ==
    /\ \A i \in 1 .. Len(j.output) :
           /\ len(j.output[i]) > 0
           /\ bytes(j.output[i]) = [k \in 1 .. len(j.output[i]) |-> j.output[i].offset + k - 1]
           /\ i > 1 => j.output[i].offset = block_end(j.output[i - 1])
    /\ MAX_OUTPUT_CHUNK * Len(j.output) - (j.end - j.start.offset) < 2 * MAX_OUTPUT_CHUNK

\* What is retained is counted and held as it says, however pushes cut blocks
\* and trims cut into them.
BlocksExact == CostExact /\ LessThanTwoBlocksExtra

\* A reader that stays connected is told of the exit, by way of whatever
\* snapshot, gap, output and resizes come first.
ExitReachesReader ==
    (cursor.state # "None" /\ j.exit # None) ~> (rx.exited \/ cursor.state = "None")

=============================================================================
