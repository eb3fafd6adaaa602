------------------------- MODULE HostLifecycleProofs -------------------------
(***************************************************************************)
(* Proofs about the life of a terminal host around its event loop: the     *)
(* journal it keeps of its output (Journal), how the supervisor ends it    *)
(* and what it takes from nobody else by doing so (StopHosts), the file of *)
(* its version, which an uninstall must leave it (VersionLock), and how it *)
(* starts (HostStart).                                                     *)
(***************************************************************************)
EXTENDS Journal, HostStart, StopHosts, VersionLock, FiniteSetTheorems, TLAPS

-----------------------------------------------------------------------------
(***************************************************************************)
(* Proofs about the journal, for every cap, record cost, set of sizes and  *)
(* length of the output stream.                                            *)
(*                                                                         *)
(* The properties are not inductive by themselves.  What carries them is   *)
(* that every position the journal holds (the start, the exit, the         *)
(* cursor's) lies on the path of the stream: the resizes numbered below it *)
(* happened at or before its offset, the others at or after it.  Two       *)
(* positions on the path are ordered (PathIsAChain), so a cursor that is   *)
(* behind the start in one component is not ahead of it in the other, and  *)
(* a gap never takes a reader back.                                        *)
(***************************************************************************)

Logs == Seq([offset : Nat, size : Sizes])

Cursors == [state : {"None", "SendSnapshot", "SendGap", "Tail"},
            position : Position, exit_sent : BOOLEAN]

\* p separates the resizes of the log at its offset.
OnPath(p, upto, log) ==
    /\ p.resizes <= Len(log)
    /\ p.offset <= upto
    /\ \A i \in 1 .. Len(log) :
           IF i <= p.resizes THEN log[i].offset <= p.offset
                             ELSE log[i].offset >= p.offset

\* The size in force after the first r resizes of the log.
SizeIn(r, log) == IF r = 0 THEN InitialSize ELSE log[r].size

\* Resizes were logged in the order of their offsets, none past the end.
LogInv ==
    /\ \A i \in 1 .. Len(resizeLog) : resizeLog[i].offset <= end
    /\ \A i, j \in 1 .. Len(resizeLog) : i < j => resizeLog[i].offset <= resizeLog[j].offset

\* The start and the exit lie on the path; a stored snapshot holds the size
\* in force at its position, which is not after the start.
TailInv ==
    /\ OnPath(start, end, resizeLog)
    /\ AtOrAfter(start, snapshot)
    /\ startSize = SizeIn(start.resizes, resizeLog)
    /\ IF blob = None THEN snapshot = Origin ELSE blob = SizeIn(snapshot.resizes, resizeLog)
    /\ exit # None => OnPath(exit, end, resizeLog)

\* The cursor is on the path; before its gap is sent it is not past the start.
CursorInv ==
    /\ cursor.state = "Tail" => OnPath(cursor.position, end, resizeLog)
    /\ cursor.state = "SendGap" => AtOrAfter(start, cursor.position)
    /\ cursor.state \in {"None", "SendSnapshot"} => rx = Reader(Origin, InitialSize)
    /\ cursor.exit_sent = rx.exited

\* What the reader made of its records agrees with the cursor.
ReaderInv ==
    /\ cursor.state \in {"SendGap", "Tail"} =>
           rx.pos = cursor.position /\ rx.size = SizeIn(rx.pos.resizes, resizeLog)
    /\ rx.base.offset <= rx.pos.offset
    /\ rx.base.offset .. (rx.pos.offset - 1) = rx.seen \cup rx.lost
    /\ NothingTwice
    /\ ExitInOrder

\* The inductive invariant.
IndInv == TypeOK /\ LogInv /\ TailInv /\ CursorInv /\ ReaderInv

-----------------------------------------------------------------------------
(* Facts about positions and the log.                                      *)

\* What the entries of a log are.
LEMMA LogEntries ==
    ASSUME NEW log \in Logs
    PROVE  /\ Len(log) \in Nat
           /\ \A i \in 1 .. Len(log) : log[i].offset \in Nat /\ log[i].size \in Sizes
<1> DEFINE R == [offset : Nat, size : Sizes]
<1>1. \A i \in 1 .. Len(log) : log[i] \in R
    <2> HIDE DEF R
    <2>1. log \in Seq(R)
        BY DEF R, Logs
    <2> QED BY <2>1
<1> QED BY <1>1 DEF Logs

\* Sizes are in force at every point of a log.
LEMMA SizeInType ==
    ASSUME NEW log \in Logs, NEW r \in 0 .. Len(log)
    PROVE  SizeIn(r, log) \in Sizes
BY LogEntries, ConstantsOK DEF SizeIn

\* Of two positions on the path, one is at or after the other.
LEMMA PathIsAChain ==
    ASSUME NEW upto \in Nat, NEW log \in Logs,
           NEW p \in Position, NEW q \in Position,
           OnPath(p, upto, log), OnPath(q, upto, log)
    PROVE  AtOrAfter(p, q) \/ AtOrAfter(q, p)
<1>1. /\ p.offset \in Nat /\ p.resizes \in Nat
      /\ q.offset \in Nat /\ q.resizes \in Nat
    BY DEF Position
<1>2. /\ Len(log) \in Nat
      /\ \A i \in 1 .. Len(log) : log[i].offset \in Nat
    BY LogEntries
<1>3. CASE p.resizes < q.resizes
    <2>1. q.resizes \in 1 .. Len(log)
        BY <1>1, <1>2, <1>3 DEF OnPath
    <2>2. log[q.resizes].offset <= q.offset /\ log[q.resizes].offset >= p.offset
        BY <1>1, <1>2, <1>3, <2>1 DEF OnPath
    <2> QED BY <1>1, <1>2, <1>3, <2>1, <2>2 DEF AtOrAfter
<1>4. CASE q.resizes < p.resizes
    <2>1. p.resizes \in 1 .. Len(log)
        BY <1>1, <1>2, <1>4 DEF OnPath
    <2>2. log[p.resizes].offset <= p.offset /\ log[p.resizes].offset >= q.offset
        BY <1>1, <1>2, <1>4, <2>1 DEF OnPath
    <2> QED BY <1>1, <1>2, <1>4, <2>1, <2>2 DEF AtOrAfter
<1>5. CASE p.resizes = q.resizes
    BY <1>1, <1>5 DEF AtOrAfter
<1> QED BY <1>1, <1>3, <1>4, <1>5

\* A point of the tail of a path is on the path, at or after the start.
LEMMA TailOnPath ==
    ASSUME NEW upto \in Nat, NEW log \in Logs, start \in Position,
           OnPath(start, upto, log),
           NEW p \in Position, InTail(p, upto, log)
    PROVE  OnPath(p, upto, log) /\ AtOrAfter(p, start)
<1>1. /\ p.offset \in Nat /\ p.resizes \in Nat
      /\ start.offset \in Nat /\ start.resizes \in Nat
    BY DEF Position
<1>2. /\ Len(log) \in Nat
      /\ \A i \in 1 .. Len(log) : log[i].offset \in Nat
    BY LogEntries
<1>3. AtOrAfter(p, start) /\ p.resizes <= Len(log) /\ p.offset <= upto
    BY <1>1, <1>2 DEF InTail, consistent, AtOrAfter
<1>4. ASSUME NEW i \in 1 .. Len(log)
      PROVE  IF i <= p.resizes THEN log[i].offset <= p.offset
                               ELSE log[i].offset >= p.offset
    <2>1. CASE i <= start.resizes
        BY <1>1, <1>2, <1>3, <2>1 DEF OnPath, AtOrAfter
    <2>2. CASE i > start.resizes
        <3>1. i \in Retained(start, log)
            BY <1>1, <1>2, <2>2 DEF Retained
        <3> QED BY <3>1 DEF InTail, consistent
    <2> QED BY <1>1, <2>1, <2>2
<1> QED BY <1>3, <1>4 DEF OnPath

\* What trimming leaves: a start on the path, with the size in force there,
\* from which the tail fits the cap.
LEMMA TrimFacts ==
    ASSUME NEW upto \in Nat, NEW log \in Logs, start \in Position, trimmed \in BOOLEAN,
           OnPath(start, upto, log), startSize = SizeIn(start.resizes, log),
           trim(upto, log)
    PROVE  /\ start' \in Position
           /\ OnPath(start', upto, log)
           /\ AtOrAfter(start', start)
           /\ startSize' = SizeIn(start'.resizes, log)
           /\ startSize' \in Sizes
           /\ Cost(start', upto, log) <= Cap
           /\ trimmed' \in BOOLEAN
           /\ trimmed' \/ (start' = start /\ trimmed' = trimmed)
<1>1. start.offset \in Nat /\ start.resizes \in Nat /\ Len(log) \in Nat
    BY LogEntries DEF Position
<1>2. PICK p \in [offset : start.offset .. upto, resizes : start.resizes .. Len(log)] :
          /\ FirstThatFits(p, upto, log)
          /\ start' = p
          /\ startSize' = IF p.resizes > start.resizes THEN log[p.resizes].size
                                                       ELSE startSize
          /\ trimmed' = (trimmed \/ p # start)
    BY DEF trim
<1>3. p \in Position /\ p.resizes \in start.resizes .. Len(log)
    BY <1>1 DEF Position
<1>4. OnPath(p, upto, log) /\ AtOrAfter(p, start) /\ Cost(p, upto, log) <= Cap
    BY <1>2, <1>3, TailOnPath DEF FirstThatFits
<1>5. startSize' = SizeIn(p.resizes, log)
    BY <1>1, <1>2, <1>3 DEF SizeIn
<1>6. startSize' \in Sizes
    BY <1>1, <1>3, <1>5, SizeInType
<1> QED BY <1>2, <1>3, <1>4, <1>5, <1>6

-----------------------------------------------------------------------------
(* The journal grows: output or resizes are added at the end.              *)

Grows ==
    /\ end' \in Nat
    /\ end' >= end
    /\ resizeLog' \in Logs
    /\ Len(resizeLog') >= Len(resizeLog)
    /\ \A i \in 1 .. Len(resizeLog) : resizeLog'[i] = resizeLog[i]
    /\ \A i \in 1 .. Len(resizeLog') : i > Len(resizeLog) => resizeLog'[i].offset >= end

\* What is on the path stays there, with the same size in force.
LEMMA PathGrows ==
    ASSUME TypeOK, Grows, NEW p \in Position, OnPath(p, end, resizeLog)
    PROVE  /\ OnPath(p, end', resizeLog')
           /\ SizeIn(p.resizes, resizeLog') = SizeIn(p.resizes, resizeLog)
<1>1. p.offset \in Nat /\ p.resizes \in Nat /\ end \in Nat
    BY DEF Position, TypeOK
<1>2. /\ Len(resizeLog) \in Nat
      /\ Len(resizeLog') \in Nat
      /\ \A i \in 1 .. Len(resizeLog') : resizeLog'[i].offset \in Nat
    BY LogEntries DEF TypeOK, Logs, Grows
<1>3. ASSUME NEW i \in 1 .. Len(resizeLog')
      PROVE  IF i <= p.resizes THEN resizeLog'[i].offset <= p.offset
                               ELSE resizeLog'[i].offset >= p.offset
    <2>1. CASE i <= Len(resizeLog)
        <3>1. i \in 1 .. Len(resizeLog)
            BY <1>2, <2>1
        <3> QED BY <1>1, <3>1 DEF OnPath, Grows
    <2>2. CASE i > Len(resizeLog)
        BY <1>1, <1>2, <2>2 DEF OnPath, Grows
    <2> QED BY <1>2, <2>1, <2>2
<1>4. p.resizes <= Len(resizeLog') /\ p.offset <= end'
    BY <1>1, <1>2 DEF OnPath, Grows
<1>5. SizeIn(p.resizes, resizeLog') = SizeIn(p.resizes, resizeLog)
    <2>1. CASE p.resizes = 0
        BY <2>1 DEF SizeIn
    <2>2. CASE p.resizes # 0
        <3>1. p.resizes \in 1 .. Len(resizeLog)
            BY <1>1, <1>2, <2>2 DEF OnPath
        <3> QED BY <2>2, <3>1 DEF SizeIn, Grows
    <2> QED BY <2>1, <2>2
<1> QED BY <1>3, <1>4, <1>5 DEF OnPath

\* The reader never stands past the end.
LEMMA ReaderBeforeEnd ==
    ASSUME IndInv
    PROVE  \A o \in rx.seen : o < end
<1> USE DEF IndInv
<1>1. /\ end \in Nat /\ rx.pos \in Position /\ rx.base \in Position
      /\ start \in Position /\ cursor.position \in Position
      /\ cursor.state \in {"None", "SendSnapshot", "SendGap", "Tail"}
    BY DEF TypeOK, Readers
<1>2. CASE cursor.state \in {"None", "SendSnapshot"}
    BY <1>2 DEF CursorInv, Reader
<1>3. CASE cursor.state \in {"SendGap", "Tail"}
    <2>1. rx.pos.offset <= end
        BY <1>1, <1>3 DEF CursorInv, ReaderInv, TailInv, OnPath, AtOrAfter, Position
    <2>2. \A o \in rx.seen : o \in rx.base.offset .. (rx.pos.offset - 1)
        BY DEF ReaderInv
    <2> QED BY <1>1, <2>1, <2>2 DEF Position
<1> QED BY <1>1, <1>2, <1>3

\* An operation that only grows the journal and moves its start forward does
\* not disturb the stream.
LEMMA StreamStays ==
    ASSUME IndInv, Grows, start' \in Position, AtOrAfter(start', start),
           exit' = exit, cursor' = cursor, rx' = rx
    PROVE  CursorInv' /\ ReaderInv'
<1> USE DEF IndInv
<1>1. /\ start \in Position /\ cursor.position \in Position /\ rx.pos \in Position
      /\ end \in Nat /\ Len(resizeLog) \in Nat
      /\ \A i \in 1 .. Len(resizeLog) : resizeLog[i].offset \in Nat
    BY LogEntries DEF TypeOK, Readers, Logs
<1>2. cursor.state = "Tail" => OnPath(cursor.position, end', resizeLog')
    BY <1>1, PathGrows DEF CursorInv
<1>3. cursor.state = "SendGap" => AtOrAfter(start', cursor.position)
    BY <1>1 DEF CursorInv, AtOrAfter, Position
<1>4. ASSUME cursor.state \in {"SendGap", "Tail"}
      PROVE  rx.size = SizeIn(rx.pos.resizes, resizeLog')
    <2>1. rx.pos = cursor.position /\ rx.size = SizeIn(rx.pos.resizes, resizeLog)
        BY <1>4 DEF ReaderInv
    <2>2. rx.pos.resizes \in 0 .. Len(resizeLog)
        BY <1>1, <1>4, <2>1 DEF CursorInv, TailInv, OnPath, AtOrAfter, Position
    <2> QED BY <1>1, <2>1, <2>2 DEF SizeIn, Grows
<1>5. ReaderInv'
    BY <1>4 DEF ReaderInv, NothingTwice, ExitInOrder
<1> QED BY <1>2, <1>3, <1>5 DEF CursorInv

-----------------------------------------------------------------------------
(* The invariant holds initially and each operation preserves it.          *)

\* The invariant holds in the initial states.
LEMMA JournalInitInv == Init => IndInv
<1> SUFFICES ASSUME Init PROVE IndInv
    OBVIOUS
<1> USE ConstantsOK DEF Init
<1>1. Len(resizeLog) = 0
    OBVIOUS
<1>2. Origin \in Position /\ Origin.offset = 0 /\ Origin.resizes = 0
    BY DEF Origin, Pos, Position
<1>3. TypeOK
    <2>1. cursor \in [state : {"None", "SendSnapshot", "SendGap", "Tail"},
                      position : Position, exit_sent : BOOLEAN]
        BY <1>2 DEF NoCursor
    <2>2. rx \in Readers
        BY <1>2 DEF Reader, Readers
    <2>3. resizeLog \in Seq([offset : Nat, size : Sizes])
        OBVIOUS
    <2> QED BY <1>2, <2>1, <2>2, <2>3 DEF TypeOK
<1>4. LogInv
    BY <1>1 DEF LogInv
<1>5. TailInv
    BY <1>1, <1>2 DEF TailInv, OnPath, AtOrAfter, SizeIn
<1>6. CursorInv /\ ReaderInv
    BY <1>2 DEF CursorInv, ReaderInv, NoCursor, Reader, NothingTwice, ExitInOrder
<1> QED BY <1>3, <1>4, <1>5, <1>6 DEF IndInv

\* An operation of the journal that keeps it well formed keeps the invariant.
LEMMA GrowthInv ==
    ASSUME IndInv, Grows, LogInv', AtOrAfter(start', start), start' \in Position,
           OnPath(start', end', resizeLog'),
           startSize' = SizeIn(start'.resizes, resizeLog'), startSize' \in Sizes,
           trimmed' \in BOOLEAN,
           snapshot' = snapshot, blob' = blob, exit' = exit, cursor' = cursor, rx' = rx
    PROVE  IndInv'
<1> USE DEF IndInv
<1>1. TypeOK'
    BY DEF TypeOK, Grows, Logs
<1>2. CursorInv' /\ ReaderInv'
    BY StreamStays
<1>3. /\ start \in Position /\ snapshot \in Position /\ exit \in Position \cup {None}
      /\ Len(resizeLog) \in Nat
    BY LogEntries DEF TypeOK, Logs
<1>4. AtOrAfter(start', snapshot)
    BY <1>3 DEF TailInv, AtOrAfter, Position
<1>5. exit # None => OnPath(exit, end', resizeLog')
    BY <1>3, PathGrows DEF TailInv
<1>6. SizeIn(snapshot.resizes, resizeLog') = SizeIn(snapshot.resizes, resizeLog)
    <2>1. snapshot.resizes \in 0 .. Len(resizeLog)
        BY <1>3 DEF TailInv, AtOrAfter, OnPath, Position
    <2> QED BY <1>3, <2>1 DEF SizeIn, Grows
<1>7. TailInv'
    BY <1>4, <1>5, <1>6 DEF TailInv
<1> QED BY <1>1, <1>2, <1>7

\* Output that fits, or trims the tail to the cap, keeps the invariant.
LEMMA PushOutputInv ==
    ASSUME IndInv, NEW n \in 1 .. MaxBytes, push_output(n)
    PROVE  IndInv' /\ Cost(start', end', resizeLog') <= Cap
<1> USE DEF IndInv, push_output
<1>0. n \in Nat
    BY ConstantsOK
<1>1. /\ end \in Nat /\ end + n \in Nat /\ start \in Position
      /\ resizeLog \in Logs /\ trimmed \in BOOLEAN
      /\ Len(resizeLog) \in Nat
      /\ \A i \in 1 .. Len(resizeLog) : resizeLog[i].offset \in Nat
    <2>1. end \in Nat /\ start \in Position /\ resizeLog \in Logs /\ trimmed \in BOOLEAN
        BY DEF TypeOK, Logs
    <2> QED BY <1>0, <2>1, LogEntries
<1>2. Grows /\ LogInv'
    BY <1>0, <1>1 DEF Grows, LogInv
<1>3. OnPath(start, end + n, resizeLog)
    BY <1>1, <1>2, PathGrows DEF TailInv
<1>4. /\ start' \in Position
      /\ OnPath(start', end', resizeLog')
      /\ AtOrAfter(start', start)
      /\ startSize' = SizeIn(start'.resizes, resizeLog')
      /\ startSize' \in Sizes
      /\ Cost(start', end', resizeLog') <= Cap
      /\ trimmed' \in BOOLEAN
    <2>1. trim(end + n, resizeLog) /\ startSize = SizeIn(start.resizes, resizeLog)
        BY DEF TailInv
    <2> QED BY <1>1, <1>3, <2>1, TrimFacts
<1> QED BY <1>2, <1>4, GrowthInv

\* So does a resize.
LEMMA PushResizeInv ==
    ASSUME IndInv, NEW s \in Sizes, push_resize(s)
    PROVE  IndInv' /\ Cost(start', end', resizeLog') <= Cap
<1> DEFINE log == Append(resizeLog, [offset |-> end, size |-> s])
<1> USE DEF IndInv
<1>1. /\ end \in Nat /\ start \in Position
      /\ resizeLog \in Logs /\ trimmed \in BOOLEAN
      /\ Len(resizeLog) \in Nat
      /\ \A i \in 1 .. Len(resizeLog) : resizeLog[i].offset \in Nat
    BY LogEntries DEF TypeOK, Logs
<1>2. log \in Logs
    BY <1>1 DEF Logs
<1>3. /\ Len(log) = Len(resizeLog) + 1
      /\ \A i \in 1 .. Len(resizeLog) : log[i] = resizeLog[i]
      /\ log[Len(resizeLog) + 1].offset = end
    BY <1>1 DEF Logs
<1>4. resizeLog' = log /\ trim(end, log) /\ end' = end
    BY DEF push_resize
<1> HIDE DEF log
<1>5. Grows
    <2>1. \A i \in 1 .. Len(log) : i > Len(resizeLog) => log[i].offset >= end
        BY <1>1, <1>3
    <2> QED BY <1>1, <1>2, <1>3, <1>4, <2>1 DEF Grows
<1>6. LogInv'
    <2>1. \A i \in 1 .. Len(log) : log[i].offset <= end
        <3>1. \A i \in 1 .. Len(log) : i \in 1 .. Len(resizeLog) \/ i = Len(resizeLog) + 1
            BY <1>1, <1>3
        <3> QED BY <1>1, <1>3, <3>1 DEF LogInv
    <2>2. \A i, j \in 1 .. Len(log) : i < j => log[i].offset <= log[j].offset
        <3> SUFFICES ASSUME NEW i \in 1 .. Len(log), NEW j \in 1 .. Len(log), i < j
                     PROVE  log[i].offset <= log[j].offset
            OBVIOUS
        <3>1. i \in 1 .. Len(resizeLog)
            BY <1>1, <1>3
        <3>2. j \in 1 .. Len(resizeLog) \/ j = Len(resizeLog) + 1
            BY <1>1, <1>3
        <3> QED BY <1>1, <1>3, <3>1, <3>2 DEF LogInv
    <2> QED BY <1>4, <2>1, <2>2 DEF LogInv
<1>7. OnPath(start, end, log) /\ startSize = SizeIn(start.resizes, log)
    <2>1. OnPath(start, end', resizeLog')
          /\ SizeIn(start.resizes, resizeLog') = SizeIn(start.resizes, resizeLog)
        BY <1>1, <1>5, PathGrows DEF TailInv
    <2> QED BY <1>4, <2>1 DEF TailInv
<1>8. /\ start' \in Position
      /\ OnPath(start', end, log)
      /\ AtOrAfter(start', start)
      /\ startSize' = SizeIn(start'.resizes, log)
      /\ startSize' \in Sizes
      /\ Cost(start', end, log) <= Cap
      /\ trimmed' \in BOOLEAN
    BY <1>1, <1>2, <1>4, <1>7, TrimFacts
<1>9. snapshot' = snapshot /\ blob' = blob /\ exit' = exit /\ cursor' = cursor /\ rx' = rx
    BY DEF push_resize
<1>10. IndInv'
    <2>1. /\ OnPath(start', end', resizeLog')
          /\ startSize' = SizeIn(start'.resizes, resizeLog')
        BY <1>4, <1>8
    <2> QED BY <1>5, <1>6, <1>8, <1>9, <2>1, GrowthInv
<1> QED BY <1>4, <1>8, <1>10

\* The exit is recorded after everything any reader has seen.
LEMMA PushExitInv ==
    ASSUME IndInv, push_exit
    PROVE  IndInv'
<1> USE DEF IndInv, push_exit
<1>1. /\ end \in Nat /\ resizeLog \in Logs /\ Len(resizeLog) \in Nat
      /\ \A i \in 1 .. Len(resizeLog) : resizeLog[i].offset \in Nat
    BY LogEntries DEF TypeOK, Logs
<1>2. exit' = [offset |-> end, resizes |-> Len(resizeLog)] /\ exit' \in Position
    BY <1>1 DEF current, resize_count, Pos, Position
<1>3. TypeOK'
    BY <1>2 DEF TypeOK
<1>4. OnPath(exit', end, resizeLog)
    BY <1>1, <1>2 DEF OnPath, LogInv
<1>5. TailInv'
    BY <1>4 DEF TailInv
<1>6. ExitInOrder'
    <2>1. ~ rx.exited
        BY DEF ReaderInv, ExitInOrder
    <2> QED BY <1>2, <2>1, ReaderBeforeEnd DEF ExitInOrder
<1>7. CursorInv' /\ ReaderInv'
    BY <1>6 DEF CursorInv, ReaderInv, NothingTwice
<1>8. LogInv'
    BY DEF LogInv
<1> QED BY <1>3, <1>5, <1>7, <1>8

\* A snapshot is accepted at a point of the tail.
LEMMA AcceptedInTail ==
    ASSUME IndInv, NEW p \in Position, Acceptable(p)
    PROVE  OnPath(p, end, resizeLog) /\ AtOrAfter(p, start) /\ AtOrAfter(p, snapshot)
<1>1. end \in Nat /\ resizeLog \in Logs /\ start \in Position /\ OnPath(start, end, resizeLog)
    BY DEF IndInv, TypeOK, Logs, TailInv
<1>2. InTail(p, end, resizeLog) /\ AtOrAfter(p, snapshot)
    BY DEF Acceptable, BeforeCurrent, OutsideRetained, InTail
<1> QED BY <1>1, <1>2, TailOnPath

\* An accepted snapshot keeps the invariant, whatever the stream has sent.
LEMMA AcceptSnapshotInv ==
    ASSUME IndInv, NEW p \in Position, accept_snapshot(p)
    PROVE  IndInv'
<1> USE DEF IndInv, accept_snapshot
<1>1. /\ end \in Nat /\ resizeLog \in Logs /\ start \in Position
      /\ Len(resizeLog) \in Nat
    BY LogEntries DEF TypeOK, Logs
<1>2. OnPath(p, end, resizeLog) /\ AtOrAfter(p, start) /\ AtOrAfter(p, snapshot)
    BY AcceptedInTail
<1>3. /\ p.resizes \in 0 .. Len(resizeLog)
      /\ SizeIn(p.resizes, resizeLog) \in Sizes
    <2>1. p.resizes \in 0 .. Len(resizeLog)
        BY <1>1, <1>2 DEF OnPath, Position
    <2> QED BY <1>1, <2>1, SizeInType
<1>4. blob' = SizeIn(p.resizes, resizeLog) /\ blob' # None
    BY <1>3, ConstantsOK DEF SizeAt, SizeIn
<1>5. startSize' = SizeIn(p.resizes, resizeLog)
    <2>1. startSize = SizeIn(start.resizes, resizeLog)
        BY DEF TailInv
    <2>2. p.resizes >= start.resizes /\ p.resizes \in Nat /\ start.resizes \in Nat
        BY <1>1, <1>2 DEF AtOrAfter, Position
    <2> QED BY <2>1, <2>2 DEF SizeIn
<1>6. Grows
    BY <1>1 DEF Grows
<1>7. TypeOK'
    BY <1>3, <1>4, <1>5 DEF TypeOK
<1>8. TailInv'
    <2>1. AtOrAfter(p, p)
        BY DEF AtOrAfter, Position
    <2> QED BY <1>2, <1>4, <1>5, <2>1 DEF TailInv
<1>9. CursorInv' /\ ReaderInv'
    BY <1>2, <1>6, StreamStays
<1>10. LogInv'
    BY DEF LogInv
<1> QED BY <1>7, <1>8, <1>9, <1>10

\* A step of the stream leaves the journal alone.
LEMMA StreamStep ==
    ASSUME IndInv, UNCHANGED journalVars
    PROVE  LogInv' /\ TailInv'
BY DEF IndInv, journalVars, LogInv, TailInv

\* The variables of the journal have their types after such a step.
LEMMA StreamTypes ==
    ASSUME TypeOK, UNCHANGED journalVars, rx' \in Readers,
           cursor' \in Cursors
    PROVE  TypeOK'
BY DEF TypeOK, journalVars, Cursors

\* A read starts a reader that agrees with its cursor.
LEMMA ReadInv ==
    ASSUME IndInv, NEW p \in Position, read(p)
    PROVE  IndInv'
<1> USE DEF IndInv
<1>1. /\ end \in Nat /\ resizeLog \in Logs /\ start \in Position /\ snapshot \in Position
      /\ Len(resizeLog) \in Nat /\ OnPath(start, end, resizeLog)
    BY LogEntries DEF TypeOK, Logs, TailInv
<1>2. LogInv' /\ TailInv' /\ UNCHANGED journalVars
    BY StreamStep DEF read
<1>3. CASE Within(p)
    <2>1. /\ cursor' = [state |-> "Tail", position |-> p, exit_sent |-> FALSE]
          /\ rx' = Reader(p, SizeIn(p.resizes, resizeLog))
        BY <1>3 DEF read, SizeAt, SizeIn
    <2>2. OnPath(p, end, resizeLog)
        BY <1>1, <1>3, TailOnPath DEF Within
    <2>3. SizeIn(p.resizes, resizeLog) \in Sizes
        <3>1. p.resizes \in 0 .. Len(resizeLog)
            BY <1>1, <2>2 DEF OnPath, Position
        <3> QED BY <1>1, <3>1, SizeInType
    <2>4. TypeOK'
        <3>1. rx' \in Readers
            BY <2>1, <2>3 DEF Reader, Readers
        <3> QED BY <1>2, <2>1, <3>1, StreamTypes DEF Cursors
    <2>5. CursorInv'
        BY <1>2, <2>1, <2>2 DEF CursorInv, Reader, journalVars
    <2>6. ReaderInv'
        BY <1>2, <2>1 DEF ReaderInv, Reader, NothingTwice, ExitInOrder, journalVars, Position
    <2> QED BY <1>2, <2>4, <2>5, <2>6
<1>4. CASE ~ Within(p)
    <2>1. /\ cursor' = [state |-> "SendSnapshot", position |-> snapshot, exit_sent |-> FALSE]
          /\ rx' = Reader(Origin, InitialSize)
        BY <1>4 DEF read
    <2>2. rx' \in Readers
        BY <2>1, ConstantsOK DEF Reader, Readers, Origin, Pos, Position
    <2>3. TypeOK'
        BY <1>1, <1>2, <2>1, <2>2, StreamTypes DEF Cursors
    <2>4. CursorInv'
        BY <2>1 DEF CursorInv, Reader
    <2>5. ReaderInv'
        BY <2>1 DEF ReaderInv, Reader, NothingTwice, ExitInOrder, Origin, Pos
    <2> QED BY <1>2, <2>3, <2>4, <2>5
<1> QED BY <1>3, <1>4

\* A disconnect forgets both.
LEMMA DisconnectInv ==
    ASSUME IndInv, disconnect
    PROVE  IndInv'
<1> USE DEF IndInv
<1>1. /\ cursor' = NoCursor /\ rx' = Reader(Origin, InitialSize)
      /\ UNCHANGED journalVars
    BY DEF disconnect
<1>2. rx' \in Readers /\ Origin \in Position
    BY <1>1, ConstantsOK DEF Reader, Readers, Origin, Pos, Position
<1>3. TypeOK'
    <2>1. cursor' \in Cursors
        BY <1>1, <1>2 DEF NoCursor, Cursors
    <2> QED BY <1>1, <1>2, <2>1, StreamTypes
<1>4. CursorInv'
    BY <1>1 DEF CursorInv, Reader, NoCursor
<1>5. ReaderInv'
    BY <1>1 DEF ReaderInv, Reader, NoCursor, NothingTwice, ExitInOrder, Origin, Pos
<1> QED BY <1>1, <1>3, <1>4, <1>5, StreamStep

\* Moving the cursor over an absent snapshot or an empty gap keeps what the
\* invariant says of it.
LEMMA SettledFacts ==
    ASSUME IndInv
    PROVE  /\ Settled \in Cursors
           /\ Settled.exit_sent = rx.exited
           /\ Settled.state = "SendSnapshot" => cursor = Settled /\ blob # None
           /\ Settled.state = "Tail" => OnPath(Settled.position, end, resizeLog)
           /\ Settled.state = "SendGap" => AtOrAfter(start, Settled.position)
           /\ Settled.state \in {"SendGap", "Tail"} =>
                  rx.pos = Settled.position /\ rx.size = SizeIn(rx.pos.resizes, resizeLog)
<1> USE DEF IndInv
<1>1. cursor \in Cursors /\ snapshot \in Position /\ start \in Position
    BY DEF TypeOK, Cursors
<1>2. /\ PastSnapshot \in Cursors
      /\ PastSnapshot.exit_sent = rx.exited
      /\ PastSnapshot.state = "SendSnapshot" => cursor = PastSnapshot /\ blob # None
      /\ PastSnapshot.state = "Tail" => OnPath(PastSnapshot.position, end, resizeLog)
      /\ PastSnapshot.state = "SendGap" => AtOrAfter(start, PastSnapshot.position)
      /\ PastSnapshot.state \in {"SendGap", "Tail"} =>
             rx.pos = PastSnapshot.position /\ rx.size = SizeIn(rx.pos.resizes, resizeLog)
    <2>1. CASE cursor.state = "SendSnapshot" /\ blob = None
        <3>1. PastSnapshot = [cursor EXCEPT !.state = "SendGap", !.position = snapshot]
            BY <2>1 DEF PastSnapshot
        <3>2. /\ PastSnapshot \in Cursors /\ PastSnapshot.state = "SendGap"
              /\ PastSnapshot.position = snapshot
              /\ PastSnapshot.exit_sent = cursor.exit_sent
            BY <1>1, <3>1 DEF Cursors
        <3>3. /\ snapshot = Origin /\ AtOrAfter(start, snapshot)
              /\ rx = Reader(Origin, InitialSize) /\ cursor.exit_sent = rx.exited
            BY <2>1 DEF TailInv, CursorInv
        <3>4. rx.pos = Origin /\ rx.size = SizeIn(Origin.resizes, resizeLog)
            BY <3>3 DEF Reader, SizeIn, Origin, Pos
        <3> QED BY <3>2, <3>3, <3>4
    <2>2. CASE ~ (cursor.state = "SendSnapshot" /\ blob = None)
        <3>1. PastSnapshot = cursor
            BY <2>2 DEF PastSnapshot
        <3> QED BY <1>1, <2>2, <3>1 DEF CursorInv, ReaderInv
    <2> QED BY <2>1, <2>2
<1>3. CASE PastSnapshot.state = "SendGap" /\ ~ trimmed /\ PastSnapshot.position = start
    <2>1. Settled = [PastSnapshot EXCEPT !.state = "Tail"]
        BY <1>3 DEF Settled
    <2>2. /\ Settled \in Cursors /\ Settled.state = "Tail" /\ Settled.position = start
          /\ Settled.exit_sent = PastSnapshot.exit_sent
        BY <1>2, <1>3, <2>1 DEF Cursors
    <2> QED BY <1>2, <1>3, <2>2 DEF TailInv
<1>4. CASE ~ (PastSnapshot.state = "SendGap" /\ ~ trimmed /\ PastSnapshot.position = start)
    <2>1. Settled = PastSnapshot
        BY <1>4 DEF Settled
    <2> QED BY <1>2, <2>1
<1> QED BY <1>3, <1>4

\* Sending the snapshot.
LEMMA NextSnapshotInv ==
    ASSUME IndInv, next_snapshot
    PROVE  IndInv'
<1> USE DEF IndInv, next_snapshot
<1>1. /\ snapshot \in Position /\ blob \in Sizes /\ cursor \in Cursors
      /\ blob = SizeIn(snapshot.resizes, resizeLog)
      /\ cursor.state = "SendSnapshot"
    BY SettledFacts DEF TypeOK, TailInv, Cursors
<1>2. /\ cursor'.state = "SendGap" /\ cursor'.position = snapshot
      /\ cursor'.exit_sent = cursor.exit_sent
      /\ cursor' \in Cursors
    BY <1>1 DEF Cursors
<1>3. cursor.exit_sent = FALSE
    BY <1>1 DEF CursorInv, Reader
<1>4. /\ rx'.base = snapshot /\ rx'.pos = snapshot
      /\ rx'.size = SizeIn(snapshot.resizes, resizeLog)
      /\ rx'.seen = {} /\ rx'.lost = {} /\ rx'.exited = FALSE
      /\ rx' \in Readers
    BY <1>1 DEF Reader, Readers
<1>5. TypeOK'
    BY <1>2, <1>4, StreamTypes DEF Cursors
<1>6. CursorInv'
    <2>1. start' = start /\ AtOrAfter(start, snapshot)
        BY DEF TailInv, journalVars
    <2> QED BY <1>2, <1>3, <1>4, <2>1 DEF CursorInv
<1>7. ReaderInv'
    <2>1. snapshot.offset \in Nat /\ snapshot.offset .. (snapshot.offset - 1) = {}
        BY <1>1 DEF Position
    <2>2. resizeLog' = resizeLog
        BY DEF journalVars
    <2> QED BY <1>2, <1>4, <2>1, <2>2 DEF ReaderInv, NothingTwice, ExitInOrder
<1> QED BY <1>5, <1>6, <1>7, StreamStep

\* A gap takes the reader forward to the start, and keeps what it knows.
LEMMA GapInv ==
    ASSUME IndInv, Settled.state \in {"SendGap", "Tail"},
           AtOrAfter(start, Settled.position),
           cursor' = [Settled EXCEPT !.state = "Tail", !.position = start],
           ReceiveGap(Settled.position.offset), UNCHANGED journalVars
    PROVE  IndInv'
<1> USE DEF IndInv
<1>1. /\ start \in Position /\ startSize \in Sizes /\ exit \in Position \cup {None}
      /\ Settled \in Cursors
      /\ rx \in Readers
    BY SettledFacts DEF TypeOK
<1>2. /\ cursor'.state = "Tail" /\ cursor'.position = start
      /\ cursor'.exit_sent = Settled.exit_sent
      /\ cursor' \in Cursors
    BY <1>1 DEF Cursors
<1>3. /\ rx'.base = rx.base /\ rx'.pos = start /\ rx'.size = startSize
      /\ rx'.exited = rx.exited /\ rx'.seen = rx.seen
      /\ rx'.lost = rx.lost \cup (Settled.position.offset .. (start.offset - 1))
      /\ rx' \in Readers
    <2>1. Settled.position.offset \in Nat /\ start.offset \in Nat
        BY <1>1 DEF Position, Cursors
    <2>2. rx.lost \cup (Settled.position.offset .. (start.offset - 1)) \in SUBSET Nat
        BY <1>1, <2>1 DEF Readers
    <2> QED BY <1>1, <2>2 DEF Readers, ReceiveGap
<1>4. rx.pos = Settled.position /\ Settled.exit_sent = rx.exited
    BY SettledFacts
<1>5. TypeOK'
    BY <1>2, <1>3, StreamTypes
<1>6. CursorInv'
    BY <1>2, <1>3, <1>4 DEF CursorInv, TailInv, journalVars
<1>7. ReaderInv'
    <2>1. /\ rx.base.offset \in Nat /\ rx.pos.offset \in Nat /\ start.offset \in Nat
          /\ rx.base.offset <= rx.pos.offset /\ rx.pos.offset <= start.offset
        BY <1>1, <1>4 DEF ReaderInv, AtOrAfter, Readers, Position
    <2>2. rx.base.offset .. (rx.pos.offset - 1) = rx.seen \cup rx.lost
        BY DEF ReaderInv
    <2>3. rx'.base.offset .. (rx'.pos.offset - 1) = rx'.seen \cup rx'.lost
        <3>1. rx.base.offset .. (start.offset - 1)
              = (rx.base.offset .. (rx.pos.offset - 1)) \cup (rx.pos.offset .. (start.offset - 1))
            BY <2>1
        <3> QED BY <1>3, <1>4, <2>2, <3>1
    <2>4. NothingTwice'
        <3>1. \A o \in rx.seen : o \notin rx.pos.offset .. (start.offset - 1)
            BY <2>1, <2>2
        <3> QED BY <1>3, <1>4, <3>1 DEF NothingTwice, ReaderInv
    <2>5. ExitInOrder'
        <3>1. Settled.position \in Position
            BY <1>1 DEF Cursors
        <3> QED BY <1>1, <1>3, <1>4, <3>1
                DEF ExitInOrder, ReaderInv, journalVars, AtOrAfter, Position
    <2>6. rx'.size = SizeIn(rx'.pos.resizes, resizeLog')
        BY <1>3 DEF TailInv, journalVars
    <2> QED BY <1>2, <1>3, <2>1, <2>3, <2>4, <2>5, <2>6 DEF ReaderInv
<1> QED BY <1>5, <1>6, <1>7, StreamStep

\* The gap after a snapshot.
LEMMA NextGapInv ==
    ASSUME IndInv, next_gap
    PROVE  IndInv'
BY SettledFacts, GapInv DEF next_gap

\* The gap of a cursor whose next records are gone.
LEMMA NextInTailGapInv ==
    ASSUME IndInv, next_in_tail_gap
    PROVE  IndInv'
<1> USE DEF IndInv
<1>1. /\ end \in Nat /\ resizeLog \in Logs /\ start \in Position
      /\ Settled \in Cursors
    BY SettledFacts DEF TypeOK, Logs
<1>2. OnPath(start, end, resizeLog) /\ OnPath(Settled.position, end, resizeLog)
    BY SettledFacts DEF TailInv, next_in_tail_gap
<1>3. AtOrAfter(start, Settled.position)
    BY <1>1, <1>2, PathIsAChain DEF next_in_tail_gap, Behind, Cursors
<1>4. cursor' = [Settled EXCEPT !.state = "Tail", !.position = start]
    BY <1>1 DEF next_in_tail_gap, Cursors
<1> QED BY <1>3, <1>4, GapInv DEF next_in_tail_gap

\* The exit record.
LEMMA NextInTailExitInv ==
    ASSUME IndInv, next_in_tail_exit
    PROVE  IndInv'
<1> USE DEF IndInv, next_in_tail_exit
<1>1. /\ rx \in Readers
      /\ Settled \in Cursors
    BY SettledFacts DEF TypeOK
<1>2. /\ cursor'.state = "Tail" /\ cursor'.position = Settled.position
      /\ cursor'.exit_sent = TRUE
      /\ cursor' \in Cursors
    BY <1>1 DEF Cursors
<1>3. /\ rx'.base = rx.base /\ rx'.pos = rx.pos /\ rx'.size = rx.size
      /\ rx'.exited = TRUE /\ rx'.seen = rx.seen /\ rx'.lost = rx.lost
      /\ rx' \in Readers
    BY <1>1 DEF Readers
<1>4. TypeOK'
    BY <1>2, <1>3, StreamTypes
<1>5. OnPath(Settled.position, end, resizeLog) /\ rx.pos = Settled.position
      /\ rx.size = SizeIn(rx.pos.resizes, resizeLog)
    BY SettledFacts
<1>6. CursorInv'
    BY <1>2, <1>3, <1>5 DEF CursorInv, journalVars
<1>7. ReaderInv'
    <2>1. ExitInOrder'
        BY <1>3, <1>5 DEF ExitDue, ReaderInv, ExitInOrder, journalVars
    <2> QED BY <1>2, <1>3, <1>5, <2>1 DEF ReaderInv, NothingTwice, journalVars
<1> QED BY <1>4, <1>6, <1>7, StreamStep

\* A resize record.
LEMMA NextInTailResizeInv ==
    ASSUME IndInv, next_in_tail_resize
    PROVE  IndInv'
<1> DEFINE r == Settled.position.resizes + 1
<1> USE DEF IndInv, next_in_tail_resize
<1>1. /\ end \in Nat /\ resizeLog \in Logs /\ rx \in Readers
      /\ Settled \in Cursors
      /\ exit \in Position \cup {None}
    BY SettledFacts DEF TypeOK, Logs, Cursors
<1>2. /\ Len(resizeLog) \in Nat
      /\ \A i \in 1 .. Len(resizeLog) :
             resizeLog[i].offset \in Nat /\ resizeLog[i].size \in Sizes
    BY <1>1, LogEntries
<1>3. /\ rx.pos = Settled.position /\ rx.pos \in Position
      /\ Settled.position.offset \in Nat /\ Settled.position.resizes \in Nat
    BY <1>1, SettledFacts DEF Position, Cursors
<1>4. /\ r \in 1 .. Len(resizeLog)
      /\ resizeLog[r].offset <= Settled.position.offset
    BY <1>2, <1>3 DEF ResizeDue, resize_count
<1>5. /\ cursor'.state = "Tail" /\ cursor'.exit_sent = Settled.exit_sent
      /\ cursor'.position = [Settled.position EXCEPT !.resizes = r]
      /\ cursor'.position \in Position
      /\ cursor'.position.offset = Settled.position.offset
      /\ cursor'.position.resizes = r
      /\ cursor' \in Cursors
    BY <1>1, <1>3, <1>4 DEF Position, Cursors
<1>6. /\ rx'.base = rx.base /\ rx'.exited = rx.exited
      /\ rx'.seen = rx.seen /\ rx'.lost = rx.lost
      /\ rx'.pos = cursor'.position
      /\ rx'.size = resizeLog[r].size
      /\ rx' \in Readers
    BY <1>1, <1>2, <1>3, <1>4, <1>5 DEF Readers
<1> HIDE DEF r
<1>7. TypeOK'
    BY <1>5, <1>6, StreamTypes
<1>8. OnPath(cursor'.position, end, resizeLog)
    <2>1. OnPath(Settled.position, end, resizeLog)
        BY SettledFacts
    <2>2. ASSUME NEW i \in 1 .. Len(resizeLog)
          PROVE  IF i <= r THEN resizeLog[i].offset <= Settled.position.offset
                           ELSE resizeLog[i].offset >= Settled.position.offset
        <3>1. CASE i = r
            BY <1>4, <3>1
        <3>2. CASE i # r
            <4>1. i <= r <=> i <= Settled.position.resizes
                BY <1>2, <1>3, <3>2 DEF r
            <4> QED BY <2>1, <4>1 DEF OnPath
        <3> QED BY <3>1, <3>2
    <2>3. r <= Len(resizeLog) /\ Settled.position.offset <= end
        BY <1>2, <1>4, <2>1 DEF OnPath
    <2> QED BY <1>5, <2>2, <2>3 DEF OnPath
<1>9. CursorInv'
    BY <1>5, <1>6, <1>8, SettledFacts DEF CursorInv, journalVars
<1>10. ReaderInv'
    <2>1. rx'.size = SizeIn(rx'.pos.resizes, resizeLog')
        BY <1>4, <1>5, <1>6 DEF SizeIn, journalVars
    <2>2. ExitInOrder'
        BY <1>1, <1>3, <1>5, <1>6 DEF ExitInOrder, ReaderInv, AtOrAfter, journalVars, Position, r
    <2> QED BY <1>3, <1>5, <1>6, <2>1, <2>2 DEF ReaderInv, NothingTwice
<1> QED BY <1>7, <1>9, <1>10, StreamStep

\* Where no exit and no resize is due, an output stays below an exit that was
\* not sent: were the exit's offset already reached, the resize that keeps the
\* cursor from the exit would be due.
LEMMA OutputBeforeExit ==
    ASSUME IndInv, NEW to \in Nat, next_in_tail_output(to), exit # None, ~ rx.exited
    PROVE  to <= exit.offset
<1> USE DEF IndInv
<1>1. /\ end \in Nat /\ resizeLog \in Logs /\ exit \in Position
      /\ Settled.position \in Position
    BY SettledFacts DEF TypeOK, Logs, Cursors
<1>2. /\ Len(resizeLog) \in Nat
      /\ \A i \in 1 .. Len(resizeLog) : resizeLog[i].offset \in Nat
    BY <1>1, LogEntries
<1>3. ~ Settled.exit_sent
    BY SettledFacts
<1>4. exit.offset > Settled.position.offset
    <2> SUFFICES ASSUME exit.offset <= Settled.position.offset
                 PROVE  FALSE
        BY <1>1 DEF Position
    <2>1. exit.resizes > Settled.position.resizes
        BY <1>1, <1>3 DEF next_in_tail_output, ExitDue, AtOrAfter, Position
    <2>2. OnPath(exit, end, resizeLog)
        BY DEF TailInv
    <2>3. /\ Settled.position.resizes + 1 \in 1 .. Len(resizeLog)
          /\ Settled.position.resizes + 1 <= exit.resizes
        BY <1>1, <1>2, <2>1, <2>2 DEF OnPath, Position
    <2>4. resizeLog[Settled.position.resizes + 1].offset <= exit.offset
        BY <2>2, <2>3 DEF OnPath
    <2>5. ResizeDue
        BY <1>1, <1>2, <2>3, <2>4 DEF ResizeDue, resize_count, Position
    <2> QED BY <2>5 DEF next_in_tail_output
<1>5. OutputLimit <= exit.offset
    <2> DEFINE toResize == IF Settled.position.resizes < resize_count
                           THEN resizeLog[Settled.position.resizes + 1].offset
                           ELSE end
    <2>1. toResize \in Nat
        BY <1>1, <1>2 DEF resize_count, Position
    <2> HIDE DEF toResize
    <2>2. OutputLimit = IF exit # None /\ ~ Settled.exit_sent
                           /\ exit.offset > Settled.position.offset /\ exit.offset < toResize
                        THEN exit.offset
                        ELSE toResize
        BY DEF OutputLimit, toResize
    <2> QED BY <1>1, <1>3, <1>4, <2>1, <2>2 DEF Position
<1>6. OutputLimit \in Nat
    BY <1>1, <1>2 DEF OutputLimit, resize_count, Position
<1>7. to <= OutputLimit
    BY <1>1, <1>6 DEF next_in_tail_output, Position
<1> QED BY <1>1, <1>5, <1>6, <1>7 DEF Position

\* An output record.
LEMMA NextInTailOutputInv ==
    ASSUME IndInv, NEW to \in Nat, next_in_tail_output(to)
    PROVE  IndInv'
<1> USE DEF IndInv
<1>1. /\ end \in Nat /\ resizeLog \in Logs /\ rx \in Readers
      /\ Settled \in Cursors
      /\ exit \in Position \cup {None}
    BY SettledFacts DEF TypeOK, Logs, Cursors
<1>2. /\ Len(resizeLog) \in Nat
      /\ \A i \in 1 .. Len(resizeLog) : resizeLog[i].offset \in Nat
    BY <1>1, LogEntries
<1>3. /\ rx.pos = Settled.position /\ rx.pos \in Position
      /\ Settled.position.offset \in Nat /\ Settled.position.resizes \in Nat
      /\ Settled.state = "Tail"
    BY <1>1, SettledFacts DEF Position, Cursors, next_in_tail_output
<1>4. /\ to > Settled.position.offset
      /\ to <= IF Settled.position.resizes < Len(resizeLog)
               THEN resizeLog[Settled.position.resizes + 1].offset
               ELSE end
    <2>1. OutputLimit \in Nat
        BY <1>1, <1>2, <1>3 DEF OutputLimit, resize_count, Position
    <2>2. to > Settled.position.offset /\ to <= OutputLimit
        BY <1>3, <2>1 DEF next_in_tail_output
    <2>3. OutputLimit <= IF Settled.position.resizes < Len(resizeLog)
                         THEN resizeLog[Settled.position.resizes + 1].offset
                         ELSE end
        BY <1>1, <1>2, <1>3 DEF OutputLimit, resize_count, Position
    <2> QED BY <1>1, <1>2, <1>3, <2>1, <2>2, <2>3
<1>5. /\ cursor'.state = "Tail" /\ cursor'.exit_sent = Settled.exit_sent
      /\ cursor'.position \in Position
      /\ cursor'.position.offset = to
      /\ cursor'.position.resizes = Settled.position.resizes
      /\ cursor' \in Cursors
      /\ UNCHANGED journalVars
    BY <1>1, <1>3 DEF Position, Cursors, next_in_tail_output
<1>6. /\ rx'.base = rx.base /\ rx'.exited = rx.exited /\ rx'.lost = rx.lost
      /\ rx'.size = rx.size
      /\ rx'.pos = cursor'.position
      /\ rx'.seen = rx.seen \cup (Settled.position.offset .. (to - 1))
      /\ rx' \in Readers
    <2>1. rx.seen \cup (Settled.position.offset .. (to - 1)) \in SUBSET Nat
        BY <1>1, <1>3 DEF Readers
    <2>2. rx' = [rx EXCEPT !.pos.offset = to,
                           !.seen = @ \cup (Settled.position.offset .. (to - 1))]
          /\ cursor' = [Settled EXCEPT !.position.offset = to]
        BY DEF next_in_tail_output
    <2>3. rx'.pos = [rx.pos EXCEPT !.offset = to]
          /\ cursor'.position = [Settled.position EXCEPT !.offset = to]
        BY <1>1, <2>2 DEF Readers
    <2>4. rx'.pos = cursor'.position /\ rx'.pos \in Position
        BY <1>3, <1>5, <2>3
    <2>5. /\ rx'.base = rx.base /\ rx'.exited = rx.exited /\ rx'.lost = rx.lost
          /\ rx'.size = rx.size
          /\ rx'.seen = rx.seen \cup (Settled.position.offset .. (to - 1))
        BY <1>1, <2>2 DEF Readers
    <2>6. rx' \in Readers
        BY <1>1, <2>1, <2>2, <2>4, <2>5 DEF Readers
    <2> QED BY <2>4, <2>5, <2>6
<1>7. TypeOK'
    BY <1>5, <1>6, StreamTypes
<1>8. OnPath(cursor'.position, end, resizeLog)
    <2>1. OnPath(Settled.position, end, resizeLog)
        BY <1>3, SettledFacts
    <2>2. to <= end
        BY <1>1, <1>2, <1>3, <1>4 DEF LogInv
    <2>3. ASSUME NEW i \in 1 .. Len(resizeLog), i > Settled.position.resizes
          PROVE  resizeLog[i].offset >= to
        <3>1. Settled.position.resizes + 1 \in 1 .. Len(resizeLog)
            BY <1>2, <1>3, <2>3
        <3>2. resizeLog[Settled.position.resizes + 1].offset <= resizeLog[i].offset
            BY <1>2, <1>3, <2>3, <3>1 DEF LogInv
        <3> QED BY <1>2, <1>3, <1>4, <2>3, <3>1, <3>2
    <2> QED BY <1>2, <1>3, <1>4, <1>5, <2>1, <2>2, <2>3 DEF OnPath
<1>9. CursorInv'
    BY <1>5, <1>6, <1>8, SettledFacts DEF CursorInv, journalVars
<1>10. ReaderInv'
    <2>1. /\ rx.base.offset \in Nat /\ rx.base.offset <= rx.pos.offset
          /\ rx.base.offset .. (rx.pos.offset - 1) = rx.seen \cup rx.lost
        BY <1>1 DEF ReaderInv, Readers, Position
    <2>2. rx'.base.offset .. (rx'.pos.offset - 1) = rx'.seen \cup rx'.lost
        <3>1. rx.base.offset .. (to - 1)
              = (rx.base.offset .. (rx.pos.offset - 1)) \cup (rx.pos.offset .. (to - 1))
            BY <1>3, <1>4, <2>1
        <3> QED BY <1>3, <1>5, <1>6, <2>1, <3>1
    <2>3. NothingTwice'
        <3>1. \A o \in rx.lost : o \notin Settled.position.offset .. (to - 1)
            BY <1>3, <2>1
        <3> QED BY <1>6, <3>1 DEF NothingTwice, ReaderInv
    <2>4. ExitInOrder'
        <3>1. rx'.exited => exit' # None /\ AtOrAfter(rx'.pos, exit')
            BY <1>1, <1>3, <1>4, <1>5, <1>6 DEF ExitInOrder, ReaderInv, AtOrAfter, journalVars, Position
        <3>2. ASSUME exit # None, ~ rx.exited
              PROVE  \A o \in rx'.seen : o < exit.offset
            <4>1. to <= exit.offset
                BY <3>2, OutputBeforeExit
            <4>2. \A o \in rx.seen : o < exit.offset
                BY <3>2 DEF ReaderInv, ExitInOrder
            <4>3. \A o \in Settled.position.offset .. (to - 1) : o < exit.offset
                BY <1>1, <1>3, <3>2, <4>1 DEF Position
            <4> QED BY <1>6, <4>2, <4>3
        <3> QED BY <1>5, <1>6, <3>1, <3>2 DEF ExitInOrder, journalVars
    <2>5. rx'.size = SizeIn(rx'.pos.resizes, resizeLog')
        BY <1>3, <1>5, <1>6, SettledFacts DEF journalVars
    <2> QED BY <1>3, <1>4, <1>5, <1>6, <2>1, <2>2, <2>3, <2>4, <2>5 DEF ReaderInv
<1> QED BY <1>5, <1>7, <1>9, <1>10, StreamStep

\* Nothing to send: the cursor settles.
LEMMA NextNothingInv ==
    ASSUME IndInv, next_nothing
    PROVE  IndInv'
<1> USE DEF IndInv
<1>1. /\ cursor' = Settled /\ rx' = rx /\ UNCHANGED journalVars /\ Settled.state = "Tail"
      /\ rx \in Readers
    BY DEF next_nothing, TypeOK
<1>2. TypeOK'
    BY <1>1, SettledFacts, StreamTypes
<1>3. CursorInv'
    BY <1>1, SettledFacts DEF CursorInv, journalVars
<1>4. ReaderInv'
    BY <1>1, SettledFacts DEF ReaderInv, NothingTwice, ExitInOrder, journalVars
<1> QED BY <1>1, <1>2, <1>3, <1>4, StreamStep

-----------------------------------------------------------------------------
(* Theorems about every behaviour.                                         *)

\* Every step keeps the invariant.
LEMMA JournalNextInv == IndInv /\ [Next]_vars => IndInv'
<1> SUFFICES ASSUME IndInv, [Next]_vars PROVE IndInv'
    OBVIOUS
<1>1. ASSUME NEW n \in 1 .. MaxBytes, push_output(n) PROVE IndInv'
    BY <1>1, PushOutputInv
<1>2. ASSUME NEW s \in Sizes, push_resize(s) PROVE IndInv'
    BY <1>2, PushResizeInv
<1>3. CASE push_exit
    BY <1>3, PushExitInv
<1>4. NamedPositions \subseteq Position
    BY ConstantsOK DEF NamedPositions, Position
<1>5. ASSUME NEW p \in NamedPositions, accept_snapshot(p) PROVE IndInv'
    BY <1>4, <1>5, AcceptSnapshotInv
<1>6. ASSUME NEW p \in NamedPositions, read(p) PROVE IndInv'
    BY <1>4, <1>6, ReadInv
<1>7. CASE disconnect
    BY <1>7, DisconnectInv
<1>8. CASE next
    <2>1. ASSUME NEW to \in 1 .. MaxBytes, next_in_tail_output(to) PROVE IndInv'
        <3>1. to \in Nat
            BY ConstantsOK
        <3> QED BY <2>1, <3>1, NextInTailOutputInv
    <2> QED BY <1>8, <2>1, NextSnapshotInv, NextGapInv, NextInTailGapInv, NextInTailExitInv,
               NextInTailResizeInv, NextNothingInv DEF next
<1>9. CASE UNCHANGED vars
    BY <1>9 DEF vars, journalVars, IndInv, TypeOK, LogInv, TailInv, CursorInv, ReaderInv,
                NothingTwice, ExitInOrder
<1> QED BY <1>1, <1>2, <1>3, <1>5, <1>6, <1>7, <1>8, <1>9 DEF Next

\* The invariant holds throughout.
THEOREM Invariance == Spec => []IndInv
BY JournalInitInv, JournalNextInv, PTL DEF Spec

\* The variables of the journal and of its reader keep their types.
THEOREM TypeCorrect == Spec => []TypeOK
<1>1. IndInv => TypeOK
    BY DEF IndInv
<1> QED BY <1>1, Invariance, PTL

\* Whatever is trimmed or replaced by a snapshot, the size kept for the start
\* of the tail is the size in force there.
THEOREM StartSizeCorrect == Spec => []StartSizeInForce
<1>1. IndInv => StartSizeInForce
    BY DEF IndInv, TailInv, StartSizeInForce, SizeIn, SizeAt
<1> QED BY <1>1, Invariance, PTL

\* Trimming and snapshots keep output and resizes in one order.
THEOREM TailOrdered == Spec => []TailInOrder
<1>1. IndInv => TailInOrder
    <2> SUFFICES ASSUME IndInv PROVE TailInOrder
        OBVIOUS
    <2>1. AtOrAfter(start, snapshot) /\ AtOrAfter(current, start)
        BY DEF IndInv, TypeOK, TailInv, OnPath, AtOrAfter, current, Pos, resize_count
    <2> QED BY <2>1 DEF IndInv, TailInv, LogInv, OnPath, TailInOrder, resize_count
<1> QED BY <1>1, Invariance, PTL

\* A reader always knows the size in force where it stands.
THEOREM ReaderSizeCorrect == Spec => []ReaderKnowsSize
<1>1. IndInv => ReaderKnowsSize
    BY DEF IndInv, ReaderInv, ReaderKnowsSize, SizeIn, SizeAt
<1> QED BY <1>1, Invariance, PTL

\* The stream never skips output silently.
THEOREM StreamComplete == Spec => []NoSilentHole
<1>1. IndInv => NoSilentHole
    BY DEF IndInv, ReaderInv, NoSilentHole
<1> QED BY <1>1, Invariance, PTL

\* The stream never repeats a byte.
THEOREM StreamOnce == Spec => []NothingTwice
<1>1. IndInv => NothingTwice
    BY DEF IndInv, ReaderInv
<1> QED BY <1>1, Invariance, PTL

\* The exit is told in its place in the stream.
THEOREM ExitOrdered == Spec => []ExitInOrder
<1>1. IndInv => ExitInOrder
    BY DEF IndInv, ReaderInv
<1> QED BY <1>1, Invariance, PTL

\* A tail cut at a later point of the path costs no more.
LEMMA CostFalls ==
    ASSUME NEW upto \in Nat, NEW log \in Logs, NEW p \in Position, NEW q \in Position,
           AtOrAfter(q, p), q.resizes <= Len(log)
    PROVE  Cost(q, upto, log) <= Cost(p, upto, log)
<1>1. /\ p.offset \in Nat /\ p.resizes \in Nat /\ q.offset \in Nat /\ q.resizes \in Nat
      /\ Len(log) \in Nat /\ RECORD_COST \in Nat
      /\ q.offset >= p.offset /\ q.resizes >= p.resizes
    BY LogEntries, ConstantsOK DEF Position, AtOrAfter
<1>2. \A a, b, c \in Nat : a <= b => c * a <= c * b
    OBVIOUS
<1>3. RECORD_COST * (Len(log) - q.resizes) <= RECORD_COST * (Len(log) - p.resizes)
    <2>1. Len(log) - q.resizes \in Nat /\ Len(log) - p.resizes \in Nat
          /\ Len(log) - q.resizes <= Len(log) - p.resizes
        BY <1>1
    <2> QED BY <1>1, <1>2, <2>1
<1> DEFINE X == RECORD_COST * (Len(log) - q.resizes)
           Y == RECORD_COST * (Len(log) - p.resizes)
<1>4. X \in Int /\ Y \in Int /\ X <= Y
    BY <1>1, <1>3
<1>5. Cost(q, upto, log) = (upto - q.offset) + X /\ Cost(p, upto, log) = (upto - p.offset) + Y
    BY DEF Cost
<1> HIDE DEF X, Y
<1> QED BY <1>1, <1>4, <1>5

\* The retained tail never costs more than the cap.
THEOREM TailWithinCap == Spec => []TailBounded
<1>1. Init => TailBounded
    <2> SUFFICES ASSUME Init PROVE TailBounded
        OBVIOUS
    <2>1. Cost(start, end, resizeLog) = 0 + RECORD_COST * 0
        BY DEF Init, Cost, Origin, Pos
    <2>2. RECORD_COST * 0 = 0
        BY ConstantsOK
    <2> QED BY <2>1, <2>2, ConstantsOK DEF Init, TailBounded
<1>2. IndInv /\ TailBounded /\ [Next]_vars => TailBounded'
    <2> SUFFICES ASSUME IndInv, TailBounded, [Next]_vars PROVE TailBounded'
        OBVIOUS
    <2>1. ASSUME NEW n \in 1 .. MaxBytes, push_output(n) PROVE TailBounded'
        <3>1. Cost(start', end', resizeLog') <= Cap
            BY <2>1, PushOutputInv
        <3>2. trimmed' \/ start' = snapshot'
            BY <2>1 DEF push_output, trim, TailBounded
        <3> QED BY <3>1, <3>2 DEF TailBounded
    <2>2. ASSUME NEW s \in Sizes, push_resize(s) PROVE TailBounded'
        <3>1. Cost(start', end', resizeLog') <= Cap
            BY <2>2, PushResizeInv
        <3>2. trimmed' \/ start' = snapshot'
            BY <2>2 DEF push_resize, trim, TailBounded
        <3> QED BY <3>1, <3>2 DEF TailBounded
    <2>3. ASSUME NEW p \in NamedPositions, accept_snapshot(p) PROVE TailBounded'
        <3>1. p \in Position
            BY ConstantsOK DEF NamedPositions, Position
        <3>2. OnPath(p, end, resizeLog) /\ AtOrAfter(p, start)
            BY <2>3, <3>1, AcceptedInTail DEF accept_snapshot
        <3>3. Cost(p, end, resizeLog) <= Cost(start, end, resizeLog)
            BY <3>1, <3>2, CostFalls DEF IndInv, TypeOK, Logs, OnPath
        <3>4. Cost(p, end, resizeLog) \in Int /\ Cost(start, end, resizeLog) \in Int
            <4>1. /\ end \in Nat /\ start \in Position /\ Len(resizeLog) \in Nat
                  /\ RECORD_COST \in Nat
                BY LogEntries, ConstantsOK DEF IndInv, TypeOK, Logs
            <4> QED BY <3>1, <4>1 DEF Cost, Position
        <3>5. Cost(p, end, resizeLog) <= Cap
            BY <3>3, <3>4, ConstantsOK DEF TailBounded
        <3> QED BY <2>3, <3>5 DEF accept_snapshot, TailBounded
    <2>4. ASSUME UNCHANGED journalVars PROVE TailBounded'
        BY <2>4 DEF journalVars, TailBounded
    <2>5. CASE push_exit
        BY <2>5 DEF push_exit, TailBounded
    <2>6. ASSUME NEW p \in NamedPositions, read(p) PROVE TailBounded'
        BY <2>4, <2>6 DEF read
    <2>7. CASE disconnect
        BY <2>4, <2>7 DEF disconnect
    <2>8. CASE next
        BY <2>4, <2>8 DEF next, next_snapshot, next_gap, next_in_tail_gap, next_in_tail_exit,
                          next_in_tail_resize, next_in_tail_output, next_nothing
    <2>9. CASE UNCHANGED vars
        BY <2>4, <2>9 DEF vars
    <2> QED BY <2>1, <2>2, <2>3, <2>5, <2>6, <2>7, <2>8, <2>9 DEF Next
<1> QED BY <1>1, <1>2, Invariance, PTL DEF Spec

\* What the journal retains is one stretch of the stream, within the cap, whose
\* first size is known.
THEOREM TailIsSound == Spec => []TailSound
<1>1. TypeOK /\ StartSizeInForce /\ TailInOrder /\ TailBounded => TailSound
    BY DEF TailSound
<1> QED BY <1>1, TypeCorrect, StartSizeCorrect, TailOrdered, TailWithinCap, PTL

\* A reader's stream has no silent hole, nothing twice, the exit after every
\* record before it, and a known size.
THEOREM StreamIsTold == Spec => []StreamTold
<1>1. NoSilentHole /\ NothingTwice /\ ExitInOrder /\ ReaderKnowsSize => StreamTold
    BY DEF StreamTold
<1> QED BY <1>1, StreamComplete, StreamOnce, ExitOrdered, ReaderSizeCorrect, PTL

\* The snapshot, the start and the end only advance; the exit stays.
THEOREM OnlyForwards == Spec => NeverBackwards
<1> DEFINE Forward == /\ AtOrAfter(snapshot', snapshot)
                      /\ AtOrAfter(start', start)
                      /\ AtOrAfter(current', current)
                      /\ exit # None => exit' = exit
<1>1. IndInv /\ [Next]_vars => [Forward]_vars
    <2> SUFFICES ASSUME IndInv, Next PROVE Forward
        OBVIOUS
    <2>1. /\ start \in Position /\ snapshot \in Position /\ end \in Nat
          /\ resizeLog \in Logs /\ Len(resizeLog) \in Nat /\ trimmed \in BOOLEAN
          /\ OnPath(start, end, resizeLog)
          /\ startSize = SizeIn(start.resizes, resizeLog)
        BY LogEntries DEF IndInv, TypeOK, Logs, TailInv
    <2>2. \A p \in Position : AtOrAfter(p, p)
        BY DEF AtOrAfter, Position
    <2>3. current \in Position
        BY <2>1 DEF current, Pos, Position, resize_count
    <2>4. ASSUME UNCHANGED journalVars PROVE Forward
        BY <2>1, <2>2, <2>3, <2>4 DEF journalVars, current, resize_count
    <2>5. ASSUME NEW n \in 1 .. MaxBytes, push_output(n) PROVE Forward
        <3>1. n \in Nat
            BY ConstantsOK
        <3>2. Grows
            BY <2>1, <2>5, <3>1 DEF Grows, push_output
        <3>3. OnPath(start, end + n, resizeLog)
            BY <2>1, <2>5, <3>2, PathGrows DEF IndInv, push_output
        <3>4. AtOrAfter(start', start)
            BY <2>1, <2>5, <3>1, <3>3, TrimFacts DEF push_output
        <3>5. AtOrAfter(current', current)
            BY <2>1, <2>5, <3>1 DEF push_output, current, resize_count, Pos, AtOrAfter
        <3> QED BY <2>1, <2>2, <2>5, <3>4, <3>5 DEF push_output
    <2>6. ASSUME NEW s \in Sizes, push_resize(s) PROVE Forward
        <3>1. start' \in [offset : start.offset .. end, resizes : start.resizes .. Len(resizeLog')]
            BY <2>6 DEF push_resize, trim
        <3>2. Len(resizeLog') = Len(resizeLog) + 1
            BY <2>1, <2>6 DEF push_resize, Logs
        <3>3. AtOrAfter(start', start)
            BY <2>1, <3>1, <3>2 DEF AtOrAfter, Position
        <3>4. AtOrAfter(current', current)
            BY <2>1, <2>6, <3>2 DEF push_resize, current, resize_count, Pos, AtOrAfter
        <3> QED BY <2>1, <2>2, <2>6, <3>3, <3>4 DEF push_resize
    <2>7. CASE push_exit
        BY <2>1, <2>2, <2>3, <2>7 DEF push_exit, current, resize_count
    <2>8. ASSUME NEW p \in NamedPositions, accept_snapshot(p) PROVE Forward
        <3>1. p \in Position
            BY ConstantsOK DEF NamedPositions, Position
        <3>2. AtOrAfter(p, start) /\ AtOrAfter(p, snapshot)
            BY <2>8, <3>1, AcceptedInTail DEF accept_snapshot
        <3> QED BY <2>2, <2>3, <2>8, <3>2 DEF accept_snapshot, current, resize_count
    <2>9. ASSUME NEW p \in NamedPositions, read(p) PROVE Forward
        BY <2>4, <2>9 DEF read
    <2>10. CASE disconnect
        BY <2>4, <2>10 DEF disconnect
    <2>11. CASE next
        BY <2>4, <2>11 DEF next, next_snapshot, next_gap, next_in_tail_gap, next_in_tail_exit,
                           next_in_tail_resize, next_in_tail_output, next_nothing
    <2> QED BY <2>5, <2>6, <2>7, <2>8, <2>9, <2>10, <2>11 DEF Next
<1> QED BY <1>1, Invariance, PTL DEF Spec, NeverBackwards

-----------------------------------------------------------------------------
(***************************************************************************)
(* A call says a host is gone only when it is, and signals nobody else:    *)
(* the invariant Consistent of StopHosts for any number of pids, processes *)
(* and faults.  A process keeps its pid for as long as it lives and its    *)
(* start identity is given once, so what the call remembers of one (Pins)  *)
(* cannot come to mean another; a search under way still has the host      *)
(* before it (Searching), and every signal is preceded by facts that no    *)
(* step of the world takes back (Verified).                                *)
(***************************************************************************)

Calling == {"list", "connect", "peer", "hello", "walk", "match", "pin"}
Ending == {"shutdown", "ending"}
Signalling == {"running", "argv", "still", "send", "cont", "wait"}
Places == Calling \cup Ending \cup Signalling \cup {"left", "settled", "done"} \cup Removing

Calls == [pc : Places, use : {"first", "again", "remove"}, late : BOOLEAN,
          refusing : {"no", "yes", "window"}, tried : BOOLEAN,
          last : HostProcess \cup {Nobody}, peer : HostProcess \cup {Nobody},
          conn : HostProcess \cup {Nobody}, sig : {"TERM", "KILL"},
          argv : {"exact", "alike", "other", "unread"}, gone : BOOLEAN,
          pids : SUBSET Pids, cur : Pids \cup {Nobody}, id : 1..MaxStarts \cup {Nobody},
          checked : 0..MaxStarts]

Typed ==
    /\ table \in [Pids -> Process \cup {Nobody}]
    /\ file \in 1..MaxStarts \cup {Nobody} /\ full \in BOOLEAN
    /\ starts \in 1..MaxStarts /\ stray \in BOOLEAN /\ faults \in 0..MaxFaults
    /\ outcome \in {"none", "stopped", "gone", "kept", "unconfirmed"}
    /\ e \in Calls
    /\ caller \in {"stop", "supervisor", "scan"} /\ fullRefuses \in BOOLEAN

\* Start identities are given once; the host's command line names its socket;
\* and nobody but a scan sees a second host.
Kernel ==
    /\ \A p, q \in Pids :
           table[p] # Nobody /\ table[q] # Nobody /\ table[p].start = table[q].start => p = q
    /\ \A p \in Pids : table[p] # Nobody =>
           /\ table[p].start <= starts
           /\ table[p].start = 1 => table[p].argv # "other"
           /\ caller # "scan" /\ table[p].argv = "exact" => table[p].start = 1
    /\ caller # "scan" => file \in {1, Nobody}

\* A process that was seen is at the pid it was seen at, or nowhere.
Pinned(h) ==
    h # Nobody => /\ h.start <= starts
                /\ \A p \in Pids : table[p] # Nobody /\ table[p].start = h.start => p = h.pid
Pins(c) == Pinned(c.last) /\ Pinned(c.peer) /\ Pinned(c.conn)

IsHost(h) == h.start = 1 \/ ~Alive(1)

\* What is known of a call c, as far as it hangs on its place.
Known(c) ==
    /\ c.pc \in {"peer", "hello"} \cup Ending => c.conn # Nobody
    /\ c.pc \in Signalling => c.peer # Nobody
    /\ c.pc = "pin" => c.cur # Nobody
    /\ c.pc \in Ending => c.use = "first"
    /\ c.pc \in Ending \cup Signalling => caller # "scan"
    /\ c.pc \in {"list", "connect", "peer", "hello"} => c.use # "remove"
    /\ c.checked <= starts

\* The host a search has not come to yet is still before it.
Searching(c) ==
    /\ c.pc = "match" /\ Alive(1) => \E p \in c.pids : table[p] # Nobody /\ table[p].start = 1
    /\ c.pc = "pin" /\ Alive(1) =>
           \E p \in c.pids \cup {c.cur} : table[p] # Nobody /\ table[p].start = 1

Connected(c) ==
    caller # "scan" =>
        /\ c.conn # Nobody => c.conn.start = 1
        /\ c.pc \in {"hello"} \cup Ending /\ c.peer # Nobody => IsHost(c.peer)

\* Who is to be signalled: the host, or what took its pid since.
Verified(c) ==
    /\ c.pc \in {"running", "argv", "still"} /\ c.sig = "KILL" => IsHost(c.peer)
    /\ c.pc \in {"send", "cont", "wait"} => IsHost(c.peer)
    /\ c.pc = "still" /\ Runs(c.peer) => c.argv = table[c.peer.pid].argv
    /\ c.pc \in {"send", "cont"} /\ table[c.peer.pid] # Nobody =>
           \/ table[c.peer.pid].start = c.peer.start /\ table[c.peer.pid].argv = "exact"
           \/ table[c.peer.pid].start > c.checked

Sound(c) == Pins(c) /\ Known(c) /\ Searching(c) /\ Connected(c) /\ Verified(c)

\* The one case in which the end of the socket file stands for the host's.
Truthful(c, said) ==
    said \in {"stopped", "gone"} /\ Alive(1) =>
        /\ c.use = "first" /\ c.peer = Nobody /\ c.conn # Nobody /\ c.pc \in {"settled", "done"}
        /\ file = Nobody /\ caller # "scan"

Inv == Typed /\ Kernel /\ Sound(e) /\ Truthful(e, outcome) /\ ~stray

LEMMA InvFacts == Inv => Consistent
<1>1. ASSUME Inv PROVE StopTypeOK
    BY <1>1 DEF Inv, Typed, StopTypeOK, Calls, Places, Calling, Ending, Signalling, Removing
<1>2. ASSUME Inv PROVE GoneIsGone
    BY <1>2, StopConstants DEF Inv, Truthful, GoneIsGone
<1>3. ASSUME Inv PROVE OnlyTheHostSignalled
    BY <1>3 DEF Inv, OnlyTheHostSignalled
<1> QED BY <1>1, <1>2, <1>3 DEF Consistent

LEMMA InitInv == StopInit => Inv
<1> SUFFICES ASSUME StopInit PROVE Inv
    OBVIOUS
<1> USE StopConstants
<1>1. PICK h \in Pids, spelled \in {"exact", "alike"}, mode \in {"runs", "starting"} :
         \/ /\ table = [p \in Pids |->
                  IF p = h THEN [start |-> 1, serves |-> TRUE, argv |-> spelled, mode |-> mode]
                           ELSE Nobody]
            /\ starts = 1
         \/ \E q \in Pids \ {h}, argv \in {"alike", "other"} :
              /\ starts = 2 /\ MaxStarts >= 2
              /\ table = [p \in Pids |->
                   CASE p = h -> [start |-> 1, serves |-> TRUE, argv |-> spelled, mode |-> mode]
                     [] p = q -> [start |-> 2, serves |-> FALSE, argv |-> argv, mode |-> "runs"]
                     [] OTHER -> Nobody]
    BY DEF StopInit
<1>2. ASSUME table \in [Pids -> Process \cup {Nobody}], starts \in 1..MaxStarts
      PROVE  Typed /\ Sound(e) /\ Truthful(e, outcome) /\ ~stray
    <2>1. e \in Calls
        BY DEF StopInit, Call, Calls, Places, Calling
    <2>2. Typed
        <3>1. /\ file = 1 /\ full = FALSE /\ stray = FALSE /\ faults = 0 /\ outcome = "none"
              /\ caller \in {"stop", "supervisor", "scan"} /\ fullRefuses \in BOOLEAN
            BY DEF StopInit
        <3>2. 1 \in 1..MaxStarts /\ 0 \in 0..MaxFaults
            OBVIOUS
        <3> QED BY <1>2, <2>1, <3>1, <3>2 DEF Typed
    <2>3. Truthful(e, outcome) /\ ~stray
        BY DEF StopInit, Truthful
    <2>4. Sound(e)
        BY <1>2 DEF StopInit, Call, Sound, Pins, Pinned, Known, Searching, Connected, Verified, Ending,
                    Signalling
    <2> QED BY <2>2, <2>3, <2>4
<1>3. CASE /\ starts = 1
           /\ table = [p \in Pids |->
                IF p = h THEN [start |-> 1, serves |-> TRUE, argv |-> spelled, mode |-> mode]
                         ELSE Nobody]
    <2>1. [start |-> 1, serves |-> TRUE, argv |-> spelled, mode |-> mode] \in Process
        BY DEF Process, Modes, Listening
    <2>2. table \in [Pids -> Process \cup {Nobody}] /\ starts \in 1..MaxStarts
        BY <1>3, <2>1
    <2>3. Kernel
        BY <1>3 DEF Kernel, StopInit
    <2> QED BY <2>2, <2>3, <1>2 DEF Inv
<1>4. ASSUME NEW q \in Pids \ {h}, NEW argv \in {"alike", "other"}, starts = 2, MaxStarts >= 2,
             table = [p \in Pids |->
                   CASE p = h -> [start |-> 1, serves |-> TRUE, argv |-> spelled, mode |-> mode]
                     [] p = q -> [start |-> 2, serves |-> FALSE, argv |-> argv, mode |-> "runs"]
                     [] OTHER -> Nobody]
      PROVE  Inv
    <2>1. /\ [start |-> 1, serves |-> TRUE, argv |-> spelled, mode |-> mode] \in Process
          /\ [start |-> 2, serves |-> FALSE, argv |-> argv, mode |-> "runs"] \in Process
        BY <1>4 DEF Process, Modes, Listening
    <2>2. table \in [Pids -> Process \cup {Nobody}] /\ starts \in 1..MaxStarts
        BY <1>4, <2>1
    <2>3. Kernel
        BY <1>4 DEF Kernel, StopInit
    <2> QED BY <2>2, <2>3, <1>2 DEF Inv
<1> QED BY <1>1, <1>3, <1>4

-----------------------------------------------------------------------------
(* The world. *)

\* No step gives a start identity again, moves a process or changes its command
\* line; only a scan can meet a new host.
Kept(p) == table[p] # Nobody /\ table'[p].start = table[p].start /\ table'[p].argv = table[p].argv
Fresh(p) == table'[p].start = starts' /\ starts < starts' /\ (caller # "scan" => table'[p].argv # "exact")
Evolves ==
    /\ starts' \in 1..MaxStarts /\ starts <= starts'
    /\ table' \in [Pids -> Process \cup {Nobody}]
    /\ \A p \in Pids : table'[p] # Nobody => Kept(p) \/ Fresh(p)
    /\ \A p, q \in Pids :
           table'[p] # Nobody /\ table'[q] # Nobody /\ Fresh(p) /\ Fresh(q) => p = q
    /\ caller # "scan" => file' \in {file, Nobody}
    /\ UNCHANGED caller

LEMMA EvolvesFacts ==
    ASSUME Typed, Kernel, Evolves
    PROVE  /\ Kernel'
           /\ Alive(1)' => Alive(1)
           /\ \A p \in Pids : table'[p] # Nobody /\ table'[p].start <= starts => Kept(p)
           /\ \A h \in HostProcess : Pinned(h) => Pinned(h)'
<1> USE StopConstants
<1>1. /\ table \in [Pids -> Process \cup {Nobody}] /\ starts \in 1..MaxStarts
      /\ \A p \in Pids : table[p] # Nobody => table[p].start \in Nat /\ table[p].start >= 1
      /\ \A p \in Pids : table'[p] # Nobody => table'[p].start \in Nat
    BY DEF Typed, Evolves, Process
<1>2. \A p \in Pids : table'[p] # Nobody /\ table'[p].start <= starts => Kept(p)
    BY <1>1 DEF Evolves, Fresh
<1>3. Alive(1)' => Alive(1)
    BY <1>1, <1>2 DEF Alive, Kept
<1>4. ASSUME NEW h \in HostProcess, Pinned(h) PROVE Pinned(h)'
    <2>1. h # Nobody => h.start \in Nat
        BY DEF HostProcess
    <2> QED BY <1>1, <1>2, <1>4, <2>1 DEF Pinned, Kept, Evolves
<1>5. Kernel'
    <2>1. ASSUME NEW p \in Pids, NEW q \in Pids, table'[p] # Nobody, table'[q] # Nobody,
                 table'[p].start = table'[q].start
          PROVE  p = q
        <3>1. CASE table'[p].start <= starts
            BY <1>2, <2>1, <3>1 DEF Kept, Kernel
        <3>2. CASE ~(table'[p].start <= starts)
            <4>1. Fresh(p) /\ Fresh(q)
                BY <1>1, <2>1, <3>2 DEF Evolves, Kept, Kernel
            <4> QED BY <2>1, <4>1 DEF Evolves
        <3> QED BY <3>1, <3>2
    <2>2. ASSUME NEW p \in Pids, table'[p] # Nobody
          PROVE  /\ table'[p].start <= starts'
                 /\ table'[p].start = 1 => table'[p].argv # "other"
                 /\ caller # "scan" /\ table'[p].argv = "exact" => table'[p].start = 1
        <3>1. CASE Kept(p)
            BY <1>1, <2>2, <3>1 DEF Kept, Kernel, Evolves
        <3>2. CASE Fresh(p)
            BY <1>1, <2>2, <3>2 DEF Fresh, Evolves
        <3> QED BY <2>2, <3>1, <3>2 DEF Evolves
    <2>3. caller # "scan" => file' \in {1, Nobody}
        BY DEF Kernel, Evolves
    <2> QED BY <2>1, <2>2, <2>3 DEF Kernel, Evolves
<1> QED BY <1>2, <1>3, <1>4, <1>5

\* What the call knows after a step, said of the world before it, stays true while
\* the world goes on.
LEMMA Keeps ==
    ASSUME Inv, Evolves, Typed', Sound(e'), Truthful(e', outcome'), ~stray'
    PROVE  Inv'
<1> USE StopConstants
<1>1. /\ Kernel' /\ (Alive(1)' => Alive(1))
      /\ \A p \in Pids : table'[p] # Nobody /\ table'[p].start <= starts => Kept(p)
      /\ \A h \in HostProcess : Pinned(h) => Pinned(h)'
    BY EvolvesFacts DEF Inv
<1>2. /\ e'.peer \in HostProcess \cup {Nobody} /\ e'.last \in HostProcess \cup {Nobody}
      /\ e'.conn \in HostProcess \cup {Nobody} /\ e'.pids \subseteq Pids /\ e'.cur \in Pids \cup {Nobody}
      /\ e'.checked \in Nat /\ starts \in Nat /\ starts' \in Nat /\ 1 <= starts /\ starts <= starts'
    BY DEF Inv, Typed, Calls, Evolves
<1>3. Pins(e)'
    BY <1>1, <1>2 DEF Sound, Pins, Pinned
<1>4. Known(e)'
    BY <1>2 DEF Sound, Known, Evolves
<1>5. Searching(e)'
    <2>1. ASSUME NEW p \in Pids, Alive(1)', table[p] # Nobody, table[p].start = 1
          PROVE  table'[p] # Nobody /\ table'[p].start = 1
        <3>1. PICK q \in Pids : table'[q] # Nobody /\ table'[q].start = 1
            BY <2>1 DEF Alive
        <3>2. Kept(q)
            BY <1>1, <1>2, <3>1
        <3> QED BY <2>1, <3>1, <3>2 DEF Kept, Inv, Kernel
    <2>2. Searching(e')
        BY DEF Sound
    <2>3. CASE e'.pc = "match" /\ Alive(1)'
        BY <1>1, <1>2, <2>1, <2>2, <2>3 DEF Searching
    <2>4. CASE e'.pc = "pin" /\ Alive(1)'
        <3>1. e'.pids \cup {e'.cur} \subseteq Pids
            BY <1>2, <2>4 DEF Sound, Known
        <3> QED BY <1>1, <2>1, <2>2, <2>4, <3>1 DEF Searching
    <2> QED BY <2>3, <2>4 DEF Searching
<1>6. Connected(e)'
    BY <1>1 DEF Sound, Connected, IsHost, Evolves
<1>7. Verified(e)'
    <2>2. e'.pc \in Signalling => e'.peer \in HostProcess /\ e'.peer.pid \in Pids /\ e'.peer.start \in Nat
                                  /\ e'.peer.start <= starts
        BY <1>2 DEF Sound, Known, Pins, Pinned, HostProcess
    <2>3. e'.pc = "still" /\ Runs(e.peer)' => e'.argv = table'[e'.peer.pid].argv
        BY <1>1, <2>2 DEF Sound, Verified, Runs, Kept, Signalling
    <2>4. ASSUME e'.pc \in {"send", "cont"}, table'[e'.peer.pid] # Nobody PROVE May(table[e.peer.pid])'
        <3>1. e'.peer.pid \in Pids /\ e'.checked <= starts
            BY <2>2, <2>4 DEF Signalling, Sound, Known
        <3>2. CASE Kept(e'.peer.pid)
            BY <2>4, <3>2 DEF Kept, May, Sound, Verified
        <3>3. CASE Fresh(e'.peer.pid)
            BY <1>2, <3>1, <3>3 DEF Fresh, May
        <3> QED BY <2>4, <3>1, <3>2, <3>3 DEF Evolves
    <2>5. Verified(e')
        BY DEF Sound
    <2> QED BY <1>1, <2>3, <2>4, <2>5 DEF Verified, May, IsHost
<1>8. Truthful(e, outcome)'
    BY <1>1 DEF Truthful, Evolves
<1>9. Sound(e)'
    BY <1>3, <1>4, <1>5, <1>6, <1>7 DEF Sound
<1> QED BY <1>1, <1>8, <1>9 DEF Inv

\* The mode of a process may change, a process may go, and nobody is new.
SameProcesses ==
    /\ table' \in [Pids -> Process \cup {Nobody}]
    /\ \A p \in Pids : table'[p] # Nobody =>
           table[p] # Nobody /\ table'[p].start = table[p].start /\ table'[p].argv = table[p].argv

LEMMA SetMode ==
    ASSUME Typed, NEW p \in Pids, table[p] # Nobody, NEW m \in Modes, Set(p, m)
    PROVE  SameProcesses
<1>1. table[p] \in Process /\ DOMAIN table = Pids
    BY DEF Typed
<1>2. table' = [table EXCEPT ![p] = [table[p] EXCEPT !.mode = m]]
    BY <1>1 DEF Set
<1>3. [table[p] EXCEPT !.mode = m] \in Process
    BY <1>1 DEF Process
<1> QED BY <1>1, <1>2, <1>3, StopConstants DEF SameProcesses, Typed, Process

LEMMA NobodyNew ==
    ASSUME Typed, SameProcesses, UNCHANGED <<starts, caller>>,
           caller # "scan" => file' \in {file, Nobody}
    PROVE  Evolves
BY DEF Evolves, SameProcesses, Kept, Fresh, Typed

LEMMA Gone ==
    ASSUME Typed, NEW p \in Pids, table' = [table EXCEPT ![p] = Nobody]
    PROVE  SameProcesses
BY DEF SameProcesses, Typed

LEMMA StartedAlike ==
    ASSUME Typed, Kernel, NEW p \in Pids, table[p] = Nobody, NEW serves \in BOOLEAN,
           NEW argv \in {"exact", "alike", "other"}, NEW mode \in Modes,
           caller # "scan" => argv # "exact" /\ file' = file,
           starts < MaxStarts, starts' = starts + 1, UNCHANGED caller,
           table' = [table EXCEPT ![p] = [start |-> starts', serves |-> serves, argv |-> argv,
                                          mode |-> mode]]
    PROVE  Evolves
<1>1. starts \in Nat /\ 1 <= starts /\ MaxStarts \in Nat /\ DOMAIN table = Pids
    BY StopConstants DEF Typed
<1>2. starts' \in 1..MaxStarts /\ starts < starts'
    BY <1>1
<1>3. [start |-> starts', serves |-> serves, argv |-> argv, mode |-> mode] \in Process
    BY <1>2 DEF Process
<1>4. \A q \in Pids : IF q = p THEN table'[q] = [start |-> starts', serves |-> serves, argv |-> argv,
                                                mode |-> mode]
                                ELSE table'[q] = table[q]
    BY <1>1
<1>5. Fresh(p)
    BY <1>2, <1>4 DEF Fresh
<1>6. \A q \in Pids \ {p} : table'[q] # Nobody => Kept(q) /\ table'[q].start \in 1..MaxStarts
    BY <1>4 DEF Kept, Typed, Process
<1>7. table' \in [Pids -> Process \cup {Nobody}]
    BY <1>3 DEF Typed
<1>8. ASSUME NEW q \in Pids, NEW r \in Pids, table'[q] # Nobody, table'[r] # Nobody, Fresh(q), Fresh(r)
      PROVE  q = r
    BY <1>1, <1>2, <1>4, <1>6, <1>8 DEF Fresh, Kept, Kernel
<1> QED BY <1>1, <1>2, <1>5, <1>6, <1>7, <1>8 DEF Evolves

LEMMA WorldEvolves ==
    ASSUME Inv, World, UNCHANGED <<caller, fullRefuses>>
    PROVE  /\ Evolves /\ file' \in 1..MaxStarts \cup {Nobody} /\ full' \in BOOLEAN
           /\ UNCHANGED <<e, outcome, stray, faults>>
<1> USE StopConstants
<1>1. Typed /\ Kernel
    BY DEF Inv
<1>2. UNCHANGED <<e, outcome, stray, faults>>
    BY DEF World, SameCall, host_listen, host_exit, die, freeze, thaw, wedge, fill, spawn_host, start_other, meddle
<1>3. \A p \in Pids, m \in Modes : Host(p, m) => table[p] # Nobody
    BY DEF Host
<1> DEFINE Good == Evolves /\ file' \in 1..MaxStarts \cup {Nobody} /\ full' \in BOOLEAN
<1>4. Good
    <2>1. ASSUME NEW p \in Pids, host_listen(p) \/ freeze(p) \/ thaw(p) \/ wedge(p) PROVE Good
        <3>1. PICK m \in Modes : Set(p, m)
            BY <2>1 DEF host_listen, freeze, thaw, wedge, Modes, Listening
        <3>2. SameProcesses
            BY <1>1, <2>1, <3>1, SetMode DEF host_listen, freeze, thaw, wedge, Host
        <3> QED BY <1>1, <2>1, <3>2, NobodyNew DEF host_listen, freeze, thaw, wedge, Typed
    <2>2. ASSUME NEW p \in Pids, host_exit(p) \/ die(p) PROVE Good
        <3>1. SameProcesses
            BY <1>1, <2>2, Gone DEF host_exit, die
        <3>2. file' \in {file, Nobody} /\ full' \in BOOLEAN /\ UNCHANGED starts
            BY <1>1, <2>2 DEF host_exit, die, Typed
        <3> QED BY <1>1, <3>1, <3>2, NobodyNew DEF Typed
    <2>3. ASSUME NEW p \in Pids, fill(p) PROVE Good
        BY <1>1, <2>3 DEF fill, Evolves, Kept, Fresh, Typed
    <2>4. ASSUME NEW p \in Pids, spawn_host(p) PROVE Good
        <3>1. Evolves
            BY <1>1, <2>4, StartedAlike DEF spawn_host, Modes
        <3> QED BY <1>1, <2>4, <3>1 DEF spawn_host, Evolves, Typed
    <2>5. ASSUME NEW p \in Pids, NEW argv \in {"alike", "other"}, start_other(p, argv) PROVE Good
        <3>1. Evolves
            BY <1>1, <2>5, StartedAlike DEF start_other, Modes, Listening
        <3> QED BY <1>1, <2>5, <3>1 DEF start_other, Typed
    <2>6. CASE meddle
        BY <1>1, <2>6 DEF meddle, Evolves, Kept, Fresh, Typed
    <2> HIDE DEF Good
    <2> QED BY <2>1, <2>2, <2>3, <2>4, <2>5, <2>6 DEF World
<1> QED BY <1>2, <1>4

LEMMA WorldInv ==
    ASSUME Inv, World, UNCHANGED <<caller, fullRefuses>>
    PROVE  Inv'
<1>1. Typed'
    BY WorldEvolves DEF Inv, Typed, Evolves
<1>2. Sound(e') /\ Truthful(e', outcome') /\ ~stray'
    BY WorldEvolves DEF Inv
<1> QED BY <1>1, <1>2, WorldEvolves, Keeps

-----------------------------------------------------------------------------
(* The call. *)

LEMMA NothingNew ==
    ASSUME Inv, UNCHANGED <<table, starts, caller>>, file' \in {file, Nobody}
    PROVE  Evolves
BY DEF Inv, Typed, Evolves, Kept, Fresh

LEMMA CallInv ==
    ASSUME Inv, UNCHANGED <<world, stray, caller, fullRefuses>>, e' \in Calls,
           outcome' \in {"none", "stopped", "gone", "kept", "unconfirmed"}, faults' \in 0..MaxFaults,
           Sound(e'), Truthful(e', outcome')
    PROVE  Inv'
<1>1. Typed' /\ ~stray'
    BY DEF world, Inv, Typed
<1>2. Evolves
    BY NothingNew DEF world
<1> QED BY <1>1, <1>2, Keeps

Outcomes == {"none", "stopped", "gone", "kept", "unconfirmed"}
Alone == UNCHANGED <<table, file, full, starts, stray, caller, fullRefuses>> /\ faults' \in 0..MaxFaults
Under == e.pc \notin {"settled", "done"}

LEMMA Faults ==
    ASSUME Inv, Fault \/ UNCHANGED faults
    PROVE  faults' \in 0..MaxFaults
BY StopConstants DEF Inv, Typed, Fault

LEMMA CallFields ==
    ASSUME Inv
    PROVE  /\ e \in Calls /\ Sound(e) /\ outcome \in Outcomes
           /\ Under /\ outcome \in {"stopped", "gone"} => ~Alive(1)
BY DEF Inv, Typed, Outcomes, Truthful, Under

\* The call goes on, and says what it said.
LEMMA GoesOn ==
    ASSUME Inv, Alone, Under, UNCHANGED outcome, e' \in Calls, Sound(e')
    PROVE  Inv'
<1>1. Truthful(e', outcome')
    BY CallFields DEF Truthful
<1> QED BY <1>1, CallInv, CallFields DEF Alone, world, Outcomes

\* The call is over without a word on the host, or without a new one.
LEMMA Over ==
    ASSUME Inv, Alone, e' = [e EXCEPT !.pc = "done"],
           outcome' \in {"kept", "unconfirmed"} \/ UNCHANGED outcome
    PROVE  Inv'
<1>1. e' \in Calls
    BY CallFields DEF Calls, Places
<1>2. Sound(e')
    BY CallFields DEF Sound, Pins, Known, Searching, Connected, Verified, Calls, Ending, Signalling
<1>3. Truthful(e', outcome')
    BY CallFields DEF Truthful, Inv, Calls
<1>4. outcome' \in Outcomes
    BY CallFields DEF Outcomes
<1> QED BY <1>1, <1>2, <1>3, <1>4, CallInv DEF Alone, world, Outcomes

\* The call says the host is gone.
LEMMA Settles ==
    ASSUME Inv, Alone, e' = [e EXCEPT !.pc = "settled"], outcome' \in {"stopped", "gone"},
           Alive(1) => /\ e.use = "first" /\ e.peer = Nobody /\ e.conn # Nobody
                       /\ file = Nobody /\ caller # "scan"
    PROVE  Inv'
<1>1. e' \in Calls
    BY CallFields DEF Calls, Places
<1>2. Sound(e')
    BY CallFields DEF Sound, Pins, Known, Searching, Connected, Verified, Calls, Ending, Signalling
<1>3. Truthful(e', outcome')
    BY CallFields DEF Truthful, Calls
<1>4. outcome' \in Outcomes
    BY DEF Outcomes
<1> QED BY <1>1, <1>2, <1>3, <1>4, CallInv DEF Alone, world, Outcomes

Peer(h) == h \in HostProcess \cup {Nobody} /\ Pinned(h)

LEMMA UnavailableInv ==
    ASSUME Inv, Alone, Under, NEW call \in Calls, Sound(call), NEW h, Peer(h), Unavailable(call, h)
    PROVE  Inv'
<1>1. CASE /\ caller # "scan" /\ h # Nobody /\ UNCHANGED outcome
           /\ e' = [call EXCEPT !.peer = h, !.sig = "TERM", !.pc = "running"]
    <2>1. e' \in Calls
        BY <1>1 DEF Calls, Places, Signalling, Peer
    <2>2. Sound(e')
        BY <1>1 DEF Sound, Pins, Known, Searching, Connected, Verified, Calls, Ending, Signalling, Peer
    <2> QED BY <1>1, <2>1, <2>2, GoesOn
<1>2. CASE outcome' \in {"kept", "unconfirmed"} /\ e' = [e EXCEPT !.pc = "done"]
    BY <1>2, Over
<1> QED BY <1>1, <1>2 DEF Unavailable, Done

LEMMA FailsInv ==
    ASSUME Inv, Alone, Under, NEW call \in Calls, Sound(call), NEW gone \in BOOLEAN, NEW h, Peer(h),
           Fails(call, gone, h)
    PROVE  Inv'
<1>1. CASE /\ UNCHANGED outcome
           /\ e' = [call EXCEPT !.pc = "walk", !.gone = gone, !.peer = h]
    <2>1. e' \in Calls
        <3>1. "walk" \in Places /\ h \in HostProcess \cup {Nobody}
            BY DEF Places, Calling, Peer
        <3> QED BY <1>1, <3>1 DEF Calls
    <2>2. Sound(e')
        BY <1>1 DEF Sound, Pins, Known, Searching, Connected, Verified, Calls, Ending, Signalling, Peer
    <2> QED BY <1>1, <2>1, <2>2, GoesOn
<1>2. CASE Unavailable(call, h)
    BY <1>2, UnavailableInv
<1> QED BY <1>1, <1>2 DEF Fails

LEMMA RetryInv ==
    ASSUME Inv, Alone, e.pc \in {"connect", "hello"}, NEW h, Peer(h), Retry(h)
    PROVE  Inv'
<1> DEFINE call == [e EXCEPT !.pc = "connect", !.refusing = "no", !.tried = TRUE, !.last = h,
                             !.conn = Nobody]
<1>1. call \in Calls
    BY CallFields DEF Calls, Places, Calling, Peer
<1>2. Sound(call)
    BY CallFields, StopConstants
       DEF Sound, Pins, Pinned, Known, Searching, Connected, Verified, Calls, Ending, Signalling, Peer
<1>3. Under
    BY DEF Under
<1>4. Fails(call, FALSE, h) \/ (e' = call /\ UNCHANGED outcome)
    BY DEF Retry
<1> HIDE DEF call
<1>5. CASE e' = call /\ UNCHANGED outcome
    BY <1>1, <1>2, <1>3, <1>5, GoesOn
<1>6. CASE Fails(call, FALSE, h)
    BY <1>1, <1>2, <1>3, <1>6, FailsInv
<1> QED BY <1>4, <1>5, <1>6

LEMMA CutShortInv ==
    ASSUME Inv, Alone, Under, NEW h, Peer(h), CutShort(h)
    PROVE  Inv'
<1>1. Peer(IF e.tried /\ e.last # Nobody THEN e.last ELSE h)
    BY CallFields DEF Peer, Calls, Sound, Pins
<1> QED BY <1>1, CallFields, FailsInv DEF CutShort

\* Of a process that was the host, its absence is the host's.
LEMMA HostIsGone ==
    ASSUME NEW h \in HostProcess, h # Nobody, Pinned(h), IsHost(h), ~Runs(h)
    PROVE  ~Alive(1)
BY DEF IsHost, Pinned, Runs, Alive

LEMMA AlreadyGoneInv ==
    ASSUME Inv, Alone, e.pc \in Signalling, ~Runs(e.peer), e.sig = "KILL" => IsHost(e.peer), AlreadyGone
    PROVE  Inv'
<1>1. Under
    BY DEF Under, Signalling
<1>2. CASE e' = Begin("again") /\ UNCHANGED outcome
    <2>1. e' \in Calls
        BY <1>2, CallFields DEF Begin, Calls, Places, Calling
    <2>2. Sound(e')
        BY <1>2, CallFields, StopConstants
           DEF Begin, Sound, Pins, Pinned, Known, Searching, Connected, Verified, Calls, Ending, Signalling
    <2> QED BY <1>1, <1>2, <2>1, <2>2, GoesOn
<1>3. CASE e.sig = "KILL" /\ outcome' = "stopped" /\ e' = [e EXCEPT !.pc = "settled"]
    <2>1. e.peer \in HostProcess /\ e.peer # Nobody /\ Pinned(e.peer)
        BY CallFields DEF Sound, Known, Pins, Calls
    <2> QED BY <1>3, <2>1, HostIsGone, Settles
<1> QED BY <1>2, <1>3, CallFields DEF AlreadyGone, Calls

LEMMA ConnectInv ==
    ASSUME Inv, UNCHANGED <<caller, fullRefuses>>, Connect
    PROVE  Inv'
<1> USE StopConstants
<1>1. e \in Calls /\ Sound(e) /\ Peer(Nobody) /\ Peer(e.peer)
    BY CallFields DEF Sound, Pins, Peer, Pinned, Calls
<1>2. e.pc \notin {"settled", "done"} /\ Under
    BY DEF Under, Connect, connect_no_file, connect_refused, connect_again, connect_queued, peer_process,
           hello_welcome, hello_closed, hello_unusable, hello_timeout, walk, pin, walk_none, walk_fails, match
<1>3. ASSUME Same PROVE Alone
    BY <1>3, Faults DEF Same, Alone, world
<1>4. ASSUME Fault, UNCHANGED <<world, stray>> PROVE Alone
    BY <1>4, Faults DEF Alone, world
<1>5. CASE connect_no_file
    BY <1>1, <1>2, <1>3, <1>5, FailsInv DEF connect_no_file
<1>6. CASE connect_refused
    <2>1. CASE Fails(e, TRUE, Nobody)
        BY <1>1, <1>2, <1>3, <1>6, <2>1, FailsInv DEF connect_refused
    <2>2. CASE e' = [e EXCEPT !.refusing = "yes"] /\ UNCHANGED outcome
        <3>1. e' \in Calls /\ Sound(e')
            BY <1>1, <2>2 DEF Calls, Sound, Pins, Known, Searching, Connected, Verified
        <3> QED BY <1>2, <1>3, <1>6, <2>2, <3>1, GoesOn DEF connect_refused
    <2> QED BY <1>6, <2>1, <2>2 DEF connect_refused
<1>7. CASE connect_again
    BY <1>1, <1>2, <1>3, <1>7, CutShortInv, RetryInv DEF connect_again
<1>8. CASE connect_queued
    <2>1. PICK p \in Listeners : e' = [e EXCEPT !.pc = "peer", !.conn = [pid |-> p, start |-> table[p].start]]
        BY <1>8 DEF connect_queued
    <2>2. p \in Pids /\ table[p] # Nobody /\ table[p] \in Process /\ table[p].start = file
        BY DEF Listeners, Inv, Typed
    <2> DEFINE h == [pid |-> p, start |-> table[p].start]
    <2>3. h \in HostProcess /\ Pinned(h)
        BY <2>2 DEF HostProcess, Process, Pinned, Inv, Kernel
    <2>4. caller # "scan" => h.start = 1
        <3>1. table[p].start \in Nat /\ file # Nobody
            BY <2>2 DEF Process
        <3> QED BY <2>2, <3>1 DEF Inv, Kernel
    <2>5. e' = [e EXCEPT !.pc = "peer", !.conn = h] /\ e.pc = "connect"
        BY <1>8, <2>1 DEF connect_queued
    <2>6. h # Nobody
        <3>1. h \in [pid : Pids, start : Nat]
            BY <2>2 DEF Process
        <3> QED BY <3>1
    <2> HIDE DEF h
    <2>7. e' \in Calls
        BY <1>1, <2>3, <2>5 DEF Calls, Places, Calling
    <2>8. Sound(e')
        BY <1>1, <2>3, <2>4, <2>5, <2>6
           DEF Sound, Pins, Known, Searching, Connected, Verified, Calls, Ending, Signalling
    <2> QED BY <1>2, <1>3, <1>8, <2>7, <2>8, GoesOn DEF connect_queued, Quiet
<1>9. CASE peer_process
    <2>1. PICK h \in HostProcess \cup {Nobody} :
              /\ e' = [e EXCEPT !.pc = "hello", !.peer = h] /\ Pinned(h)
              /\ h # Nobody => h.start = table[e.conn.pid].start /\ table[e.conn.pid] # Nobody
                             /\ h.pid = e.conn.pid
        <3>1. CASE e' = [e EXCEPT !.pc = "hello", !.peer = Nobody]
            BY <3>1, <1>1 DEF Peer
        <3>2. CASE /\ e' = [e EXCEPT !.pc = "hello",
                             !.peer = [pid |-> e.conn.pid, start |-> table[e.conn.pid].start]]
                   /\ table[e.conn.pid] # Nobody
            <4> DEFINE h == [pid |-> e.conn.pid, start |-> table[e.conn.pid].start]
            <4>1. e.conn \in HostProcess
                BY <1>1, <1>9 DEF Calls, Sound, Known, peer_process
            <4>2. e.conn.pid \in Pids /\ table[e.conn.pid] \in Process
                BY <3>2, <4>1 DEF HostProcess, Inv, Typed
            <4>3. h \in HostProcess /\ Pinned(h)
                BY <3>2, <4>2 DEF HostProcess, Process, Pinned, Inv, Kernel
            <4>4. /\ e' = [e EXCEPT !.pc = "hello", !.peer = h]
                  /\ h.start = table[e.conn.pid].start /\ h.pid = e.conn.pid
                BY <3>2
            <4> HIDE DEF h
            <4> QED BY <3>2, <4>3, <4>4
        <3> QED BY <1>9, <3>1, <3>2 DEF peer_process
    <2>2. caller # "scan" /\ h # Nobody => IsHost(h)
        <3>1. SUFFICES ASSUME caller # "scan", h # Nobody, Alive(1) PROVE h.start = 1
            BY DEF IsHost
        <3>2. e.conn \in HostProcess /\ e.conn # Nobody /\ e.conn.start = 1 /\ Pinned(e.conn)
            BY <1>1, <1>9, <3>1 DEF Calls, Sound, Pins, Known, Connected, peer_process
        <3> QED BY <2>1, <3>1, <3>2 DEF Pinned, Alive
    <2>3. e' \in Calls
        <3>1. "hello" \in Places
            BY DEF Places, Calling
        <3> QED BY <1>1, <2>1, <3>1 DEF Calls
    <2>4. Sound(e')
        BY <1>1, <1>9, <2>1, <2>2
           DEF Sound, Pins, Known, Searching, Connected, Verified, Calls, Ending, Signalling, peer_process
    <2>5. Alone
        BY <1>9, <1>3, <1>4 DEF peer_process, Same
    <2> QED BY <1>2, <1>9, <2>3, <2>4, <2>5, GoesOn DEF peer_process
<1>10. CASE hello_welcome
    <2>1. CASE e' = [e EXCEPT !.pc = "shutdown"] /\ UNCHANGED outcome /\ caller # "scan" /\ e.use # "again"
        <3>1. e' \in Calls
            BY <1>1, <2>1 DEF Calls, Places, Ending
        <3>2. Sound(e')
            BY <1>1, <1>10, <2>1
               DEF Sound, Pins, Known, Searching, Connected, Verified, Calls, Ending, Signalling,
                   hello_welcome
        <3> QED BY <1>2, <1>3, <1>10, <2>1, <3>1, <3>2, GoesOn DEF hello_welcome
    <2>2. CASE outcome' \in {"kept", "unconfirmed"} /\ e' = [e EXCEPT !.pc = "done"]
        BY <1>3, <1>10, <2>2, Over DEF hello_welcome
    <2> QED BY <1>10, <2>1, <2>2 DEF hello_welcome, Done, Unconfirmed
<1>11. CASE hello_closed
    BY <1>1, <1>3, <1>11, RetryInv DEF hello_closed
<1>12. CASE hello_unusable
    BY <1>1, <1>2, <1>4, <1>12, FailsInv DEF hello_unusable
<1>13. CASE hello_timeout
    BY <1>1, <1>2, <1>3, <1>13, CutShortInv DEF hello_timeout
<1>14. CASE walk
    <2> DEFINE all == {p \in Pids : table[p] # Nobody}
    <2>1. e' = [e EXCEPT !.pc = "match", !.pids = all] /\ UNCHANGED outcome /\ Same /\ e.pc = "walk"
        BY <1>14 DEF walk, Quiet
    <2>2. Alive(1) => \E p \in all : table[p] # Nobody /\ table[p].start = 1
        BY DEF Alive
    <2>3. all \subseteq Pids
        OBVIOUS
    <2> HIDE DEF all
    <2>4. e' \in Calls
        BY <1>1, <2>1, <2>3 DEF Calls, Places, Calling
    <2>5. Sound(e')
        BY <1>1, <2>1, <2>2
           DEF Sound, Pins, Known, Searching, Connected, Verified, Calls, Ending, Signalling
    <2> QED BY <1>2, <1>3, <2>1, <2>4, <2>5, GoesOn
<1>15. ASSUME NEW p \in Pids, match(p) PROVE Inv'
    <2>1. Alive(1) => \E q \in e.pids : table[q] # Nobody /\ table[q].start = 1
        BY <1>1, <1>15 DEF match, Sound, Searching
    <2>2. e.pids \ {p} \subseteq Pids
        BY <1>1 DEF Calls
    <2>3. CASE e' = [e EXCEPT !.pc = "pin", !.cur = p, !.pids = e.pids \ {p}]
        <3>1. e' \in Calls
            BY <1>1, <2>2, <2>3 DEF Calls, Places, Calling
        <3>2. Alive(1) => \E q \in (e.pids \ {p}) \cup {p} : table[q] # Nobody /\ table[q].start = 1
            BY <2>1
        <3>3. Searching(e')
            BY <1>1, <2>3, <3>2 DEF Searching, Calls
        <3>4. Pins(e') /\ Known(e') /\ Connected(e') /\ Verified(e')
            BY <1>1, <1>15, <2>3
               DEF Sound, Pins, Known, Connected, Verified, Calls, Ending, Signalling
        <3> QED BY <1>2, <1>3, <1>15, <3>1, <3>3, <3>4, GoesOn DEF match, Quiet, Sound
    <2>4. CASE e' = [e EXCEPT !.pids = e.pids \ {p}] /\ (table[p] = Nobody \/ table[p].argv = "other")
        <3>1. e' \in Calls
            BY <1>1, <2>2, <2>4 DEF Calls
        <3>2. Alive(1) => \E q \in e.pids \ {p} : table[q] # Nobody /\ table[q].start = 1
            BY <2>1, <2>4 DEF Inv, Kernel
        <3>3. Searching(e')
            BY <1>1, <1>15, <2>4, <3>2 DEF Searching, Calls, match
        <3>4. Pins(e') /\ Known(e') /\ Connected(e') /\ Verified(e')
            BY <1>1, <1>15, <2>4
               DEF Sound, Pins, Known, Connected, Verified, Calls, Ending, Signalling
        <3> QED BY <1>2, <1>3, <1>15, <3>1, <3>3, <3>4, GoesOn DEF match, Quiet, Sound
    <2> QED BY <1>15, <2>3, <2>4 DEF match
<1>16. CASE pin
    <2>1. CASE table[e.cur] = Nobody /\ e' = [e EXCEPT !.pc = "match"] /\ UNCHANGED outcome
        <3>1. e' \in Calls
            BY <1>1, <2>1 DEF Calls, Places, Calling
        <3>2. Alive(1) => \E q \in e.pids : table[q] # Nobody /\ table[q].start = 1
            BY <1>1, <1>16, <2>1 DEF pin, Sound, Searching
        <3>3. Sound(e')
            BY <1>1, <1>16, <2>1, <3>2
               DEF pin, Sound, Pins, Known, Searching, Connected, Verified, Calls, Ending, Signalling
        <3> QED BY <1>2, <1>3, <1>16, <2>1, <3>1, <3>3, GoesOn DEF pin
    <2>2. CASE e' = [e EXCEPT !.pc = "done"] /\ UNCHANGED outcome
        BY <1>3, <1>16, <2>2, Over DEF pin
    <2>3. CASE table[e.cur] # Nobody /\ Unavailable(e, [pid |-> e.cur, start |-> table[e.cur].start])
        <3>1. e.cur \in Pids /\ table[e.cur] \in Process
            BY <1>1, <1>16, <2>3 DEF pin, Sound, Known, Calls, Inv, Typed
        <3>2. Peer([pid |-> e.cur, start |-> table[e.cur].start])
            BY <2>3, <3>1 DEF Peer, HostProcess, Process, Pinned, Inv, Kernel
        <3> QED BY <1>1, <1>2, <1>3, <1>16, <2>3, <3>2, UnavailableInv DEF pin
    <2> QED BY <1>16, <2>1, <2>2, <2>3 DEF pin
<1>17. CASE walk_none
    <2>1. CASE e' = [e EXCEPT !.pc = "unlink"] /\ UNCHANGED outcome
        <3>1. e' \in Calls
            BY <1>1, <2>1 DEF Calls, Places, Removing
        <3>2. Sound(e')
            BY <1>1, <2>1
               DEF Sound, Pins, Known, Searching, Connected, Verified, Calls, Ending, Signalling
        <3> QED BY <1>2, <1>3, <1>17, <2>1, <3>1, <3>2, GoesOn DEF walk_none
    <2>2. CASE Unavailable(e, Nobody)
        BY <1>1, <1>2, <1>3, <1>17, <2>2, UnavailableInv DEF walk_none
    <2>3. CASE outcome' \in {"gone", "stopped"} /\ e' = [e EXCEPT !.pc = "settled"]
        <3>1. ~Alive(1)
            BY <1>1, <1>17 DEF walk_none, Sound, Searching
        <3> QED BY <1>3, <1>17, <2>3, <3>1, Settles DEF walk_none
    <2>4. \/ e.use = "remove" /\ e' = [e EXCEPT !.pc = "unlink"] /\ UNCHANGED outcome
          \/ Unavailable(e, Nobody)
          \/ outcome' \in {"gone", "stopped"} /\ e' = [e EXCEPT !.pc = "settled"]
        <3>1. CASE e.use = "remove"
            BY <1>17, <3>1 DEF walk_none
        <3>2. CASE e.use # "remove" /\ ~e.gone
            BY <1>17, <3>2 DEF walk_none
        <3>3. CASE e.use # "remove" /\ e.gone
            BY <1>17, <3>3 DEF walk_none
        <3> QED BY <3>1, <3>2, <3>3
    <2> QED BY <2>1, <2>2, <2>3, <2>4
<1>18. CASE walk_fails
    BY <1>1, <1>2, <1>4, <1>18, Over, UnavailableInv DEF walk_fails
<1> QED BY <1>5, <1>6, <1>7, <1>8, <1>9, <1>10, <1>11, <1>12, <1>13, <1>14, <1>15, <1>16, <1>17, <1>18
        DEF Connect

\* A signal or a Shutdown changes the mode of a process and nothing else; the
\* rest of the step is a step of the call.
LEMMA ActsInv ==
    ASSUME Inv, SameProcesses, UNCHANGED <<file, full, starts, stray, faults, caller, fullRefuses>>,
           Under, UNCHANGED outcome, e' \in Calls, Sound(e')
    PROVE  Inv'
<1>1. Evolves
    BY NobodyNew DEF Inv
<1>2. Typed' /\ ~stray'
    BY <1>1 DEF Inv, Typed, Evolves
<1>3. Truthful(e', outcome')
    BY CallFields DEF Truthful
<1> QED BY <1>1, <1>2, <1>3, Keeps

LEMMA Signalled ==
    ASSUME Inv, NEW p \in Pids, table[p] # Nobody, NEW sig \in {"TERM", "KILL", "CONT"},
           table' = [table EXCEPT ![p] = After(table[p], sig)]
    PROVE  SameProcesses
<1> DEFINE t == table[p]
<1>1. t \in Process
    BY DEF Inv, Typed
<1>2. After(t, sig) \in Process /\ After(t, sig).start = t.start /\ After(t, sig).argv = t.argv
    <2>1. CASE ~t.serves
        BY <1>1, <2>1 DEF After
    <2>2. CASE t.serves
        <3>1. PICK m : After(t, sig) = [t EXCEPT !.mode = m] /\ m \in Modes
            <4> DEFINE m == CASE sig = "KILL" -> "killed"
                              [] sig = "TERM" /\ t.mode \in {"starting", "runs"} -> "exiting"
                              [] sig = "TERM" /\ t.mode = "stopped" -> "stopped_ending"
                              [] sig = "CONT" /\ t.mode = "stopped" -> "runs"
                              [] sig = "CONT" /\ t.mode = "stopped_ending" -> "exiting"
                              [] OTHER -> t.mode
            <4>1. After(t, sig) = [t EXCEPT !.mode = m]
                BY <2>2 DEF After
            <4>2. m \in Modes
                BY <1>1 DEF Modes, Listening, Process
            <4> HIDE DEF m
            <4> QED BY <4>1, <4>2
        <3> HIDE DEF t
        <3> QED BY <1>1, <3>1 DEF Process
    <2> QED BY <2>1, <2>2
<1> QED BY <1>1, <1>2 DEF SameProcesses, Inv, Typed

LEMMA NotEndedInv ==
    ASSUME Inv, Alone, e.pc \in Ending, NotEnded
    PROVE  Inv'
<1>1. e \in Calls /\ Sound(e) /\ Under
    BY CallFields DEF Under, Ending
<1>2. CASE e.peer # Nobody /\ e' = [e EXCEPT !.pc = "running", !.sig = "TERM"] /\ UNCHANGED outcome
    <2>1. e' \in Calls
        BY <1>1, <1>2 DEF Calls, Places, Signalling
    <2>2. Sound(e')
        BY <1>1, <1>2 DEF Sound, Pins, Known, Searching, Connected, Verified, Calls, Ending, Signalling
    <2> QED BY <1>1, <1>2, <2>1, <2>2, GoesOn
<1>3. CASE Unconfirmed
    BY <1>3, Over DEF Unconfirmed, Done
<1> QED BY <1>2, <1>3 DEF NotEnded

LEMMA ShutdownInv ==
    ASSUME Inv, UNCHANGED <<caller, fullRefuses>>, Shutdown
    PROVE  Inv'
<1> USE StopConstants
<1>1. e \in Calls /\ Sound(e)
    BY CallFields
<1>2. e.pc \in Ending /\ Under /\ caller # "scan"
    BY <1>1 DEF Sound, Known, Under, Ending, Shutdown, shutdown_acted, shutdown_closed, shutdown_fails,
                ended, end_wait_over
<1>3. ASSUME Same PROVE Alone
    BY <1>3, Faults DEF Same, Alone, world
<1>4. ASSUME e' = [e EXCEPT !.pc = "ending"] PROVE e' \in Calls /\ Sound(e')
    <2>1. e' \in Calls
        BY <1>1, <1>4 DEF Calls, Places, Ending
    <2>2. Sound(e')
        BY <1>1, <1>2, <1>4
           DEF Sound, Pins, Known, Searching, Connected, Verified, Calls, Ending, Signalling
    <2> QED BY <2>1, <2>2
<1>5. CASE shutdown_acted
    <2>1. e.conn.pid \in Pids /\ table[e.conn.pid] # Nobody
        BY <1>1, <1>2, <1>5 DEF shutdown_acted, HostAt, Runs, Calls, Sound, Known, HostProcess
    <2>2. SameProcesses
        BY <1>5, <2>1, SetMode DEF shutdown_acted, Inv, Modes, Listening
    <2> QED BY <1>2, <1>4, <1>5, <2>2, ActsInv DEF shutdown_acted
<1>6. CASE shutdown_closed
    <2>1. Alone
        BY <1>6, Faults DEF shutdown_closed, Alone, world
    <2> QED BY <1>2, <1>4, <1>6, <2>1, GoesOn DEF shutdown_closed
<1>7. CASE shutdown_fails
    BY <1>2, <1>3, <1>7, NotEndedInv DEF shutdown_fails
<1>8. CASE end_wait_over
    BY <1>2, <1>3, <1>8, NotEndedInv DEF end_wait_over
<1>9. CASE ended
    <2>1. CASE e.peer # Nobody /\ ~Runs(e.peer)
        <3>1. e.peer \in HostProcess /\ Pinned(e.peer) /\ IsHost(e.peer)
            BY <1>1, <1>2, <2>1 DEF Calls, Sound, Pins, Connected
        <3>2. ~Alive(1)
            BY <2>1, <3>1, HostIsGone
        <3> QED BY <1>3, <1>9, <3>2, Settles DEF ended
    <2>2. CASE e.peer = Nobody /\ file = Nobody
        <3>1. e.use = "first" /\ e.conn # Nobody
            BY <1>1, <1>2 DEF Sound, Known
        <3> QED BY <1>2, <1>3, <1>9, <2>2, <3>1, Settles DEF ended
    <2> QED BY <1>9, <2>1, <2>2 DEF ended
<1> QED BY <1>5, <1>6, <1>7, <1>8, <1>9 DEF Shutdown

LEMMA TerminateInv ==
    ASSUME Inv, UNCHANGED <<caller, fullRefuses>>, Terminate
    PROVE  Inv'
<1> USE StopConstants
<1>1. e \in Calls /\ Sound(e) /\ starts \in 1..MaxStarts
    BY CallFields DEF Inv, Typed
<1>2. e.pc \in Signalling /\ Under
    BY DEF Under, Signalling, Terminate, verify_running, verify_argv, verify_still, unreadable, send, cont,
           wait_gone, grace_over
<1>3. /\ e.peer \in HostProcess /\ e.peer # Nobody /\ Pinned(e.peer) /\ caller # "scan"
      /\ e.peer.pid \in Pids /\ e.peer.start \in 1..MaxStarts
    BY <1>1, <1>2 DEF Calls, Sound, Pins, Known, HostProcess
<1>4. ASSUME Same PROVE Alone
    BY <1>4, Faults DEF Same, Alone, world
<1>5. CASE verify_running
    <2>1. CASE e' = [e EXCEPT !.pc = "argv"] /\ UNCHANGED outcome
        <3>1. e' \in Calls
            BY <1>1, <2>1 DEF Calls, Places, Signalling
        <3>2. Sound(e')
            BY <1>1, <1>5, <2>1
               DEF verify_running, Sound, Pins, Known, Searching, Connected, Verified, Calls, Ending,
                   Signalling
        <3> QED BY <1>2, <1>4, <1>5, <2>1, <3>1, <3>2, GoesOn DEF verify_running
    <2>2. CASE ~Runs(e.peer) /\ AlreadyGone
        <3>1. e.sig = "KILL" => IsHost(e.peer)
            BY <1>1, <1>5 DEF verify_running, Sound, Verified
        <3> QED BY <1>2, <1>4, <1>5, <2>2, <3>1, AlreadyGoneInv DEF verify_running
    <2> QED BY <1>5, <2>1, <2>2 DEF verify_running
<1>6. CASE verify_argv
    <2>1. PICK a : /\ e' = [e EXCEPT !.pc = "still", !.argv = a]
                   /\ a = IF table[e.peer.pid] = Nobody THEN "unread" ELSE table[e.peer.pid].argv
        BY <1>6 DEF verify_argv
    <2>2. a \in {"exact", "alike", "other", "unread"}
        BY <1>3, <2>1 DEF Inv, Typed, Process
    <2>3. e' \in Calls
        <3>1. "still" \in Places
            BY DEF Places, Signalling
        <3>2. e' = [e EXCEPT !.pc = "still", !.argv = a]
            BY <2>1
        <3> QED BY <1>1, <2>2, <3>1, <3>2 DEF Calls
    <2>4. Sound(e')
        BY <1>1, <1>6, <2>1
           DEF verify_argv, Sound, Pins, Known, Searching, Connected, Verified, Runs, Calls, Ending,
               Signalling
    <2> QED BY <1>2, <1>4, <1>6, <2>3, <2>4, GoesOn DEF verify_argv, Quiet
<1>7. CASE verify_still
    <2>1. CASE ~Runs(e.peer) /\ AlreadyGone
        <3>1. e.sig = "KILL" => IsHost(e.peer)
            BY <1>1, <1>7 DEF verify_still, Sound, Verified
        <3> QED BY <1>2, <1>4, <1>7, <2>1, <3>1, AlreadyGoneInv DEF verify_still
    <2>2. CASE /\ Runs(e.peer) /\ e.argv = "exact" /\ UNCHANGED outcome
               /\ e' = [e EXCEPT !.pc = "send", !.checked = starts]
        <3>1. e' \in Calls
            <4>1. "send" \in Places /\ starts \in 0..MaxStarts
                BY <1>1 DEF Places, Signalling
            <4> QED BY <1>1, <2>2, <4>1 DEF Calls
        <3>2. table[e.peer.pid].argv = "exact" /\ table[e.peer.pid].start = e.peer.start
            BY <1>1, <1>7, <2>2 DEF verify_still, Sound, Verified, Runs
        <3>3. IsHost(e.peer)
            BY <1>3, <2>2, <3>2 DEF Inv, Kernel, Runs, IsHost
        <3>4. Verified(e')
            BY <1>1, <2>2, <3>2, <3>3 DEF Verified, Calls
        <3>5. Pins(e') /\ Known(e') /\ Searching(e') /\ Connected(e')
            BY <1>1, <1>3, <2>2 DEF Sound, Pins, Known, Searching, Connected, Calls, Ending, Signalling
        <3> QED BY <1>2, <1>4, <1>7, <2>2, <3>1, <3>4, <3>5, GoesOn DEF verify_still, Sound
    <2>3. CASE Unconfirmed
        BY <1>4, <1>7, <2>3, Over DEF verify_still, Unconfirmed, Done
    <2> QED BY <1>7, <2>1, <2>2, <2>3 DEF verify_still
<1>8. CASE unreadable
    <2>1. Alone
        BY <1>8, Faults DEF unreadable, Alone, world
    <2> QED BY <1>8, <2>1, Over DEF unreadable, Unconfirmed, Done
<1>9. CASE send
    <2>1. IsHost(e.peer)
        BY <1>1, <1>9 DEF send, Sound, Verified
    <2>2. CASE table[e.peer.pid] = Nobody
        <3>1. ~Runs(e.peer) /\ AlreadyGone
            BY <1>9, <2>2 DEF send, Runs
        <3>2. Alone
            BY <1>9, <2>2, Faults DEF send, kill, Alone
        <3> QED BY <1>2, <2>1, <3>1, <3>2, AlreadyGoneInv
    <2>3. CASE table[e.peer.pid] # Nobody
        <3>1. table' = [table EXCEPT ![e.peer.pid] = After(table[e.peer.pid], e.sig)] /\ e.sig \in {"TERM", "KILL"}
            BY <1>1, <1>9, <2>3 DEF send, kill, Calls
        <3>2. SameProcesses
            BY <1>3, <2>3, <3>1, Signalled
        <3>3. UNCHANGED stray
            BY <1>1, <1>9, <2>3 DEF send, kill, May, Sound, Verified, Inv, Typed
        <3>4. PICK dest \in {"cont", "wait"} : e' = [e EXCEPT !.pc = dest] /\ UNCHANGED outcome
            BY <1>9, <2>3 DEF send
        <3>5. e' \in Calls
            BY <1>1, <3>4 DEF Calls, Places, Signalling
        <3>6. Sound(e')
            BY <1>1, <1>9, <3>4
               DEF send, Sound, Pins, Known, Searching, Connected, Verified, Calls, Ending, Signalling
        <3> QED BY <1>2, <1>9, <3>2, <3>3, <3>4, <3>5, <3>6, ActsInv DEF send
    <2> QED BY <2>2, <2>3
<1>10. CASE cont
    <2>1. e' = [e EXCEPT !.pc = "wait"] /\ UNCHANGED outcome /\ e.pc = "cont"
        BY <1>10 DEF cont
    <2>2. e' \in Calls
        BY <1>1, <2>1 DEF Calls, Places, Signalling
    <2>3. Sound(e')
        BY <1>1, <2>1
           DEF Sound, Pins, Known, Searching, Connected, Verified, Calls, Ending, Signalling
    <2>4. CASE table[e.peer.pid] = Nobody
        <3>1. Alone
            BY <1>10, <2>4, Faults DEF cont, kill, Alone
        <3> QED BY <1>2, <2>1, <2>2, <2>3, <3>1, GoesOn
    <2>5. CASE table[e.peer.pid] # Nobody
        <3>1. table' = [table EXCEPT ![e.peer.pid] = After(table[e.peer.pid], "CONT")]
            BY <1>10, <2>5 DEF cont, kill
        <3>2. SameProcesses
            BY <1>3, <2>5, <3>1, Signalled
        <3>3. UNCHANGED stray
            BY <1>1, <1>10, <2>5 DEF cont, kill, May, Sound, Verified, Inv, Typed
        <3> QED BY <1>2, <1>10, <2>1, <2>2, <2>3, <3>2, <3>3, ActsInv DEF cont
    <2> QED BY <2>4, <2>5
<1>11. CASE wait_gone
    <2>1. IsHost(e.peer)
        BY <1>1, <1>11 DEF wait_gone, Sound, Verified
    <2>2. ~Alive(1)
        BY <1>3, <1>11, <2>1, HostIsGone DEF wait_gone
    <2> QED BY <1>4, <1>11, <2>2, Settles DEF wait_gone
<1>12. CASE grace_over
    <2>1. CASE e' = [e EXCEPT !.pc = "running", !.sig = "KILL"] /\ UNCHANGED outcome
        <3>1. e' \in Calls
            BY <1>1, <2>1 DEF Calls, Places, Signalling
        <3>2. Sound(e')
            BY <1>1, <1>12, <2>1
               DEF grace_over, Sound, Pins, Known, Searching, Connected, Verified, Calls, Ending, Signalling
        <3> QED BY <1>2, <1>4, <1>12, <2>1, <3>1, <3>2, GoesOn DEF grace_over
    <2>2. CASE Unconfirmed
        BY <1>4, <1>12, <2>2, Over DEF grace_over, Unconfirmed, Done
    <2> QED BY <1>12, <2>1, <2>2 DEF grace_over
<1> QED BY <1>5, <1>6, <1>7, <1>8, <1>9, <1>10, <1>11, <1>12 DEF Terminate

LEMMA RemoveInv ==
    ASSUME Inv, UNCHANGED <<caller, fullRefuses>>, Remove
    PROVE  Inv'
<1> USE StopConstants
<1>1. e \in Calls /\ Sound(e) /\ outcome \in Outcomes
    BY CallFields
<1>2. ASSUME Same PROVE Alone
    BY <1>2, Faults DEF Same, Alone, world
<1>3. CASE remove_left \/ unlink
    <2>1. /\ UNCHANGED <<table, full, starts, stray, faults, outcome>>
          /\ e' = [e EXCEPT !.pc = "done"] /\ file' \in {file, Nobody}
          /\ e.pc \in {"settled", "unlink"}
        BY <1>3 DEF remove_left, unlink
    <2>2. e' \in Calls
        BY <1>1, <2>1 DEF Calls, Places
    <2>3. Sound(e')
        BY <1>1, <2>1 DEF Sound, Pins, Known, Searching, Connected, Verified, Calls, Ending, Signalling
    <2>4. Truthful(e', outcome')
        BY <1>1, <2>1 DEF Truthful, Inv, Calls
    <2>5. Evolves
        BY <2>1, NothingNew
    <2>6. Typed' /\ ~stray'
        BY <2>1, <2>2 DEF Inv, Typed
    <2> QED BY <2>3, <2>4, <2>5, <2>6, Keeps
<1>4. CASE e' = [e EXCEPT !.pc = "done"] /\ UNCHANGED outcome /\ Alone
    BY <1>4, Over
<1>5. ASSUME NEW id \in {Nobody, file, e.id}, e.pc = "settled", caller # "stop", Quiet,
             file # Nobody \/ caller = "scan",
             e' = [Begin("remove") EXCEPT !.pc = "listed", !.id = id]
      PROVE  Inv'
    <2>1. /\ id \in 1..MaxStarts \cup {Nobody}
        BY <1>1, <1>5 DEF Inv, Typed, Calls
    <2>2. e' \in Calls
        <3>1. "listed" \in Places
            BY DEF Places, Removing
        <3> QED BY <1>1, <1>5, <2>1, <3>1 DEF Calls, Begin
    <2>3. Sound(e')
        BY <1>1, <1>5
           DEF Begin, Sound, Pins, Pinned, Known, Searching, Connected, Verified, Calls, Ending, Signalling
    <2>4. Truthful(e', outcome')
        BY <1>5 DEF Truthful, Inv, Quiet
    <2> QED BY <1>1, <1>2, <1>5, <2>2, <2>3, <2>4, CallInv DEF Quiet, Alone, world, Outcomes
<1>6. CASE ended_at
    BY <1>2, <1>4, <1>5, <1>6 DEF ended_at, Quiet
<1>7. CASE remove_settled
    <2>1. e' = [Begin("remove") EXCEPT !.pc = "listed", !.id = e.id]
        BY <1>1, <1>7 DEF remove_settled, Begin, Calls
    <2> QED BY <1>5, <1>7, <2>1 DEF remove_settled
<1>8. ASSUME NEW dest \in {"connect", "probe", "walk", "done"}, NEW id \in {e.id, file}, NEW r \in {"yes", e.refusing},
             e' = [e EXCEPT !.pc = dest, !.id = id, !.refusing = r], Quiet, Under,
             dest = "connect" => e.use # "remove"
      PROVE  Inv'
    <2>1. /\ id \in 1..MaxStarts \cup {Nobody} /\ r \in {"no", "yes", "window"} /\ dest \in Places
        BY <1>1, <1>8 DEF Inv, Typed, Calls, Places, Calling, Removing
    <2>2. e' \in Calls
        BY <1>1, <1>8, <2>1 DEF Calls
    <2>3. Sound(e')
        BY <1>1, <1>8 DEF Sound, Pins, Known, Searching, Connected, Verified, Calls, Ending, Signalling
    <2> QED BY <1>2, <1>8, <2>2, <2>3, GoesOn DEF Quiet
<1>same. /\ \A dest : [e EXCEPT !.pc = dest] = [e EXCEPT !.pc = dest, !.id = e.id, !.refusing = e.refusing]
         /\ [e EXCEPT !.refusing = "yes"] = [e EXCEPT !.pc = e.pc, !.id = e.id, !.refusing = "yes"]
    BY <1>1 DEF Calls
<1>9. CASE list
    <2>1. PICK dest \in {"connect", "done"} : e' = [e EXCEPT !.pc = dest, !.id = file, !.refusing = e.refusing]
        BY <1>1, <1>9 DEF list, Calls
    <2>2. e.use # "remove" /\ Under
        BY <1>1, <1>9 DEF list, Sound, Known, Under
    <2> QED BY <1>8, <1>9, <2>1, <2>2 DEF list
<1>10. CASE check_listed
    <2>1. PICK dest \in {"probe", "done"} : e' = [e EXCEPT !.pc = dest, !.id = e.id, !.refusing = e.refusing]
        BY <1>same, <1>10 DEF check_listed, listed_file
    <2> QED BY <1>8, <1>10, <2>1 DEF check_listed, Under
<1>11. CASE probe_refused
    <2>1. PICK dest \in {"probe", "walk"}, r \in {"yes", e.refusing} :
              e' = [e EXCEPT !.pc = dest, !.id = e.id, !.refusing = r]
        BY <1>same, <1>11 DEF probe_refused
    <2> QED BY <1>8, <1>11, <2>1 DEF probe_refused, Under
<1>12. CASE probe_settles
    <2>1. Alone
        BY <1>12, Faults DEF probe_settles, Alone, world
    <2> QED BY <1>4, <1>12, <2>1 DEF probe_settles
<1> QED BY <1>3, <1>6, <1>7, <1>9, <1>10, <1>11, <1>12 DEF Remove

LEMMA TimersInv ==
    ASSUME Inv, UNCHANGED <<caller, fullRefuses>>, deadline \/ window \/ budget_ends
    PROVE  Inv'
<1>1. e \in Calls /\ Sound(e)
    BY CallFields
<1>2. ASSUME Same PROVE Alone
    BY <1>2, Faults DEF Same, Alone, world
<1>3. CASE deadline
    <2>1. e' \in Calls /\ Sound(e')
        BY <1>1, <1>3 DEF deadline, Calls, Sound, Pins, Known, Searching, Connected, Verified
    <2> QED BY <1>2, <1>3, <2>1, GoesOn DEF deadline, Quiet, Under
<1>4. CASE window
    <2>1. e' \in Calls /\ Sound(e')
        BY <1>1, <1>4 DEF window, Calls, Sound, Pins, Known, Searching, Connected, Verified
    <2> QED BY <1>2, <1>4, <2>1, GoesOn DEF window, Quiet, Under
<1>5. CASE budget_ends
    <2>1. Alone
        BY <1>5, Faults DEF budget_ends, Alone, world
    <2> QED BY <1>5, <2>1, Over DEF budget_ends, Unconfirmed, Done
<1> QED BY <1>3, <1>4, <1>5

LEMMA NextInv ==
    ASSUME Inv, [StopNext]_<<stopVars, caller, fullRefuses>>
    PROVE  Inv'
<1>1. CASE StopNext
    BY <1>1, WorldInv, ConnectInv, ShutdownInv, TerminateInv, RemoveInv, TimersInv DEF StopNext, Steps
<1>2. CASE UNCHANGED <<stopVars, caller, fullRefuses>>
    <2>1. Typed' /\ ~stray'
        BY <1>2 DEF stopVars, Inv, Typed
    <2>2. Evolves
        BY <1>2, NothingNew DEF stopVars
    <2>3. Sound(e') /\ Truthful(e', outcome')
        BY <1>2 DEF stopVars, Inv
    <2> QED BY <2>1, <2>2, <2>3, Keeps
<1> QED BY <1>1, <1>2

THEOREM InvHolds == StopSpec => []Inv
<1>1. StopInit => Inv
    BY InitInv
<1>2. Inv /\ [StopNext]_<<stopVars, caller, fullRefuses>> => Inv'
    BY NextInv
<1> QED BY <1>1, <1>2, PTL DEF StopSpec

\* Whatever becomes of pids, sockets and names around it: what a call says is gone is
\* gone, and every signal it sends reaches the host or a process that took its pid in
\* the accepted window (end_host_at, terminate_verified, confirm_with_process).
THEOREM StoppedHostsAreGone == StopSpec => []Consistent
<1>1. Inv => Consistent
    BY InvFacts
<1> QED BY <1>1, InvHolds, PTL

-----------------------------------------------------------------------------
(* The socket file. *)

Served == file # Nobody /\ Alive(file)

\* Whoever bound the socket file is a host, and can be found by its command line.
FileSound ==
    file # Nobody => /\ file <= starts
                   /\ \A p \in Pids : table[p] # Nobody /\ table[p].start = file => table[p].argv # "other"

\* The search before a removal still has the file's host before it, whoever it is.
Sought(c) ==
    c.use = "remove" =>
        /\ c.pc = "match" /\ Served => \E p \in c.pids : table[p] # Nobody /\ table[p].start = file
        /\ c.pc = "pin" /\ Served => \E p \in c.pids \cup {c.cur} : table[p] # Nobody /\ table[p].start = file
        /\ c.pc = "unlink" => ~Served

\* A call that settled said that the host is gone; only a removal unlinks.
Said(c, say) ==
    /\ c.pc = "settled" => say \in {"stopped", "gone"}
    /\ c.pc = "unlink" => c.use = "remove"

FileInv == FileSound /\ Sought(e) /\ Said(e, outcome)

LEMMA WorldFile ==
    ASSUME Inv, FileInv, World, UNCHANGED <<caller, fullRefuses>>
    PROVE  FileInv'
<1> USE StopConstants
<1>1. /\ starts \in Nat /\ starts' \in Nat /\ starts <= starts' /\ 1 <= starts
      /\ \A p \in Pids : table[p] # Nobody => table[p].start \in Nat /\ table[p].start <= starts
      /\ file # Nobody => file \in Nat
      /\ e.pids \subseteq Pids /\ e.cur \in Pids \cup {Nobody} /\ (e.pc = "pin" => e.cur # Nobody)
    BY WorldEvolves DEF Inv, Typed, Kernel, Process, Evolves, Calls, Sound, Known
<1>2. Said(e, outcome)'
    BY WorldEvolves DEF FileInv, Said
<1>3. \A p \in Pids : table'[p] # Nobody => Kept(p) \/ Fresh(p)
    BY WorldEvolves DEF Evolves
<1>4. CASE file' \in {file, Nobody}
    <2>1. ASSUME NEW p \in Pids, file' # Nobody, table'[p] # Nobody, table'[p].start = file'
          PROVE  Kept(p)
        BY <1>1, <1>3, <1>4, <2>1 DEF Fresh, FileInv, FileSound
    <2>2. Served' => Served
        BY <1>4, <2>1 DEF Served, Alive, Kept
    <2>3. FileSound'
        BY <1>1, <1>4, <2>1 DEF FileInv, FileSound, Kept
    <2>4. ASSUME Served', NEW p \in Pids, table[p] # Nobody, table[p].start = file
          PROVE  table'[p] # Nobody /\ table'[p].start = file'
        <3>1. PICK q \in Pids : table'[q] # Nobody /\ table'[q].start = file' /\ file' # Nobody
            BY <2>4 DEF Served, Alive
        <3>2. Kept(q)
            BY <2>1, <3>1
        <3> QED BY <1>4, <2>4, <3>1, <3>2 DEF Kept, Inv, Kernel
    <2>5. Sought(e)'
        <3>1. SUFFICES ASSUME e.use = "remove" PROVE Sought(e)'
            BY WorldEvolves DEF Sought
        <3>2. CASE e.pc = "match" /\ Served'
            BY <1>1, <2>2, <2>4, <3>1, <3>2, WorldEvolves DEF FileInv, Sought
        <3>3. CASE e.pc = "pin" /\ Served'
            <4>1. e.pids \cup {e.cur} \subseteq Pids
                BY <1>1, <3>3
            <4> QED BY <2>2, <2>4, <3>1, <3>3, <4>1, WorldEvolves DEF FileInv, Sought
        <3>4. e.pc = "unlink" => ~Served'
            BY <2>2, <3>1 DEF FileInv, Sought
        <3> QED BY <3>2, <3>3, <3>4, WorldEvolves DEF Sought
    <2> QED BY <1>2, <2>3, <2>5 DEF FileInv
<1>5. ASSUME NEW p \in Pids, spawn_host(p) PROVE FileInv'
    <2>1. ~(e.use = "remove" /\ e.pc # "done") /\ file' = starts' /\ starts' = starts + 1
          /\ table' = [table EXCEPT ![p] = [start |-> starts', serves |-> TRUE, argv |-> "exact",
                                            mode |-> "starting"]]
        BY <1>5 DEF spawn_host
    <2>2. Sought(e)'
        BY <2>1, WorldEvolves DEF Sought
    <2>3. FileSound'
        BY <1>1, <2>1 DEF FileSound, Inv, Typed
    <2> QED BY <1>2, <2>2, <2>3 DEF FileInv
<1>6. \/ file' \in {file, Nobody}
      \/ \E p \in Pids : spawn_host(p)
    BY DEF World, host_listen, host_exit, die, freeze, thaw, wedge, fill, start_other, meddle
<1> QED BY <1>4, <1>5, <1>6

\* The steps of the call other than those of the search before a removal.
LEMMA CallFile ==
    ASSUME Inv, FileInv, UNCHANGED <<starts>>, file' \in {file, Nobody},
           SameProcesses, e'.pc \notin {"match", "pin", "unlink"}, Said(e', outcome')
    PROVE  FileInv'
<1>1. FileSound'
    BY StopConstants DEF FileInv, FileSound, SameProcesses
<1>2. Sought(e)' /\ Said(e, outcome)'
    BY DEF Sought, Said
<1> QED BY <1>1, <1>2 DEF FileInv

Search == walk \/ pin \/ walk_none \/ \E p \in Pids : match(p)
Elsewhere == e'.pc \notin {"match", "pin", "unlink"} /\ Said(e', outcome')

LEMMA FailsElsewhere ==
    ASSUME Inv, Under, NEW call \in Calls, NEW gone, NEW h, Fails(call, gone, h) \/ Unavailable(call, h)
    PROVE  Elsewhere
<1>1. e \in Calls
    BY CallFields
<1>2. e'.pc \in {"walk", "running", "done"}
    BY <1>1 DEF Fails, Unavailable, Done, Calls
<1> QED BY <1>2 DEF Elsewhere, Said

LEMMA RetryElsewhere ==
    ASSUME Inv, Under, NEW h, Retry(h) \/ CutShort(h)
    PROVE  Elsewhere
<1>1. e \in Calls
    BY CallFields
<1>2. CASE Retry(h)
    <2> DEFINE c == [e EXCEPT !.pc = "connect", !.refusing = "no", !.tried = TRUE, !.last = h, !.conn = Nobody]
    <2>1. c \in [pc : {"connect"}, use : {"first", "again", "remove"}, late : BOOLEAN,
                 refusing : {"no"}, tried : BOOLEAN, last : {h}, peer : HostProcess \cup {Nobody},
                 conn : {Nobody}, sig : {"TERM", "KILL"},
                 argv : {"exact", "alike", "other", "unread"}, gone : BOOLEAN,
                 pids : SUBSET Pids, cur : Pids \cup {Nobody}, id : 1..MaxStarts \cup {Nobody},
                 checked : 0..MaxStarts]
        BY <1>1 DEF Calls
    <2>2. Fails(c, FALSE, h) \/ e' = c
        BY <1>2 DEF Retry
    <2> HIDE DEF c
    <2>3. e'.pc \in {"walk", "running", "done", "connect"}
        BY <1>1, <2>1, <2>2 DEF Fails, Unavailable, Done, Calls
    <2> QED BY <2>3 DEF Elsewhere, Said
<1>3. CASE CutShort(h)
    BY <1>1, <1>3, FailsElsewhere DEF CutShort
<1> QED BY <1>2, <1>3

LEMMA ConnectElsewhere ==
    ASSUME Inv, Connect, ~Search
    PROVE  Elsewhere /\ UNCHANGED world
<1>1. e \in Calls
    BY CallFields
<1>2. Under
    BY DEF Under, Connect, connect_no_file, connect_refused, connect_again, connect_queued, peer_process,
           hello_welcome, hello_closed, hello_unusable, hello_timeout, walk, pin, walk_none, walk_fails, match
<1>3. UNCHANGED world
    BY DEF Connect, connect_no_file, connect_refused, connect_again, connect_queued, peer_process,
           hello_welcome, hello_closed, hello_unusable, hello_timeout, walk, pin, walk_none, walk_fails, match,
           Same, Quiet
<1>4. CASE connect_no_file \/ hello_unusable
    BY <1>1, <1>2, <1>3, <1>4, FailsElsewhere DEF connect_no_file, hello_unusable
<1>5. CASE connect_refused
    <2>1. CASE Fails(e, TRUE, Nobody)
        BY <1>1, <1>2, <1>3, <2>1, FailsElsewhere
    <2>2. CASE e' = [e EXCEPT !.refusing = "yes"]
        BY <1>1, <1>3, <1>5, <2>2 DEF connect_refused, Elsewhere, Said, Calls
    <2> QED BY <1>5, <2>1, <2>2 DEF connect_refused
<1>6. CASE connect_again \/ hello_closed \/ hello_timeout
    BY <1>2, <1>3, <1>6, RetryElsewhere DEF connect_again, hello_closed, hello_timeout
<1>7. CASE connect_queued \/ peer_process
    <2>1. e'.pc \in {"peer", "hello"}
        BY <1>1, <1>7 DEF connect_queued, peer_process, Calls
    <2> QED BY <1>3, <2>1 DEF Elsewhere, Said
<1>8. CASE hello_welcome
    <2>1. e'.pc \in {"shutdown", "done"}
        BY <1>1, <1>8 DEF hello_welcome, Done, Unconfirmed, Calls
    <2> QED BY <1>3, <2>1 DEF Elsewhere, Said
<1>9. CASE walk_fails
    <2>1. CASE e' = [e EXCEPT !.pc = "done"]
        BY <1>1, <1>3, <2>1 DEF Elsewhere, Said, Calls
    <2>2. CASE Unavailable(e, Nobody)
        BY <1>1, <1>2, <1>3, <2>2, FailsElsewhere
    <2> QED BY <1>9, <2>1, <2>2 DEF walk_fails
<1> QED BY <1>3, <1>4, <1>5, <1>6, <1>7, <1>8, <1>9 DEF Connect, Search

LEMMA ShutdownElsewhere ==
    ASSUME Inv, Shutdown
    PROVE  Elsewhere /\ UNCHANGED <<file, starts>> /\ SameProcesses
<1>1. e \in Calls /\ Sound(e)
    BY CallFields
<1>2. Elsewhere
    <2>1. CASE shutdown_acted \/ shutdown_closed \/ shutdown_fails \/ end_wait_over
        <3>1. e'.pc \in {"ending", "running", "done"}
            BY <1>1, <2>1 DEF shutdown_acted, shutdown_closed, shutdown_fails, end_wait_over, NotEnded,
                              Unconfirmed, Done, Calls
        <3> QED BY <3>1 DEF Elsewhere, Said
    <2>2. CASE ended
        BY <1>1, <2>2 DEF ended, Elsewhere, Said, Calls
    <2> QED BY <2>1, <2>2 DEF Shutdown
<1>3. UNCHANGED <<file, starts>>
    BY DEF Shutdown, shutdown_acted, shutdown_closed, shutdown_fails, ended, end_wait_over, Same, world
<1>4. CASE shutdown_acted
    <2>1. e.conn.pid \in Pids /\ table[e.conn.pid] # Nobody
        BY <1>1, <1>4 DEF shutdown_acted, HostAt, Runs, Calls, Sound, Known, Ending, HostProcess
    <2> QED BY <1>2, <1>3, <1>4, <2>1, SetMode DEF shutdown_acted, Inv, Modes, Listening
<1>5. CASE UNCHANGED table
    BY <1>2, <1>3, <1>5 DEF SameProcesses, Inv, Typed
<1>6. shutdown_acted \/ UNCHANGED table
    BY DEF Shutdown, shutdown_closed, shutdown_fails, ended, end_wait_over, Same, world
<1> QED BY <1>4, <1>5, <1>6

LEMMA TerminateElsewhere ==
    ASSUME Inv, Terminate
    PROVE  Elsewhere /\ UNCHANGED <<file, starts>> /\ SameProcesses
<1>1. e \in Calls /\ Sound(e)
    BY CallFields
<1>2. Elsewhere
    <2>1. ASSUME AlreadyGone PROVE Elsewhere
        BY <1>1, <2>1 DEF AlreadyGone, Begin, Elsewhere, Said, Calls
    <2>2. ASSUME Unconfirmed PROVE Elsewhere
        BY <1>1, <2>2 DEF Unconfirmed, Done, Elsewhere, Said, Calls
    <2>3. ASSUME e'.pc \in Signalling PROVE Elsewhere
        BY <2>3 DEF Signalling, Elsewhere, Said
    <2>4. CASE wait_gone
        BY <1>1, <2>4 DEF wait_gone, Elsewhere, Said, Calls
    <2>5. CASE verify_running \/ verify_argv \/ verify_still
        <3>1. AlreadyGone \/ Unconfirmed \/ e'.pc \in Signalling
            BY <1>1, <2>5 DEF verify_running, verify_argv, verify_still, Signalling, Calls
        <3> QED BY <2>1, <2>2, <2>3, <3>1
    <2>6. CASE unreadable \/ send \/ cont \/ grace_over
        <3>1. AlreadyGone \/ Unconfirmed \/ e'.pc \in Signalling
            BY <1>1, <2>6 DEF unreadable, send, cont, grace_over, Signalling, Calls
        <3> QED BY <2>1, <2>2, <2>3, <3>1
    <2> QED BY <2>4, <2>5, <2>6 DEF Terminate
<1>3. UNCHANGED <<file, starts>>
    BY DEF Terminate, verify_running, verify_argv, verify_still, unreadable, send, cont, wait_gone,
           grace_over, Same, Quiet, world
<1>4. CASE UNCHANGED table
    BY <1>2, <1>3, <1>4 DEF SameProcesses, Inv, Typed
<1>5. CASE send \/ cont
    <2>1. e.peer \in HostProcess /\ e.peer.pid \in Pids /\ e.sig \in {"TERM", "KILL"}
        BY <1>1, <1>5 DEF send, cont, Calls, Sound, Known, Signalling, HostProcess
    <2>2. CASE table[e.peer.pid] # Nobody
        <3>1. PICK sig \in {"TERM", "KILL", "CONT"} :
                  table' = [table EXCEPT ![e.peer.pid] = After(table[e.peer.pid], sig)]
            BY <1>5, <2>1, <2>2 DEF send, cont, kill
        <3> QED BY <1>2, <1>3, <2>1, <2>2, <3>1, Signalled
    <2>3. CASE table[e.peer.pid] = Nobody
        BY <1>4, <1>5, <2>3 DEF send, cont, kill
    <2> QED BY <2>2, <2>3
<1>6. send \/ cont \/ UNCHANGED table
    BY DEF Terminate, verify_running, verify_argv, verify_still, unreadable, wait_gone, grace_over, Same,
           Quiet, world
<1> QED BY <1>4, <1>5, <1>6

LEMMA RemoveElsewhere ==
    ASSUME Inv, Remove \/ deadline \/ window \/ budget_ends
    PROVE  Elsewhere /\ UNCHANGED <<table, starts>> /\ file' \in {file, Nobody}
<1>1. e \in Calls
    BY CallFields
<1>2. e'.pc \in {"connect", "done", "listed", "probe", "walk", "peer", "hello"}
    <2>1. CASE list \/ remove_left \/ unlink \/ probe_settles \/ probe_refused
        BY <1>1, <2>1 DEF list, remove_left, unlink, probe_settles, probe_refused, Calls
    <2>2. CASE ended_at \/ remove_settled
        BY <1>1, <2>2 DEF ended_at, remove_settled, Begin, Calls
    <2>3. CASE check_listed \/ deadline \/ window \/ budget_ends
        BY <1>1, <2>3 DEF check_listed, listed_file, deadline, window, budget_ends, Unconfirmed, Done, Calls
    <2> QED BY <2>1, <2>2, <2>3 DEF Remove
<1>3. UNCHANGED <<table, starts>> /\ file' \in {file, Nobody}
    BY DEF Remove, list, remove_left, ended_at, remove_settled, check_listed, probe_refused, probe_settles,
           unlink, deadline, window, budget_ends, Quiet, Same, world
<1> QED BY <1>2, <1>3 DEF Elsewhere, Said

\* A search that comes to a removal has looked at every process that was there.
LEMMA SearchFile ==
    ASSUME Inv, FileInv, Search
    PROVE  FileInv'
<1> USE StopConstants
<1>1. e \in Calls /\ Sound(e) /\ Under
    BY CallFields DEF Under, Search, walk, match, pin, walk_none
<1>2. UNCHANGED <<table, file, starts>>
    BY DEF Search, walk, match, pin, walk_none, Quiet, Same, world
<1>3. FileSound' /\ (Served' <=> Served)
    BY <1>2 DEF FileInv, FileSound, Served, Alive
<1>4. CASE walk
    <2>1. e' = [e EXCEPT !.pc = "match", !.pids = {p \in Pids : table[p] # Nobody}]
        BY <1>4 DEF walk
    <2>2. e'.pc = "match" /\ e'.pids = {p \in Pids : table[p] # Nobody} /\ e'.use = e.use
        BY <1>1, <2>1 DEF Calls
    <2> QED BY <1>2, <1>3, <2>2 DEF FileInv, Sought, Said, Served, Alive
<1>5. ASSUME NEW p \in Pids, match(p) PROVE FileInv'
    <2>1. e.use = "remove" /\ Served => \E q \in e.pids : table[q] # Nobody /\ table[q].start = file
        BY <1>5 DEF match, FileInv, Sought
    <2>2. CASE e' = [e EXCEPT !.pc = "pin", !.cur = p, !.pids = e.pids \ {p}]
        <3>1. e'.pc = "pin" /\ e'.cur = p /\ e'.pids = e.pids \ {p} /\ e'.use = e.use
            BY <1>1, <2>2 DEF Calls
        <3> QED BY <1>2, <1>3, <2>1, <3>1 DEF FileInv, Sought, Said
    <2>3. CASE e' = [e EXCEPT !.pids = e.pids \ {p}] /\ (table[p] = Nobody \/ table[p].argv = "other")
        <3>1. e'.pc = "match" /\ e'.pids = e.pids \ {p} /\ e'.use = e.use
            BY <1>1, <1>5, <2>3 DEF match, Calls
        <3>2. Served => ~(table[p] # Nobody /\ table[p].start = file)
            BY <2>3 DEF FileInv, FileSound, Served
        <3> QED BY <1>2, <1>3, <2>1, <3>1, <3>2 DEF FileInv, Sought, Said
    <2> QED BY <1>5, <2>2, <2>3 DEF match
<1>6. CASE pin
    <2>1. CASE table[e.cur] = Nobody /\ e' = [e EXCEPT !.pc = "match"]
        <3>1. e'.pc = "match" /\ e'.pids = e.pids /\ e'.use = e.use
            BY <1>1, <2>1 DEF Calls
        <3>2. e.use = "remove" /\ Served => \E q \in e.pids \cup {e.cur} : table[q] # Nobody /\ table[q].start = file
            BY <1>6 DEF pin, FileInv, Sought
        <3> QED BY <1>2, <1>3, <2>1, <3>1, <3>2 DEF FileInv, Sought, Said
    <2>2. CASE Elsewhere
        BY <1>3, <2>2 DEF Elsewhere, FileInv, Sought, Said
    <2>3. CASE e' = [e EXCEPT !.pc = "done"]
        BY <1>1, <2>2, <2>3 DEF Elsewhere, Said, Calls
    <2>4. CASE \E h : Unavailable(e, h)
        BY <1>1, <2>2, <2>4, FailsElsewhere
    <2> QED BY <1>6, <2>1, <2>3, <2>4 DEF pin
<1>7. CASE walk_none
    <2>1. CASE e.use = "remove"
        <3>1. e'.pc = "unlink" /\ e'.use = "remove"
            BY <1>1, <1>7, <2>1 DEF walk_none, Calls
        <3>2. ~Served
            BY <1>7, <2>1 DEF walk_none, FileInv, Sought
        <3> QED BY <1>3, <3>1, <3>2 DEF FileInv, Sought, Said
    <2>2. CASE e.use # "remove"
        <3>1. CASE Unavailable(e, Nobody)
            <4>1. Elsewhere
                BY <1>1, <3>1, FailsElsewhere
            <4> QED BY <1>3, <4>1 DEF Elsewhere, FileInv, Sought, Said
        <3>2. CASE outcome' \in {"gone", "stopped"} /\ e' = [e EXCEPT !.pc = "settled"]
            <4>1. Elsewhere
                BY <1>1, <3>2 DEF Elsewhere, Said, Calls
            <4> QED BY <1>3, <4>1 DEF Elsewhere, FileInv, Sought, Said
        <3>3. CASE ~e.gone
            BY <1>7, <2>2, <3>1, <3>3 DEF walk_none
        <3>4. CASE e.gone
            BY <1>7, <2>2, <3>2, <3>4 DEF walk_none
        <3> QED BY <3>3, <3>4
    <2> QED BY <2>1, <2>2
<1> QED BY <1>4, <1>5, <1>6, <1>7 DEF Search

LEMMA InitFile == StopInit => FileInv
<1> SUFFICES ASSUME StopInit PROVE FileInv
    OBVIOUS
<1> USE StopConstants
<1>1. Sought(e) /\ Said(e, outcome)
    BY DEF StopInit, Call, Sought, Said
<1>2. Inv
    BY InitInv
<1>3. FileSound
    BY <1>2 DEF StopInit, FileSound, Inv, Typed, Kernel
<1> QED BY <1>1, <1>3 DEF FileInv

LEMMA NextFile ==
    ASSUME Inv, FileInv, [StopNext]_<<stopVars, caller, fullRefuses>>
    PROVE  FileInv'
<1>1. ASSUME UNCHANGED table PROVE SameProcesses
    BY <1>1 DEF SameProcesses, Inv, Typed
<1>2. CASE UNCHANGED <<stopVars, caller, fullRefuses>>
    BY <1>2 DEF stopVars, FileInv, FileSound, Sought, Said, Served, Alive
<1>3. CASE StopNext
    <2>1. CASE World
        BY <1>3, <2>1, WorldFile DEF StopNext
    <2>2. CASE Search
        BY <2>2, SearchFile
    <2>3. CASE Connect /\ ~Search
        BY <1>1, <2>3, ConnectElsewhere, CallFile DEF Elsewhere, world
    <2>4. CASE Shutdown \/ Terminate
        BY <2>4, ShutdownElsewhere, TerminateElsewhere, CallFile DEF Elsewhere
    <2>5. CASE Remove \/ deadline \/ window \/ budget_ends
        BY <1>1, <2>5, RemoveElsewhere, CallFile DEF Elsewhere
    <2> QED BY <1>3, <2>1, <2>2, <2>3, <2>4, <2>5 DEF StopNext, Steps
<1> QED BY <1>2, <1>3

\* No socket file is removed while the host that bound it lives: not one that is
\* stopped, that has not come to listen yet, or a new one at an old path (remove_socket,
\* remove_left_socket, GoneHost::ended_at).
THEOREM ServedSocketsStay == StopSpec => ServedSocketKept
<1> DEFINE Removal == (remove_left \/ unlink) /\ file # Nobody /\ file' = Nobody => ~Alive(file)
<1>1. StopInit => Inv /\ FileInv
    BY InitInv, InitFile
<1>2. Inv /\ FileInv /\ [StopNext]_<<stopVars, caller, fullRefuses>> => (Inv /\ FileInv)'
    BY NextInv, NextFile
<1>3. Inv /\ FileInv /\ [StopNext]_<<stopVars, caller, fullRefuses>> => [Removal]_stopVars
    <2> SUFFICES ASSUME Inv, FileInv PROVE Removal
        OBVIOUS
    <2>1. CASE remove_left
        <3>1. outcome \in {"stopped", "gone"} /\ (file # Nobody => file = 1)
            BY <2>1 DEF remove_left, FileInv, Said, Inv, Kernel
        <3> QED BY <3>1 DEF Inv, Truthful
    <2>2. CASE unlink
        BY <2>2 DEF unlink, FileInv, Said, Sought, Served
    <2> QED BY <2>1, <2>2
<1> QED BY <1>1, <1>2, <1>3, PTL DEF StopSpec, ServedSocketKept

-----------------------------------------------------------------------------
(***************************************************************************)
(* What the version locks promise, for any number of versions, commands,   *)
(* servers, windows and uninstalls.  Every program that moves or replaces  *)
(* a version's file holds the exclusive lock of that very file, and every  *)
(* program that runs a version holds a shared one of the file at its path: *)
(* the two exclude each other, whatever step each is at.                   *)
(***************************************************************************)

(* No file is at two paths. *)
OneName == \A v, x \in Versions : v # x /\ at[v] # Nothing => at[v] # at[x]
(* flock: an exclusive lock is the file's only one. *)
LocksExclude ==
    /\ \A d \in Desc : lock[d] # "none" => fd[d] # Nothing
    /\ \A d, other \in Desc : d # other /\ fd[d] = fd[other] /\ lock[d] = "exclusive" => lock[other] = "none"
(* The installer and an uninstall are where the installation lock says. *)
BusyAgrees ==
    /\ inst.at # "idle" <=> busy = "installer"
    /\ inst.at # "idle" => inst.v \in Versions
    /\ \A p \in Proc : pc[p] \in {"locking", "removing"} <=> busy = p
(* A window is at a step of its program; the others have no such steps. *)
Placed ==
    /\ \A p \in Proc \ Windows : pc[p] \notin {"shell", "launching"}
    /\ \A p \in Proc \ Uninstallers : pc[p] \notin {"locking", "removing"}
    /\ \A p \in Proc \ Commands : pc[p] \notin {"choose", "test", "test_running"}
    /\ \A p \in Proc : pc[p] \notin {"idle", "choose"} \cup Ended => version[p] \in Versions
    /\ \A w \in Windows :
         /\ stage[w] = "hold" => pc[w] # "launching"
         /\ stage[w] = "shim" => pc[w] \notin {"idle", "shell"}
         /\ marked[w] => stage[w] = "shim" /\ pc[w] \in {"launching"} \cup Ended
         /\ keeper[w] => /\ version[w] \in Versions /\ pc[w] # "idle"
                         /\ stage[w] = "hold" => pc[w] \in {"shell"} \cup Ended
(* Whoever runs a version, or keeps one for a window, has the shared lock of   *)
(* the file that is there now.                                                 *)
Running == {"running", "launching"}
HeldBy(p) ==
    /\ pc[p] \in {"idle", "choose", "test", "test_running", "open", "lock"} => lock[Fd(p)] = "none"
    /\ pc[p] = "lock" => fd[Fd(p)] # Nothing
    /\ pc[p] \in {"check", "running", "launching"} => lock[Fd(p)] = "shared"
    /\ pc[p] \in Running => fd[Fd(p)] = at[version[p]]
KeptFor(w) ==
    /\ stage[w] = "hold" => lock[Shim(w)] = "none"
    /\ keeper[w] => lock[Own(w)] = "shared" /\ fd[Own(w)] = at[version[w]]
SharedHeld == (\A p \in Proc : HeldBy(p)) /\ (\A w \in Windows : KeptFor(w))
(* Whoever is about to move a version's file has its exclusive lock. *)
Removes(u, v) == IF v = version[u] THEN Own(u) ELSE Remover(v)
Excluded(d, v) == fd[d] = at[v] /\ lock[d] = "exclusive"
InstallerExcludes ==
    /\ inst.at \in {"stage", "rename"} => at[inst.v] = Nothing \/ Excluded(Remover(inst.v), inst.v)
    /\ inst.at \in {"prune", "rename"} => inst.look \subseteq ThereNow
    /\ inst.at = "rename" => inst.v \notin inst.look
UninstallExcludes(u) ==
    /\ pc[u] \in {"locking", "removing"} => plan \subseteq ThereNow
    /\ pc[u] = "locking" => \A v \in ThereNow \ plan : Excluded(Removes(u, v), v)
    /\ pc[u] = "removing" => plan = ThereNow /\ \A v \in plan : Excluded(Removes(u, v), v)
ExclusiveHeld == InstallerExcludes /\ \A u \in Uninstallers : UninstallExcludes(u)
(* What the installer keeps, and that it changes no whole file but to prune it. *)
InstallerKeeps ==
    /\ inst.at = "stage" => ~ Intact(inst.v)
    /\ inst.at \in {"discard", "record"} => Intact(inst.v)
    /\ inst.at # "idle" => {installed} \ {Nothing} \subseteq inst.keep
    /\ inst.at \in {"place", "stage", "discard", "record", "list"} => inst.v \in inst.keep
    /\ inst.at \in {"prune", "rename"} => inst.look \cap inst.keep = {}
    /\ inst.at = "rename" => inst.v \notin inst.keep
InstalledKept == InstalledIsThere /\ InstallerKeeps
(* The keeper stays until the shim has its own lock. *)
KeeperOf(w) ==
    \/ keeperKilled[w]
    \/ /\ pc[w] = "shell" => keeper[w]
       /\ stage[w] = "shim" /\ pc[w] \in {"open", "lock", "check", "running"} => keeper[w]
       /\ stage[w] = "shim" /\ pc[w] \in {"lock", "check"} => fd[Shim(w)] = at[version[w]]
       /\ stage[w] = "shim" => pc[w] # "refused"
KeeperStays == \A w \in Windows : KeeperOf(w)

LockInv == LockTypeOK /\ OneName /\ LocksExclude /\ BusyAgrees /\ Placed /\ SharedHeld /\ ExclusiveHeld
FilesInv == LockInv /\ InstalledKept /\ KeeperStays

-----------------------------------------------------------------------------
(* Open files of different processes, windows and versions are different. *)
LEMMA Descriptors ==
    /\ Commands \subseteq Proc /\ Servers \subseteq Proc
    /\ Windows \subseteq Proc /\ Uninstallers \subseteq Proc
    /\ \A p \in Proc : Own(p) \in Desc /\ Fd(p) \in Desc
    /\ \A w \in Windows : Shim(w) \in Desc
    /\ \A v \in Versions : Remover(v) \in Desc
    /\ \A p, q \in Proc : p # q => Own(p) # Own(q) /\ Fd(p) # Fd(q) /\ Fd(p) # Own(q)
    /\ \A p \in Proc, w \in Windows : Own(p) # Shim(w) /\ (p # w => Fd(p) # Shim(w))
    /\ \A p \in Proc, v \in Versions : Fd(p) # Remover(v) /\ Own(p) # Remover(v)
    /\ \A w \in Windows, v \in Versions : Shim(w) # Remover(v)
    /\ \A v, x \in Versions : v # x => Remover(v) # Remover(x)
    /\ \A p \in Proc \ Windows : Fd(p) = Own(p)
    /\ \A w \in Windows : Fd(w) = IF stage[w] = "shim" THEN Shim(w) ELSE Own(w)
  BY DEF Desc, Proc, Own, Shim, Remover, Fd

(* The steps that close open files leave functions on the descriptors. *)
LEMMA CloseTyped ==
  ASSUME LockTypeOK, NEW S, Close(S)
  PROVE  /\ fd' \in [Desc -> (1 .. files) \cup {Nothing}]
         /\ lock' \in [Desc -> {"none", "shared", "exclusive"}]
         /\ \A d \in Desc : fd'[d] = (IF d \in S THEN Nothing ELSE fd[d])
                        /\ lock'[d] = (IF d \in S THEN "none" ELSE lock[d])
  BY DEF LockTypeOK, FilesTyped, LocksTyped, Close

(* A new file has the next number, and the records name versions. *)
LEMMA FilesTypedNext == LockTypeOK /\ BusyAgrees /\ Placed /\ [LockNext]_all_vars => FilesTyped'
  <1> SUFFICES ASSUME LockTypeOK, BusyAgrees, Placed, [LockNext]_all_vars PROVE FilesTyped'
    OBVIOUS
  <1> USE VersionConstants DEF LockTypeOK, FilesTyped
  <1>1. CASE UNCHANGED files_vars
    BY <1>1 DEF files_vars
  <1>2. CASE \E s \in Servers : publish_running_record(s)
    BY <1>2 DEF publish_running_record, Placed, Proc, Ended, lock_vars
  <1>3. CASE swap
    <2>1. files + 1 \in Nat /\ 1 .. files \subseteq 1 .. (files + 1) /\ files + 1 \in 1 .. (files + 1)
      OBVIOUS
    <2>2. at \in [Versions -> (1 .. (files + 1)) \cup {Nothing}]
      BY <2>1
    <2>3. QED
      BY <1>3, <2>1, <2>2 DEF swap
  <1>4. CASE empty_name \/ prune_rename
    BY <1>4 DEF empty_name, prune_rename
  <1>5. CASE record_installed
    BY <1>5 DEF record_installed, BusyAgrees
  <1>6. CASE \E u \in Uninstallers : remove_records(u) \/ remove_version(u) \/ remove_rest(u)
    BY <1>6 DEF remove_records, remove_version, remove_rest
  <1>7. QED
    BY <1>1, <1>2, <1>3, <1>4, <1>5, <1>6
       DEF LockNext, all_vars, ProcStep, hold_for_process, hold_open, lock_shared, lock_busy, lock_check, ends,
           CommandStep, command, choose, test, ServerStep, serve_start, WindowStep, window_start,
           run_hold, shell_execs_shim, mark_launched, run_keeper, keeper_killed, InstallerStep,
           install, prune_lock, compare, install_ends, discard, prune, installer_ends, installer_killed,
           UninstallStep, uninstall_start, lock_and_recheck, hold_versions

(* What a step can do to an open file. *)
LockChange ==
    \/ UNCHANGED lock_vars
    \/ \E S : Close(S)
    \/ \E p \in Proc :
          /\ pc[p] = "open" /\ version[p] \in Versions /\ at[version[p]] # Nothing
          /\ fd' = [fd EXCEPT ![Fd(p)] = at[version[p]]] /\ lock' = lock
    \/ \E p \in Proc :
          /\ pc[p] = "lock" /\ CanShare(Fd(p), fd[Fd(p)])
          /\ fd' = fd /\ lock' = [lock EXCEPT ![Fd(p)] = "shared"]
    \/ \E d \in Desc, v \in Versions :
          /\ at[v] # Nothing /\ CanExclude(d, at[v])
          /\ fd' = [fd EXCEPT ![d] = at[v]] /\ lock' = [lock EXCEPT ![d] = "exclusive"]

(* Open files change in these ways only. *)
LEMMA LockChanges == LockInv /\ [LockNext]_all_vars => LockChange
  <1> SUFFICES ASSUME LockInv, [LockNext]_all_vars PROVE LockChange
    OBVIOUS
  <1> USE VersionConstants, Descriptors DEF LockChange
  <1>1. ASSUME NEW p \in Proc, ProcStep(p) PROVE LockChange
    <2>1. CASE hold_open(p)
      <3>1. version[p] \in Versions
        BY <2>1 DEF hold_open, LockInv, Placed, Ended
      <3>2. QED
        BY <2>1, <3>1 DEF hold_open, TurnedAway
    <2>2. CASE lock_shared(p)
      BY <2>2 DEF lock_shared
    <2>3. CASE lock_busy(p) \/ lock_check(p) \/ ends(p)
      BY <2>3 DEF lock_busy, lock_check, TurnedAway, ends
    <2>4. QED
      BY <1>1, <2>1, <2>2, <2>3 DEF ProcStep, hold_for_process
  <1>2. ASSUME NEW c \in Commands, CommandStep(c) PROVE LockChange
    BY <1>2 DEF CommandStep, command, choose, test
  <1>3. ASSUME NEW s \in Servers, ServerStep(s) PROVE LockChange
    BY <1>3 DEF ServerStep, serve_start, publish_running_record
  <1>4. ASSUME NEW w \in Windows, WindowStep(w) PROVE LockChange
    BY <1>4 DEF WindowStep, window_start, run_hold, shell_execs_shim, mark_launched, run_keeper,
                keeper_killed
  <1>5. ASSUME NEW u \in Uninstallers, UninstallStep(u) PROVE LockChange
    <2>1. CASE hold_versions(u)
      <3>1. plan \subseteq ThereNow /\ u \in Proc
        BY <2>1 DEF LockInv, ExclusiveHeld, InstallerExcludes, UninstallExcludes, hold_versions, Proc
      <3>2. QED
        BY <2>1, <3>1 DEF hold_versions, uninstall_refuses, ThereNow
    <2>2. CASE ~ hold_versions(u)
      BY <1>5, <2>2 DEF UninstallStep, uninstall_start, lock_and_recheck, uninstall_refuses,
                        remove_records, remove_version, remove_rest
    <2>3. QED
      BY <2>1, <2>2
  <1>6. ASSUME InstallerStep PROVE LockChange
    <2>1. CASE compare
      <3>1. inst.v \in Versions
        BY <2>1 DEF compare, LockInv, BusyAgrees
      <3>2. Nothing \notin damaged
        <4>1. damaged \subseteq 1 .. files /\ 1 .. files \subseteq Nat
          BY DEF LockInv, LockTypeOK, FilesTyped
        <4>2. QED
          BY <4>1
      <3>3. QED
        BY <2>1, <3>1, <3>2 DEF compare, install_ends
    <2>2. ASSUME NEW v \in Versions, prune_lock(v) PROVE LockChange
      <3>1. at[v] # Nothing
        BY <2>2 DEF prune_lock, LockInv, ExclusiveHeld, InstallerExcludes, UninstallExcludes, ThereNow
      <3>2. QED
        BY <2>2, <3>1 DEF prune_lock
    <2>3. CASE ~ compare /\ ~ \E v \in Versions : prune_lock(v)
      BY <1>6, <2>3 DEF InstallerStep, install, swap, empty_name, discard, record_installed, prune,
                        prune_rename, installer_ends, installer_killed, install_ends
    <2>4. QED
      BY <2>1, <2>2, <2>3
  <1>7. QED
    BY <1>1, <1>2, <1>3, <1>4, <1>5, <1>6 DEF LockNext, all_vars, lock_vars

(* What a step can do to a version's file: put a new one there, or take it away. *)
AtChange ==
    \/ at' = at
    \/ swap
    \/ empty_name \/ prune_rename \/ \E u \in Uninstallers : remove_version(u)

(* A path's file changes in these ways only, and files are numbered by swap. *)
LEMMA AtChanges == [LockNext]_all_vars => AtChange /\ damaged' = damaged /\ (files' = files \/ swap)
  BY DEF AtChange, LockNext, all_vars, files_vars, ProcStep, hold_for_process, hold_open, lock_shared,
         lock_busy, lock_check, ends, CommandStep, command, choose, test, ServerStep, serve_start,
         publish_running_record, WindowStep, window_start, run_hold, shell_execs_shim,
         mark_launched, run_keeper, keeper_killed, InstallerStep, install, prune_lock, compare,
         install_ends, swap, empty_name, discard, record_installed, prune, prune_rename,
         installer_ends, installer_killed, UninstallStep, uninstall_start, lock_and_recheck,
         hold_versions, remove_records, remove_version, remove_rest

(* What is opened is a file that was made. *)
LEMMA LocksTypedNext == LockInv /\ FilesTyped' /\ [LockNext]_all_vars => LocksTyped'
  <1> SUFFICES ASSUME LockInv, FilesTyped', [LockNext]_all_vars PROVE LocksTyped'
    OBVIOUS
  <1> USE Descriptors DEF LocksTyped
  <1>1. /\ LocksTyped
        /\ \A v \in Versions : at[v] \in (1 .. files) \cup {Nothing}
    BY DEF LockInv, LockTypeOK, FilesTyped
  <1>2. 1 .. files \subseteq 1 .. files'
    <2>1. files \in Nat /\ (files' = files \/ files' = files + 1)
      BY AtChanges DEF LockInv, LockTypeOK, FilesTyped, swap
    <2>2. QED
      BY <2>1
  <1>3. QED
    BY <1>1, <1>2, LockChanges DEF LockChange, lock_vars, Close

(* A forwarder chooses at most three times, and a version it reads is one. *)
LEMMA ProcsTypedNext == LockTypeOK /\ Placed /\ [LockNext]_all_vars => ProcsTyped'
  <1> SUFFICES ASSUME LockTypeOK, Placed, [LockNext]_all_vars PROVE ProcsTyped'
    OBVIOUS
  <1> USE VersionConstants DEF LockTypeOK, ProcsTyped, FilesTyped, Where, Ended, Goto
  <1>0. /\ Commands \subseteq Proc /\ Servers \subseteq Proc
        /\ Windows \subseteq Proc /\ Uninstallers \subseteq Proc
    BY DEF Proc
  <1>1. ASSUME NEW p \in Proc, ProcStep(p) PROVE ProcsTyped'
    BY <1>1 DEF ProcStep, hold_for_process, hold_open, lock_shared, lock_busy, lock_check, TurnedAway,
                ends, command_vars
  <1>2. ASSUME NEW c \in Commands, CommandStep(c) PROVE ProcsTyped'
    <2>1. (busy = Nothing) \in BOOLEAN
      OBVIOUS
    <2>2. CASE command(c)
      <3>1. calm' \in [Commands -> BOOLEAN]
        BY <2>1, <2>2 DEF command
      <3>2. QED
        BY <1>0, <2>2, <3>1 DEF command
    <2>3. CASE choose(c)
      <3>1. \/ UNCHANGED <<version, tries>> /\ pc' = [pc EXCEPT ![c] = "gave_up"]
            \/ /\ tries[c] # 3
               /\ tries' = [tries EXCEPT ![c] = @ + 1]
               /\ \/ version' = [version EXCEPT ![c] = record]
                  \/ version' = [version EXCEPT ![c] = installed]
               /\ \/ pc' = [pc EXCEPT ![c] = "test_running"]
                  \/ pc' = [pc EXCEPT ![c] = "test"]
        BY <2>3, Zenon DEF choose
      <3>2. UNCHANGED <<useRunning, calm>>
        BY <2>3 DEF choose
      <3>3. pc' \in [Proc -> Where]
        BY <1>0, <3>1
      <3>4. version' \in [Proc -> Versions \cup {Nothing}]
        <4>1. \E v \in Versions \cup {Nothing} : version' \in {version, [version EXCEPT ![c] = v]}
          BY <3>1
        <4>2. QED
          BY <1>0, <4>1
      <3>5. tries' \in [Commands -> 0 .. 3]
        <4>1. \/ tries' = tries
              \/ tries[c] # 3 /\ tries' = [tries EXCEPT ![c] = tries[c] + 1]
          BY <3>1
        <4>2. tries[c] # 3 => tries[c] + 1 \in 0 .. 3
          <5>1. tries[c] \in 0 .. 3
            OBVIOUS
          <5> HIDE DEF LockTypeOK, ProcsTyped, FilesTyped
          <5>2. QED
            BY <5>1
        <4>3. QED
          BY <4>1, <4>2
      <3>6. QED
        BY <3>2, <3>3, <3>4, <3>5
    <2>4. CASE test(c)
      <3>1. useRunning' \in [Commands -> BOOLEAN]
        BY <2>4 DEF test
      <3>2. \E where \in Where : pc' = [pc EXCEPT ![c] = where]
        BY <2>4, Zenon DEF test
      <3>3. pc' \in [Proc -> Where]
        BY <1>0, <3>2
      <3>4. QED
        BY <2>4, <3>1, <3>3 DEF test
    <2>5. QED
      BY <1>2, <2>2, <2>3, <2>4 DEF CommandStep
  <1>3. ASSUME NEW s \in Servers, ServerStep(s) PROVE ProcsTyped'
    BY <1>0, <1>3 DEF ServerStep, serve_start, publish_running_record, command_vars
  <1>4. ASSUME NEW w \in Windows, WindowStep(w) PROVE ProcsTyped'
    <2>1. ASSUME NEW s \in Servers, window_start(w, s) PROVE ProcsTyped'
      BY <1>0, <2>1 DEF window_start, command_vars
    <2>2. CASE run_hold(w)
      BY <1>0, <2>2 DEF run_hold, command_vars
    <2>3. CASE shell_execs_shim(w) \/ mark_launched(w)
      BY <1>0, <2>3 DEF shell_execs_shim, mark_launched, command_vars
    <2>4. CASE run_keeper(w) \/ keeper_killed(w)
      BY <2>4 DEF run_keeper, keeper_killed, command_vars
    <2>5. QED
      BY <1>4, <2>1, <2>2, <2>3, <2>4 DEF WindowStep
  <1>5. ASSUME NEW u \in Uninstallers, UninstallStep(u) PROVE ProcsTyped'
    <2>1. CASE uninstall_start(u)
      <3>1. PICK v \in {installed, record} \ {Nothing} : version' = [version EXCEPT ![u] = v]
        BY <2>1 DEF uninstall_start
      <3>2. QED
        BY <1>0, <2>1, <3>1 DEF uninstall_start, command_vars
    <2>2. CASE lock_and_recheck(u)
      BY <1>0, <2>2 DEF lock_and_recheck, uninstall_refuses, Disturb
    <2>3. CASE hold_versions(u)
      BY <1>0, <2>3 DEF hold_versions, uninstall_refuses
    <2>4. CASE remove_records(u) \/ remove_version(u) \/ remove_rest(u)
      BY <1>0, <2>4 DEF remove_records, remove_version, remove_rest, command_vars
    <2>5. QED
      BY <1>5, <2>1, <2>2, <2>3, <2>4 DEF UninstallStep
  <1>6. ASSUME InstallerStep PROVE ProcsTyped'
    BY <1>6 DEF InstallerStep, install, prune_lock, compare, install_ends, swap, empty_name, discard,
       record_installed, prune, prune_rename, installer_ends, installer_killed, command_vars, Disturb
  <1>7. QED
    BY <1>1, <1>2, <1>3, <1>4, <1>5, <1>6 DEF LockNext, all_vars, command_vars

(* A window's program and marks are of their kinds. *)
LEMMA WindowsTypedNext == LockTypeOK /\ [LockNext]_all_vars => WindowsTyped'
  <1> SUFFICES ASSUME LockTypeOK, [LockNext]_all_vars PROVE WindowsTyped'
    OBVIOUS
  <1> USE DEF LockTypeOK, WindowsTyped
  <1>1. CASE UNCHANGED window_vars
    BY <1>1 DEF window_vars
  <1>2. ASSUME NEW w \in Windows, WindowStep(w) PROVE WindowsTyped'
    BY <1>2 DEF WindowStep, window_start, run_hold, shell_execs_shim, mark_launched, run_keeper,
                keeper_killed, window_vars
  <1>3. QED
    BY <1>1, <1>2
       DEF LockNext, all_vars, ProcStep, hold_for_process, hold_open, lock_shared, lock_busy, lock_check, ends,
           CommandStep, command, choose, test, ServerStep, serve_start, publish_running_record,
           InstallerStep, install, prune_lock, compare, swap, empty_name, discard, record_installed,
           prune, prune_rename, installer_ends, installer_killed, UninstallStep, uninstall_start,
           lock_and_recheck, hold_versions, remove_records, remove_version, remove_rest

(* The installer's and the uninstall's notes name versions. *)
LEMMA InstallsTypedNext == LockTypeOK /\ [LockNext]_all_vars => InstallsTyped'
  <1> SUFFICES ASSUME LockTypeOK, [LockNext]_all_vars PROVE InstallsTyped'
    OBVIOUS
  <1> USE VersionConstants DEF LockTypeOK, InstallsTyped, FilesTyped
  <1>1. ASSUME NEW u \in Uninstallers, UninstallStep(u) PROVE InstallsTyped'
    BY <1>1 DEF UninstallStep, uninstall_start, lock_and_recheck, uninstall_refuses, install_vars,
       hold_versions, remove_records, remove_version, remove_rest, ThereNow
  <1>2. ASSUME NEW v \in Versions, install(v) PROVE InstallsTyped'
    <2>1. inst' \in [at : {"place"}, v : Versions, keep : SUBSET Versions, look : SUBSET Versions]
      BY <1>2 DEF install
    <2>2. QED
      BY <1>2, <2>1 DEF install
  <1>3. ASSUME NEW v \in Versions, prune_lock(v) PROVE InstallsTyped'
    <2>1. \/ inst' = [inst EXCEPT !.at = "rename", !.v = v, !.look = @ \ {v}]
          \/ inst' = [inst EXCEPT !.look = @ \ {v}]
      BY <1>3 DEF prune_lock
    <2>2. UNCHANGED <<busy, installs, plan>>
      BY <1>3 DEF prune_lock
    <2>3. inst.look \ {v} \in SUBSET Versions /\ inst.keep \in SUBSET Versions
      OBVIOUS
    <2>4. inst' \in [at : {"idle", "place", "stage", "discard", "record", "list", "prune", "rename"},
                     v : Versions \cup {Nothing}, keep : SUBSET Versions, look : SUBSET Versions]
      BY <2>1, <2>3
    <2>5. QED
      BY <2>2, <2>4
  <1>4. CASE \/ installer_ends \/ installer_killed \/ compare \/ swap \/ empty_name \/ discard
             \/ record_installed \/ prune \/ prune_rename
    <2>1. CASE install_ends
      BY <2>1 DEF install_ends, Idle
    <2>2. CASE compare /\ ~ install_ends
      BY <2>2 DEF compare, InstallerIs
    <2>3. CASE swap \/ empty_name \/ discard \/ record_installed \/ prune_rename
      BY <2>3 DEF swap, empty_name, discard, record_installed, prune_rename, InstallerIs, install_vars
    <2>4. CASE prune
      BY <2>4 DEF prune
    <2>5. QED
      BY <1>4, <2>1, <2>2, <2>3, <2>4 DEF installer_ends, installer_killed
  <1>5. ASSUME NEW p \in Proc, ends(p) PROVE InstallsTyped'
    BY <1>5 DEF ends
  <1>6. CASE UNCHANGED install_vars
    BY <1>6 DEF install_vars
  <1>7. QED
    BY <1>1, <1>2, <1>3, <1>4, <1>5, <1>6
       DEF LockNext, all_vars, ProcStep, hold_for_process, hold_open, lock_shared, lock_busy, lock_check,
           CommandStep, command, choose, test, ServerStep, serve_start, publish_running_record,
           WindowStep, window_start, run_hold, shell_execs_shim, mark_launched, run_keeper,
           keeper_killed, InstallerStep, install_vars

(* The types are kept. *)
LEMMA VersionTypeNext == LockInv /\ [LockNext]_all_vars => LockTypeOK'
  BY FilesTypedNext, LocksTypedNext, ProcsTypedNext, WindowsTypedNext, InstallsTypedNext DEF LockTypeOK, LockInv

(* A new file is nowhere else, and no path gains one that was somewhere. *)
LEMMA OneNameNext == LockInv /\ [LockNext]_all_vars => OneName'
  <1> SUFFICES ASSUME LockInv, [LockNext]_all_vars PROVE OneName'
    OBVIOUS
  <1> USE VersionConstants DEF LockInv, OneName
  <1>1. CASE at' = at
    BY <1>1
  <1>2. CASE swap
    <2>1. \A v \in Versions : at[v] # files + 1
      BY DEF LockTypeOK, FilesTyped
    <2>2. at \in [Versions -> Nat \cup {Nothing}]
      BY DEF LockTypeOK, FilesTyped
    <2>3. QED
      BY <1>2, <2>1, <2>2 DEF swap
  <1>3. ASSUME NEW v \in Versions, at' = [at EXCEPT ![v] = Nothing] PROVE OneName'
    BY <1>3 DEF LockTypeOK, FilesTyped
  <1>4. CASE empty_name \/ prune_rename
    BY <1>3, <1>4 DEF empty_name, prune_rename, BusyAgrees
  <1>5. ASSUME NEW u \in Uninstallers, remove_version(u) PROVE OneName'
    BY <1>3, <1>5 DEF remove_version, LockTypeOK, InstallsTyped
  <1>6. QED
    BY <1>1, <1>2, <1>4, <1>5, AtChanges DEF AtChange

(* flock gives no exclusive lock of a file someone has locked, and no shared    *)
(* one of a file someone has locked exclusively; a file is opened unlocked.     *)
LEMMA LocksExcludeNext == LockInv /\ [LockNext]_all_vars => LocksExclude'
  <1> SUFFICES ASSUME LockInv, [LockNext]_all_vars PROVE LocksExclude'
    OBVIOUS
  <1> USE Descriptors DEF LocksExclude
  <1>1. LocksExclude /\ LocksTyped
    BY DEF LockInv, LockTypeOK
  <1>2. CASE UNCHANGED lock_vars
    BY <1>1, <1>2 DEF lock_vars
  <1>3. ASSUME NEW S, Close(S) PROVE LocksExclude'
    BY <1>1, <1>3 DEF Close
  <1>4. ASSUME NEW p \in Proc, pc[p] = "open", at[version[p]] # Nothing,
               fd' = [fd EXCEPT ![Fd(p)] = at[version[p]]], lock' = lock
        PROVE  LocksExclude'
    <2>1. lock[Fd(p)] = "none"
      BY <1>4 DEF LockInv, SharedHeld, HeldBy
    <2>2. QED
      BY <1>1, <1>4, <2>1 DEF LocksTyped
  <1>5. ASSUME NEW p \in Proc, pc[p] = "lock", CanShare(Fd(p), fd[Fd(p)]),
               fd' = fd, lock' = [lock EXCEPT ![Fd(p)] = "shared"]
        PROVE  LocksExclude'
    <2>1. fd[Fd(p)] # Nothing
      BY <1>5 DEF LockInv, SharedHeld, HeldBy
    <2>2. QED
      BY <1>1, <1>5, <2>1 DEF LocksTyped, CanShare
  <1>6. ASSUME NEW d \in Desc, NEW v \in Versions, at[v] # Nothing, CanExclude(d, at[v]),
               fd' = [fd EXCEPT ![d] = at[v]], lock' = [lock EXCEPT ![d] = "exclusive"]
        PROVE  LocksExclude'
    BY <1>1, <1>6 DEF LocksTyped, CanExclude
  <1>7. QED
    BY <1>2, <1>3, <1>4, <1>5, <1>6, LockChanges DEF LockChange

(* The installation lock is taken when nobody holds it and given back by its    *)
(* holder's end, however it ends.                                               *)
LEMMA BusyNext == LockInv /\ [LockNext]_all_vars => BusyAgrees'
  <1> SUFFICES ASSUME LockInv, [LockNext]_all_vars PROVE BusyAgrees'
    OBVIOUS
  <1> USE VersionConstants DEF BusyAgrees, Goto, Ended, install_vars
  <1>0. /\ BusyAgrees /\ Placed
        /\ pc \in [Proc -> Where]
        /\ Commands \subseteq Proc /\ Servers \subseteq Proc /\ Windows \subseteq Proc
        /\ Uninstallers \subseteq Proc
        /\ Nothing \notin Proc /\ "installer" \notin Proc
    BY DEF LockInv, LockTypeOK, ProcsTyped, Proc
  <1>1. ASSUME NEW p \in Proc, ProcStep(p) PROVE BusyAgrees'
    <2>1. CASE hold_for_process(p)
      BY <1>0, <2>1 DEF hold_for_process, hold_open, lock_shared, lock_busy, lock_check, TurnedAway
    <2>2. CASE ends(p)
      BY <1>0, <2>2 DEF ends
    <2>3. QED
      BY <1>1, <2>1, <2>2 DEF ProcStep
  <1>2. ASSUME NEW c \in Commands, CommandStep(c) PROVE BusyAgrees'
    BY <1>0, <1>2 DEF CommandStep, command, choose, test
  <1>3. ASSUME NEW s \in Servers, ServerStep(s) PROVE BusyAgrees'
    BY <1>0, <1>3 DEF ServerStep, serve_start, publish_running_record
  <1>4. ASSUME NEW w \in Windows, WindowStep(w) PROVE BusyAgrees'
    BY <1>0, <1>4 DEF WindowStep, window_start, run_hold, shell_execs_shim, mark_launched, run_keeper,
                      keeper_killed
  <1>5. ASSUME NEW u \in Uninstallers, UninstallStep(u) PROVE BusyAgrees'
    <2>1. CASE lock_and_recheck(u) \/ hold_versions(u)
      BY <1>0, <2>1 DEF lock_and_recheck, hold_versions, uninstall_refuses
    <2>2. CASE uninstall_start(u) \/ remove_records(u) \/ remove_version(u) \/ remove_rest(u)
      BY <1>0, <2>2 DEF uninstall_start, remove_records, remove_version, remove_rest
    <2>3. QED
      BY <1>5, <2>1, <2>2 DEF UninstallStep
  <1>6. ASSUME InstallerStep PROVE BusyAgrees'
    <2>0. inst = [at |-> inst.at, v |-> inst.v, keep |-> inst.keep, look |-> inst.look]
      BY DEF LockInv, LockTypeOK, InstallsTyped
    <2>1. ASSUME NEW v \in Versions, install(v) PROVE BusyAgrees'
      BY <1>0, <2>1 DEF install
    <2>2. ASSUME NEW v \in Versions, prune_lock(v) PROVE BusyAgrees'
      BY <1>0, <2>0, <2>2 DEF prune_lock
    <2>3. CASE compare \/ installer_ends \/ installer_killed
      BY <1>0, <2>0, <2>3 DEF compare, installer_ends, installer_killed, install_ends, InstallerIs, Idle
    <2>4. CASE swap \/ empty_name \/ discard \/ record_installed \/ prune \/ prune_rename
      BY <1>0, <2>0, <2>4 DEF swap, empty_name, discard, record_installed, prune, prune_rename, InstallerIs
    <2>5. QED
      BY <1>6, <2>1, <2>2, <2>3, <2>4 DEF InstallerStep
  <1>7. QED
    BY <1>0, <1>1, <1>2, <1>3, <1>4, <1>5, <1>6 DEF LockNext, all_vars

(* Each kind of process stays on its own path of steps. *)
LEMMA PlacedNext == LockInv /\ [LockNext]_all_vars => Placed'
  <1> SUFFICES ASSUME LockInv, [LockNext]_all_vars PROVE Placed'
    OBVIOUS
  <1> USE VersionConstants DEF Placed, Goto, Ended, window_vars
  <1>0. /\ Placed /\ WindowsTyped
        /\ pc \in [Proc -> Where] /\ version \in [Proc -> Versions \cup {Nothing}]
        /\ installed \in Versions \cup {Nothing} /\ record \in Versions \cup {Nothing}
        /\ Commands \subseteq Proc /\ Servers \subseteq Proc /\ Windows \subseteq Proc
        /\ Uninstallers \subseteq Proc
    BY DEF LockInv, LockTypeOK, ProcsTyped, FilesTyped, Proc
  <1> USE DEF WindowsTyped
  <1>1. ASSUME NEW p \in Proc, ProcStep(p) PROVE Placed'
    <2>1. ASSUME pc[p] \in {"open", "lock", "check"},
                 NEW x \in {"choose", "lock", "check", "running", "refused"},
                 x = "choose" => p \in Commands,
                 pc' = [pc EXCEPT ![p] = x], UNCHANGED <<version, window_vars>>
          PROVE  Placed'
      BY <1>0, <2>1
    <2>2. CASE hold_for_process(p)
      BY <2>1, <2>2 DEF hold_for_process, hold_open, lock_shared, lock_busy, lock_check, TurnedAway
    <2>3. CASE ends(p)
      BY <1>0, <2>3 DEF ends
    <2>4. QED
      BY <1>1, <2>2, <2>3 DEF ProcStep
  <1>2. ASSUME NEW c \in Commands, CommandStep(c) PROVE Placed'
    <2>1. ASSUME NEW x \in {"choose", "test", "test_running", "open", "gave_up"},
                 x = "open" => version'[c] \in Versions,
                 \A p \in Proc \ {c} : version'[p] = version[p],
                 x # "choose" /\ x # "gave_up" => version'[c] \in Versions,
                 pc' = [pc EXCEPT ![c] = x], UNCHANGED window_vars
          PROVE  Placed'
      BY <1>0, <2>1
    <2>2. CASE command(c)
      BY <2>1, <2>2 DEF command
    <2>3. CASE test(c)
      <3>1. version[c] \in Versions
        BY <1>0, <2>3 DEF test
      <3>2. \E x \in {"choose", "open", "gave_up"} : pc' = [pc EXCEPT ![c] = x]
        BY <2>3 DEF test
      <3>3. version' = version /\ UNCHANGED window_vars
        BY <2>3 DEF test
      <3>4. QED
        BY <2>1, <3>1, <3>2, <3>3
    <2>4. CASE choose(c)
      <3>1. \/ version' = version /\ pc' = [pc EXCEPT ![c] = "gave_up"]
            \/ /\ record # Nothing /\ version' = [version EXCEPT ![c] = record]
               /\ pc' = [pc EXCEPT ![c] = "test_running"]
            \/ /\ installed # Nothing /\ version' = [version EXCEPT ![c] = installed]
               /\ pc' = [pc EXCEPT ![c] = "test"]
        BY <2>4, Zenon DEF choose, FromRunning
      <3>2. UNCHANGED window_vars
        BY <2>4 DEF choose
      <3>3. QED
        BY <1>0, <2>1, <3>1, <3>2
    <2>5. QED
      BY <1>2, <2>2, <2>3, <2>4 DEF CommandStep
  <1>3. ASSUME NEW s \in Servers, ServerStep(s) PROVE Placed'
    BY <1>0, <1>3 DEF ServerStep, serve_start, publish_running_record
  <1>4. ASSUME NEW w \in Windows, WindowStep(w) PROVE Placed'
    <2>1. ASSUME NEW s \in Servers, window_start(w, s) PROVE Placed'
      BY <1>0, <2>1 DEF window_start
    <2>2. CASE run_hold(w)
      <3>1. version[w] \in Versions /\ stage[w] = "hold" /\ pc[w] = "running" /\ ~ marked[w] /\ ~ keeper[w]
        BY <1>0, <2>2 DEF run_hold
      <3>2. /\ \/ pc' = [pc EXCEPT ![w] = "shell"] /\ keeper' = [keeper EXCEPT ![w] = TRUE]
               \/ pc' = [pc EXCEPT ![w] = "refused"] /\ keeper' = keeper
            /\ UNCHANGED <<version, stage, marked>>
        BY <2>2 DEF run_hold
      <3>3. \A x \in Windows \ {w} : keeper'[x] = keeper[x] /\ pc'[x] = pc[x]
        BY <1>0, <3>2
      <3>4. \A p \in Proc \ {w} : pc'[p] = pc[p]
        BY <1>0, <3>2
      <3>5. w \in Proc /\ pc'[w] \in {"shell", "refused"}
        BY <1>0, <3>2
      <3>6. QED
        BY <1>0, <3>1, <3>2, <3>3, <3>4, <3>5
    <2>5. CASE shell_execs_shim(w)
      BY <1>0, <2>5 DEF shell_execs_shim
    <2>6. CASE mark_launched(w)
      BY <1>0, <2>6 DEF mark_launched
    <2>3. CASE run_keeper(w) \/ keeper_killed(w)
      BY <1>0, <2>3 DEF run_keeper, keeper_killed
    <2>4. QED
      BY <1>4, <2>1, <2>2, <2>3, <2>5, <2>6 DEF WindowStep
  <1>5. ASSUME NEW u \in Uninstallers, UninstallStep(u) PROVE Placed'
    <2>1. ASSUME NEW x \in {"open", "locking", "removing", "done", "refused"},
                 x # "done" /\ x # "refused" => version'[u] \in Versions,
                 \A p \in Proc \ {u} : version'[p] = version[p],
                 pc' = [pc EXCEPT ![u] = x], UNCHANGED window_vars
          PROVE  Placed'
      BY <1>0, <2>1
    <2>2. CASE uninstall_start(u)
      BY <1>0, <2>1, <2>2 DEF uninstall_start
    <2>3. CASE lock_and_recheck(u)
      BY <1>0, <2>1, <2>3 DEF lock_and_recheck, uninstall_refuses
    <2>4. CASE hold_versions(u)
      BY <1>0, <2>1, <2>4 DEF hold_versions, uninstall_refuses
    <2>5. CASE remove_records(u) \/ remove_rest(u)
      BY <1>0, <2>1, <2>5 DEF remove_records, remove_rest
    <2>6. CASE remove_version(u)
      BY <1>0, <2>6 DEF remove_version
    <2>7. QED
      BY <1>5, <2>2, <2>3, <2>4, <2>5, <2>6 DEF UninstallStep
  <1>6. CASE InstallerStep
    BY <1>0, <1>6 DEF InstallerStep, install, prune_lock, compare, install_ends, swap, empty_name,
       discard, record_installed, prune, prune_rename, installer_ends, installer_killed
  <1>7. QED
    BY <1>0, <1>1, <1>2, <1>3, <1>4, <1>5, <1>6 DEF LockNext, all_vars

(* A step that changes the file at a path finds its exclusive lock held, and so  *)
(* no other lock of that file.                                                   *)
LEMMA AtGuarded ==
  ASSUME LockInv, [LockNext]_all_vars, NEW v \in Versions, at'[v] # at[v]
  PROVE  /\ \A p \in Proc : pc[p] \in Running => version[p] # v
         /\ \A w \in Windows : keeper[w] => version[w] # v
         /\ \A w \in Windows : fd[Shim(w)] = at[v] /\ at[v] # Nothing => lock[Shim(w)] = "none"
  <1> USE Descriptors DEF LockInv
  <1>0. SharedHeld /\ LocksExclude /\ at \in [Versions -> (1 .. files) \cup {Nothing}]
    BY DEF LockTypeOK, FilesTyped
  <1>1. ASSUME NEW d \in Desc, Excluded(d, v), \A p \in Proc : pc[p] \in Running => d # Fd(p),
               \A w \in Windows : keeper[w] => d # Own(w), \A w \in Windows : d # Shim(w)
        PROVE  /\ \A p \in Proc : pc[p] \in Running => version[p] # v
               /\ \A w \in Windows : keeper[w] => version[w] # v
               /\ \A w \in Windows : fd[Shim(w)] = at[v] /\ at[v] # Nothing => lock[Shim(w)] = "none"
    <2>1. \A other \in Desc : other # d /\ fd[other] = at[v] => lock[other] = "none"
      BY <1>0, <1>1 DEF Excluded, LocksExclude
    <2>2. \A p \in Proc : pc[p] \in Running => version[p] # v
      BY <1>0, <1>1, <2>1 DEF SharedHeld, HeldBy, KeptFor, Running
    <2>3. \A w \in Windows : keeper[w] => version[w] # v
      <3>1. SUFFICES ASSUME NEW w \in Windows, keeper[w], version[w] = v PROVE FALSE
        OBVIOUS
      <3>2. Own(w) \in Desc /\ Own(w) # d
        BY <1>1, <3>1 DEF Proc
      <3>3. lock[Own(w)] = "shared" /\ fd[Own(w)] = at[v]
        BY <1>0, <3>1 DEF SharedHeld, HeldBy, KeptFor
      <3>4. QED
        BY <2>1, <3>2, <3>3
    <2>4. QED
      BY <1>1, <2>1, <2>2, <2>3
  <1>2. CASE at[v] = Nothing
    <2>1. \A p \in Proc : pc[p] \in Running => fd[Fd(p)] = at[version[p]] /\ fd[Fd(p)] # Nothing
      BY <1>0 DEF SharedHeld, HeldBy, KeptFor, LocksExclude, Running
    <2>2. \A w \in Windows : keeper[w] => fd[Own(w)] = at[version[w]] /\ fd[Own(w)] # Nothing
      BY <1>0 DEF SharedHeld, HeldBy, KeptFor, LocksExclude, Proc
    <2>3. QED
      BY <1>2, <2>1, <2>2
  <1>3. CASE (swap \/ empty_name \/ prune_rename) /\ at[v] # Nothing
    <2>1. v = inst.v
      BY <1>0, <1>3 DEF swap, empty_name, prune_rename
    <2>2. Excluded(Remover(v), v)
      BY <1>3, <2>1 DEF swap, empty_name, prune_rename, ExclusiveHeld, InstallerExcludes, UninstallExcludes
    <2>3. QED
      BY <1>1, <2>2 DEF Proc
  <1>4. ASSUME NEW u \in Uninstallers, remove_version(u), at[v] # Nothing
        PROVE  /\ \A p \in Proc : pc[p] \in Running => version[p] # v
               /\ \A w \in Windows : keeper[w] => version[w] # v
               /\ \A w \in Windows : fd[Shim(w)] = at[v] /\ at[v] # Nothing => lock[Shim(w)] = "none"
    <2>1. v \in plan /\ pc[u] = "removing" /\ u \in Proc /\ u \notin Windows
      BY <1>0, <1>4, VersionConstants DEF remove_version, Proc
    <2>2. Excluded(Removes(u, v), v)
      BY <1>4, <2>1 DEF ExclusiveHeld, InstallerExcludes, UninstallExcludes
    <2>3. Removes(u, v) \in {Own(u), Remover(v)}
      BY DEF Removes
    <2>4. \A p \in Proc : pc[p] \in Running => Removes(u, v) # Fd(p)
      BY <2>1, <2>3 DEF Running
    <2>5. QED
      BY <1>1, <2>1, <2>2, <2>3, <2>4 DEF Proc
  <1>5. QED
    BY <1>2, <1>3, <1>4, AtChanges DEF AtChange

(* What a process and a window hold depends on their own state only. *)
LEMMA HeldFrame ==
  ASSUME NEW p \in Proc, HeldBy(p), pc'[p] = pc[p], version'[p] = version[p], Fd(p)' = Fd(p),
         fd'[Fd(p)] = fd[Fd(p)], lock'[Fd(p)] = lock[Fd(p)],
         pc[p] \in Running => at'[version[p]] = at[version[p]]
  PROVE  HeldBy(p)'
  BY DEF HeldBy, Running

(* What a window's keeper holds depends on the window's state only. *)
LEMMA KeptFrame ==
  ASSUME NEW w \in Windows, KeptFor(w), stage'[w] = stage[w], keeper'[w] = keeper[w],
         version'[w] = version[w], lock'[Shim(w)] = lock[Shim(w)],
         keeper[w] => /\ fd'[Own(w)] = fd[Own(w)] /\ lock'[Own(w)] = lock[Own(w)]
                      /\ at'[version[w]] = at[version[w]]
  PROVE  KeptFor(w)'
  BY DEF KeptFor

(* A step of one process on its own open file leaves the others' as they are. *)
LEMMA SharedByOne ==
  ASSUME LockInv, NEW q \in Proc, HeldBy(q)', q \in Windows => KeptFor(q)',
         \A p \in Proc \ {q} : pc'[p] = pc[p] /\ version'[p] = version[p],
         \A w \in Windows \ {q} : stage'[w] = stage[w] /\ keeper'[w] = keeper[w],
         \A d \in Desc : \/ fd'[d] = fd[d] /\ lock'[d] = lock[d]
                         \/ d = Own(q)
                         \/ q \in Windows /\ d = Shim(q)
                         \/ \E v \in Versions : d = Remover(v),
         at' = at
  PROVE  SharedHeld'
  <1> USE Descriptors
  <1>2. SharedHeld
    BY DEF LockInv
  <1>3. ASSUME NEW p \in Proc, p # q PROVE HeldBy(p)'
    <2>1. Fd(p)' = Fd(p)
      BY <1>3 DEF Fd
    <2>2. Fd(p) \in Desc /\ Fd(p) # Own(q) /\ (q \in Windows => Fd(p) # Shim(q))
      BY <1>3
    <2>3. \A v \in Versions : Fd(p) # Remover(v)
      OBVIOUS
    <2>4. fd'[Fd(p)] = fd[Fd(p)] /\ lock'[Fd(p)] = lock[Fd(p)]
      BY <2>2, <2>3
    <2>5. HeldBy(p)
      BY <1>2 DEF SharedHeld
    <2>6. QED
      BY <1>3, <2>1, <2>4, <2>5, HeldFrame
  <1>4. ASSUME NEW w \in Windows, w # q PROVE KeptFor(w)'
    <2>1. w \in Proc /\ Own(w) \in Desc /\ Shim(w) \in Desc
      OBVIOUS
    <2>2. Own(w) # Own(q) /\ Shim(w) # Own(q) /\ (q \in Windows => Own(w) # Shim(q) /\ Shim(w) # Shim(q))
      BY <1>4, <2>1 DEF Shim
    <2>3. \A v \in Versions : Own(w) # Remover(v) /\ Shim(w) # Remover(v)
      BY <2>1
    <2>4. /\ fd'[Own(w)] = fd[Own(w)] /\ lock'[Own(w)] = lock[Own(w)]
          /\ lock'[Shim(w)] = lock[Shim(w)]
      BY <2>1, <2>2, <2>3
    <2>5. KeptFor(w)
      BY <1>2 DEF SharedHeld
    <2>6. QED
      BY <1>4, <2>1, <2>4, <2>5, KeptFrame
  <1>5. QED
    BY <1>3, <1>4 DEF SharedHeld

(* A step of nobody leaves them too, whatever file it moves. *)
LEMMA SharedByNone ==
  ASSUME LockInv, [LockNext]_all_vars, UNCHANGED <<pc, version, stage, keeper>>,
         \A d \in Desc : \/ fd'[d] = fd[d] /\ lock'[d] = lock[d]
                         \/ \E v \in Versions : d = Remover(v)
  PROVE  SharedHeld'
  <1> USE Descriptors
  <1>1. SharedHeld /\ Placed
    BY DEF LockInv
  <1>2. ASSUME NEW p \in Proc PROVE HeldBy(p)'
    <2>1. Fd(p)' = Fd(p)
      BY DEF Fd
    <2>2. Fd(p) \in Desc /\ \A v \in Versions : Fd(p) # Remover(v)
      OBVIOUS
    <2>3. fd'[Fd(p)] = fd[Fd(p)] /\ lock'[Fd(p)] = lock[Fd(p)]
      BY <2>2
    <2>4. pc[p] \in Running => at'[version[p]] = at[version[p]]
      BY <1>1, AtGuarded DEF Placed, Running, Ended
    <2>5. HeldBy(p)
      BY <1>1 DEF SharedHeld
    <2>6. QED
      BY <2>1, <2>3, <2>4, <2>5, HeldFrame
  <1>3. ASSUME NEW w \in Windows PROVE KeptFor(w)'
    <2>1. w \in Proc /\ Own(w) \in Desc /\ Shim(w) \in Desc
      OBVIOUS
    <2>2. \A v \in Versions : Own(w) # Remover(v) /\ Shim(w) # Remover(v)
      BY <2>1
    <2>3. /\ fd'[Own(w)] = fd[Own(w)] /\ lock'[Own(w)] = lock[Own(w)]
          /\ lock'[Shim(w)] = lock[Shim(w)]
      BY <2>1, <2>2
    <2>4. keeper[w] => at'[version[w]] = at[version[w]]
      BY <1>1, AtGuarded DEF Placed
    <2>5. KeptFor(w)
      BY <1>1 DEF SharedHeld
    <2>6. QED
      BY <2>3, <2>4, <2>5, KeptFrame
  <1>4. QED
    BY <1>2, <1>3 DEF SharedHeld

(* Everything that runs a version keeps its shared lock of the file there. *)
LEMMA SharedNext == LockInv /\ [LockNext]_all_vars => SharedHeld'
  <1> SUFFICES ASSUME LockInv, [LockNext]_all_vars PROVE SharedHeld'
    OBVIOUS
  <1> USE VersionConstants, Descriptors
  <1>0. /\ SharedHeld /\ Placed
        /\ fd \in [Desc -> (1 .. files) \cup {Nothing}] /\ lock \in [Desc -> {"none", "shared", "exclusive"}]
        /\ stage \in [Windows -> {"hold", "shim"}] /\ keeper \in [Windows -> BOOLEAN]
        /\ pc \in [Proc -> Where] /\ version \in [Proc -> Versions \cup {Nothing}]
    BY DEF LockInv, LockTypeOK, LocksTyped, WindowsTyped, ProcsTyped
  <1>a. \A p \in Proc : HeldBy(p)
    BY <1>0 DEF SharedHeld
  <1>b. \A w \in Windows : KeptFor(w)
    BY <1>0 DEF SharedHeld
  <1>c. \A w \in Windows : keeper[w] => (stage[w] = "hold" => pc[w] \in {"shell"} \cup Ended)
    BY <1>0 DEF Placed
  <1>d. \A u \in Uninstallers : pc[u] = "locking" => plan \subseteq Versions
    BY DEF LockInv, ExclusiveHeld, InstallerExcludes, UninstallExcludes, ThereNow
  <1>1. CASE UNCHANGED all_vars
    BY <1>1, SharedByNone DEF all_vars, lock_vars, window_vars, files_vars
  <1>2. ASSUME NEW p \in Proc, hold_for_process(p) PROVE SharedHeld'
    <2>0. /\ UNCHANGED <<at, version, stage, keeper>>
          /\ pc[p] \in {"open", "lock", "check"}
          /\ \A q \in Proc \ {p} : pc'[q] = pc[q]
      BY <1>0, <1>2 DEF hold_for_process, hold_open, lock_shared, lock_busy, lock_check, TurnedAway,
                        Goto, files_vars, window_vars
    <2>1. \A d \in Desc \ {Fd(p)} : fd'[d] = fd[d] /\ lock'[d] = lock[d]
      BY <1>0, <1>2 DEF hold_for_process, hold_open, lock_shared, lock_busy, lock_check, TurnedAway,
                        Close, lock_vars
    <2>2. Fd(p)' = Fd(p)
      BY <2>0 DEF Fd
    <2>3. HeldBy(p)'
      <3>1. CASE TurnedAway(p)
        <4>1. pc'[p] \in {"choose", "refused"} /\ lock'[Fd(p)] = "none"
          BY <1>0, <3>1 DEF TurnedAway, Goto, Close
        <4>2. QED
          BY <2>2, <4>1 DEF HeldBy, Running
      <3>2. CASE hold_open(p) /\ ~ TurnedAway(p)
        <4>1. pc[p] = "open" /\ pc'[p] = "lock" /\ fd'[Fd(p)] # Nothing /\ lock' = lock
          BY <1>0, <3>2 DEF hold_open, Goto
        <4>2. QED
          BY <1>a, <2>2, <4>1 DEF HeldBy, Running
      <3>3. CASE lock_shared(p)
        <4>1. pc'[p] = "check" /\ lock'[Fd(p)] = "shared"
          BY <1>0, <3>3 DEF lock_shared, Goto
        <4>2. QED
          BY <2>2, <4>1 DEF HeldBy, Running
      <3>4. CASE lock_check(p) /\ ~ TurnedAway(p)
        <4>1. /\ pc[p] = "check" /\ pc'[p] = "running" /\ fd[Fd(p)] = at[version[p]]
              /\ fd' = fd /\ lock' = lock
          BY <1>0, <3>4 DEF lock_check, Goto, lock_vars
        <4>2. QED
          BY <1>a, <2>0, <2>2, <4>1 DEF HeldBy, Running
      <3>5. QED
        BY <1>2, <3>1, <3>2, <3>3, <3>4 DEF hold_for_process, lock_busy
    <2>4. p \in Windows => KeptFor(p)'
      <3>1. SUFFICES ASSUME p \in Windows PROVE KeptFor(p)'
        OBVIOUS
      <3>2. CASE stage[p] = "hold"
        <4>1. ~ keeper[p] /\ lock'[Shim(p)] = lock[Shim(p)]
          BY <1>0, <1>c, <2>0, <2>1, <3>1, <3>2 DEF Ended
        <4>2. QED
          BY <1>b, <2>0, <3>1, <3>2, <4>1 DEF KeptFor
      <3>3. CASE stage[p] # "hold"
        <4>1. Own(p) # Fd(p) /\ Own(p) \in Desc
          BY <1>0, <3>1, <3>3
        <4>2. fd'[Own(p)] = fd[Own(p)] /\ lock'[Own(p)] = lock[Own(p)]
          BY <2>1, <4>1
        <4>3. QED
          BY <1>b, <2>0, <3>1, <3>3, <4>2 DEF KeptFor
      <3>4. QED
        BY <3>2, <3>3
    <2>5. Fd(p) = Own(p) \/ (p \in Windows /\ Fd(p) = Shim(p))
      BY DEF Fd
    <2>6. QED
      BY <2>0, <2>1, <2>3, <2>4, <2>5, SharedByOne
  <1>3. ASSUME NEW p \in Proc, ends(p) PROVE SharedHeld'
    <2>1. UNCHANGED <<at, version, stage, keeper>> /\ pc' = [pc EXCEPT ![p] = "done"]
      BY <1>3 DEF ends, Goto, files_vars, window_vars
    <2>2. pc'[p] = "done" /\ \A q \in Proc \ {p} : pc'[q] = pc[q]
      BY <1>0, <2>1
    <2>3. HeldBy(p)'
      BY <2>2 DEF HeldBy, Running
    <2>4. CASE p \in Windows
      <3>1. \A d \in Desc : \/ fd'[d] = fd[d] /\ lock'[d] = lock[d]
                            \/ d = Shim(p)
                            \/ d = Own(p) /\ ~ keeper[p]
        BY <1>3, <2>4 DEF ends, Close
      <3>2. lock'[Shim(p)] = "none"
        BY <1>0, <1>3, <2>4 DEF ends, Close
      <3>3. keeper[p] => fd'[Own(p)] = fd[Own(p)] /\ lock'[Own(p)] = lock[Own(p)]
        BY <2>4, <3>1
      <3>4. KeptFor(p)'
        BY <1>b, <2>1, <2>4, <3>2, <3>3 DEF KeptFor
      <3>5. QED
        BY <2>1, <2>2, <2>3, <2>4, <3>1, <3>4, SharedByOne
    <2>5. CASE p \notin Windows
      <3>1. \A d \in Desc : \/ fd'[d] = fd[d] /\ lock'[d] = lock[d]
                            \/ d = Own(p)
                            \/ \E v \in Versions : d = Remover(v)
        BY <1>3, <2>5 DEF ends, Close
      <3>2. QED
        BY <2>1, <2>2, <2>3, <2>5, <3>1, SharedByOne
    <2>6. QED
      BY <2>4, <2>5
  <1>4. ASSUME NEW c \in Commands, CommandStep(c) PROVE SharedHeld'
    <2>0. /\ UNCHANGED <<fd, lock, at, stage, keeper>>
          /\ \A p \in Proc \ {c} : pc'[p] = pc[p] /\ version'[p] = version[p]
          /\ pc[c] \in {"idle", "choose", "test", "test_running"}
      <3>1. /\ UNCHANGED <<fd, lock, at, stage, keeper>>
            /\ pc[c] \in {"idle", "choose", "test", "test_running"}
        BY <1>4 DEF CommandStep, command, choose, test, lock_vars, window_vars, files_vars
      <3>2. /\ \E x \in Where : pc' = [pc EXCEPT ![c] = x]
            /\ version' = version \/ \E x : version' = [version EXCEPT ![c] = x]
        BY <1>4, Zenon DEF CommandStep, command, choose, test, Goto, Where, Ended
      <3>3. QED
        BY <1>0, <3>1, <3>2
    <2>1. pc'[c] \in {"choose", "test", "test_running", "open", "gave_up"}
      <3>1. \E x \in {"choose", "test", "test_running", "open", "gave_up"} : pc' = [pc EXCEPT ![c] = x]
        BY <1>4, Zenon DEF CommandStep, command, choose, test, Goto
      <3>2. QED
        BY <1>0, <3>1
    <2>2. c \notin Windows /\ Fd(c)' = Fd(c)
      BY <2>0 DEF Fd
    <2>3. HeldBy(c)'
      BY <1>a, <2>0, <2>1, <2>2 DEF HeldBy, Running
    <2>4. QED
      BY <2>0, <2>2, <2>3, SharedByOne
  <1>5. ASSUME NEW s \in Servers, ServerStep(s) PROVE SharedHeld'
    <2>0. /\ UNCHANGED <<fd, lock, at, stage, keeper>>
          /\ \A p \in Proc \ {s} : pc'[p] = pc[p] /\ version'[p] = version[p]
          /\ \/ pc' = pc /\ version' = version
             \/ pc[s] = "idle" /\ pc'[s] = "open"
      BY <1>0, <1>5 DEF ServerStep, serve_start, publish_running_record, lock_vars, Goto, window_vars, files_vars
    <2>1. s \notin Windows /\ Fd(s)' = Fd(s)
      BY <2>0 DEF Fd
    <2>2. HeldBy(s)'
      BY <1>a, <2>0, <2>1 DEF HeldBy, Running
    <2>3. QED
      BY <2>0, <2>1, <2>2, SharedByOne
  <1>6. ASSUME NEW w \in Windows, WindowStep(w) PROVE SharedHeld'
    <2>0. /\ at' = at /\ HeldBy(w) /\ KeptFor(w)
          /\ w \in Proc /\ Own(w) \in Desc /\ Shim(w) \in Desc /\ Own(w) # Shim(w)
          /\ \A p \in Proc \ {w} : pc'[p] = pc[p] /\ version'[p] = version[p]
          /\ \A x \in Windows \ {w} : stage'[x] = stage[x] /\ keeper'[x] = keeper[x]
      BY <1>0, <1>6, <1>a, <1>b DEF WindowStep, window_start, run_hold, shell_execs_shim, mark_launched,
         run_keeper, keeper_killed, lock_vars, Goto, window_vars, files_vars
    <2>1. \A d \in Desc \ {Own(w)} : fd'[d] = fd[d] /\ lock'[d] = lock[d]
      BY <1>0, <1>6 DEF WindowStep, window_start, run_hold, shell_execs_shim, mark_launched,
         run_keeper, keeper_killed, lock_vars, Close
    <2>a. lock'[Shim(w)] = lock[Shim(w)] /\ fd'[Shim(w)] = fd[Shim(w)]
      BY <2>0, <2>1
    <2>2. ASSUME NEW s \in Servers, window_start(w, s) PROVE HeldBy(w)' /\ KeptFor(w)'
      <3>1. pc[w] = "idle" /\ pc'[w] = "open" /\ UNCHANGED <<fd, lock, stage, keeper>>
        BY <1>0, <2>0, <2>2 DEF window_start, Goto, lock_vars, window_vars
      <3>2. ~ keeper[w] /\ Fd(w)' = Fd(w)
        BY <1>0, <3>1 DEF Placed, Fd
      <3>3. QED
        BY <2>0, <3>1, <3>2 DEF HeldBy, KeptFor, Running
    <2>3. ASSUME run_hold(w) PROVE HeldBy(w)' /\ KeptFor(w)'
      <3>1. /\ pc[w] = "running" /\ stage[w] = "hold" /\ UNCHANGED <<stage, version>>
            /\ \/ pc'[w] = "shell" /\ fd' = fd /\ lock' = lock
               \/ pc'[w] = "refused" /\ ~ keeper'[w]
        BY <1>0, <1>c, <2>0, <2>3 DEF run_hold, Goto, lock_vars, Ended
      <3>2. lock[Own(w)] = "shared" /\ fd[Own(w)] = at[version[w]]
        BY <2>0, <3>1 DEF HeldBy, Running
      <3>3. HeldBy(w)'
        BY <3>1 DEF HeldBy, Running
      <3>4. KeptFor(w)'
        BY <2>0, <2>a, <3>1, <3>2 DEF KeptFor
      <3>5. QED
        BY <3>3, <3>4
    <2>4. ASSUME shell_execs_shim(w) PROVE HeldBy(w)' /\ KeptFor(w)'
      <3>1. /\ pc[w] = "shell" /\ pc'[w] = "open" /\ stage'[w] = "shim"
            /\ UNCHANGED <<fd, lock, version, keeper>>
        BY <1>0, <2>0, <2>4 DEF shell_execs_shim, Goto, lock_vars
      <3>2. stage[w] = "hold"
        BY <1>0, <3>1 DEF Placed
      <3>3. Fd(w)' = Shim(w) /\ lock[Shim(w)] = "none"
        BY <2>0, <3>1, <3>2 DEF Fd, KeptFor
      <3>4. HeldBy(w)' /\ KeptFor(w)'
        BY <2>0, <3>1, <3>3 DEF HeldBy, KeptFor, Running
      <3>5. QED
        BY <3>4
    <2>5. ASSUME mark_launched(w) PROVE HeldBy(w)' /\ KeptFor(w)'
      <3>1. pc[w] = "running" /\ pc'[w] = "launching" /\ UNCHANGED <<fd, lock, version, keeper, stage>>
        BY <1>0, <2>0, <2>5 DEF mark_launched, Goto, lock_vars
      <3>2. Fd(w)' = Fd(w)
        BY <3>1 DEF Fd
      <3>3. QED
        BY <2>0, <3>1, <3>2 DEF HeldBy, KeptFor, Running
    <2>6. ASSUME run_keeper(w) \/ keeper_killed(w) PROVE HeldBy(w)' /\ KeptFor(w)'
      <3>1. keeper[w] /\ ~ keeper'[w] /\ UNCHANGED <<pc, version, stage>>
        BY <1>0, <2>6 DEF run_keeper, keeper_killed
      <3>2. KeptFor(w)'
        BY <2>0, <2>a, <3>1 DEF KeptFor
      <3>3. HeldBy(w)'
        <4>1. CASE stage[w] = "hold"
          <5>1. pc[w] \in {"shell"} \cup Ended
            BY <1>c, <3>1, <4>1
          <5>2. QED
            BY <3>1, <5>1 DEF HeldBy, Running, Ended
        <4>2. CASE stage[w] # "hold"
          <5>1. Fd(w) = Shim(w) /\ Fd(w)' = Shim(w)
            BY <1>0, <3>1, <4>2 DEF Fd
          <5>2. QED
            BY <2>0, <2>a, <3>1, <5>1 DEF HeldBy, Running
        <4>3. QED
          BY <4>1, <4>2
      <3>4. QED
        BY <3>2, <3>3
    <2>7. HeldBy(w)' /\ KeptFor(w)'
      BY <1>6, <2>2, <2>3, <2>4, <2>5, <2>6 DEF WindowStep
    <2>8. QED
      BY <2>0, <2>1, <2>7, SharedByOne
  <1>7. ASSUME NEW u \in Uninstallers, UninstallStep(u) PROVE SharedHeld'
    <2>0. /\ UNCHANGED <<stage, keeper>> /\ u \notin Windows /\ u \in Proc /\ Fd(u)' = Fd(u)
          /\ \A p \in Proc \ {u} : pc'[p] = pc[p] /\ version'[p] = version[p]
      <3>1. UNCHANGED <<stage, keeper>>
        BY <1>7 DEF UninstallStep, uninstall_start, lock_and_recheck, hold_versions, remove_records,
           remove_version, remove_rest, window_vars
      <3>2. /\ pc' = pc \/ \E x : pc' = [pc EXCEPT ![u] = x]
            /\ version' = version \/ \E x : version' = [version EXCEPT ![u] = x]
        BY <1>7 DEF UninstallStep, uninstall_start, lock_and_recheck, hold_versions, uninstall_refuses,
           remove_records, remove_version, remove_rest, Goto
      <3>3. QED
        BY <1>0, <3>1, <3>2 DEF Fd
    <2>1. CASE remove_version(u)
      <3>1. UNCHANGED <<pc, version, fd, lock>>
        BY <2>1 DEF remove_version, lock_vars
      <3>2. QED
        BY <2>0, <3>1, SharedByNone
    <2>2. CASE ~ remove_version(u)
      <3>1. at' = at
        BY <1>7, <2>2 DEF UninstallStep, uninstall_start, lock_and_recheck, hold_versions,
           remove_records, remove_rest, files_vars
      <3>2. \A d \in Desc : \/ fd'[d] = fd[d] /\ lock'[d] = lock[d]
                            \/ d = Own(u)
                            \/ \E v \in Versions : d = Remover(v)
        <4>1. CASE hold_versions(u)
          <5>1. \/ UNCHANGED lock_vars
                \/ \E S : Close(S) /\ S \subseteq {Own(u)} \cup {Remover(v) : v \in Versions}
                \/ \E d \in {Own(u)} \cup {Remover(v) : v \in Versions}, v \in Versions :
                     fd' = [fd EXCEPT ![d] = at[v]] /\ lock' = [lock EXCEPT ![d] = "exclusive"]
            BY <1>d, <4>1 DEF hold_versions, uninstall_refuses
          <5>2. QED
            BY <1>0, <5>1 DEF Close, lock_vars
        <4>2. CASE ~ hold_versions(u)
          BY <1>0, <1>7, <2>2, <4>2 DEF UninstallStep, uninstall_start, lock_and_recheck, uninstall_refuses,
             remove_records, remove_rest, lock_vars, Close
        <4>3. QED
          BY <4>1, <4>2
      <3>3. \/ pc[u] = "idle" /\ pc'[u] = "open" /\ fd' = fd /\ lock' = lock
            \/ pc'[u] \in {"refused", "locking", "removing", "done"}
        <4>1. CASE hold_versions(u)
          BY <1>0, <2>0, <4>1 DEF hold_versions, uninstall_refuses, Goto
        <4>2. CASE ~ hold_versions(u)
          BY <1>0, <1>7, <2>0, <2>2, <4>2 DEF UninstallStep, uninstall_start, lock_and_recheck, uninstall_refuses,
           remove_records, remove_rest, lock_vars, Goto
        <4>3. QED
          BY <4>1, <4>2
      <3>4. HeldBy(u)'
        BY <1>a, <2>0, <3>3 DEF HeldBy, Running
      <3>5. QED
        BY <2>0, <3>1, <3>2, <3>4, SharedByOne
    <2>3. QED
      BY <2>1, <2>2
  <1>8. CASE InstallerStep
    <2>1. UNCHANGED <<pc, version, stage, keeper>>
      BY <1>8 DEF InstallerStep, install, prune_lock, compare, swap, empty_name, discard,
         record_installed, prune, prune_rename, installer_ends, installer_killed, window_vars
    <2>2. inst.at # "idle" => inst.v \in Versions
      BY DEF LockInv, BusyAgrees
    <2>3. \A d \in Desc : \/ fd'[d] = fd[d] /\ lock'[d] = lock[d]
                          \/ \E v \in Versions : d = Remover(v)
      <3>1. \/ UNCHANGED lock_vars
            \/ \E S : Close(S) /\ S \subseteq {Remover(v) : v \in Versions}
            \/ \E v \in Versions : /\ fd' = [fd EXCEPT ![Remover(v)] = at[v]]
                                 /\ lock' = [lock EXCEPT ![Remover(v)] = "exclusive"]
        <4>1. CASE compare
          BY <2>2, <4>1 DEF compare, install_ends
        <4>2. CASE discard \/ prune_rename
          BY <2>2, <4>2 DEF discard, prune_rename
        <4>3. CASE ~ compare /\ ~ discard /\ ~ prune_rename
          BY <1>8, <4>3 DEF InstallerStep, install, prune_lock, swap, empty_name,
             record_installed, prune, installer_ends, installer_killed, install_ends
        <4>4. QED
          BY <4>1, <4>2, <4>3
      <3>2. QED
        BY <1>0, <3>1 DEF Close, lock_vars
    <2>4. QED
      BY <2>1, <2>3, SharedByNone
  <1>9. QED
    BY <1>1, <1>2, <1>3, <1>4, <1>5, <1>6, <1>7, <1>8 DEF LockNext, ProcStep

(* While the installation lock is held, only its holder moves files and uses *)
(* the open files it removes versions with.                                  *)
LEMMA OthersLeave ==
  ASSUME LockInv, [LockNext]_all_vars, NEW u \in Uninstallers \cup {"installer"}, busy = u,
         u = "installer" => ~ InstallerStep,
         u \in Uninstallers => ~ UninstallStep(u) /\ ~ ProcStep(u)
  PROVE  /\ UNCHANGED <<at, plan, inst>>
         /\ \A v \in Versions : fd'[Remover(v)] = fd[Remover(v)] /\ lock'[Remover(v)] = lock[Remover(v)]
         /\ u \in Uninstallers =>
               /\ pc'[u] = pc[u] /\ version'[u] = version[u]
               /\ fd'[Own(u)] = fd[Own(u)] /\ lock'[Own(u)] = lock[Own(u)]
  <1> DEFINE Leaves ==
         /\ UNCHANGED <<at, plan, inst>>
         /\ \A v \in Versions : fd'[Remover(v)] = fd[Remover(v)] /\ lock'[Remover(v)] = lock[Remover(v)]
         /\ u \in Uninstallers =>
               /\ pc'[u] = pc[u] /\ version'[u] = version[u]
               /\ fd'[Own(u)] = fd[Own(u)] /\ lock'[Own(u)] = lock[Own(u)]
  <1> USE VersionConstants, Descriptors
  <1>0. /\ Placed /\ BusyAgrees
        /\ fd \in [Desc -> (1 .. files) \cup {Nothing}] /\ lock \in [Desc -> {"none", "shared", "exclusive"}]
        /\ pc \in [Proc -> Where] /\ version \in [Proc -> Versions \cup {Nothing}]
    BY DEF LockInv, LockTypeOK, LocksTyped, ProcsTyped
  <1>a. u # Nothing /\ "installer" \notin Proc
    BY DEF Proc
  <1>b. ASSUME NEW p \in Proc, p # u, UNCHANGED <<at, plan, inst>>,
               pc' = pc \/ \E x : pc' = [pc EXCEPT ![p] = x],
               version' = version \/ \E x : version' = [version EXCEPT ![p] = x],
               \A d \in Desc : \/ fd'[d] = fd[d] /\ lock'[d] = lock[d]
                               \/ d = Own(p)
                               \/ p \in Windows /\ d = Shim(p)
        PROVE  Leaves
    <2>1. \A v \in Versions : Remover(v) # Own(p) /\ (p \in Windows => Remover(v) # Shim(p))
      OBVIOUS
    <2>2. \A v \in Versions : fd'[Remover(v)] = fd[Remover(v)] /\ lock'[Remover(v)] = lock[Remover(v)]
      BY <1>b, <2>1
    <2>3. ASSUME u \in Uninstallers
          PROVE  /\ pc'[u] = pc[u] /\ version'[u] = version[u]
                 /\ fd'[Own(u)] = fd[Own(u)] /\ lock'[Own(u)] = lock[Own(u)]
      <3>1. u \in Proc /\ Own(u) \in Desc /\ Own(u) # Own(p) /\ (p \in Windows => Own(u) # Shim(p))
        BY <1>b, <2>3
      <3>2. QED
        BY <1>0, <1>b, <3>1
    <2>4. QED
      BY <1>b, <2>2, <2>3
  <1>1. CASE UNCHANGED all_vars
    BY <1>1 DEF all_vars, files_vars, lock_vars, install_vars
  <1>2. ASSUME NEW p \in Proc, ProcStep(p) PROVE Leaves
    <2>1. p # u
      BY <1>2, <1>a
    <2>2. UNCHANGED <<at, plan, inst>> /\ version' = version /\ \E x : pc' = [pc EXCEPT ![p] = x]
      BY <1>2 DEF ProcStep, hold_for_process, hold_open, lock_shared, lock_busy, lock_check, TurnedAway,
                  ends, Goto, files_vars, install_vars
    <2>3. CASE hold_for_process(p)
      <3>1. Fd(p) = Own(p) \/ (p \in Windows /\ Fd(p) = Shim(p))
        BY DEF Fd
      <3>2. \A d \in Desc \ {Fd(p)} : fd'[d] = fd[d] /\ lock'[d] = lock[d]
        BY <1>0, <2>3 DEF hold_for_process, hold_open, lock_shared, lock_busy, lock_check, TurnedAway,
                          Close, lock_vars
      <3>3. QED
        BY <1>b, <2>1, <2>2, <3>1, <3>2
    <2>4. CASE ends(p)
      <3>1. \A d \in Desc : \/ fd'[d] = fd[d] /\ lock'[d] = lock[d]
                            \/ d = Own(p)
                            \/ p \in Windows /\ d = Shim(p)
        BY <2>1, <2>4 DEF ends, Close
      <3>2. QED
        BY <1>b, <2>1, <2>2, <3>1
    <2>5. QED
      BY <1>2, <2>3, <2>4 DEF ProcStep
  <1>3. ASSUME NEW c \in Commands, CommandStep(c) PROVE Leaves
    <2>1. c \in Proc /\ c # u /\ UNCHANGED <<at, plan, inst, fd, lock>>
      BY <1>3, <1>a DEF CommandStep, command, choose, test, files_vars, install_vars, lock_vars
    <2>2. /\ pc' = pc \/ \E x : pc' = [pc EXCEPT ![c] = x]
          /\ version' = version \/ \E x : version' = [version EXCEPT ![c] = x]
      BY <1>3, Zenon DEF CommandStep, command, choose, test, Goto
    <2>3. QED
      BY <1>b, <2>1, <2>2
  <1>4. ASSUME NEW s \in Servers, ServerStep(s) PROVE Leaves
    <2>1. /\ s \in Proc /\ s # u /\ UNCHANGED <<at, plan, inst, fd, lock>>
          /\ pc' = pc \/ \E x : pc' = [pc EXCEPT ![s] = x]
          /\ version' = version \/ \E x : version' = [version EXCEPT ![s] = x]
      BY <1>4, <1>a DEF ServerStep, serve_start, publish_running_record, Goto, files_vars, install_vars, lock_vars
    <2>2. QED
      BY <1>b, <2>1
  <1>5. ASSUME NEW w \in Windows, WindowStep(w) PROVE Leaves
    <2>1. /\ w \in Proc /\ w # u /\ UNCHANGED <<at, plan, inst>>
          /\ pc' = pc \/ \E x : pc' = [pc EXCEPT ![w] = x]
          /\ version' = version \/ \E x : version' = [version EXCEPT ![w] = x]
      BY <1>5, <1>a DEF WindowStep, window_start, run_hold, shell_execs_shim, mark_launched,
         run_keeper, keeper_killed, Goto, files_vars, install_vars
    <2>2. \A d \in Desc \ {Own(w)} : fd'[d] = fd[d] /\ lock'[d] = lock[d]
      BY <1>5 DEF WindowStep, window_start, run_hold, shell_execs_shim, mark_launched,
         run_keeper, keeper_killed, lock_vars, Close
    <2>3. QED
      BY <1>b, <2>1, <2>2
  <1>6. ASSUME NEW x \in Uninstallers, UninstallStep(x) PROVE Leaves
    <2>1. x # u /\ x \in Proc
      BY <1>6, <1>a
    <2>2. uninstall_start(x) \/ (lock_and_recheck(x) /\ busy # Nothing /\ uninstall_refuses(x))
      <3>1. pc[x] \notin {"locking", "removing"}
        BY <1>0, <2>1 DEF BusyAgrees
      <3>2. QED
        BY <1>6, <1>a, <3>1 DEF UninstallStep, lock_and_recheck, hold_versions, remove_records, remove_version,
                           remove_rest
    <2>3. /\ UNCHANGED <<at, plan, inst>>
          /\ pc' = pc \/ \E y : pc' = [pc EXCEPT ![x] = y]
          /\ version' = version \/ \E y : version' = [version EXCEPT ![x] = y]
      BY <2>2 DEF uninstall_start, lock_and_recheck, uninstall_refuses, Goto, files_vars, install_vars
    <2>4. \A d \in Desc \ {Own(x)} : fd'[d] = fd[d] /\ lock'[d] = lock[d]
      BY <2>1, <2>2 DEF uninstall_start, lock_and_recheck, uninstall_refuses, lock_vars, Close
    <2>5. QED
      BY <1>b, <2>1, <2>3, <2>4
  <1>7. CASE InstallerStep
    <2>1. u \in Uninstallers /\ u # "installer"
      BY <1>7
    <2>2. inst.at = "idle"
      BY <1>0, <2>1 DEF BusyAgrees
    <2>3. QED
      BY <1>7, <1>a, <2>2 DEF InstallerStep, install, prune_lock, compare, swap, empty_name,
         discard, record_installed, prune, prune_rename, installer_ends, installer_killed
  <1>8. QED
    BY <1>1, <1>2, <1>3, <1>4, <1>5, <1>6, <1>7 DEF LockNext

(* The installer holds the lock of the file it is about to move. *)
LEMMA InstallerExcludesNext == LockInv /\ [LockNext]_all_vars => InstallerExcludes'
  <1> SUFFICES ASSUME LockInv, [LockNext]_all_vars PROVE InstallerExcludes'
    OBVIOUS
  <1> USE VersionConstants, Descriptors
  <1>0. /\ InstallerExcludes /\ BusyAgrees
        /\ fd \in [Desc -> (1 .. files) \cup {Nothing}] /\ lock \in [Desc -> {"none", "shared", "exclusive"}]
        /\ at \in [Versions -> (1 .. files) \cup {Nothing}]
    BY DEF LockInv, ExclusiveHeld, LockTypeOK, LocksTyped, FilesTyped
  <1>t. inst \in [at : {"idle", "place", "stage", "discard", "record", "list", "prune", "rename"},
                  v : Versions \cup {Nothing}, keep : SUBSET Versions, look : SUBSET Versions]
    BY DEF LockInv, LockTypeOK, InstallsTyped
  <1>1. CASE ~ InstallerStep
    <2>1. CASE inst.at = "idle"
      <3>1. inst' = inst
        BY <1>1 DEF LockNext, all_vars, install_vars, ProcStep, hold_for_process, hold_open, lock_shared,
         lock_busy, lock_check, ends, CommandStep, command, choose, test, ServerStep, serve_start,
         publish_running_record, WindowStep, window_start, run_hold, shell_execs_shim,
         mark_launched, run_keeper, keeper_killed, UninstallStep, uninstall_start, lock_and_recheck,
         hold_versions, remove_records, remove_version, remove_rest
      <3>2. QED
        BY <2>1, <3>1 DEF InstallerExcludes
    <2>2. CASE inst.at # "idle"
      <3>1. busy = "installer" /\ inst.v \in Versions
        BY <1>0, <2>2 DEF BusyAgrees
      <3>2. /\ UNCHANGED <<at, inst>>
            /\ fd'[Remover(inst.v)] = fd[Remover(inst.v)] /\ lock'[Remover(inst.v)] = lock[Remover(inst.v)]
        <4>1. "installer" \notin Uninstallers
          OBVIOUS
        <4>2. QED
          BY <1>1, <3>1, <4>1, OthersLeave
      <3>3. QED
        BY <1>0, <3>2 DEF InstallerExcludes, Excluded, ThereNow
    <2>3. QED
      BY <2>1, <2>2
  <1>2. ASSUME NEW v \in Versions, install(v) PROVE InstallerExcludes'
    <2>1. inst'.at = "place"
      BY <1>2 DEF install
    <2>2. QED
      BY <2>1 DEF InstallerExcludes
  <1>3. ASSUME NEW v \in Versions, prune_lock(v) PROVE InstallerExcludes'
    <2>1. CASE CanExclude(Remover(v), at[v])
      <3>1. /\ inst'.at = "rename" /\ inst'.v = v /\ inst'.look = inst.look \ {v}
            /\ at' = at /\ fd'[Remover(v)] = at[v] /\ lock'[Remover(v)] = "exclusive"
        <4>1. /\ inst' = [inst EXCEPT !.at = "rename", !.v = v, !.look = @ \ {v}] /\ at' = at
              /\ fd' = [fd EXCEPT ![Remover(v)] = at[v]]
              /\ lock' = [lock EXCEPT ![Remover(v)] = "exclusive"]
          BY <1>3, <2>1 DEF prune_lock, files_vars
        <4>2. inst'.at = "rename" /\ inst'.v = v /\ inst'.look = inst.look \ {v}
          BY <1>t, <4>1
        <4>3. Remover(v) \in Desc
          OBVIOUS
        <4>4. fd'[Remover(v)] = at[v] /\ lock'[Remover(v)] = "exclusive"
          BY <1>0, <4>1, <4>3
        <4>5. QED
          BY <4>1, <4>2, <4>4
      <3>2. inst.look \subseteq ThereNow
        BY <1>0, <1>3 DEF InstallerExcludes, prune_lock
      <3>3. QED
        BY <3>1, <3>2 DEF InstallerExcludes, Excluded, ThereNow
    <2>2. CASE ~ CanExclude(Remover(v), at[v])
      <3>1. inst'.at = "prune" /\ inst'.look \subseteq inst.look /\ at' = at
        BY <1>t, <1>3, <2>2 DEF prune_lock, files_vars
      <3>2. inst.look \subseteq ThereNow
        BY <1>0, <1>3 DEF InstallerExcludes, prune_lock
      <3>3. QED
        BY <3>1, <3>2 DEF InstallerExcludes, ThereNow
    <2>3. QED
      BY <2>1, <2>2
  <1>4. CASE compare
    <2>1. inst.at = "place" /\ inst.v \in Versions
      BY <1>0, <1>4 DEF compare, BusyAgrees
    <2>2. CASE Intact(inst.v) /\ inst'.at = "record"
      BY <2>2 DEF InstallerExcludes
    <2>3. CASE at[inst.v] = Nothing /\ inst' = [inst EXCEPT !.at = "stage"] /\ at' = at
      <3>1. inst'.at = "stage" /\ inst'.v = inst.v
        BY <1>t, <2>3
      <3>2. QED
        BY <2>3, <3>1 DEF InstallerExcludes
    <2>4. CASE /\ fd' = [fd EXCEPT ![Remover(inst.v)] = at[inst.v]]
               /\ lock' = [lock EXCEPT ![Remover(inst.v)] = "exclusive"]
               /\ inst' = [inst EXCEPT !.at = "stage"] /\ at' = at
      <3>1. inst'.at = "stage" /\ inst'.v = inst.v
        BY <1>t, <2>4
      <3>2. fd'[Remover(inst.v)] = at[inst.v] /\ lock'[Remover(inst.v)] = "exclusive"
        BY <1>0, <2>1, <2>4
      <3>3. QED
        BY <2>4, <3>1, <3>2 DEF InstallerExcludes, Excluded
    <2>5. CASE install_ends
      BY <2>5 DEF install_ends, Idle, InstallerExcludes
    <2>6. QED
      <3>1. inst' = [inst EXCEPT !.at = "record"] => inst'.at = "record"
        BY <1>t
      <3>2. QED
        <4>1. at' = at \/ install_ends
          BY <1>4 DEF compare, files_vars
        <4>2. \/ Intact(inst.v) /\ inst' = [inst EXCEPT !.at = "record"]
              \/ at[inst.v] = Nothing /\ inst' = [inst EXCEPT !.at = "stage"]
              \/ /\ fd' = [fd EXCEPT ![Remover(inst.v)] = at[inst.v]]
                 /\ lock' = [lock EXCEPT ![Remover(inst.v)] = "exclusive"]
                 /\ inst' = [inst EXCEPT !.at = "stage"]
              \/ install_ends
          BY <1>4 DEF compare, InstallerIs, Intact
        <4>3. QED
          BY <2>2, <2>3, <2>4, <2>5, <3>1, <4>1, <4>2
  <1>5. CASE swap \/ discard \/ record_installed
    <2>1. inst'.at \in {"discard", "record", "list"}
      BY <1>t, <1>5 DEF swap, discard, record_installed, InstallerIs
    <2>2. QED
      BY <2>1 DEF InstallerExcludes
  <1>6. CASE empty_name
    <2>1. inst' = inst /\ at'[inst.v] = Nothing /\ inst.at = "stage"
      BY <1>0, <1>6 DEF empty_name, install_vars, BusyAgrees
    <2>2. QED
      BY <2>1 DEF InstallerExcludes
  <1>7. CASE prune
    <2>1. inst'.at = "prune" /\ inst'.look \subseteq ThereNow /\ at' = at
      BY <1>t, <1>7 DEF prune, files_vars, ThereNow
    <2>2. QED
      BY <2>1 DEF InstallerExcludes, ThereNow
  <1>8. CASE prune_rename
    <2>1. inst'.at = "prune" /\ inst'.look = inst.look /\ inst.at = "rename"
      BY <1>t, <1>8 DEF prune_rename, InstallerIs
    <2>2. inst.look \subseteq ThereNow \ {inst.v}
      BY <1>0, <2>1 DEF InstallerExcludes
    <2>3. ThereNow \ {inst.v} \subseteq ThereNow'
      BY <1>0, <1>8 DEF prune_rename, ThereNow
    <2>4. QED
      BY <2>1, <2>2, <2>3 DEF InstallerExcludes
  <1>9. CASE installer_ends \/ installer_killed
    BY <1>9 DEF installer_ends, installer_killed, install_ends, Idle, InstallerExcludes
  <1>10. QED
    BY <1>1, <1>2, <1>3, <1>4, <1>5, <1>6, <1>7, <1>8, <1>9 DEF InstallerStep

(* An uninstall is moved on by its own steps. *)
LEMMA PcLeft ==
  ASSUME LockInv, [LockNext]_all_vars, NEW u \in Uninstallers, ~ UninstallStep(u), ~ ProcStep(u)
  PROVE  pc'[u] = pc[u]
  <1> USE VersionConstants, Descriptors
  <1>0. /\ u \in Proc /\ pc \in [Proc -> Where] /\ ~ UninstallStep(u) /\ ~ ProcStep(u)
    BY DEF LockInv, LockTypeOK, ProcsTyped
  <1>1. ASSUME NEW c \in Commands, CommandStep(c)
        PROVE  pc' = pc \/ \E p \in Proc \ {u}, x \in Where : pc' = [pc EXCEPT ![p] = x]
    <2>1. c \in Proc \ {u} /\ \E x \in Where : pc' = [pc EXCEPT ![c] = x]
      BY <1>1, Zenon DEF CommandStep, command, choose, test, Goto, Where, Ended, Proc
    <2>2. QED
      BY <2>1
  <1>3. ASSUME NEW p \in Proc, ProcStep(p)
        PROVE  pc' = pc \/ \E q \in Proc \ {u}, x \in Where : pc' = [pc EXCEPT ![q] = x]
    <2>1. p # u /\ \E x \in Where : pc' = [pc EXCEPT ![p] = x]
      BY <1>0, <1>3, Zenon DEF ProcStep, hold_for_process, hold_open, lock_shared,
         lock_busy, lock_check, TurnedAway, ends, Goto, Where, Ended
    <2>2. QED
      BY <2>1
  <1>4. ASSUME NEW p \in Uninstallers, UninstallStep(p)
        PROVE  pc' = pc \/ \E q \in Proc \ {u}, x \in Where : pc' = [pc EXCEPT ![q] = x]
    <2>1. p # u /\ p \in Proc /\ (pc' = pc \/ \E x \in Where : pc' = [pc EXCEPT ![p] = x])
      <3>1. CASE hold_versions(p)
        <4>1. pc' = pc \/ uninstall_refuses(p)
          BY <3>1 DEF hold_versions
        <4>2. p # u /\ p \in Proc
          BY <1>0, <1>4
        <4>3. QED
          BY <4>1, <4>2 DEF uninstall_refuses, Goto, Where, Ended
      <3>2. CASE ~ hold_versions(p)
        <4>1. p # u /\ p \in Proc
          BY <1>0, <1>4
        <4>2. \/ pc' = pc
              \/ \E x \in {"open", "locking", "removing", "done", "refused"} :
                   pc' = [pc EXCEPT ![p] = x]
          BY <1>4, <3>2 DEF UninstallStep, uninstall_start, lock_and_recheck,
             uninstall_refuses, remove_records, remove_version, remove_rest, Goto
        <4>3. QED
          BY <4>1, <4>2 DEF Where, Ended
      <3>3. QED
        BY <3>1, <3>2
    <2>2. QED
      BY <2>1
  <1>5. ASSUME NEW p \in Windows, WindowStep(p)
        PROVE  pc' = pc \/ \E q \in Proc \ {u}, x \in Where : pc' = [pc EXCEPT ![q] = x]
    <2>1. p # u /\ p \in Proc /\ (pc' = pc \/ \E x \in Where : pc' = [pc EXCEPT ![p] = x])
      BY <1>5 DEF WindowStep, window_start, run_hold, shell_execs_shim, mark_launched,
         run_keeper, keeper_killed, Goto, Where, Ended
    <2>2. QED
      BY <2>1
  <1>6. ASSUME NEW p \in Servers, ServerStep(p)
        PROVE  pc' = pc \/ \E q \in Proc \ {u}, x \in Where : pc' = [pc EXCEPT ![q] = x]
    <2>1. p # u /\ p \in Proc /\ (pc' = pc \/ \E x \in Where : pc' = [pc EXCEPT ![p] = x])
      BY <1>6 DEF ServerStep, serve_start, publish_running_record, Goto, Where, Ended
    <2>2. QED
      BY <2>1
  <1>7. ASSUME InstallerStep PROVE pc' = pc
    BY <1>7 DEF InstallerStep, install, prune_lock, compare, swap, empty_name, discard,
       record_installed, prune, prune_rename, installer_ends, installer_killed
  <1>8. pc' = pc \/ \E p \in Proc \ {u}, x \in Where : pc' = [pc EXCEPT ![p] = x]
    BY <1>1, <1>3, <1>4, <1>5, <1>6, <1>7 DEF LockNext, all_vars
  <1>9. QED
    BY <1>0, <1>8

(* An uninstall holds the locks of all the versions it has found. *)
LEMMA UninstallExcludesNext ==
  ASSUME LockInv, [LockNext]_all_vars, NEW u \in Uninstallers PROVE UninstallExcludes(u)'
  <1> USE VersionConstants, Descriptors
  <1>0. /\ UninstallExcludes(u) /\ BusyAgrees /\ Placed /\ LocksExclude
        /\ fd \in [Desc -> (1 .. files) \cup {Nothing}] /\ lock \in [Desc -> {"none", "shared", "exclusive"}]
        /\ at \in [Versions -> (1 .. files) \cup {Nothing}] /\ pc \in [Proc -> Where]
    BY DEF LockInv, ExclusiveHeld, LockTypeOK, LocksTyped, FilesTyped, ProcsTyped
  <1>a. u \in Proc /\ Nothing \notin 1 .. files
    OBVIOUS
  <1>1. CASE uninstall_start(u) \/ ProcStep(u)
    <2>1. pc'[u] \notin {"locking", "removing"}
      BY <1>0, <1>1 DEF uninstall_start, ProcStep, hold_for_process, hold_open, lock_shared, lock_busy,
         lock_check, TurnedAway, ends, Goto
    <2>2. QED
      BY <2>1 DEF UninstallExcludes
  <1>2. CASE lock_and_recheck(u)
    <2>1. pc'[u] = "refused" \/ (pc'[u] = "locking" /\ plan' = ThereNow /\ at' = at)
      BY <1>0, <1>2 DEF lock_and_recheck, uninstall_refuses, Goto, files_vars
    <2>2. QED
      BY <2>1 DEF UninstallExcludes, ThereNow
  <1>3. CASE hold_versions(u)
    <2>1. PICK v \in plan :
           LET d == Removes(u, v) IN
           IF CanExclude(d, at[v]) /\ (v = version[u] => fd[d] = at[v])
           THEN /\ fd' = [fd EXCEPT ![d] = at[v]]
                /\ lock' = [lock EXCEPT ![d] = "exclusive"]
                /\ plan' = plan \ {v}
                /\ UNCHANGED <<pc, busy, calm>>
           ELSE uninstall_refuses(u)
      BY <1>3 DEF hold_versions, Removes
    <2>2. CASE uninstall_refuses(u)
      <3>1. pc'[u] = "refused"
        BY <1>0, <2>2 DEF uninstall_refuses, Goto
      <3>2. QED
        BY <3>1 DEF UninstallExcludes
    <2>3. CASE ~ uninstall_refuses(u)
      <3> DEFINE d == Removes(u, v)
      <3>1. /\ fd' = [fd EXCEPT ![d] = at[v]] /\ lock' = [lock EXCEPT ![d] = "exclusive"]
            /\ plan' = plan \ {v} /\ pc' = pc /\ at' = at /\ version' = version /\ pc[u] = "locking"
        BY <1>3, <2>1, <2>3 DEF hold_versions, files_vars
      <3>2. plan \subseteq ThereNow /\ ThereNow' = ThereNow /\ ThereNow \subseteq Versions
        BY <1>0, <3>1 DEF UninstallExcludes, ThereNow
      <3>3. d \in Desc
        BY <3>2 DEF Removes
      <3>4. Excluded(d, v)'
        <4>1. fd'[d] = at[v] /\ lock'[d] = "exclusive" /\ d' = d
          <5>1. d' = d
            BY <3>1 DEF Removes
          <5> HIDE DEF d
          <5>2. QED
            BY <1>0, <3>1, <3>3, <5>1
        <4> HIDE DEF d
        <4>2. QED
          BY <3>1, <4>1 DEF Excluded
      <3>5. ASSUME NEW x \in ThereNow \ plan PROVE Excluded(Removes(u, x), x)'
        <4>1. x # v /\ Removes(u, x) # d /\ Removes(u, x) \in Desc
          BY <3>2 DEF Removes
        <4>2. Excluded(Removes(u, x), x)
          BY <1>0, <3>1 DEF UninstallExcludes
        <4>3. Removes(u, x)' = Removes(u, x)
          BY <3>1 DEF Removes
        <4>4. QED
          BY <1>0, <3>1, <4>1, <4>2, <4>3 DEF Excluded
      <3>6. d' = d
        BY <3>1 DEF Removes
      <3>7. \A x \in ThereNow' \ plan' : Excluded(Removes(u, x), x)'
        BY <3>1, <3>2, <3>4, <3>5, <3>6
      <3>8. plan' \subseteq ThereNow'
        BY <3>1, <3>2
      <3> HIDE DEF d
      <3>9. QED
        BY <3>1, <3>7, <3>8 DEF UninstallExcludes
    <2>4. QED
      BY <2>2, <2>3
  <1>4. CASE remove_records(u)
    <2>1. /\ pc[u] = "locking" /\ pc'[u] = "removing" /\ plan = {} /\ plan' = ThereNow
          /\ UNCHANGED <<at, version, fd, lock>>
      BY <1>0, <1>4 DEF remove_records, Goto, lock_vars
    <2>2. ThereNow' = ThereNow
      BY <2>1 DEF ThereNow
    <2>3. \A v \in ThereNow : Excluded(Removes(u, v), v)
      BY <1>0, <2>1 DEF UninstallExcludes
    <2>4. \A v \in ThereNow : Excluded(Removes(u, v), v)'
      BY <2>1, <2>3 DEF Excluded, Removes
    <2>5. QED
      BY <2>1, <2>2, <2>4 DEF UninstallExcludes
  <1>5. CASE remove_version(u)
    <2>1. PICK v \in plan : at' = [at EXCEPT ![v] = Nothing] /\ plan' = plan \ {v}
      BY <1>5 DEF remove_version
    <2>2. pc[u] = "removing" /\ UNCHANGED <<pc, version, fd, lock>>
      BY <1>5 DEF remove_version, lock_vars
    <2>3. plan = ThereNow
      BY <1>0, <2>2 DEF UninstallExcludes
    <2>4. plan' = ThereNow'
      BY <1>0, <2>1, <2>3 DEF ThereNow
    <2>5. ASSUME NEW x \in plan' PROVE Excluded(Removes(u, x), x)'
      <3>1. Excluded(Removes(u, x), x)
        BY <1>0, <2>1, <2>2 DEF UninstallExcludes
      <3>2. at'[x] = at[x] /\ Removes(u, x)' = Removes(u, x)
        BY <1>0, <2>1, <2>2, <2>3 DEF ThereNow, Removes
      <3>3. QED
        BY <2>2, <3>1, <3>2 DEF Excluded
    <2>6. QED
      BY <2>2, <2>4, <2>5 DEF UninstallExcludes
  <1>6. CASE remove_rest(u)
    <2>1. pc'[u] = "done"
      BY <1>0, <1>6 DEF remove_rest, Goto
    <2>2. QED
      BY <2>1 DEF UninstallExcludes
  <1>7. CASE ~ UninstallStep(u) /\ ~ ProcStep(u)
    <2>1. CASE pc[u] \in {"locking", "removing"}
      <3>1. busy = u /\ u # "installer"
        BY <1>0, <2>1 DEF BusyAgrees
      <3>2. /\ UNCHANGED <<at, plan>> /\ pc'[u] = pc[u] /\ version'[u] = version[u]
            /\ fd'[Own(u)] = fd[Own(u)] /\ lock'[Own(u)] = lock[Own(u)]
            /\ \A v \in Versions : fd'[Remover(v)] = fd[Remover(v)] /\ lock'[Remover(v)] = lock[Remover(v)]
        BY <1>7, <3>1, OthersLeave
      <3>3. ThereNow' = ThereNow /\ ThereNow \subseteq Versions
        BY <3>2 DEF ThereNow
      <3>4. \A v \in Versions : Excluded(Removes(u, v), v) => Excluded(Removes(u, v), v)'
        BY <3>2 DEF Excluded, Removes
      <3>5. QED
        BY <1>0, <3>2, <3>3, <3>4 DEF UninstallExcludes
    <2>2. CASE pc[u] \notin {"locking", "removing"}
      <3>1. pc'[u] = pc[u]
        BY <1>7, PcLeft
      <3>2. QED
        BY <2>2, <3>1 DEF UninstallExcludes
    <2>3. QED
      BY <2>1, <2>2
  <1>8. QED
    BY <1>1, <1>2, <1>3, <1>4, <1>5, <1>6, <1>7 DEF UninstallStep

(* So a version is moved only under its exclusive lock. *)
LEMMA ExclusiveNext == LockInv /\ [LockNext]_all_vars => ExclusiveHeld'
  BY InstallerExcludesNext, UninstallExcludesNext DEF ExclusiveHeld

(* All the parts about locks are kept together. *)
LEMMA LockInvNext == LockInv /\ [LockNext]_all_vars => LockInv'
  BY VersionTypeNext, OneNameNext, LocksExcludeNext, BusyNext, PlacedNext, SharedNext, ExclusiveNext
     DEF LockInv

(* A window's own state is changed by its own steps. *)
LEMMA WindowLeft ==
  ASSUME LockInv, [LockNext]_all_vars, NEW w \in Windows, ~ ProcStep(w), ~ WindowStep(w)
  PROVE  /\ pc'[w] = pc[w] /\ version'[w] = version[w] /\ stage'[w] = stage[w]
         /\ keeper'[w] = keeper[w] /\ keeperKilled'[w] = keeperKilled[w]
         /\ fd'[Shim(w)] = fd[Shim(w)]
  <1> DEFINE Left ==
         /\ pc'[w] = pc[w] /\ version'[w] = version[w] /\ stage'[w] = stage[w]
         /\ keeper'[w] = keeper[w] /\ keeperKilled'[w] = keeperKilled[w]
         /\ fd'[Shim(w)] = fd[Shim(w)]
  <1> USE VersionConstants, Descriptors
  <1>0. /\ BusyAgrees /\ w \in Proc /\ Shim(w) \in Desc
        /\ fd \in [Desc -> (1 .. files) \cup {Nothing}]
        /\ pc \in [Proc -> Where] /\ version \in [Proc -> Versions \cup {Nothing}]
    BY DEF LockInv, LockTypeOK, LocksTyped, ProcsTyped
  <1>a. WindowsTyped
    BY DEF LockInv, LockTypeOK
  <1>b. ASSUME NEW p \in Proc, p # w,
               pc' = pc \/ \E x : pc' = [pc EXCEPT ![p] = x],
               version' = version \/ \E x : version' = [version EXCEPT ![p] = x],
               stage'[w] = stage[w], keeper'[w] = keeper[w], keeperKilled'[w] = keeperKilled[w],
               \A d \in Desc : \/ fd'[d] = fd[d]
                               \/ d = Own(p)
                               \/ p \in Windows /\ d = Shim(p)
                               \/ \E v \in Versions : d = Remover(v)
        PROVE  Left
    <2>1. Shim(w) # Own(p) /\ (p \in Windows => Shim(w) # Shim(p))
      BY <1>b DEF Shim
    <2>2. \A v \in Versions : Shim(w) # Remover(v)
      OBVIOUS
    <2>3. fd'[Shim(w)] = fd[Shim(w)]
      BY <1>0, <1>b, <2>1, <2>2
    <2>4. pc'[w] = pc[w] /\ version'[w] = version[w]
      BY <1>0, <1>b
    <2>5. QED
      BY <1>b, <2>3, <2>4
  <1>1. CASE UNCHANGED all_vars
    BY <1>1 DEF all_vars, lock_vars, window_vars
  <1>2. ASSUME NEW p \in Proc, ProcStep(p) PROVE Left
    <2>1. p # w
      BY <1>2
    <2>2. UNCHANGED <<stage, keeper, keeperKilled>> /\ version' = version /\ \E x : pc' = [pc EXCEPT ![p] = x]
      BY <1>2 DEF ProcStep, hold_for_process, hold_open, lock_shared, lock_busy, lock_check, TurnedAway,
                  ends, Goto, window_vars
    <2>3. CASE hold_for_process(p)
      <3>1. Fd(p) = Own(p) \/ (p \in Windows /\ Fd(p) = Shim(p))
        BY DEF Fd
      <3>2. \A d \in Desc \ {Fd(p)} : fd'[d] = fd[d]
        BY <1>0, <2>3 DEF hold_for_process, hold_open, lock_shared, lock_busy, lock_check, TurnedAway,
                          Close, lock_vars
      <3>3. QED
        BY <1>b, <2>1, <2>2, <3>1, <3>2
    <2>4. CASE ends(p)
      <3>1. \A d \in Desc : \/ fd'[d] = fd[d]
                            \/ d = Own(p)
                            \/ p \in Windows /\ d = Shim(p)
                            \/ \E v \in Versions : d = Remover(v)
        BY <2>4 DEF ends, Close
      <3>2. QED
        BY <1>b, <2>1, <2>2, <3>1
    <2>5. QED
      BY <1>2, <2>3, <2>4 DEF ProcStep
  <1>3. ASSUME NEW c \in Commands, CommandStep(c) PROVE Left
    <2>1. c \in Proc /\ c # w /\ UNCHANGED <<stage, keeper, keeperKilled, fd>>
      BY <1>3 DEF CommandStep, command, choose, test, window_vars, lock_vars
    <2>2. /\ pc' = pc \/ \E x : pc' = [pc EXCEPT ![c] = x]
          /\ version' = version \/ \E x : version' = [version EXCEPT ![c] = x]
      BY <1>3, Zenon DEF CommandStep, command, choose, test, Goto
    <2>3. QED
      BY <1>b, <2>1, <2>2
  <1>4. ASSUME NEW s \in Servers, ServerStep(s) PROVE Left
    <2>1. /\ s \in Proc /\ s # w /\ UNCHANGED <<stage, keeper, keeperKilled, fd>>
          /\ pc' = pc \/ \E x : pc' = [pc EXCEPT ![s] = x]
          /\ version' = version \/ \E x : version' = [version EXCEPT ![s] = x]
      BY <1>4 DEF ServerStep, serve_start, publish_running_record, Goto, window_vars, lock_vars
    <2>2. QED
      BY <1>b, <2>1
  <1>5. ASSUME NEW p \in Windows, WindowStep(p) PROVE Left
    <2>1. /\ p \in Proc /\ p # w
          /\ pc' = pc \/ \E x : pc' = [pc EXCEPT ![p] = x]
          /\ version' = version \/ \E x : version' = [version EXCEPT ![p] = x]
      BY <1>5 DEF WindowStep, window_start, run_hold, shell_execs_shim, mark_launched,
         run_keeper, keeper_killed, Goto
    <2>2. \A d \in Desc \ {Own(p)} : fd'[d] = fd[d]
      BY <1>5 DEF WindowStep, window_start, run_hold, shell_execs_shim, mark_launched,
         run_keeper, keeper_killed, lock_vars, Close
    <2>3. stage'[w] = stage[w] /\ keeper'[w] = keeper[w] /\ keeperKilled'[w] = keeperKilled[w]
      BY <1>5, <1>a, <2>1 DEF WindowsTyped, WindowStep, window_start, run_hold, shell_execs_shim,
         mark_launched, run_keeper, keeper_killed, window_vars
    <2>4. QED
      BY <1>b, <2>1, <2>2, <2>3
  <1>6. ASSUME NEW x \in Uninstallers, UninstallStep(x) PROVE Left
    <2>1. x # w /\ x \in Proc
      OBVIOUS
    <2>2. UNCHANGED <<stage, keeper, keeperKilled>>
      BY <1>6 DEF UninstallStep, uninstall_start, lock_and_recheck, hold_versions, remove_records,
         remove_version, remove_rest, window_vars
    <2>3. /\ pc' = pc \/ \E y : pc' = [pc EXCEPT ![x] = y]
          /\ version' = version \/ \E y : version' = [version EXCEPT ![x] = y]
      BY <1>6 DEF UninstallStep, uninstall_start, lock_and_recheck, hold_versions, uninstall_refuses,
           remove_records, remove_version, remove_rest, Goto
    <2>4. \A d \in Desc : \/ fd'[d] = fd[d]
                          \/ d = Own(x)
                          \/ \E v \in Versions : d = Remover(v)
      <3>1. CASE hold_versions(x)
        <4>1. \/ fd' = fd
              \/ \E S : Close(S) /\ S \subseteq {Own(x)} \cup {Remover(v) : v \in Versions}
              \/ \E d \in {Own(x)} \cup {Remover(v) : v \in Versions} : \E y : fd' = [fd EXCEPT ![d] = y]
          <5>1. plan \subseteq Versions
            BY <3>1, <2>1 DEF LockInv, LockTypeOK, InstallsTyped
          <5>2. QED
            BY <3>1, <5>1 DEF hold_versions, uninstall_refuses, lock_vars
        <4>2. QED
          BY <1>0, <4>1 DEF Close
      <3>2. CASE ~ hold_versions(x)
        BY <1>0, <1>6, <3>2 DEF UninstallStep, uninstall_start, lock_and_recheck, uninstall_refuses,
           remove_records, remove_version, remove_rest, lock_vars, Close
      <3>3. QED
        BY <3>1, <3>2
    <2>5. QED
      BY <1>b, <2>1, <2>2, <2>3, <2>4
  <1>7. CASE InstallerStep
    <2>1. UNCHANGED <<pc, version, stage, keeper, keeperKilled>>
      BY <1>7 DEF InstallerStep, install, prune_lock, compare, swap, empty_name, discard,
         record_installed, prune, prune_rename, installer_ends, installer_killed, window_vars
    <2>2. inst.at # "idle" => inst.v \in Versions
      BY <1>0 DEF BusyAgrees
    <2>3. \/ fd' = fd
          \/ \E S : Close(S) /\ S \subseteq {Remover(v) : v \in Versions}
          \/ \E v \in Versions : fd' = [fd EXCEPT ![Remover(v)] = at[v]]
      <3>1. CASE compare
        BY <2>2, <3>1 DEF compare, install_ends, lock_vars
      <3>2. CASE discard \/ prune_rename
        BY <2>2, <3>2 DEF discard, prune_rename
      <3>3. CASE ~ compare /\ ~ discard /\ ~ prune_rename
        BY <1>7, <3>3 DEF InstallerStep, install, prune_lock, swap, empty_name, lock_vars,
           record_installed, prune, installer_ends, installer_killed, install_ends
      <3>4. QED
        BY <3>1, <3>2, <3>3
    <2>4. \A v \in Versions : Shim(w) # Remover(v)
      OBVIOUS
    <2>5. fd'[Shim(w)] = fd[Shim(w)]
      BY <1>0, <2>3, <2>4 DEF Close
    <2>6. QED
      BY <2>1, <2>5
  <1>8. QED
    BY <1>1, <1>2, <1>3, <1>4, <1>5, <1>6, <1>7 DEF LockNext

(* While the keeper is there, the shim's own lock never fails. *)
LEMMA KeeperNext == LockInv /\ KeeperStays /\ [LockNext]_all_vars => KeeperStays'
  <1> SUFFICES ASSUME LockInv, KeeperStays, [LockNext]_all_vars, NEW w \in Windows PROVE KeeperOf(w)'
    BY DEF KeeperStays
  <1> USE VersionConstants, Descriptors
  <1>0. /\ KeeperOf(w) /\ Placed /\ LocksExclude /\ KeptFor(w)
        /\ w \in Proc /\ w \notin Commands /\ Shim(w) \in Desc /\ Own(w) \in Desc /\ Own(w) # Shim(w)
        /\ fd \in [Desc -> (1 .. files) \cup {Nothing}] /\ lock \in [Desc -> {"none", "shared", "exclusive"}]
        /\ pc \in [Proc -> Where] /\ version \in [Proc -> Versions \cup {Nothing}]
        /\ stage \in [Windows -> {"hold", "shim"}] /\ keeper \in [Windows -> BOOLEAN]
        /\ keeperKilled \in [Windows -> BOOLEAN]
    BY DEF LockInv, KeeperStays, SharedHeld, LockTypeOK, LocksTyped, ProcsTyped, WindowsTyped
  <1>a. keeper[w] => /\ lock[Own(w)] = "shared" /\ fd[Own(w)] = at[version[w]] /\ fd[Own(w)] # Nothing
                     /\ version[w] \in Versions
    BY <1>0 DEF KeptFor, LocksExclude, Placed
  <1>b. keeper[w] => at'[version[w]] = at[version[w]]
    BY <1>a, AtGuarded
  <1>1. CASE ~ ProcStep(w) /\ ~ WindowStep(w)
    <2>1. /\ pc'[w] = pc[w] /\ version'[w] = version[w] /\ stage'[w] = stage[w]
          /\ keeper'[w] = keeper[w] /\ keeperKilled'[w] = keeperKilled[w]
          /\ fd'[Shim(w)] = fd[Shim(w)]
      BY <1>1, WindowLeft
    <2>2. QED
      BY <1>0, <1>b, <2>1 DEF KeeperOf
  <1>2. CASE hold_for_process(w)
    <2>1. UNCHANGED <<at, version, stage, keeper, keeperKilled>> /\ pc[w] \in {"open", "lock", "check"}
      BY <1>2 DEF hold_for_process, hold_open, lock_shared, lock_busy, lock_check, files_vars, window_vars
    <2>2. CASE keeperKilled[w]
      BY <2>1, <2>2 DEF KeeperOf
    <2>3. CASE stage[w] = "hold"
      <3>1. pc'[w] # "shell"
        BY <1>0, <1>2 DEF hold_for_process, hold_open, lock_shared, lock_busy, lock_check, TurnedAway, Goto
      <3>2. QED
        BY <2>1, <2>3, <3>1 DEF KeeperOf
    <2>4. CASE ~ keeperKilled[w] /\ stage[w] = "shim"
      <3>1. keeper[w] /\ Fd(w) = Shim(w)
        BY <1>0, <2>1, <2>4 DEF KeeperOf, Fd
      <3>2. pc[w] \in {"lock", "check"} => fd[Shim(w)] = at[version[w]]
        BY <1>0, <2>4 DEF KeeperOf
      <3>3. CASE hold_open(w)
        <4>1. pc'[w] = "lock" /\ fd'[Shim(w)] = at[version[w]]
          BY <1>0, <1>a, <3>1, <3>3 DEF hold_open, Goto
        <4>2. QED
          BY <2>1, <3>1, <4>1 DEF KeeperOf
      <3>4. CASE lock_shared(w)
        <4>1. pc[w] = "lock" /\ pc'[w] = "check" /\ fd' = fd
          BY <1>0, <3>4 DEF lock_shared, Goto
        <4>2. QED
          BY <2>1, <3>1, <3>2, <4>1 DEF KeeperOf
      <3>5. CASE lock_busy(w)
        <4>1. pc[w] = "lock" /\ ~ CanShare(Shim(w), fd[Shim(w)])
          BY <1>0, <3>1, <3>5 DEF lock_busy
        <4>2. PICK other \in Desc \ {Shim(w)} : fd[other] = fd[Shim(w)] /\ lock[other] = "exclusive"
          BY <4>1 DEF CanShare
        <4>3. other # Own(w) /\ fd[other] = fd[Own(w)]
          BY <1>a, <3>1, <3>2, <4>1, <4>2
        <4>4. lock[Own(w)] = "none"
          BY <1>0, <4>2, <4>3 DEF LocksExclude
        <4>5. QED
          BY <1>a, <3>1, <4>4
      <3>6. CASE lock_check(w)
        <4>1. pc'[w] = "running"
          BY <1>0, <3>1, <3>2, <3>6 DEF lock_check, Goto
        <4>2. QED
          BY <2>1, <3>1, <4>1 DEF KeeperOf
      <3>7. QED
        BY <1>2, <3>3, <3>4, <3>5, <3>6 DEF hold_for_process
    <2>5. QED
      BY <1>0, <2>2, <2>3, <2>4
  <1>3. CASE ends(w)
    <2>1. pc'[w] = "done"
      BY <1>0, <1>3 DEF ends, Goto
    <2>2. QED
      BY <2>1 DEF KeeperOf
  <1>4. ASSUME NEW s \in Servers, window_start(w, s) PROVE KeeperOf(w)'
    <2>1. pc[w] = "idle" /\ pc'[w] = "open" /\ stage' = stage
      BY <1>0, <1>4 DEF window_start, Goto, window_vars
    <2>2. stage[w] = "hold"
      BY <1>0, <2>1 DEF Placed
    <2>3. QED
      BY <2>1, <2>2 DEF KeeperOf
  <1>5. CASE run_hold(w)
    <2>1. /\ stage'[w] = "hold"
          /\ pc'[w] = "refused" \/ keeper'[w]
      BY <1>0, <1>5 DEF run_hold, Goto
    <2>2. QED
      BY <2>1 DEF KeeperOf
  <1>6. CASE shell_execs_shim(w)
    <2>1. pc[w] = "shell" /\ pc'[w] = "open" /\ keeper' = keeper /\ keeperKilled' = keeperKilled
      BY <1>0, <1>6 DEF shell_execs_shim, Goto
    <2>2. QED
      BY <1>0, <2>1 DEF KeeperOf
  <1>7. CASE mark_launched(w)
    <2>1. pc'[w] = "launching"
      BY <1>0, <1>7 DEF mark_launched, Goto
    <2>2. QED
      BY <2>1 DEF KeeperOf
  <1>8. CASE run_keeper(w)
    <2>1. /\ keeperKilled' = keeperKilled /\ pc' = pc /\ stage' = stage
          /\ pc[w] \in {"launching"} \cup Ended
      BY <1>0, <1>8 DEF run_keeper, Placed
    <2>2. QED
      BY <1>0, <2>1 DEF KeeperOf, Ended
  <1>9. CASE keeper_killed(w)
    <2>1. keeperKilled'[w]
      BY <1>0, <1>9 DEF keeper_killed
    <2>2. QED
      BY <2>1 DEF KeeperOf
  <1>10. QED
    BY <1>1, <1>2, <1>3, <1>4, <1>5, <1>6, <1>7, <1>8, <1>9 DEF ProcStep, WindowStep

(* What the installer keeps stays as it is until an uninstall removes. *)
LEMMA InstalledNext == LockInv /\ InstalledKept /\ [LockNext]_all_vars => InstalledKept'
  <1> SUFFICES ASSUME LockInv, InstalledKept, [LockNext]_all_vars PROVE InstalledKept'
    OBVIOUS
  <1> USE VersionConstants, Descriptors
  <1>0. /\ InstalledIsThere /\ InstallerKeeps /\ BusyAgrees /\ Placed
        /\ files \in Nat /\ at \in [Versions -> (1 .. files) \cup {Nothing}] /\ damaged \subseteq 1 .. files
        /\ installed \in Versions \cup {Nothing} /\ pc \in [Proc -> Where]
        /\ damaged' = damaged
    BY AtChanges DEF InstalledKept, LockInv, LockTypeOK, FilesTyped, ProcsTyped
  <1>t. inst \in [at : {"idle", "place", "stage", "discard", "record", "list", "prune", "rename"},
                  v : Versions \cup {Nothing}, keep : SUBSET Versions, look : SUBSET Versions]
    BY DEF LockInv, LockTypeOK, InstallsTyped
  <1>a. inst.at # "idle" => busy = "installer" /\ inst.v \in Versions
    BY <1>0 DEF BusyAgrees
  <1>b. \A u \in Uninstallers : pc[u] \in {"removing", "done"} => pc'[u] \in {"removing", "done"}
    <2>1. SUFFICES ASSUME NEW u \in Uninstallers, pc[u] \in {"removing", "done"}
                   PROVE pc'[u] \in {"removing", "done"}
      OBVIOUS
    <2>2. u \in Proc
      OBVIOUS
    <2>3. CASE UninstallStep(u)
      BY <1>0, <2>1, <2>2, <2>3 DEF UninstallStep, uninstall_start, lock_and_recheck, hold_versions,
         remove_records, remove_version, remove_rest, Goto
    <2>4. CASE ProcStep(u)
      BY <1>0, <2>1, <2>2, <2>4 DEF ProcStep, hold_for_process, hold_open, lock_shared, lock_busy,
         lock_check, ends, Goto, Ended
    <2>5. CASE ~ UninstallStep(u) /\ ~ ProcStep(u)
      <3>1. pc'[u] = pc[u]
        BY <2>2, <2>5, PcLeft
      <3>2. QED
        BY <2>1, <3>1
    <2>6. QED
      BY <2>3, <2>4, <2>5
  <1>c. (\A u \in Uninstallers : pc'[u] \notin {"removing", "done"}) =>
            installed # Nothing /\ installed \in Versions /\ Intact(installed)
    BY <1>0, <1>b DEF InstalledIsThere
  <1>1. InstalledIsThere'
    <2>1. SUFFICES ASSUME \A u \in Uninstallers : pc'[u] \notin {"removing", "done"}
                   PROVE  /\ installed' # Nothing
                          /\ at'[installed'] # Nothing /\ at'[installed'] \notin damaged'
      BY DEF InstalledIsThere, Intact
    <2>2. installed # Nothing /\ installed \in Versions /\ Intact(installed)
      BY <1>c, <2>1
    <2>3. CASE record_installed
      <3>1. installed' = inst.v /\ Intact(inst.v) /\ at' = at /\ inst.v \in Versions
        BY <1>0, <1>a, <2>3 DEF record_installed, InstallerKeeps
      <3>2. QED
        BY <1>0, <3>1 DEF Intact
    <2>4. CASE ~ record_installed
      <3>1. installed' = installed
        <4>1. \A u \in Uninstallers : ~ remove_rest(u)
          BY <1>0, <2>1 DEF remove_rest, Goto
        <4>2. QED
          BY <2>4, <4>1 DEF LockNext, all_vars, files_vars, ProcStep, hold_for_process, hold_open, lock_shared,
         lock_busy, lock_check, ends, CommandStep, command, choose, test, ServerStep, serve_start,
         publish_running_record, WindowStep, window_start, run_hold, shell_execs_shim,
         mark_launched, run_keeper, keeper_killed, InstallerStep, install, prune_lock, compare,
         install_ends, swap, empty_name, discard, prune, prune_rename,
         installer_ends, installer_killed, UninstallStep, uninstall_start, lock_and_recheck,
         hold_versions, remove_records, remove_version
      <3>2. at'[installed] = at[installed]
        <4>1. CASE swap \/ empty_name
          <5>1. inst.at = "stage"
            BY <4>1 DEF swap, empty_name
          <5>2. installed # inst.v
            BY <1>0, <2>2, <5>1 DEF InstallerKeeps
          <5>3. QED
            BY <1>0, <2>2, <4>1, <5>2 DEF swap, empty_name
        <4>2. CASE prune_rename
          <5>1. inst.at = "rename"
            BY <4>2 DEF prune_rename
          <5>2. installed # inst.v
            BY <1>0, <2>2, <5>1 DEF InstallerKeeps
          <5>3. QED
            BY <1>0, <2>2, <4>2, <5>2 DEF prune_rename
        <4>3. ASSUME NEW u \in Uninstallers, remove_version(u) PROVE FALSE
          BY <2>1, <4>3 DEF remove_version
        <4>4. QED
          BY <4>1, <4>2, <4>3, AtChanges DEF AtChange
      <3>3. QED
        BY <1>0, <2>2, <3>1, <3>2 DEF Intact
    <2>5. QED
      BY <2>3, <2>4
  <1>2. InstallerKeeps'
    <2>1. CASE ~ InstallerStep
      <3>1. CASE inst.at = "idle"
        <4>1. inst' = inst
          BY <2>1 DEF LockNext, all_vars, install_vars, ProcStep, hold_for_process, hold_open, lock_shared,
         lock_busy, lock_check, ends, CommandStep, command, choose, test, ServerStep, serve_start,
         publish_running_record, WindowStep, window_start, run_hold, shell_execs_shim,
         mark_launched, run_keeper, keeper_killed, UninstallStep, uninstall_start, lock_and_recheck,
         hold_versions, remove_records, remove_version, remove_rest
        <4>2. QED
          BY <3>1, <4>1 DEF InstallerKeeps
      <3>2. CASE inst.at # "idle"
        <4>1. UNCHANGED <<at, inst>>
          <5>1. "installer" \notin Uninstallers
            OBVIOUS
          <5>2. QED
            BY <1>a, <2>1, <3>2, <5>1, OthersLeave
        <4>2. installed' = installed
          <5>1. \A u \in Uninstallers : pc[u] # "removing"
            BY <1>0, <1>a, <3>2 DEF BusyAgrees
          <5>2. QED
            BY <2>1, <5>1 DEF LockNext, all_vars, files_vars, ProcStep, hold_for_process, hold_open, lock_shared,
         lock_busy, lock_check, ends, CommandStep, command, choose, test, ServerStep, serve_start,
         publish_running_record, WindowStep, window_start, run_hold, shell_execs_shim,
         mark_launched, run_keeper, keeper_killed, UninstallStep, uninstall_start, lock_and_recheck,
         hold_versions, remove_records, remove_version, remove_rest
        <4>3. QED
          BY <1>0, <4>1, <4>2 DEF InstallerKeeps, Intact
      <3>3. QED
        BY <3>1, <3>2
    <2>2. ASSUME NEW v \in Versions, install(v) PROVE InstallerKeeps'
      <3>1. /\ inst'.at = "place" /\ inst'.v = v /\ inst'.keep = {v} \cup ({installed} \ {Nothing})
            /\ installed' = installed
        BY <2>2 DEF install, files_vars
      <3>2. QED
        BY <3>1 DEF InstallerKeeps
    <2>3. ASSUME NEW v \in Versions, prune_lock(v) PROVE InstallerKeeps'
      <3>1. /\ inst.at = "prune" /\ v \in inst.look /\ installed' = installed
            /\ \/ inst' = [inst EXCEPT !.at = "rename", !.v = v, !.look = @ \ {v}]
               \/ inst' = [inst EXCEPT !.look = @ \ {v}]
        BY <2>3 DEF prune_lock, files_vars
      <3>2. /\ inst'.at \in {"prune", "rename"} /\ inst'.keep = inst.keep /\ inst'.look \subseteq inst.look
            /\ inst'.at = "rename" => inst'.v = v
        BY <1>t, <3>1
      <3>3. QED
        BY <1>0, <3>1, <3>2 DEF InstallerKeeps
    <2>4. CASE compare
      <3>1. inst.at = "place"
        BY <2>4 DEF compare
      <3>2. \/ install_ends
            \/ /\ at' = at /\ installed' = installed
               /\ \/ Intact(inst.v) /\ inst' = [inst EXCEPT !.at = "record"]
                  \/ ~ Intact(inst.v) /\ inst' = [inst EXCEPT !.at = "stage"]
        BY <2>4 DEF compare, InstallerIs, Intact, files_vars
      <3>3. CASE install_ends
        BY <3>3 DEF install_ends, Idle, InstallerKeeps
      <3>4. CASE /\ at' = at /\ installed' = installed
                 /\ \/ Intact(inst.v) /\ inst' = [inst EXCEPT !.at = "record"]
                    \/ ~ Intact(inst.v) /\ inst' = [inst EXCEPT !.at = "stage"]
        <4>1. /\ inst'.v = inst.v /\ inst'.keep = inst.keep
              /\ \/ Intact(inst.v) /\ inst'.at = "record"
                 \/ ~ Intact(inst.v) /\ inst'.at = "stage"
          BY <1>t, <3>4
        <4>2. QED
          BY <1>0, <3>1, <3>4, <4>1 DEF InstallerKeeps, Intact
      <3>5. QED
        BY <3>2, <3>3, <3>4
    <2>5. CASE swap
      <3>1. /\ inst'.at = "discard" /\ inst'.v = inst.v /\ inst'.keep = inst.keep
            /\ installed' = installed /\ inst.at = "stage" /\ inst.v \in Versions
            /\ at'[inst.v] = files + 1
        BY <1>0, <1>a, <1>t, <2>5 DEF swap, InstallerIs
      <3>2. files + 1 \notin damaged /\ files + 1 # Nothing
        <4>1. files + 1 \in Nat /\ files + 1 \notin 1 .. files
          BY <1>0
        <4>2. QED
          BY <1>0, <4>1
      <3>3. QED
        BY <1>0, <3>1, <3>2 DEF InstallerKeeps, Intact
    <2>6. CASE empty_name
      <3>1. /\ inst' = inst /\ installed' = installed /\ inst.at = "stage" /\ inst.v \in Versions
            /\ at'[inst.v] = Nothing
        BY <1>0, <1>a, <2>6 DEF empty_name, install_vars
      <3>2. QED
        BY <1>0, <3>1 DEF InstallerKeeps, Intact
    <2>7. CASE discard
      <3>1. /\ inst'.at = "record" /\ inst'.v = inst.v /\ inst'.keep = inst.keep
            /\ installed' = installed /\ at' = at /\ inst.at = "discard"
        BY <1>t, <2>7 DEF discard, InstallerIs, files_vars
      <3>2. QED
        BY <1>0, <3>1 DEF InstallerKeeps, Intact
    <2>8. CASE record_installed
      <3>1. /\ inst'.at = "list" /\ inst'.v = inst.v /\ inst'.keep = inst.keep
            /\ installed' = inst.v /\ inst.at = "record"
        BY <1>t, <2>8 DEF record_installed, InstallerIs
      <3>2. QED
        BY <1>0, <3>1 DEF InstallerKeeps
    <2>9. CASE prune
      <3>1. /\ inst'.at = "prune" /\ inst'.keep = inst.keep /\ inst'.look \cap inst.keep = {}
            /\ installed' = installed /\ inst.at = "list"
        BY <1>t, <2>9 DEF prune, files_vars
      <3>2. QED
        BY <1>0, <3>1 DEF InstallerKeeps
    <2>10. CASE prune_rename
      <3>1. /\ inst'.at = "prune" /\ inst'.keep = inst.keep /\ inst'.look = inst.look
            /\ installed' = installed /\ inst.at = "rename"
        BY <1>t, <2>10 DEF prune_rename, InstallerIs
      <3>2. QED
        BY <1>0, <3>1 DEF InstallerKeeps
    <2>11. CASE installer_ends \/ installer_killed
      BY <2>11 DEF installer_ends, installer_killed, install_ends, Idle, InstallerKeeps
    <2>12. QED
      BY <2>1, <2>2, <2>3, <2>4, <2>5, <2>6, <2>7, <2>8, <2>9, <2>10, <2>11 DEF InstallerStep
  <1>3. QED
    BY <1>1, <1>2 DEF InstalledKept

(* The files there at the start can be numbered apart. *)
LEMMA Numbered ==
  ASSUME NEW S \in SUBSET Versions
  PROVE  LET f == CHOOSE g \in [S -> 1 .. Cardinality(S)] : \A v, w \in S : v # w => g[v] # g[w]
         IN  /\ Cardinality(S) \in Nat
             /\ f \in [S -> 1 .. Cardinality(S)]
             /\ \A v, w \in S : v # w => f[v] # f[w]
  <1> DEFINE n == Cardinality(S)
  <1>1. n \in Nat /\ ExistsBijection(1 .. n, S)
    BY VersionConstants, FS_Subset, FS_CardinalityType
  <1> HIDE DEF n
  <1>2. PICK b \in [1 .. n -> S] : \A s \in S : \E i \in 1 .. n : b[i] = s
    BY <1>1 DEF ExistsBijection, Bijection, Surjection
  <1> DEFINE h == [v \in S |-> CHOOSE i \in 1 .. n : b[i] = v]
  <1>3. \A v \in S : h[v] \in 1 .. n /\ b[h[v]] = v
    BY <1>2
  <1>4. h \in [S -> 1 .. n]
    BY <1>3
  <1> HIDE DEF h
  <1>5. \A v, w \in S : v # w => h[v] # h[w]
    BY <1>3
  <1>6. \E g \in [S -> 1 .. n] : \A v, w \in S : v # w => g[v] # g[w]
    BY <1>4, <1>5
  <1> USE DEF n
  <1>7. QED
    BY <1>1, <1>6

(* Nothing is held or moved at the start. *)
LEMMA VersionInit == LockInit => FilesInv
  <1> SUFFICES ASSUME LockInit PROVE FilesInv
    OBVIOUS
  <1> USE VersionConstants, Descriptors
  <1>1. PICK bad \in SUBSET (Versions \ Present) :
           LET there == Present \cup bad
               f == CHOOSE g \in [there -> 1 .. Cardinality(there)] :
                        \A v, w \in there : v # w => g[v] # g[w]
           IN /\ at = [v \in Versions |-> IF v \in there THEN f[v] ELSE Nothing]
              /\ damaged = {f[v] : v \in bad}
              /\ files = Cardinality(there)
    BY DEF LockInit
  <1> DEFINE there == Present \cup bad
             f == CHOOSE g \in [there -> 1 .. Cardinality(there)] : \A v, w \in there : v # w => g[v] # g[w]
  <1>2. /\ files \in Nat /\ f \in [there -> 1 .. files]
        /\ \A v, w \in there : v # w => f[v] # f[w]
    <2>1. there \in SUBSET Versions
      OBVIOUS
    <2>2. files = Cardinality(there)
      BY <1>1
    <2> HIDE DEF there
    <2>3. /\ Cardinality(there) \in Nat /\ f \in [there -> 1 .. Cardinality(there)]
          /\ \A v, w \in there : v # w => f[v] # f[w]
      BY <2>1, Numbered
    <2>4. QED
      BY <2>2, <2>3
  <1>3. /\ at = [v \in Versions |-> IF v \in there THEN f[v] ELSE Nothing]
        /\ damaged = {f[v] : v \in bad} /\ there \subseteq Versions
    BY <1>1
  <1>4. bad \subseteq there /\ Present \subseteq there /\ bad \cap Present = {}
    OBVIOUS
  <1> HIDE DEF f, there
  <1>5. FilesTyped
    <2>1. at \in [Versions -> (1 .. files) \cup {Nothing}] /\ damaged \subseteq 1 .. files
      BY <1>2, <1>3, <1>4
    <2>2. QED
      BY <1>2, <2>1 DEF FilesTyped, LockInit
  <1>6. LocksTyped
    BY DEF LockInit, LocksTyped
  <1>7. ProcsTyped /\ WindowsTyped
    BY DEF LockInit, ProcsTyped, WindowsTyped, Where
  <1>8. InstallsTyped
    BY DEF LockInit, InstallsTyped, Idle
  <1>9. OneName
    BY <1>2, <1>3 DEF OneName
  <1>10. LocksExclude
    BY DEF LockInit, LocksExclude
  <1>11. BusyAgrees /\ Placed
    <2>1. \A p \in Proc : pc[p] = "idle" /\ p # Nothing
      BY DEF LockInit, Proc
    <2>2. \A w \in Windows : ~ keeper[w] /\ ~ marked[w] /\ stage[w] = "hold"
      BY DEF LockInit
    <2>3. busy = Nothing /\ inst.at = "idle"
      BY DEF LockInit, Idle
    <2>4. BusyAgrees
      BY <2>1, <2>3 DEF BusyAgrees
    <2>5. QED
      BY <2>1, <2>2, <2>4 DEF Placed
  <1>12. SharedHeld
    <2>1. \A p \in Proc : lock[Fd(p)] = "none" /\ pc[p] = "idle"
      BY DEF LockInit
    <2>2. \A w \in Windows : ~ keeper[w] /\ lock[Shim(w)] = "none"
      BY DEF LockInit
    <2>3. QED
      BY <2>1, <2>2 DEF SharedHeld, HeldBy, KeptFor, Running
  <1>13. ExclusiveHeld
    BY DEF LockInit, ExclusiveHeld, InstallerExcludes, UninstallExcludes, Idle
  <1>14. InstalledKept
    <2>1. f[Installed0] \in 1 .. files /\ \A v \in bad : f[v] # f[Installed0]
      BY <1>2, <1>4
    <2>2. at[Installed0] = f[Installed0] /\ Installed0 # Nothing
      BY <1>3, <1>4
    <2>3. at[Installed0] # Nothing /\ at[Installed0] \notin damaged
      BY <1>3, <2>1, <2>2
    <2>4. installed = Installed0 /\ inst.at = "idle"
      BY DEF LockInit, Idle
    <2>5. QED
      BY <2>2, <2>3, <2>4 DEF InstalledKept, InstalledIsThere, InstallerKeeps, Intact
  <1>15. KeeperStays
    BY DEF LockInit, KeeperStays, KeeperOf
  <1>16. QED
    BY <1>5, <1>6, <1>7, <1>8, <1>9, <1>10, <1>11, <1>12, <1>13, <1>14, <1>15 DEF FilesInv, LockInv, LockTypeOK

-----------------------------------------------------------------------------
(* The parts together are an inductive invariant of every run of the model. *)
THEOREM VersionInv == LockSpec => []FilesInv
  <1>1. LockInit => FilesInv
    BY VersionInit
  <1>2. FilesInv /\ [LockNext]_all_vars => FilesInv'
    BY LockInvNext, InstalledNext, KeeperNext DEF FilesInv
  <1>3. QED
    BY <1>1, <1>2, PTL DEF LockSpec

(* Files are numbered as they are made, and every process is at one place of *)
(* its program.                                                              *)
THEOREM VersionTyped == LockSpec => []LockTypeOK
  <1>1. FilesInv => LockTypeOK
    BY DEF FilesInv, LockInv
  <1>2. QED
    BY <1>1, VersionInv, PTL

(* flock, and the second look at the path: whoever runs a version has the    *)
(* file that is at its path, and a window's keeper keeps it there.           *)
THEOREM VersionHeldStays == LockSpec => []HeldVersionStays
  <1>1. FilesInv => HeldVersionStays
    <2> SUFFICES ASSUME FilesInv PROVE HeldVersionStays
      OBVIOUS
    <2>1. SharedHeld /\ LocksExclude
      BY DEF FilesInv, LockInv
    <2>2. \A p \in Proc \ Uninstallers : pc[p] \in {"running", "launching"} =>
             at[version[p]] = fd[Fd(p)] /\ fd[Fd(p)] # Nothing
      BY <2>1, Descriptors DEF SharedHeld, HeldBy, LocksExclude, Running
    <2>3. \A w \in Windows : keeper[w] => at[version[w]] = fd[Own(w)] /\ fd[Own(w)] # Nothing
      BY <2>1, Descriptors DEF SharedHeld, KeptFor, LocksExclude
    <2>4. QED
      BY <2>2, <2>3 DEF HeldVersionStays
  <1>2. QED
    BY <1>1, VersionInv, PTL

(* An uninstall that removes holds every version that is there: nothing runs *)
(* one, nothing can start one, and no window keeps one.                      *)
THEOREM VersionUninstall == LockSpec => []UninstallMeansUnused
  <1>1. FilesInv => UninstallMeansUnused
    <2> SUFFICES ASSUME FilesInv, NEW u \in Uninstallers, pc[u] = "removing"
                 PROVE  /\ \A p \in Proc \ {u} : pc[p] \notin {"running", "launching", "locking", "removing"}
                        /\ \A w \in Windows : ~ keeper[w]
      BY DEF UninstallMeansUnused
    <2> USE VersionConstants, Descriptors
    <2>1. SharedHeld /\ LocksExclude /\ Placed /\ UninstallExcludes(u) /\ BusyAgrees /\ LocksTyped
      BY DEF FilesInv, LockInv, ExclusiveHeld, LockTypeOK
    <2>2. plan = ThereNow /\ \A v \in ThereNow : Excluded(Removes(u, v), v)
      BY <2>1 DEF UninstallExcludes
    <2>3. \A d \in Desc, v \in ThereNow : fd[d] = at[v] /\ lock[d] = "shared" => FALSE
      <3>1. SUFFICES ASSUME NEW d \in Desc, NEW v \in ThereNow, fd[d] = at[v], lock[d] = "shared" PROVE FALSE
        OBVIOUS
      <3>2. Removes(u, v) \in Desc /\ Excluded(Removes(u, v), v)
        BY <2>2 DEF Removes, ThereNow
      <3>3. QED
        BY <2>1, <3>1, <3>2 DEF Excluded, LocksExclude
    <2>4. ASSUME NEW p \in Proc \ {u}, pc[p] \in Running PROVE FALSE
      <3>1. lock[Fd(p)] = "shared" /\ fd[Fd(p)] = at[version[p]] /\ version[p] \in Versions
        BY <2>1, <2>4 DEF SharedHeld, HeldBy, Placed, Running, Ended
      <3>2. Fd(p) \in Desc /\ fd[Fd(p)] # Nothing
        BY <2>1, <3>1 DEF LocksExclude
      <3>3. QED
        BY <2>3, <3>1, <3>2 DEF ThereNow
    <2>5. ASSUME NEW p \in Proc \ {u}, pc[p] \in {"locking", "removing"} PROVE FALSE
      BY <2>1, <2>5 DEF BusyAgrees
    <2>6. ASSUME NEW w \in Windows, keeper[w] PROVE FALSE
      <3>1. lock[Own(w)] = "shared" /\ fd[Own(w)] = at[version[w]] /\ version[w] \in Versions
        BY <2>1, <2>6 DEF SharedHeld, KeptFor, Placed
      <3>2. Own(w) \in Desc /\ fd[Own(w)] # Nothing
        BY <2>1, <3>1 DEF LocksExclude
      <3>3. QED
        BY <2>3, <3>1, <3>2 DEF ThereNow
    <2>7. QED
      BY <2>4, <2>5, <2>6 DEF Running
  <1>2. QED
    BY <1>1, VersionInv, PTL

(* An install killed at any step leaves the Installed record naming a whole  *)
(* program, until an uninstall removes.                                      *)
THEOREM VersionInstalled == LockSpec => []InstalledIsThere
  <1>1. FilesInv => InstalledIsThere
    BY DEF FilesInv, InstalledKept
  <1>2. QED
    BY <1>1, VersionInv, PTL

(* The shim of a window whose keeper was not killed is never turned away.    *)
THEOREM VersionShim == LockSpec => []ShimFindsItsVersion
  <1>1. FilesInv => ShimFindsItsVersion
    BY DEF FilesInv, KeeperStays, KeeperOf, ShimFindsItsVersion
  <1>2. QED
    BY <1>1, VersionInv, PTL

\* What is held, what the shim looks for and what is installed stays at its
\* path, and an uninstall removes what nobody uses.
THEOREM VersionKept == LockSpec => []VersionsKept
  <1>1. (/\ LockTypeOK /\ HeldVersionStays /\ ShimFindsItsVersion
         /\ InstalledIsThere /\ UninstallMeansUnused) => VersionsKept
    BY DEF VersionsKept
  <1> QED BY <1>1, VersionTyped, VersionHeldStays, VersionShim, VersionInstalled,
             VersionUninstall, PTL

-----------------------------------------------------------------------------
(* A command that nothing disturbs finds a version at its second attempt at   *)
(* the latest: while nobody installs or uninstalls, no file moves and no lock *)
(* is exclusive.                                                              *)

Exclusion(d) == \/ \E v \in Versions : d = Remover(v)
                \/ busy \in Uninstallers /\ d = Own(busy)
OnlyBusyExcludes == \A d \in Desc : lock[d] = "exclusive" => busy # Nothing /\ Exclusion(d)
Undisturbed == \A c \in Commands : calm[c] => busy = Nothing
FreshTries == \A c \in Commands : pc[c] = "idle" => tries[c] = 0

Removed == \E u \in Uninstallers : pc[u] \in {"removing", "done"}
CommandServed(c) ==
    /\ pc[c] = "choose" => tries[c] = 0 \/ (tries[c] = 1 /\ useRunning[c] = FALSE)
    /\ pc[c] = "test_running" => tries[c] = 1
    /\ pc[c] \in {"test", "open"} => at[version[c]] # Nothing
    /\ pc[c] \in {"lock", "check"} => fd[Own(c)] = at[version[c]]
    /\ pc[c] # "gave_up"
AllServed == ~ Removed => \A c \in Commands : calm[c] => CommandServed(c)

CalmInv == OnlyBusyExcludes /\ Undisturbed /\ FreshTries /\ AllServed

(* The installation lock's holder gives up every exclusive lock before it.     *)
LEMMA OnlyBusyNext == LockInv /\ OnlyBusyExcludes /\ [LockNext]_all_vars => OnlyBusyExcludes'
  <1> SUFFICES ASSUME LockInv, OnlyBusyExcludes, [LockNext]_all_vars PROVE OnlyBusyExcludes'
    OBVIOUS
  <1> USE VersionConstants, Descriptors
  <1>0. /\ lock \in [Desc -> {"none", "shared", "exclusive"}] /\ fd \in [Desc -> (1 .. files) \cup {Nothing}]
        /\ BusyAgrees /\ Placed /\ busy \in {Nothing, "installer"} \cup Uninstallers
    BY DEF LockInv, LockTypeOK, LocksTyped, InstallsTyped
  <1>1. ASSUME busy' = busy, \A d \in Desc : lock'[d] = "exclusive" => lock[d] = "exclusive"
        PROVE OnlyBusyExcludes'
    BY <1>1 DEF OnlyBusyExcludes, Exclusion
  <1>2. ASSUME NEW S, Close(S), \A d \in Desc : Exclusion(d) => d \in S PROVE OnlyBusyExcludes'
    BY <1>2 DEF OnlyBusyExcludes, Close
  <1>3. ASSUME NEW S, Close(S) PROVE \A d \in Desc : lock'[d] = "exclusive" => lock[d] = "exclusive"
    BY <1>3 DEF Close
  <1>4. ASSUME NEW p \in Proc, ProcStep(p) PROVE OnlyBusyExcludes'
    <2>1. CASE hold_open(p) \/ lock_busy(p) \/ lock_check(p)
      BY <1>1, <1>3, <2>1 DEF hold_open, lock_busy, lock_check, TurnedAway, install_vars, lock_vars
    <2>2. CASE lock_shared(p)
      BY <1>0, <1>1, <2>2 DEF lock_shared, install_vars
    <2>3. CASE ends(p) /\ busy # p
      BY <1>1, <1>3, <2>3 DEF ends
    <2>4. CASE ends(p) /\ busy = p
      <3>1. p \in Uninstallers /\ p \notin Windows
        BY <1>0, <2>4 DEF Proc
      <3>2. Close({Own(p)} \cup {Remover(v) : v \in Versions})
        BY <2>4, <3>1 DEF ends
      <3> QED BY <1>2, <2>4, <3>2 DEF Exclusion
    <2> QED BY <1>4, <2>1, <2>2, <2>3, <2>4 DEF ProcStep, hold_for_process
  <1>5. ASSUME NEW c \in Commands, CommandStep(c) PROVE OnlyBusyExcludes'
    BY <1>1, <1>5 DEF CommandStep, command, choose, test, install_vars, lock_vars
  <1>6. ASSUME NEW s \in Servers, ServerStep(s) PROVE OnlyBusyExcludes'
    BY <1>1, <1>6 DEF ServerStep, serve_start, publish_running_record, install_vars, lock_vars
  <1>7. ASSUME NEW w \in Windows, WindowStep(w) PROVE OnlyBusyExcludes'
    <2>1. busy' = busy
      BY <1>7 DEF WindowStep, window_start, run_hold, shell_execs_shim, mark_launched, run_keeper,
                  keeper_killed, install_vars
    <2>2. lock' = lock \/ \E S : Close(S)
      BY <1>7 DEF WindowStep, window_start, run_hold, shell_execs_shim, mark_launched, run_keeper,
                  keeper_killed, lock_vars
    <2> QED BY <1>1, <1>3, <2>1, <2>2
  <1>8. ASSUME NEW v \in Versions, busy # Nothing, busy' = busy,
               lock' = [lock EXCEPT ![Remover(v)] = "exclusive"]
        PROVE OnlyBusyExcludes'
    BY <1>0, <1>8 DEF OnlyBusyExcludes, Exclusion
  <1>9. CASE install_ends /\ busy = "installer"
    <2>1. Close({Remover(v) : v \in Versions})
      BY <1>9 DEF install_ends
    <2>2. busy \notin Uninstallers
      BY <1>9
    <2> QED BY <1>2, <2>1, <2>2 DEF Exclusion
  <1>10. ASSUME InstallerStep PROVE OnlyBusyExcludes'
    <2>1. ASSUME NEW v \in Versions, install(v) PROVE OnlyBusyExcludes'
      BY <2>1 DEF install, OnlyBusyExcludes, lock_vars
    <2>2. ASSUME NEW v \in Versions, prune_lock(v) PROVE OnlyBusyExcludes'
      BY <1>0, <1>1, <1>8, <2>2 DEF prune_lock, BusyAgrees, lock_vars
    <2>3. CASE compare
      <3>1. busy = "installer" /\ inst.v \in Versions
        BY <1>0, <2>3 DEF compare, BusyAgrees
      <3> QED BY <1>1, <1>8, <1>9, <2>3, <3>1 DEF compare, lock_vars
    <2>4. CASE installer_ends \/ installer_killed
      <3>1. busy = "installer" /\ install_ends
        BY <1>0, <2>4 DEF installer_ends, installer_killed, BusyAgrees
      <3> QED BY <1>9, <3>1
    <2>5. CASE swap \/ empty_name \/ discard \/ record_installed \/ prune \/ prune_rename
      <3>1. busy' = busy /\ (lock' = lock \/ \E S : Close(S))
        BY <2>5 DEF swap, empty_name, discard, record_installed, prune, prune_rename, install_vars,
                    lock_vars
      <3> QED BY <1>1, <1>3, <3>1
    <2> QED BY <1>10, <2>1, <2>2, <2>3, <2>4, <2>5 DEF InstallerStep
  <1>11. ASSUME NEW u \in Uninstallers, UninstallStep(u) PROVE OnlyBusyExcludes'
    <2>0. u \in Proc /\ u # Nothing
      OBVIOUS
    <2>1. CASE uninstall_start(u) \/ remove_records(u) \/ remove_version(u)
      BY <1>1, <2>1 DEF uninstall_start, remove_records, remove_version, install_vars, lock_vars
    <2>2. CASE uninstall_refuses(u)
      <3>1. CASE busy = u
        <4>1. Close({Own(u)} \cup {Remover(v) : v \in Versions})
          BY <2>2, <3>1 DEF uninstall_refuses
        <4> QED BY <1>2, <3>1, <4>1 DEF Exclusion
      <3>2. CASE busy # u
        BY <1>1, <1>3, <2>2, <3>2 DEF uninstall_refuses
      <3> QED BY <3>1, <3>2
    <2>3. CASE lock_and_recheck(u) /\ ~ uninstall_refuses(u)
      BY <2>3 DEF lock_and_recheck, OnlyBusyExcludes, lock_vars
    <2>4. CASE hold_versions(u) /\ ~ uninstall_refuses(u)
      <3>1. busy = u /\ busy' = busy
        BY <1>0, <2>0, <2>4 DEF hold_versions, BusyAgrees
      <3>2. PICK v \in plan :
               lock' = [lock EXCEPT ![IF v = version[u] THEN Own(u) ELSE Remover(v)] = "exclusive"]
        BY <2>4 DEF hold_versions
      <3>3. v \in Versions
        BY DEF LockInv, LockTypeOK, InstallsTyped
      <3>4. ASSUME NEW d \in Desc, lock'[d] = "exclusive" PROVE busy # Nothing /\ Exclusion(d)
        BY <1>0, <2>0, <3>1, <3>2, <3>3, <3>4 DEF OnlyBusyExcludes, Exclusion
      <3> QED BY <3>1, <3>4 DEF OnlyBusyExcludes, Exclusion
    <2>5. CASE remove_rest(u)
      <3>1. busy = u /\ Close({Own(u)} \cup {Remover(v) : v \in Versions})
        BY <1>0, <2>0, <2>5 DEF remove_rest, BusyAgrees
      <3> QED BY <1>2, <3>1 DEF Exclusion
    <2> QED BY <1>11, <2>1, <2>2, <2>3, <2>4, <2>5 DEF UninstallStep
  <1>12. CASE UNCHANGED all_vars
    BY <1>1, <1>12 DEF all_vars, install_vars, lock_vars
  <1> QED BY <1>4, <1>5, <1>6, <1>7, <1>10, <1>11, <1>12 DEF LockNext

(* Nobody but a command moves it on.                                           *)
LEMMA CommandLeft ==
  ASSUME LockInv, [LockNext]_all_vars, NEW c \in Commands, ~ CommandStep(c), ~ ProcStep(c)
  PROVE  /\ pc'[c] = pc[c] /\ version'[c] = version[c] /\ fd'[Own(c)] = fd[Own(c)]
         /\ tries'[c] = tries[c] /\ useRunning'[c] = useRunning[c]
         /\ calm'[c] = calm[c] \/ calm'[c] = FALSE
  <1> USE VersionConstants, Descriptors
  <1>0. /\ fd \in [Desc -> (1 .. files) \cup {Nothing}] /\ pc \in [Proc -> Where]
        /\ version \in [Proc -> Versions \cup {Nothing}] /\ c \in Proc /\ c \notin Windows \cup Uninstallers
        /\ tries \in [Commands -> 0 .. 3] /\ useRunning \in [Commands -> BOOLEAN]
        /\ calm \in [Commands -> BOOLEAN] /\ c \notin Servers
    BY DEF LockInv, LockTypeOK, LocksTyped, ProcsTyped
  <1>c. ASSUME NEW S, Close(S), Own(c) \notin S PROVE fd'[Own(c)] = fd[Own(c)]
    BY <1>0, <1>c DEF Close
  <1>1. ASSUME NEW p \in Proc \ {c}, ProcStep(p)
        PROVE  /\ UNCHANGED <<version, tries, useRunning, calm>> /\ pc'[c] = pc[c]
               /\ fd'[Own(c)] = fd[Own(c)]
    <2>0. Own(p) # Own(c) /\ Fd(p) # Own(c)
      BY <1>0
    <2>1. CASE hold_open(p) \/ lock_shared(p) \/ lock_busy(p) \/ lock_check(p)
      BY <1>0, <1>c, <2>0, <2>1 DEF hold_open, lock_shared, lock_busy, lock_check, TurnedAway, Goto,
         command_vars, lock_vars
    <2>2. CASE ends(p)
      <3>1. PICK S : Close(S) /\ Own(c) \notin S
        BY <1>0, <2>0, <2>2 DEF ends
      <3> QED BY <1>0, <1>c, <2>2, <3>1 DEF ends, Goto, command_vars
    <2> QED BY <1>1, <2>1, <2>2 DEF ProcStep, hold_for_process
  <1>2. ASSUME NEW d \in Commands \ {c}, CommandStep(d)
        PROVE  /\ pc'[c] = pc[c] /\ version'[c] = version[c] /\ fd' = fd
               /\ tries'[c] = tries[c] /\ useRunning'[c] = useRunning[c] /\ calm'[c] = calm[c]
    BY <1>0, <1>2 DEF CommandStep, command, choose, test, Goto, lock_vars
  <1>3. ASSUME NEW s \in Servers, ServerStep(s)
        PROVE  /\ pc'[c] = pc[c] /\ version'[c] = version[c]
               /\ UNCHANGED <<fd, tries, useRunning, calm>>
    BY <1>0, <1>3 DEF ServerStep, serve_start, publish_running_record, Goto, lock_vars, command_vars
  <1>4. ASSUME NEW w \in Windows, WindowStep(w)
        PROVE  /\ pc'[c] = pc[c] /\ version'[c] = version[c] /\ fd'[Own(c)] = fd[Own(c)]
               /\ UNCHANGED <<tries, useRunning, calm>>
    <2>1. w # c /\ Own(w) # Own(c)
      BY <1>0
    <2>2. pc'[c] = pc[c] /\ version'[c] = version[c] /\ UNCHANGED <<tries, useRunning, calm>>
      BY <1>0, <1>4, <2>1 DEF WindowStep, window_start, run_hold, shell_execs_shim, mark_launched,
         run_keeper, keeper_killed, Goto, command_vars
    <2>3. fd' = fd \/ Close({Own(w)})
      BY <1>4 DEF WindowStep, window_start, run_hold, shell_execs_shim, mark_launched, run_keeper,
         keeper_killed, lock_vars
    <2> QED BY <1>c, <2>1, <2>2, <2>3
  <1>5. ASSUME InstallerStep
        PROVE  /\ UNCHANGED <<pc, version, tries, useRunning>> /\ fd'[Own(c)] = fd[Own(c)]
               /\ calm'[c] = calm[c] \/ calm'[c] = FALSE
    <2>1. UNCHANGED <<pc, version, tries, useRunning>>
      BY <1>5 DEF InstallerStep, install, prune_lock, compare, swap, empty_name, discard,
         record_installed, prune, prune_rename, installer_ends, installer_killed, command_vars
    <2>2. calm' = calm \/ Disturb
      BY <1>5 DEF InstallerStep, install, prune_lock, compare, swap, empty_name, discard,
         record_installed, prune, prune_rename, installer_ends, installer_killed, command_vars
    <2>3. fd' = fd \/ (\E S \in SUBSET {Remover(v) : v \in Versions \cup {inst.v}} : Close(S))
          \/ \E v \in Versions \cup {inst.v} : \E f : fd' = [fd EXCEPT ![Remover(v)] = f]
      BY <1>5 DEF InstallerStep, install, prune_lock, compare, swap, empty_name, discard,
         record_installed, prune, prune_rename, installer_ends, installer_killed, install_ends, lock_vars
    <2>4. \A v : Own(c) # Remover(v)
      BY DEF Own, Remover
    <2>5. fd'[Own(c)] = fd[Own(c)]
      BY <1>0, <1>c, <2>3, <2>4
    <2> QED BY <2>1, <2>2, <2>5 DEF Disturb
  <1>6. ASSUME NEW u \in Uninstallers, UninstallStep(u)
        PROVE  /\ pc'[c] = pc[c] /\ version'[c] = version[c] /\ fd'[Own(c)] = fd[Own(c)]
               /\ UNCHANGED <<tries, useRunning>> /\ (calm'[c] = calm[c] \/ calm'[c] = FALSE)
    <2>1. u # c /\ Own(u) # Own(c) /\ \A v : Own(c) # Remover(v)
      BY <1>0 DEF Own, Remover
    <2>2. version'[c] = version[c] /\ UNCHANGED <<tries, useRunning>> /\ (calm' = calm \/ Disturb)
      BY <1>0, <1>6, <2>1 DEF UninstallStep, uninstall_start, lock_and_recheck, uninstall_refuses,
         hold_versions, remove_records, remove_version, remove_rest, command_vars
    <2>3. pc' = pc \/ \E x : pc' = [pc EXCEPT ![u] = x]
      BY <1>6 DEF UninstallStep, uninstall_start, lock_and_recheck, uninstall_refuses,
         hold_versions, remove_records, remove_version, remove_rest, Goto
    <2>4. fd' = fd \/ (\E S \in SUBSET ({Own(u)} \cup {Remover(v) : v \in Versions}) : Close(S))
          \/ \E d \in {Own(u)} \cup {Remover(v) : v \in plan} : \E f : fd' = [fd EXCEPT ![d] = f]
      <3>1. CASE hold_versions(u)
        BY <3>1 DEF hold_versions, uninstall_refuses
      <3>2. CASE ~ hold_versions(u)
        BY <1>6, <3>2 DEF UninstallStep, uninstall_start, lock_and_recheck, uninstall_refuses,
           remove_records, remove_version, remove_rest, lock_vars
      <3> QED BY <3>1, <3>2
    <2>5. fd'[Own(c)] = fd[Own(c)]
      BY <1>0, <1>c, <2>1, <2>4
    <2>6. pc'[c] = pc[c]
      BY <1>0, <2>1, <2>3
    <2> QED BY <2>2, <2>5, <2>6 DEF Disturb
  <1>7. CASE UNCHANGED all_vars
    BY <1>7 DEF all_vars, lock_vars, command_vars
  <1> QED BY <1>1, <1>2, <1>3, <1>4, <1>5, <1>6, <1>7 DEF LockNext

LEMMA UndisturbedNext == LockInv /\ Undisturbed /\ [LockNext]_all_vars => Undisturbed'
  <1> SUFFICES ASSUME LockInv, Undisturbed, [LockNext]_all_vars, NEW c \in Commands, calm'[c] PROVE busy' = Nothing
    BY DEF Undisturbed
  <1> USE VersionConstants
  <1>0. calm \in [Commands -> BOOLEAN] /\ BusyAgrees
    BY DEF LockInv, LockTypeOK, ProcsTyped
  <1>1. CASE \E d \in Commands : command(d)
    <2>1. busy' = busy /\ (calm[c] \/ busy = Nothing)
      BY <1>0, <1>1 DEF command, install_vars
    <2> QED BY <2>1 DEF Undisturbed
  <1>2. ASSUME calm' = calm, busy' = busy \/ busy' = Nothing PROVE busy' = Nothing
    BY <1>2 DEF Undisturbed
  <1>3. CASE Disturb
    BY <1>3 DEF Disturb
  <1>4. ASSUME NEW p \in Proc, ProcStep(p) PROVE busy' = Nothing
    BY <1>2, <1>4 DEF ProcStep, hold_for_process, hold_open, lock_shared, lock_busy, lock_check, ends,
       command_vars, install_vars
  <1>5. ASSUME NEW d \in Commands, CommandStep(d) PROVE busy' = Nothing
    BY <1>1, <1>2, <1>5 DEF CommandStep, choose, test, install_vars
  <1>6. ASSUME NEW s \in Servers, ServerStep(s) PROVE busy' = Nothing
    BY <1>2, <1>6 DEF ServerStep, serve_start, publish_running_record, command_vars, install_vars
  <1>7. ASSUME NEW w \in Windows, WindowStep(w) PROVE busy' = Nothing
    BY <1>2, <1>7 DEF WindowStep, window_start, run_hold, shell_execs_shim, mark_launched, run_keeper,
       keeper_killed, command_vars, install_vars
  <1>8. ASSUME InstallerStep PROVE busy' = Nothing
    BY <1>2, <1>3, <1>8 DEF InstallerStep, install, prune_lock, compare, swap, empty_name, discard,
       record_installed, prune, prune_rename, installer_ends, installer_killed, install_ends, command_vars,
       install_vars
  <1>9. ASSUME NEW u \in Uninstallers, UninstallStep(u) PROVE busy' = Nothing
    <2>1. CASE hold_versions(u)
      BY <1>2, <2>1 DEF hold_versions, uninstall_refuses
    <2>2. CASE ~ hold_versions(u)
      BY <1>2, <1>3, <1>9, <2>2 DEF UninstallStep, uninstall_start, lock_and_recheck, uninstall_refuses,
         remove_records, remove_version, remove_rest, command_vars, install_vars
    <2> QED BY <2>1, <2>2
  <1>10. CASE UNCHANGED all_vars
    BY <1>2, <1>10 DEF all_vars, command_vars, install_vars
  <1> QED BY <1>4, <1>5, <1>6, <1>7, <1>8, <1>9, <1>10 DEF LockNext

(* While nothing is installed or uninstalled, no file moves.                   *)
LEMMA NothingMoves ==
  ASSUME LockInv, [LockNext]_all_vars, busy = Nothing PROVE at' = at /\ installed' = installed
  <1> USE VersionConstants, Descriptors
  <1>1. inst.at = "idle" /\ \A p \in Proc : pc[p] \notin {"locking", "removing"}
    BY DEF LockInv, BusyAgrees, Proc
  <1>2. ~ swap /\ ~ empty_name /\ ~ prune_rename /\ ~ record_installed
    BY <1>1 DEF swap, empty_name, prune_rename, record_installed
  <1>3. \A u \in Uninstallers : ~ remove_version(u) /\ ~ remove_rest(u)
    BY <1>1 DEF remove_version, remove_rest
  <1>4. installed' = installed \/ record_installed \/ \E u \in Uninstallers : remove_rest(u)
    BY DEF LockNext, all_vars, files_vars, ProcStep, hold_for_process, hold_open, lock_shared,
         lock_busy, lock_check, ends, CommandStep, command, choose, test, ServerStep, serve_start,
         publish_running_record, WindowStep, window_start, run_hold, shell_execs_shim,
         mark_launched, run_keeper, keeper_killed, InstallerStep, install, prune_lock, compare,
         install_ends, swap, empty_name, discard, prune, prune_rename,
         installer_ends, installer_killed, UninstallStep, uninstall_start, lock_and_recheck,
         hold_versions, remove_records, remove_version
  <1> QED BY <1>2, <1>3, <1>4, AtChanges DEF AtChange

LEMMA FreshNext == LockInv /\ FreshTries /\ [LockNext]_all_vars => FreshTries'
  <1> SUFFICES ASSUME LockInv, FreshTries, [LockNext]_all_vars, NEW c \in Commands, pc'[c] = "idle" PROVE tries'[c] = 0
    BY DEF FreshTries
  <1> USE VersionConstants, Descriptors
  <1>0. pc \in [Proc -> Where] /\ c \in Proc
    BY DEF LockInv, LockTypeOK, ProcsTyped
  <1>1. ~ CommandStep(c)
    BY <1>0 DEF CommandStep, command, choose, test, Goto
  <1>2. ~ ProcStep(c)
    BY <1>0 DEF ProcStep, hold_for_process, hold_open, lock_shared, lock_busy, lock_check, ends,
       TurnedAway, Goto
  <1> QED BY <1>1, <1>2, CommandLeft DEF FreshTries

(* An uninstall that began to remove has, for good.                            *)
LEMMA RemovedStays == ASSUME LockInv, [LockNext]_all_vars, Removed PROVE Removed'
  <1> USE VersionConstants, Descriptors
  <1>0. pc \in [Proc -> Where]
    BY DEF LockInv, LockTypeOK, ProcsTyped
  <1>1. PICK u \in Uninstallers : pc[u] \in {"removing", "done"}
    BY DEF Removed
  <1>2. u \in Proc
    OBVIOUS
  <1>3. ASSUME UninstallStep(u) PROVE pc'[u] \in {"removing", "done"}
    BY <1>0, <1>1, <1>2, <1>3 DEF UninstallStep, uninstall_start, lock_and_recheck, hold_versions,
       remove_records, remove_version, remove_rest, Goto
  <1>4. ASSUME ProcStep(u) PROVE pc'[u] \in {"removing", "done"}
    BY <1>0, <1>1, <1>2, <1>4 DEF ProcStep, hold_for_process, hold_open, lock_shared, lock_busy,
       lock_check, ends, Goto
  <1> QED BY <1>1, <1>3, <1>4, PcLeft DEF Removed

(* A command's own step, with nobody at the files.                             *)
LEMMA ServedNext ==
  ASSUME LockInv, InstalledIsThere, OnlyBusyExcludes, FreshTries, [LockNext]_all_vars, NEW c \in Commands, busy = Nothing,
         calm[c] \/ pc[c] = "idle", CommandServed(c), ~ Removed, calm'[c]
  PROVE  CommandServed(c)'
  <1> USE VersionConstants, Descriptors
  <1>0. /\ pc \in [Proc -> Where] /\ version \in [Proc -> Versions \cup {Nothing}] /\ c \in Proc
        /\ tries \in [Commands -> 0 .. 3] /\ useRunning \in [Commands -> BOOLEAN]
        /\ fd \in [Desc -> (1 .. files) \cup {Nothing}]
        /\ c \notin Windows /\ Own(c) \in Desc /\ Fd(c) = Own(c)
    BY DEF LockInv, LockTypeOK, ProcsTyped, LocksTyped
  <1>1. at' = at /\ installed' = installed
    BY NothingMoves
  <1>2. installed # Nothing /\ installed \in Versions /\ at[installed] # Nothing
    BY DEF InstalledIsThere, Removed, Intact, LockInv, LockTypeOK, FilesTyped
  <1>3. CASE ~ CommandStep(c) /\ ~ ProcStep(c)
    BY <1>1, <1>3, CommandLeft DEF CommandServed
  <1>4. CASE command(c)
    BY <1>0, <1>4 DEF command, Goto, CommandServed, FreshTries
  <1>5. CASE choose(c)
    <2>1. tries[c] # 3
      BY <1>0, <1>5 DEF choose, CommandServed
    <2>2. CASE FromRunning(c)
      <3>1. tries[c] = 0
        BY <1>5, <2>2 DEF choose, CommandServed, FromRunning
      <3> QED BY <1>0, <1>5, <2>1, <2>2, <3>1 DEF choose, CommandServed, Goto
    <2>3. CASE ~ FromRunning(c)
      <3>1. pc'[c] = "test" /\ version'[c] = installed
        BY <1>0, <1>2, <1>5, <2>1, <2>3 DEF choose, Goto
      <3> QED BY <1>1, <1>2, <3>1 DEF CommandServed
    <2> QED BY <2>2, <2>3
  <1>6. CASE test(c)
    <2>1. CASE at[version[c]] # Nothing
      BY <1>0, <1>1, <1>6, <2>1 DEF test, CommandServed, Goto
    <2>2. CASE at[version[c]] = Nothing
      <3>1. pc[c] = "test_running" /\ tries[c] = 1
        BY <1>6, <2>2 DEF test, CommandServed
      <3>2. pc'[c] = "choose" /\ tries'[c] = 1 /\ useRunning'[c] = FALSE
        BY <1>0, <1>6, <2>2, <3>1 DEF test, Goto
      <3> QED BY <3>2 DEF CommandServed
    <2> QED BY <2>1, <2>2
  <1>7. CASE hold_open(c)
    <2>1. at[version[c]] # Nothing /\ pc'[c] = "lock" /\ fd'[Own(c)] = at[version[c]] /\ version' = version
      BY <1>0, <1>7 DEF hold_open, CommandServed, Goto
    <2> QED BY <1>1, <2>1 DEF CommandServed
  <1>8. CASE lock_shared(c)
    BY <1>0, <1>1, <1>8 DEF lock_shared, CommandServed, Goto
  <1>9. ~ lock_busy(c)
    <2>1. \A d \in Desc : lock[d] # "exclusive"
      BY DEF OnlyBusyExcludes
    <2> QED BY <1>0, <2>1 DEF lock_busy, CanShare, CommandServed
  <1>10. CASE lock_check(c)
    BY <1>0, <1>10 DEF lock_check, CommandServed, Goto
  <1>11. CASE ends(c)
    BY <1>0, <1>11 DEF ends, CommandServed, Goto
  <1> QED BY <1>3, <1>4, <1>5, <1>6, <1>7, <1>8, <1>9, <1>10, <1>11
          DEF CommandStep, ProcStep, hold_for_process

LEMMA AllServedNext == FilesInv /\ CalmInv /\ [LockNext]_all_vars => AllServed'
  <1> SUFFICES ASSUME FilesInv, CalmInv, [LockNext]_all_vars, ~ Removed', NEW c \in Commands, calm'[c] PROVE CommandServed(c)'
    BY DEF AllServed
  <1> USE Descriptors
  <1>1. LockInv /\ InstalledIsThere /\ ~ Removed
    BY RemovedStays DEF FilesInv, InstalledKept
  <1>2. /\ pc \in [Proc -> Where] /\ calm \in [Commands -> BOOLEAN]
        /\ OnlyBusyExcludes /\ Undisturbed /\ FreshTries /\ AllServed
    BY <1>1 DEF LockInv, LockTypeOK, ProcsTyped, CalmInv
  <1>3. CASE command(c) /\ busy = Nothing
    <2>1. pc[c] = "idle"
      BY <1>3 DEF command
    <2>2. CommandServed(c)
      BY <2>1 DEF CommandServed
    <2> QED BY <1>1, <1>2, <1>3, <2>1, <2>2, ServedNext
  <1>4. CASE calm[c]
    <2>1. busy = Nothing /\ CommandServed(c)
      BY <1>1, <1>2, <1>4 DEF Undisturbed, AllServed
    <2> QED BY <1>1, <1>2, <1>4, <2>1, ServedNext
  <1>5. calm[c] \/ (command(c) /\ busy = Nothing)
    <2>1. CASE CommandStep(c) \/ ProcStep(c)
      BY <1>2, <2>1 DEF CommandStep, command, choose, test, ProcStep, hold_for_process, hold_open,
         lock_shared, lock_busy, lock_check, ends, command_vars
    <2>2. CASE ~ CommandStep(c) /\ ~ ProcStep(c)
      BY <1>1, <2>2, CommandLeft
    <2> QED BY <2>1, <2>2
  <1> QED BY <1>3, <1>4, <1>5

LEMMA CalmInit == LockInit => CalmInv
  <1> SUFFICES ASSUME LockInit PROVE CalmInv
    OBVIOUS
  <1> USE VersionConstants, Descriptors
  <1>1. /\ \A d \in Desc : lock[d] = "none"
        /\ \A c \in Commands : tries[c] = 0 /\ pc[c] = "idle"
        /\ busy = Nothing
    BY DEF LockInit
  <1> QED BY <1>1 DEF CalmInv, OnlyBusyExcludes, Undisturbed, FreshTries, AllServed, CommandServed

\* As long as nothing is installed or uninstalled and the versions are there, a
\* command finds one that it can hold: the record of a supervisor that is gone
\* costs it one attempt, and no lock is in its way.
THEOREM VersionGivesUp == LockSpec => []GivesUpOnlyIfDisturbed
  <1>1. LockInit => FilesInv /\ CalmInv
    BY VersionInit, CalmInit
  <1>2. FilesInv /\ CalmInv /\ [LockNext]_all_vars => (FilesInv /\ CalmInv)'
    <2> SUFFICES ASSUME FilesInv, CalmInv, [LockNext]_all_vars PROVE FilesInv' /\ CalmInv'
      OBVIOUS
    <2>1. FilesInv'
      BY LockInvNext, InstalledNext, KeeperNext DEF FilesInv
    <2>2. LockInv
      BY DEF FilesInv
    <2>3. OnlyBusyExcludes' /\ Undisturbed' /\ FreshTries'
      BY <2>2, OnlyBusyNext, UndisturbedNext, FreshNext DEF CalmInv
    <2> QED BY <2>1, <2>3, AllServedNext DEF CalmInv
  <1>3. FilesInv /\ CalmInv => GivesUpOnlyIfDisturbed
    BY DEF CalmInv, AllServed, CommandServed, Removed, GivesUpOnlyIfDisturbed
  <1> QED BY <1>1, <1>2, <1>3, PTL DEF LockSpec

-----------------------------------------------------------------------------
(***************************************************************************)
(* What holds of any number of starts at one path, proved from an          *)
(* inductive invariant that ties the socket file, the program and the      *)
(* pipe to the step each second stage is at.                               *)
(***************************************************************************)

\* The steps at which a second stage has bound the path and not removed it.
HasBound == {"open_pty", "first_check", "spawn_child", "spawn_wait", "second_check", "report",
             "running", "ending", "unbinding", "abandoning"}

\* The steps at which its program runs.
HasProgram == {"second_check", "report", "running", "ending"}

\* The steps after which the pipe is no longer the second stage's to close.
PipeClosed == {"none", "running", "ending", "abandoning", "exited"}

\* The file at the path belongs to a second stage that has bound and not
\* unbound it, and a second stage that has bound keeps its file unless
\* something else removed it.
SocketFileInv ==
    \A s \in Starts :
        /\ path = s => second[s] \in HasBound
        /\ second[s] \in HasBound => path = s \/ removals > 0

\* A program exists only in the steps that may leave it to others to clean up.
ChildInv ==
    \A s \in Starts :
        /\ child[s] = "forked" => second[s] = "spawn_wait"
        /\ child[s] = "running" => second[s] \in HasProgram \/ report[s] = "ok"
        /\ second[s] \in HasProgram => child[s] = "running"

\* What was reported, and who may still be waiting for it.
ReportInv ==
    \A s \in Starts :
        /\ report[s] = "ok" => second[s] \in {"running", "ending", "exited"} /\ child[s] = "running"
        /\ second[s] \in {"running", "ending"} => report[s] = "ok"
        /\ second[s] \notin PipeClosed => "second" \in writers[s]
        /\ second[s] = "none" => first[s] \in {"none", "checked", "failed", "killed"}
        /\ first[s] \in {"none", "checked"} => second[s] = "none"
        /\ first[s] = "failed" => second[s] \in {"none", "exited"} /\ report[s] # "ok"
        /\ first[s] = "ok" => report[s] = "ok"
        /\ second[s] = "abandoning" => first[s] = "killed"

StartInv == StartTypeOK /\ SocketFileInv /\ ChildInv /\ ReportInv

\* Initially no start has done anything.
LEMMA StartInitInv == StartInit => StartInv
  BY StartConstants DEF StartInit, StartInv, StartTypeOK, SocketFileInv, ChildInv, ReportInv, HasBound, HasProgram,
                        PipeClosed, Living

USE DEF StartInv, StartTypeOK, SocketFileInv, ChildInv, ReportInv, HasBound, HasProgram, PipeClosed, Living, Goes

\* The first stage keeps the invariant: it learns of a failure only once the
\* pipe is closed without a report, when nothing is left of the second stage.
LEMMA FirstStageInv == ASSUME StartInv, NEW s \in Starts, FirstStage(s) PROVE StartInv'
  <1>1. CASE start_checks(s) BY <1>1, StartConstants DEF start_checks
  <1>2. CASE start_fork(s) BY <1>2, StartConstants DEF start_fork
  <1>3. CASE start_fails(s) BY <1>3, StartConstants DEF start_fails
  <1>4. CASE start_reads(s) BY <1>4, StartConstants DEF start_reads
  <1> QED BY <1>1, <1>2, <1>3, <1>4 DEF FirstStage

\* Every step of the second stage keeps it, a failing one included.
LEMMA SecondStageInv == ASSUME StartInv, NEW s \in Starts, SecondStage(s) PROVE StartInv'
  <1>1. CASE setup(s) BY <1>1, StartConstants DEF setup
  <1>2. CASE install_signal_handlers(s) BY <1>2, StartConstants DEF install_signal_handlers
  <1>3. CASE clear_mask(s) BY <1>3, StartConstants DEF clear_mask
  <1>4. CASE listen(s) BY <1>4, StartConstants DEF listen
  <1>5. CASE open_pty(s) BY <1>5, StartConstants DEF open_pty
  <1>6. CASE first_check(s) BY <1>6, StartConstants DEF first_check
  <1>7. CASE spawn_fork(s) BY <1>7, StartConstants DEF spawn_fork
  <1>8. CASE spawn_exec(s) BY <1>8, StartConstants DEF spawn_exec
  <1>9. CASE spawn_exec_fails(s) BY <1>9, StartConstants DEF spawn_exec_fails
  <1>10. CASE second_check(s) BY <1>10, StartConstants DEF second_check, kill_child_group
  <1>11. CASE report_ready(s) BY <1>11, StartConstants DEF report_ready, kill_child_group
  <1>12. CASE unbind(s) BY <1>12, StartConstants DEF unbind, remove_socket
  <1>13. CASE fail(s) BY <1>13, StartConstants DEF fail
  <1>14. CASE abandon(s) BY <1>14, StartConstants DEF abandon, remove_socket
  <1>15. CASE run_removes(s) BY <1>15, StartConstants DEF run_removes, remove_socket
  <1>16. CASE step_fails(s)
    BY <1>16, StartConstants DEF step_fails, FailUnbound, FailBound, FallibleUnbound, FallibleBound
  <1> QED
    BY <1>1, <1>2, <1>3, <1>4, <1>5, <1>6, <1>7, <1>8, <1>9, <1>10, <1>11, <1>12, <1>13, <1>14,
       <1>15, <1>16 DEF SecondStage

\* So does whatever happens to a start from outside, and a stuttering step.
LEMMA StartNextInv == ASSUME StartInv, [StartNext]_startVars PROVE StartInv'
  <1>1. CASE \E s \in Starts : FirstStage(s) BY <1>1, FirstStageInv
  <1>2. CASE \E s \in Starts : SecondStage(s) BY <1>2, SecondStageInv
  <1>3. CASE \E s \in Starts : run_ends(s) BY <1>3, StartConstants DEF run_ends
  <1>4. CASE \E s \in Starts : first_killed(s) BY <1>4, StartConstants DEF first_killed
  <1>5. CASE \E s \in Starts : sigterm(s) BY <1>5, StartConstants DEF sigterm, Unhandled
  <1>6. CASE file_removed BY <1>6, StartConstants DEF file_removed
  <1>7. CASE UNCHANGED startVars BY <1>7 DEF startVars
  <1> QED BY <1>1, <1>2, <1>3, <1>4, <1>5, <1>6, <1>7 DEF StartNext

\* The invariant holds throughout.
THEOREM StartInvariance == StartSpec => []StartInv
  BY StartInitInv, StartNextInv, PTL DEF StartSpec

\* The variables keep their types.
THEOREM StartTypeCorrect == StartSpec => []StartTypeOK
  <1>1. StartInv => StartTypeOK OBVIOUS
  <1> QED BY <1>1, StartInvariance, PTL

\* A start that failed, at whichever step, leaves neither socket nor program.
THEOREM FailureIsClean == StartSpec => []NothingLeftBehind
  <1>1. StartInv => NothingLeftBehind BY StartConstants DEF NothingLeftBehind, Started
  <1> QED BY <1>1, StartInvariance, PTL

\* A start that was reported has a program and a host that can be reached.
THEOREM ReadinessIsTrue == StartSpec => []ReadyIsTrue
  <1>1. StartInv => ReadyIsTrue BY StartConstants DEF ReadyIsTrue
  <1> QED BY <1>1, StartInvariance, PTL

\* What a starter is told is how things are.
THEOREM AnswersAreTrue == StartSpec => []AnswerIsTrue
  <1>1. StartTypeOK /\ NothingLeftBehind /\ ReadyIsTrue => AnswerIsTrue BY DEF AnswerIsTrue
  <1> QED BY <1>1, StartTypeCorrect, FailureIsClean, ReadinessIsTrue, PTL

\* No start, failing or ending, takes another's socket from the path.
THEOREM OthersAreLeftAlone == StartSpec => OthersLeftAlone
  <1> DEFINE Left == \A s \in Starts : path = s /\ path' # s => removals' > removals \/ second'[s] # second[s]
  <1>1. ASSUME StartInv, StartNext PROVE Left
    <2>1. CASE \E s \in Starts : FirstStage(s)
      BY <2>1 DEF FirstStage, start_checks, start_fork, start_fails, start_reads
    <2>2. CASE \E s \in Starts : SecondStage(s)
      <3> PICK t \in Starts : SecondStage(t) BY <2>2
      <3>1. path' = path \/ path = NoSocket \/ (path = t /\ (unbind(t) \/ abandon(t) \/ run_removes(t)))
        BY <1>1, StartConstants
           DEF SecondStage, setup, install_signal_handlers, clear_mask, listen, open_pty, first_check,
               spawn_fork, spawn_exec, spawn_exec_fails, second_check, report_ready, unbind, fail,
               abandon, run_removes, remove_socket, step_fails, FailUnbound, FailBound
      <3> QED BY <1>1, <3>1, StartConstants DEF unbind, abandon, run_removes
    <2>3. CASE \E s \in Starts : run_ends(s) \/ first_killed(s) \/ sigterm(s)
      BY <2>3 DEF run_ends, first_killed, sigterm
    <2>4. CASE file_removed BY <1>1, <2>4 DEF file_removed
    <2> QED BY <1>1, <2>1, <2>2, <2>3, <2>4 DEF StartNext
  <1>2. StartInv /\ [StartNext]_startVars => [Left]_startVars BY <1>1
  <1> QED BY <1>2, StartInvariance, PTL DEF StartSpec, OthersLeftAlone

==============================================================================
