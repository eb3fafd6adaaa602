----------------------------- MODULE HostReplay -----------------------------
(****************************************************************************)
(* What a terminal looks like and what its program is answered while        *)
(* supervisors and connections come and go: the task that owns the emulator *)
(* (Runtime of farhelm-supervisor/src/hosts/terminal.rs) reads the journal  *)
(* of module Journal over a connection that may be lost, stores snapshots   *)
(* of the emulator in it, and starts over in the next supervisor, replaying *)
(* what the last one was sent without acting on it again.                   *)
(*                                                                          *)
(* A byte of output is a whole unit of the program's: a query that is also  *)
(* shown to the user, or the marker that opens or closes a synchronized     *)
(* update, which the emulator holds until it draws it. Where an Output      *)
(* record ends is the host's choice, so an encode in the middle of a read   *)
(* is one at the end of a record with the rest of the read in the next.     *)
(****************************************************************************)
EXTENDS Integers, Sequences, FiniteSets, SequencesExt

CONSTANTS
  Sizes, InitialSize, Cap, RECORD_COST, MaxBytes, MaxResizes, None,
  Programs,        \* what the program may print: sequences of units
  Seeded,          \* the host was spawned with an initial snapshot
  CHECKPOINT,      \* output that makes a checkpoint due
  QUEUE,           \* bound: records on their way to the client
  MaxSupervisors,  \* bound: supervisors that adopt the host
  MaxLosses        \* bound: connections lost (RECONNECT_LIMIT is 3)

Units == {"query", "open", "close"}

ASSUME ReplayAssumption ==
  /\ \A p \in Programs : p \in [1 .. MaxBytes -> Units]
  /\ Seeded \in BOOLEAN
  /\ CHECKPOINT \in Nat \ {0} /\ QUEUE \in Nat \ {0}
  /\ MaxSupervisors \in Nat /\ MaxLosses \in Nat

VARIABLES
  snapshot, blob, start, startSize, trimmed, end, resizeLog, exit, cursor, rx,
  program,     \* what this program prints
  image,       \* the emulator in the stored snapshot
  delivered,   \* Host::delivered_end
  wire,        \* records written whole to the client and not yet processed
  conn,        \* the connection: "none", "up", "cut" or "down"
  asking,      \* the snapshot the task waits for an answer about, or None
  rt,          \* the runtime of the supervisor, or None
  fx,          \* history: how often each unit was answered and shown, whether one
               \* was fed twice, what clients were sent, had been sent before
               \* this adoption, and what is old to this supervisor's users
  adoptions, losses

J == INSTANCE Journal

journal == <<snapshot, blob, start, startSize, trimmed, end, resizeLog, exit>>
vars == <<journal, cursor, rx, program, image, delivered, wire, conn, asking, rt, fx,
          adoptions, losses>>

Bytes == 0 .. (MaxBytes - 1)
Unit(b) == program[b + 1]

\* The emulator: what it has drawn, what it holds in an open update, what a
\* gap told it is missing, its size, and whether it holds what the initial
\* snapshot brought.
Blank == [drawn |-> {}, held |-> {}, missed |-> {}, size |-> InitialSize, seeded |-> FALSE]

\* Emulator::is_clean
is_clean(emu) == emu.held = {}

-----------------------------------------------------------------------------
(* Replay: what of the journal is replay, and of which kind.                *)

Finished == [seen_end |-> 0, end |-> J!Origin, finished |-> TRUE, crossed |-> TRUE]

Until(seen_end, e) ==
  LET seen == IF seen_end < e.offset THEN seen_end ELSE e.offset
  IN [seen_end |-> seen, end |-> e, finished |-> e = J!Origin, crossed |-> seen = 0]

bytes_mode(r, offset) ==
  IF r.finished THEN "Live" ELSE IF offset < r.seen_end THEN "ReplaySeen" ELSE "ReplayUnseen"

flush_mode(r, offset) ==
  IF r.finished THEN "Live" ELSE IF offset <= r.seen_end THEN "ReplaySeen" ELSE "ReplayUnseen"

-----------------------------------------------------------------------------
(* The emulator. A handler works on a state s = [rt, fx]; what a unit does  *)
(* follows the mode of the moment it is interpreted.                        *)

interpret(s, units, mode) ==
  LET queries == {b \in units : Unit(b) = "query"}
      count(f, set) == [b \in Bytes |-> f[b] + IF b \in set THEN 1 ELSE 0]
  IN [s EXCEPT !.rt.emu.drawn = @ \cup units,
               !.rt.emu.held = {},
               !.fx.answered = IF mode = "ReplaySeen" THEN @ ELSE count(@, queries),
               !.fx.shown = IF mode = "Live" THEN count(@, queries) ELSE @]

flush_sync(s, mode) == IF is_clean(s.rt.emu) THEN s ELSE interpret(s, s.rt.emu.held, mode)

resize(s, size, mode) == [flush_sync(s, mode) EXCEPT !.rt.emu.size = size]

\* One unit; an open update holds all that follows until it closes.
parse(s, b, mode) ==
  LET known == s.rt.emu.drawn \cup s.rt.emu.held
      t == [s EXCEPT !.fx.twice = @ \/ b \in known]
      held == s.rt.emu.held \cup {b}
  IN IF (is_clean(s.rt.emu) /\ Unit(b) # "open") \/ (~is_clean(s.rt.emu) /\ Unit(b) = "close")
     THEN interpret(t, held, mode)
     ELSE [t EXCEPT !.rt.emu.held = held]

\* Mutant: an update open where the seen output ends is left open.
cross_seen_end_NoFlush(s) ==
  [s EXCEPT !.rt.replay.crossed = @ \/ s.rt.pos.offset >= s.rt.replay.seen_end]

cross_seen_end(s) ==
  IF s.rt.replay.finished \/ s.rt.replay.crossed \/ s.rt.pos.offset < s.rt.replay.seen_end THEN s
  ELSE [flush_sync(s, "ReplaySeen") EXCEPT !.rt.replay.crossed = TRUE]

\* Mutant: an update open where the replay ends is left open.
finish_replay_NoFlush(s) ==
  IF s.rt.replay.finished THEN s
  ELSE [cross_seen_end(s) EXCEPT !.rt.replay.finished = TRUE]

finish_replay(s) ==
  IF s.rt.replay.finished THEN s
  ELSE LET t == cross_seen_end(s)
       IN [flush_sync(t, flush_mode(t.rt.replay, t.rt.pos.offset))
             EXCEPT !.rt.replay.finished = TRUE]

reached(p, q) == J!AtOrAfter(p, q)

finish_replay_if_reached(s) ==
  IF reached(s.rt.pos, s.rt.replay.end) THEN finish_replay(s) ELSE s

after_record(s) == finish_replay_if_reached(cross_seen_end(s))

after(p, q) == p.offset > q.offset \/ (p.offset = q.offset /\ p.resizes > q.resizes)

-----------------------------------------------------------------------------
(* Records.                                                                 *)

\* A unit of an Output: past the replay's end the replay is over, whatever
\* else it waited for.
feed(s, b) ==
  LET r == s.rt.replay
      t == IF ~r.finished /\ b >= r.end.offset THEN finish_replay(s) ELSE s
      u == [parse(t, b, bytes_mode(t.rt.replay, b)) EXCEPT !.rt.pos.offset = b + 1]
  IN after_record(u)

\* What was already processed is skipped; an overdue update is drawn first,
\* with the effects of what comes after it.
on_output(s, rec, overdue) ==
  LET from == IF rec.from < s.rt.pos.offset THEN s.rt.pos.offset ELSE rec.from
      r == s.rt.replay
      t == IF ~r.finished /\ from >= r.end.offset THEN finish_replay(s) ELSE s
      u == IF overdue THEN flush_sync(t, bytes_mode(t.rt.replay, from)) ELSE t
  IN IF rec.to <= from THEN s
     ELSE FoldLeft(feed, u, [i \in 1 .. (rec.to - from) |-> from + i - 1])

on_resized(s, rec) ==
  IF rec.index < s.rt.pos.resizes THEN s
  ELSE after_record([resize(s, rec.size, flush_mode(s.rt.replay, s.rt.pos.offset))
    EXCEPT !.rt.pos = J!Pos(IF rec.offset > s.rt.pos.offset THEN rec.offset ELSE s.rt.pos.offset,
                            rec.index + 1)])

\* The emulator is kept, also one that holds an update, unless the gap takes
\* the replay past what was seen or changed the size.
on_gap(s, rec) ==
  LET r == s.rt.replay
      t == IF ~r.finished /\ ~r.crossed /\ rec.to.offset >= r.seen_end
           THEN [flush_sync(s, "ReplaySeen") EXCEPT !.rt.replay.crossed = TRUE] ELSE s
      u == IF t.rt.emu.size = rec.size THEN t
           ELSE resize(t, rec.size, flush_mode(s.rt.replay, s.rt.pos.offset))
      p == J!Pos(rec.to.offset, IF rec.to.resizes > s.rt.pos.resizes THEN rec.to.resizes
                                ELSE s.rt.pos.resizes)
  IN IF ~after(rec.to, s.rt.pos) THEN s
     ELSE after_record([u EXCEPT !.rt.pos = p,
            !.rt.emu.missed = @ \cup (s.rt.pos.offset .. (rec.to.offset - 1))])

on_snapshot(s, rec, first) ==
  IF ~first /\ ~after(rec.pos, s.rt.pos) THEN s
  ELSE after_record([s EXCEPT !.rt.emu = rec.image, !.rt.pos = rec.pos])

on_exited(s) == flush_sync(s, flush_mode(s.rt.replay, s.rt.pos.offset))

\* on_event: what a record makes of the state.
on_event(rec, overdue) ==
  LET s == [rt |-> [rt EXCEPT !.have_state = TRUE], fx |-> fx]
  IN CASE rec.kind = "Snapshot" -> on_snapshot(s, rec, ~rt.have_state)
       [] rec.kind = "Output" -> on_output(s, rec, overdue)
       [] rec.kind = "Resized" -> on_resized(s, rec)
       [] rec.kind = "Gap" -> on_gap(s, rec)
       [] rec.kind = "Exited" -> on_exited(s)

\* Checkpoints::due and changed, and start_encode's own conditions.
Due(r) ==
  /\ r.replay.finished /\ r.ready = None /\ is_clean(r.emu)
  /\ r.pos.offset - r.attempted.offset >= CHECKPOINT

\* Mutant: the position of an encode is the end of the read it stopped.
encode_AtEnd(s, rest, encoded) ==
  [s EXCEPT !.rt.attempted = s.rt.pos,
     !.rt.ready = IF encoded THEN [pos |-> IF rest THEN J!Pos(Head(Tail(wire)).to, s.rt.pos.resizes)
                                           ELSE s.rt.pos, image |-> s.rt.emu] ELSE None,
     !.rt.rest = encoded /\ rest]

\* start_encode and what the encode hands back; nothing else touches the
\* emulator meanwhile. It may fail, and the rest of the read is fed after it.
encode(s, rest, encoded) ==
  [s EXCEPT !.rt.attempted = s.rt.pos,
     !.rt.ready = IF encoded THEN [pos |-> s.rt.pos, image |-> s.rt.emu] ELSE None,
     !.rt.rest = encoded /\ rest]

Becomes(s) == rt' = s.rt /\ fx' = s.fx

-----------------------------------------------------------------------------
(* The host.                                                                *)

host == <<journal, cursor, rx, image, delivered>>

print ==
  /\ \E n \in 1 .. MaxBytes : J!push_output(n)
  /\ UNCHANGED <<program, image, delivered, wire, conn, asking, rt, fx, adoptions, losses>>

resized ==
  /\ \E s \in Sizes : J!push_resize(s)
  /\ UNCHANGED <<program, image, delivered, wire, conn, asking, rt, fx, adoptions, losses>>

exits ==
  /\ J!push_exit
  /\ UNCHANGED <<program, image, delivered, wire, conn, asking, rt, fx, adoptions, losses>>

Write(rec) ==
  /\ conn = "up" /\ Len(wire) < QUEUE
  /\ wire' = Append(wire, rec)
  /\ UNCHANGED <<program, image, conn, asking, rt, adoptions, losses>>

send_snapshot ==
  /\ J!next_snapshot
  /\ Write([kind |-> "Snapshot", pos |-> snapshot, image |-> image])
  /\ UNCHANGED <<delivered, fx>>

send_gap ==
  /\ J!next_gap \/ J!next_in_tail_gap
  /\ Write([kind |-> "Gap", to |-> start, size |-> startSize])
  /\ UNCHANGED <<delivered, fx>>

send_exited ==
  /\ J!next_in_tail_exit
  /\ Write([kind |-> "Exited"])
  /\ UNCHANGED <<delivered, fx>>

send_resized ==
  LET p == J!Settled.position
  IN /\ J!next_in_tail_resize
     /\ Write([kind |-> "Resized", offset |-> p.offset, index |-> p.resizes,
               size |-> J!SizeAt(p.resizes + 1)])
     /\ UNCHANGED <<delivered, fx>>

send_output ==
  \E to \in 1 .. MaxBytes :
    /\ J!next_in_tail_output(to)
    /\ Write([kind |-> "Output", from |-> J!Settled.position.offset, to |-> to])
    /\ delivered' = IF delivered < to THEN to ELSE delivered
    /\ fx' = [fx EXCEPT !.sent = @ \cup (J!Settled.position.offset .. (to - 1))]

send_nothing ==
  /\ conn = "up" /\ J!next_nothing
  /\ UNCHANGED <<program, image, delivered, wire, conn, asking, rt, fx, adoptions, losses>>

\* The host takes or rejects a snapshot; its answer ends the task's wait.
store_snapshot ==
  /\ asking # None /\ conn = "up"
  /\ IF J!Acceptable(asking.pos)
     THEN J!accept_snapshot(asking.pos) /\ image' = asking.image
     ELSE UNCHANGED <<journal, cursor, rx, image>>
  /\ asking' = None
  /\ UNCHANGED <<program, delivered, wire, conn, rt, fx, adoptions, losses>>

-----------------------------------------------------------------------------
(* The runtime.                                                             *)

\* adopt_connected up to its Read: Info tells what was delivered and where
\* the journal ends. Only a supervisor that spawned the host, or retries a
\* create it did not see through, takes it for fresh.
adopt(fresh) ==
  LET seen == J!Pos(delivered, 0)
  IN /\ rt = None /\ adoptions < MaxSupervisors
     /\ adoptions' = adoptions + 1
     /\ rt' = [pos |-> J!Origin, have_state |-> FALSE, emu |-> Blank,
               replay |-> IF ~fresh THEN Until(delivered, J!current)
                          ELSE IF delivered > 0 THEN Until(delivered, seen) ELSE Finished,
               attempted |-> snapshot, ready |-> None, rest |-> FALSE]
     /\ conn' = "down"
     /\ fx' = [fx EXCEPT !.before = fx.sent, !.old = IF fresh THEN fx.sent ELSE 0 .. (end - 1)]
     /\ UNCHANGED <<host, program, wire, asking, losses>>

\* start_read, of an adoption and of a reconnect: the host goes on from what
\* was processed, whatever it was sent before.
start_read ==
  /\ rt # None /\ conn = "down"
  /\ J!read(rt.pos)
  /\ conn' = "up"
  /\ UNCHANGED <<program, image, delivered, wire, asking, rt, fx, adoptions, losses>>

\* A turn that takes a record: not while the task waits for an answer about a
\* snapshot, and not before one that is ready was sent, unless it is the rest
\* of the read the encode stopped.
take_record ==
  /\ rt # None /\ wire # <<>> /\ asking = None
  /\ rt.ready = None \/ rt.rest
  /\ \E overdue \in BOOLEAN :
       LET rec == Head(wire)
           t == [on_event(rec, overdue) EXCEPT !.rt.rest = FALSE]
           live == (rec.kind = "Output" /\ rec.to > rt.pos.offset) \/ ~rt.replay.finished
           deferred == rec.kind = "Output" /\ Len(wire) > 1 /\ Head(Tail(wire)).kind = "Output"
       IN IF live /\ Due(t.rt)
          THEN \E rest, encoded \in BOOLEAN :
                 (rest => deferred) /\ Becomes(encode(t, rest, encoded))
          ELSE Becomes(t)
  /\ wire' = Tail(wire)
  /\ UNCHANGED <<host, program, conn, asking, adoptions, losses>>

\* Wake::SyncDue: the program did not close its update in time.
sync_due ==
  LET t == flush_sync([rt |-> rt, fx |-> fx], flush_mode(rt.replay, rt.pos.offset))
  IN /\ rt # None /\ ~is_clean(rt.emu) /\ asking = None /\ ~rt.rest
     /\ IF Due(t.rt) THEN \E encoded \in BOOLEAN : Becomes(encode(t, FALSE, encoded))
        ELSE Becomes(t)
     /\ UNCHANGED <<host, program, wire, conn, asking, adoptions, losses>>

\* Taken out to be sent, it is not kept for another connection.
send_checkpoint ==
  /\ rt # None /\ rt.ready # None /\ ~rt.rest /\ conn \in {"up", "cut"} /\ asking = None
  /\ asking' = IF conn = "up" THEN rt.ready ELSE None
  /\ rt' = [rt EXCEPT !.ready = None]
  /\ UNCHANGED <<host, program, wire, conn, fx, adoptions, losses>>

\* The connection ends. What the client read before can still be processed.
lose ==
  /\ conn = "up" /\ losses < MaxLosses
  /\ losses' = losses + 1
  /\ conn' = "cut"
  /\ asking' = None
  /\ \E n \in 0 .. Len(wire) : wire' = SubSeq(wire, 1, n)
  /\ J!disconnect
  /\ UNCHANGED <<program, image, delivered, rt, fx, adoptions>>

reconnect ==
  /\ rt # None /\ conn = "cut" /\ wire = <<>>
  /\ conn' = "down"
  /\ UNCHANGED <<host, program, wire, asking, rt, fx, adoptions, losses>>

\* The supervisor stops or dies, with whatever it had not processed.
crash ==
  /\ rt # None
  /\ rt' = None /\ wire' = <<>> /\ conn' = "none" /\ asking' = None
  /\ IF conn = "up" THEN J!disconnect ELSE UNCHANGED <<journal, cursor, rx>>
  /\ UNCHANGED <<program, image, delivered, fx, adoptions, losses>>

-----------------------------------------------------------------------------
Init ==
  /\ J!Init /\ blob = IF Seeded THEN InitialSize ELSE None
  /\ program \in Programs
  /\ image = [Blank EXCEPT !.seeded = Seeded] /\ delivered = 0
  /\ wire = <<>> /\ conn = "none" /\ asking = None /\ rt = None
  /\ fx = [answered |-> [b \in Bytes |-> 0], shown |-> [b \in Bytes |-> 0], twice |-> FALSE,
            sent |-> {}, before |-> {}, old |-> {}]
  /\ adoptions = 0 /\ losses = 0

Send == send_snapshot \/ send_gap \/ send_exited \/ send_resized \/ send_output \/ send_nothing
Runtime == start_read \/ take_record \/ sync_due \/ send_checkpoint \/ reconnect

Next ==
  \/ print \/ resized \/ exits
  \/ Send \/ store_snapshot
  \/ \E fresh \in BOOLEAN : adopt(fresh)
  \/ Runtime \/ lose \/ crash

Spec == Init /\ [][Next]_vars

-----------------------------------------------------------------------------
Emulators == [drawn : SUBSET Bytes, held : SUBSET Bytes, missed : SUBSET Bytes, size : Sizes,
              seeded : BOOLEAN]

TypeOK ==
  /\ J!TypeOK
  /\ image \in Emulators /\ delivered \in 0 .. end
  /\ Len(wire) <= QUEUE /\ conn \in {"none", "up", "cut", "down"}
  /\ asking = None \/ (asking.pos \in J!Position /\ asking.image \in Emulators)
  /\ rt = None <=> conn = "none"
  /\ rt # None => /\ rt.emu \in Emulators
                  /\ rt.pos \in J!Position /\ rt.attempted \in J!Position
                  /\ J!AtOrAfter(J!current, rt.pos)
                  /\ rt.have_state \in BOOLEAN /\ rt.rest \in BOOLEAN
  /\ fx.answered \in [Bytes -> Nat] /\ fx.shown \in [Bytes -> Nat]

\* The emulator is what the journal says at its position: every unit before
\* it was fed once, in this supervisor or in the snapshot it started from, or
\* is one a gap said is gone; its size is the size in force there (on_output,
\* on_resized, on_gap, on_snapshot over reconnects).
WholeScreen ==
  rt # None =>
    /\ ~fx.twice
    /\ rt.emu.drawn \cup rt.emu.held \cup rt.emu.missed = 0 .. (rt.pos.offset - 1)
    /\ (rt.emu.drawn \cup rt.emu.held) \cap rt.emu.missed = {}
    /\ rt.emu.size = J!SizeAt(rt.pos.resizes)
    /\ rt.have_state => rt.emu.seeded = Seeded

\* A snapshot the host stores is of the position it is stored at, and clean:
\* nothing before it is missing from it and nothing after it is in it.
SnapshotTrue ==
  blob # None =>
    /\ is_clean(image) /\ image.seeded = Seeded
    /\ image.drawn \cup image.missed = 0 .. (snapshot.offset - 1)
    /\ image.size = blob

\* No query is answered twice and nothing shown to the user twice, however
\* many supervisors interpret it and wherever an update holds it.
OnceEver == \A b \in Bytes : fx.answered[b] <= 1 /\ fx.shown[b] <= 1

\* A query no supervisor was sent before this one is answered once it is
\* interpreted, however the journal was trimmed and the stream cut.
UnseenAnswered ==
  rt # None =>
    \A b \in rt.emu.drawn : Unit(b) = "query" /\ b \notin fx.before => fx.answered[b] = 1

\* What a terminal shows, and what the next supervisor starts it from, is what
\* the journal says.
ScreenTrue == TypeOK /\ WholeScreen /\ SnapshotTrue

\* A query is answered once: not again by the next supervisor, and not never.
AnsweredOnce == OnceEver /\ UnseenAnswered

\* What was written before a supervisor adopted the host (or, by a host it
\* takes for fresh, sent to another) is never shown to its users as new.
ShownLive == [][\A b \in fx.old : fx'.shown[b] = fx.shown[b]]_vars
=============================================================================
