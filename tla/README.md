# A TLA+ development of Farhelm

Farhelm runs coding agents on machines of the user's fleet and shows their terminals in one
place. This directory holds TLA+ models of the parts whose correctness is hard to test, the
TLC configurations that check them on small instances, and proofs, checked by TLAPS, that
hold for every instance. The core is the **terminal host**: the small process that keeps a
terminal alive when everything else restarts, and that can itself never be upgraded while it
runs. A mistake in it stays on users' machines for as long as their sessions. Around it are the
supervisor, which owns the hosts, the checkouts and the versions of one machine, and the helm,
which keeps a connection to each supervisor; of both, the parts where several actors, crashes and
lost connections meet are modelled.

    tlc -workers 2 -config MCTunnels.cfg MCTunnels       # one line per run, see "Runs"
    tlapm TunnelsProofs.tla                              # and the other modules with theorems, see "Proofs"

## The system and its parts

| Part | State it keeps | Operations | Interacts with |
| --- | --- | --- | --- |
| terminal host (`crates/terminal-host`) | the pty, the child, the journal, one client, connections waiting for their Hello | start, accept, Hello/take-over, Info, Read, Input, Resize, Snapshot, Shutdown, signals | one supervisor over a unix socket; the program over the pty |
| journal (`journal.rs`) | snapshot, output blocks, resizes, exit, a running cost | push, accept a snapshot, trim, read by cursor | called by the host's event loop |
| host terminals (`farhelm-supervisor/src/hosts`) | a connection and an emulator per host, input in flight, replay positions | adopt, reconnect, replay, checkpoint, input, shutdown, discovery, verified signal | terminal hosts; the session code |
| sessions (`farhelm-supervisor/src/service`) | session entries, launch generations, claims, SQLite rows | create, stop, restart, delete, sweep, tick, capture, relay | tmux, hosts, process table, systemd, the helm |
| checkouts (`working_copies`, `checkout_trash`, `spare_*`, `repo_cache`) | registry rows, namespaces, directories with recorded identities | allocate, archive, delete, build, publish, take, recover | launches, startup, a lock per repository |
| versions (`version_lock`, `session_hold`, `managed_supervisor`) | file locks on a version's program | hold, adopt, prune | installer, desktop app, sessions |
| helm connections (`manager`, `client`) | one actor and one state machine per host, requests in flight, channels | dial, reconnect, retire, multiplex | supervisors over ssh or a socket |
| helm sessions (`sessions`, `approvals`, `agent_requests`, `tunnels`, `uploads`, `terminal`) | caches, pending approvals, listeners | route, ask the user, open and close tunnels, transfer | browsers, supervisors |
| provisioning and Tensorlake | plans and runs per host | probe, execute, suspend, resume, reclaim | ssh, an external API |
| emulator, proto, UI, desktop, CLI | screens; types; presentation | | |

What is hard in them: the host serves everything from one loop in which a frame that was read
and not acted on is announced by nothing; clients, the program, signals and time move between
any two of its steps; its start may fail or be killed at any step and must leave nothing; the
journal drops its front while a reader stands in it. In the supervisor: reconnecting with input
in flight, crashes between a rename and its record, locks on files that are renamed away,
judging a process gone. In the helm: reconnects racing revocation and deletion. `PROJECT.json`
lists each of these under `hazards`, at its line, with the properties that would catch it.

What makes each part correct: the host's stream has no silent hole and repeats nothing, input is
accounted for byte by byte, the host ends when told and otherwise never sleeps on something it
could do; a start is all or nothing; a runtime's emulator equals what the program wrote; delete
never loses what still runs; no checkout is removed that was not allocated; no version
disappears under a program that holds it.

## Modules

**`Journal`** is the journal without its blocks. Retained output is a range of the stream and a
byte is its offset; `resizeLog` keeps every resize, of which those from `start.resizes` on are
retained. The actions are `push_output`, `push_resize`, `push_exit`, `accept_snapshot` (each
with the `trim` the code ends with), `read`, `disconnect`, and one per branch of `next`: the
snapshot, the gap, a gap in the tail, the exit, a resize, output, nothing. The
client's end, `rx`, is computed from the records it receives and from nothing else, so the
properties compare what a client believes with what happened.

**`JournalBlocks`** is the journal as stored: blocks filled at the back and cut at the front, a
queue of resizes, a running cost, `trim`'s loop, `next` returning messages. Its blocks hold
bytes, so a slice taken wrongly delivers wrong bytes. `JournalParameters` declares what both are given.
It is shown to implement `Journal` (`ImplementsJournal`), and the properties of `Journal` are checked
on it: the loop stops where `Journal` says, and judging a position by two
neighbouring resizes is as good as by all of them. `history` is the only variable the code does
not have.

**`TerminalHost`** is `Host::step`. One iteration is the agenda `todo`: the handlers left to run,
in the code's order, computed from what `poll` reported. A handler is an action; it takes itself
off the agenda and puts what it calls in its place (`read_client` calls `act_on_buffered`, which
calls one `handle_*` per frame). The environment moves between any two handlers, so what `poll`
reported can be stale. Frames are whole and named by kind; a frame to the client is `FRAME`
units long so that it can be partly written, an Input is `INPUT_LEN` bytes so that the pty can
take part of it. The journal is the sequence of its records here. Connections of another user
are refused at accept. Deadlines are members of `due`: a deadline may pass at any time after it
is set, never before.

**`HostStart`** is `spawn.rs` with `listen`, `remove_socket`, `abandon` and `run` of `host.rs`: any
number of starts that race for one path, each a first stage its starter waits for and a second
that becomes the host. Every step that can fail may fail, a SIGTERM may come and the first stage
be killed at any step, and something else may remove the file at the path. A socket file is named
for the start that bound it. Comparing and unlinking are two calls in `remove_socket`, and binding
and looking two in `listen`; the file is taken not to be replaced between them, as `host.rs` says.
A SIGKILL of the second stage is not modelled: nothing in this code can answer it, and the code
that does, in the supervisor, is in `StopHosts`.

**`HostReplay`** is the supervisor's side of a terminal: the task that owns the emulator
(`Runtime` of `hosts/terminal.rs`) reading `Journal`, which it instantiates and drives with the
journal's own actions (`J!push_output`, `J!read`, ...), over a connection that may be lost, and its
successors, which replay what the last one was sent without acting on it again. A byte is a whole
unit of the program's: something shown, a query, or the marker that opens or closes a synchronized
update. What was answered, shown and missed is history (`fx`), kept to state the properties. The
redraw nudge, the fence and the `accepted` tail after the exit are left out.

**`HostInput`** is the other direction: callers with keys and pastes, the queue, the window and the
fates of what was in flight when a connection ended, the recovery that closes a paste, the
emulator's answers, and a host with all but input left out. Input is a few units long, so the
program's terminal can take part of it. A pty that refuses input once refuses it for good.

**`StopHosts`** is what the supervisor and `stop-terminal-hosts` do about one socket: connect with
the refusal window, ask the host to shut down, find its process, pin it, signal it, wait, and remove
the file. Around it the host exits, stops answering, loses its file, or is replaced, and its
pid and inode number go to others. A search of the process table is one step here: the gate that keeps
such searches to one at a time is left out.

**`VersionLock`** is the versions kept side by side: a version is a path, `at` the file there
now, a lock belongs to an open file. Opening, locking and looking at the path again are
steps of their own in every holder (forwarder, app, supervisor, hold step, keeper, launch
shim), and so are each lock and each rename of an install and an uninstall; everything may be
killed anywhere. A file system without `flock` runs unprotected, and a power cut is left out.

**`SpareCheckouts`** is the spares of one repository: the record, publication, the worker and its
policy, the clone helper, the shim that takes a spare without any lock, and the sweeps of a start.
`maybe` holds every place a power cut may leave a directory at. **`WorkingCopies`** is the managed
checkouts: rows, directories with inodes and creation times, creates and their retry, Delete's order of
steps, the archive and its recovery, the trash, under one directory admission; the user changes the
file system between any two calls. Granularity: `mkdir` with the look at what it made, the
identity check of `verify_identity` with the one of `archive_move`, the root check with `mkdir`,
the launch with its confirmation and the sweep of a process tree are one step each. Left out: nested
paths (only equal ones overlap), device numbers and remounts, the legacy trash, trust and
preparation of a checkout, power loss. `ATTEMPTS` stands for the eight names the archive tries.
Excused (`strayed`): a directory only planned, and anything put in place between check and rename
(see "Known divergences").

**`HostActor`** is one host of the helm: its actor (dial, identity, refresh, publication), the edits
of its row (retry, retarget, adopt) and the handlers that record created and deleted sessions in the
durable cache or, without an identity, in the published list. Every await is a boundary between two
steps, and a future that is dropped leaves the store write it handed over running. **`Tunnels`** is
the loopback listeners of a session, under the mutation gate: opens, closes, consent, deletes,
shutdown, relays, and the reconnects, which come in whole steps from `HostActor`; the store write of a
refresh that a retry dropped is a step of its own, and a delete's write of the cache may fail, after
which the delete succeeds all the same. `unforgotten` remembers the deleted sessions whose row was left
or written again. Two adoptions
between an open's two looks at the session can cancel out; what the second look then misses is a
connection that has gone, so nothing is relayed by it.

The `*Proofs` modules hold the theorems, about one component each; those of the life of a terminal host
around its loop (`Journal`, `HostStart`, `StopHosts`, `VersionLock`) are together in
`HostLifecycleProofs`. `TerminalHostLemmas` is what `TerminalHostProofs` rests on, the invariant and what
the host's operations keep of it, and `FoldRuns` what that needs of loops over sequences.

The `MC*` modules only choose instances. One run covers several situations that would not fit in one
state space together, so an MC module has a variable `scenario`, chosen in its initial states and never
changed: it says which operations occur, how many, and how much of each bound is left (a counter
may start anywhere up to its bound). The specification itself is untouched: `Within` restricts its steps
to the scenario. No restriction touches a step some fairness condition is about. Identifiers that
differ only in name are taken in order, which does what symmetry would do and leaves liveness
checkable; `MCTerminalHost`, which checks none, declares the symmetry of its user's connections.

Composition: `JournalBlocks` implements `Journal`, and `HostReplay` runs over it. The others
meet at what one leaves to the other: `HostInput` has the input half of `TerminalHost`,
`StopHosts` sees of a host what `HostStart` and `TerminalHost` promise (its file goes before it
does), `Tunnels` sees of a host's actor what `HostActor` does (the cache never holds two installs'
sessions). Their state spaces do not fit in one run.

## Runs

| Run | Shows |
| --- | --- |
| `terminal_host` | Scenarios: a client whose replies, input and Shutdown hold one another back; one that follows the output to the exit, also past a child that left the terminal to another process; one that breaks the protocol or resizes while SIGTERM comes; two that take over from each other; connections without a Hello, a stranger's, and no descriptors. Nothing is left for an event that will not come (but for the Inputs of `input_wakeup`); a close loses nothing sent before it; input, acknowledgements and queues add up; frames and records keep their order, the exit after the output. |
| `input_wakeup` | A violation: with room for a third frame in the buffer and for two in the socket, the host sleeps on an Input that its last look let through after the output ended (see "Known divergences"). |
| `journal_blocks` | All interleavings of four bytes of output, two resizes, the exit, snapshots and a reader over the stored form, with a cap that forces trimming: the tail is ordered, bounded and starts with the right size; the reader's stream has no silent hole, no repetition, the right sizes and the exit in its place; the running cost is exact and the blocks waste less than two; all of it implements `Journal`; a reader that keeps taking records is told of the exit. |
| `host_start` | Two starts race, one with SIGTERM blocked by its starter: a failed start leaves nothing, a reported one is real, others' files are left alone, starters learn the outcome, SIGTERM ends the start. |
| `host_input` | A bracketed paste and a key behind it against another caller's paste, with answers, partial writes, a pty that stops taking input and two lost connections: every fate told is true, nothing enters a paste or follows a hole, answers come once and in order, the paste budget adds up. |
| `host_replay` | Two supervisors in turn, fresh or recovering, each dying anywhere, over a lost connection and a journal of a record or two: no query is answered twice, none that no supervisor was sent is left unanswered, the screen is what the journal says, nothing old is shown as new. |
| `host_actor` | Operations against refreshes, a retry and a loss; retargets, reinstalls and adoptions; a host without an identity. A recorded session stays and a deleted one is not revived, one install's sessions in the cache, no old connection routable; the list heals. |
| `checkouts` | A user who changes the directories, with a failing call and a crash; no creation times; failing calls and two crashes. Only what was recorded is moved, nothing in use, nothing is forgotten without a word; a Delete asked for until it succeeds succeeds. |
| `spare_checkouts` | Two creates, two kills or power cuts; one and a failing call; two roots. Nothing on disk is forgotten, a living shim keeps what it took, a start removes what a predecessor left, the ready spare is where the newest create wants it, attempts end. |
| `stop_hosts` | The three callers on either system, with faults and reused pids and inodes: gone is said of what is gone, no other process is signalled, a living host keeps its socket, the call ends. |
| `tunnels` | Consent, closes and the shutdown; agents, reinstalls and adoptions; deletes, a reconnect and a failure: nothing listens without consent or after the shutdown, nor for a deleted session unless its row outlived it, nothing is relayed to another installation, the gate comes free whatever relays do. |
| `version_lock` | An install that prunes and may be killed anywhere against a supervisor with a window and a forwarded command or an uninstall: no version goes from under its user, a command gives up only if disturbed, waiters for a lock go on and keepers let go. |

**Bounds.** `Cap` holds two resizes, or one and two bytes, or the four bytes that are written, so that
trimming drops output only, a resize only, and both; four bytes and two resizes give a reader every
position before, inside and after what is dropped. A block holds two bytes: pushed one by one,
the four would waste as much as two blocks hold if each took a block of its own, which `BlocksExact`
forbids. Each resize has a size of its own, so a size kept too long shows.
`MAX_PENDING_INPUT` takes one Input and not two with their costs, or a second after the first is
partly written; `OUTGOING_HIGH_WATER` is one frame and `SOCKET_ROOM` one and a half, so every bound is
met, exceeded by a frame and released again, and frames are cut by partial writes; a Hello and up to
two frames behind it suffice for one that fills a bound and one held behind it. `EXIT_DRAIN_BYTES` is
one chunk and the program writes two. One pending place and three connections make eviction happen.
Deadlock is checked for the journal and for `HostActor`, whose host never stops moving; everything
else comes to an end by itself or by its bounds, so its runs allow it.

The other modules bound what repeats by counters in the guards: `MaxLosses` connections lost,
`MaxCrashes` crashes, `MaxFaults` failing calls, `MaxMoves` changes of the destination or of who
answers there, `MaxRetries` retries, `MaxActs` acts of the user, `MaxRemovals`, `MaxSupervisors`,
`MaxStarts`, `MaxInstalls`. One of each makes every error path run, two make one fault meet the repair
of another. Capacities are smallest values that are both met and exceeded: a `WINDOW` and a `QUEUE` of
one or two pieces with a paste that fills the budget, a journal of one or two records for a reader two
records behind, `CHECKPOINT` inside an update and at its end. Two of each actor race, and a third is
there where two of them must first disagree (an open, a disable and an enable at the gate of the
tunnels). One checkout path and one archive name make every directory collide with another; two roots
make a change of the root matter.

**Fairness.** Liveness is checked in `journal_blocks`, `host_start`, `host_actor`, `checkouts`,
`spare_checkouts`, `stop_hosts`, `tunnels` and `version_lock`. In `JournalBlocks` the host keeps taking
records for a connected reader, which is its loop. In `HostStart` each process runs; a host is shut
down only if someone asks; a starter need not begin. Elsewhere tasks of the tokio runtime that can run
do run (`HostActor`'s actor, handlers and store writes, `Tunnels`'s requests, relays and listeners),
calls to the file system and the database return (`SpareCheckouts`'s attempt and cleanup,
`WorkingCopies`'s steps), deadlines pass (`StopHosts`), and a lock that is free or shared is got by
who waits for it (`VersionLock`). Nothing is assumed of a supervisor's peer, of a host that hangs, of
shims and clone helpers, of installers or of users, except in `WorkingCopies`: `SF` of `delete_start`
says that the user who asked for a Delete asks again until the session is gone, which is what the
interface offers after a failure.

## Proofs

TLAPS checks every theorem below for all values of the constants, under the named assumptions of the
component's module or its parameters' (`HostConstants`, `NoneIsNothing`, `ConstantsOK`, `StartConstants`, `VersionConstants`, `StopConstants`,
`TunnelAssumption`, `HostAssumption`, `SpareConstants`, `CopiesConstants`): bounds are naturals, a frame has
more than one unit and one Input fits `MAX_PENDING_INPUT`, `None` and the like are none of the
identifiers, and a checkout's path is never a name in the archive, which the code's types and paths say. TLC evaluates them on its instances.
No property is inductive by itself, so each module states an invariant that is, checked by TLC on the
run's instance before it was proved, and shows that it holds initially, that each action preserves it
(one lemma per action or group of actions) and that it implies the property.

| Theorem | Property | Run |
| --- | --- | --- |
| `TerminalHostProofs!NothingSleptOn`, `NothingLostAtClose` | `NoLostWakeup`, `CloseActsOnEverything` | `terminal_host` |
| `TerminalHostProofs!InputAcknowledged`, `StreamedInOrder`, `HostConsistent` | `AcksAccounted`, `OutputInOrder`, `Consistent` | `terminal_host` |
| `TerminalHostProofs!IndInvHolds` | the inductive invariant itself | |
| `HostLifecycleProofs!TailIsSound`, `StreamIsTold` | `TailSound`, `StreamTold` of `Journal` | `journal_blocks`, by its refinement mapping |
| `HostLifecycleProofs!OnlyForwards` | positions move forwards only, the exit stays | |
| `HostLifecycleProofs!AnswersAreTrue`, `OthersAreLeftAlone` | `AnswerIsTrue`, `OthersLeftAlone` | `host_start` |
| `HostLifecycleProofs!VersionKept`, `VersionGivesUp` | `VersionsKept`, `GivesUpOnlyIfDisturbed` | `version_lock` |
| `HostLifecycleProofs!StoppedHostsAreGone`, `ServedSocketsStay` | `Consistent`, `ServedSocketKept` | `stop_hosts` |
| `TunnelsProofs!TunnelsAreConsistent`, `RoutesAreSound` | `Consistent`, `RoutesSound` | `tunnels` |
| `HostActorProofs!HostIsConsistent`, `RecordedWritesStay` | `Consistent`, `WritesStay` | `host_actor` |
| `SpareCheckoutsProofs!SparesAreConsistent`, `PolicyIsHeld`, `StartsRecover` | `Consistent`, `PolicyHolds`, `StartupRecovers` | `spare_checkouts` |
| `WorkingCopiesProofs!CopiesAreConsistent`, `DirectoriesAreKnown` | `Consistent`, `KnownOrTold` | `checkouts` |
| `WorkingCopiesProofs!OnlyOwnMoves`, `DirectoriesInUseStay` | `OwnMoved`, `InUseStays` | `checkouts` |

**`TerminalHost`.** The properties are about the moment the loop sleeps, or a connection is closed, or a
reader is handed a record, and what they rest on is spread over an iteration; so `IndInv` says what holds
between any two handlers. `AgendaOK` is the order the handlers can be in: between the last look and
`poll` nothing else is left, and before it the last look is still ahead. `Woken` says what each part of
the agenda still sees to: a dead child is still announced in the pipe unless `reap_child` is ahead, a
drain has output left unless `finish_drain` is, and nothing is held that a handler would let through unless
the last look is. That a host which read the end of output starts no Input (`Unstarted`), the exception
`NoLostWakeup` is stated with, is an invariant on top of it. `Exits` ties the child's death, the pty it wrote to and its record, `Connections` counts what each connection has sent,
what was read of it and what was acted on, `Closing` says what a client that is going away has left to do,
and `Served` that the client's queues, totals and cursor tell of just what was acted on (`ClientOK`: the
shape of the outgoing queue, the running totals, the acknowledgements, the records). Each handler has one
lemma for each of these parts it disturbs. An acknowledgement is replaced in the queue as long as it is
not started and is appended otherwise, so two can only stand next to each other if the first is the one
being written (`Spaced`); that is the bound on their number. The code loops over its queues, and a sum or
a filter over a queue is a fold: `FoldRuns` shows, for any operation, that a fold goes through a run of
values (`FoldGoesThrough`) and that one more element is one more step (`FoldOfAppend`). Its induction over
the length is stated for *sets* of numbers (`Induction`), which needs no operator as a parameter;
`TerminalHostLemmas` proves it from the well-founded order of the naturals and instantiates `FoldRuns` for
the four loops (sums, filters, inputs given up, inputs offered to the pty). One frame may be larger than
the high water, so the bound on the queue is a frame more than the larger of the two.

**`Journal`.** `IndInv` adds what ties the properties together: every position the journal
keeps (the start, the exit, the cursor) lies *on the path*, that is, separates the resizes at its
offset. Positions on the path are linearly ordered (`PathIsAChain`), so a cursor behind the start in
one component is not ahead of it in the other, and a gap never takes a reader back; that is the
argument the code relies on when it compares positions by two numbers. A stored snapshot holds the
size in force at its position, and a reader's position and size agree with its cursor from the gap
on. Trimming is one lemma for the three operations that trim.

**`HostStart`.** `StartInv` says which steps hold the file and the program (`SocketFileInv`,
`ChildInv`) and what the pipe tells about the second stage (`ReportInv`): the first stage concludes
only when nobody holds the write end, and by then the second stage has cleaned up.

**`VersionLock`.** The argument is the one flock gives: whoever is about to move a version's
file has the exclusive lock of *that file* (`ExclusiveHeld`), whoever runs a version has a shared one
of the file that is *at its path* (`SharedHeld`), and an exclusive lock is its file's only one
(`LocksExclude`); `AtGuarded` puts them together: a step that changes the file at a path finds no
runner and no keeper of that version. Neither half is inductive without the other, nor without where
each process can be (`Placed`), who holds the installation lock (`BusyAgrees`) and that a file has one
name (`OneName`), so `LockInv` is their conjunction. The installer's and the keeper's properties
follow from what they keep on top of it (`InstallerKeeps`, `KeeperOf`). The opening of the file, the
lock and the second look at the path are separate steps of the proof as they are of the code: without
`lock_check`, `SharedHeld` fails. That a command gives up only when disturbed needs one thing more
(`CalmInv`): exclusive locks are only ever the installation lock's holder's, so while nobody has that
lock no file moves, no shared lock is refused, and a stale Running record costs a command one of its
three attempts.

**`StopHosts`.** A process keeps its pid for as long as it lives and its start identity is given
once, so what a call remembers of a process never comes to mean another (`Pins`). A search that has not
found the host still has it before it (`Searching`), so finding nobody means there is nobody. Between
the checks of a process and the signal, only facts are used that no step of the world takes back
(`Verified`); what can still happen is the window `OnlyTheHostSignalled` excuses.

**`Tunnels`.** The gate has one holder (`Gated`), and what a holder has established is fixed by
where it is (`RequestOK`). A live listener is in the entries or in the hands of a request that is closing
it (`AllKnown`), so whoever took out the entries and joined them leaves nothing behind. That nothing is
published afterwards for a deleted session (`Forgotten`) follows an open from its first look at the cache
to its listener: if the row is gone, the connection it captures is later, of another installation, or by
the second look already gone.

**`HostActor`.** An incarnation names one client for ever, so what was dialed under one that
still stands was dialed where the row points. The cache lock makes the write of a refresh and a
recorded create exclude each other (`LockOK`); a refresh that began before the create knows by its epoch
that it is stale (`FreshOK`). `dropped` is what the proof cannot do without: the late store write under
"Known divergences".

**`SpareCheckouts`.** `maybe` is what makes it hard: the record must agree with every namespace
a power cut may leave. A ready slot is, now or after a cut, only ever of the recorded directory,
because a record is replaced when the flushed namespace can hold no other (`WorkerOK`, `BuildOK`) and
dropped when it is empty (`SweepOK`); a cleanup holds the lock and spares the claims of every shim that
can still move one (`ShimOK`). Until a cleanup is done, each slot that must go is still to be looked at
(`Evicting`, for the policy) and each remnant a start must clear is (`Remnants`, for the start).

**`WorkingCopies`.** Two invariants, one on top of the other. `Records` is about the database:
two active rows never share a path and a session originates one checkout at most (`Distinct`), every
session kept in an allocated checkout's directory is its member, and nobody runs or starts where an
archive is pending (`MemberOK`); each step of an operation still holds what its first one checked
(`OpOK`), which is the admission. Without `Distinct` a session could be a member of two rows, and the
row a Delete archives would not be the only one its agent stands in. `Directories` is about the file
system: with creation times an identity is one object's, and the row that records it is of the checkout
the object was made for (`ObjectsOK`, lemma `OneObject`), so it does not matter that inodes come back; a
directory the user has not moved is where its row's state says (`PlaceOK`); what a Delete has decided for
a checkout stays true until it commits, whatever the user does meanwhile (`SettledOK`); and between a
check and the rename or the removal, the object that was seen is still the one at its place, or the user
has moved it, or what is there is the user's (`SeenOK`). The last one is what `OwnMoved` and `InUseStays`
rest on, and the three properties of the file system need both invariants.

**Only model-checked.** Every liveness property and what rests on `ENABLED` (fairness), which TLAPS
cannot do. `JournalBlocks`, whose loops are recursive operators: its `BlocksExact` and its refinement of
`Journal` are checked by TLC. `HostInput` (`Consistent`, `FatesHonest`, `StreamSound`) and `HostReplay`
(`ScreenTrue`, `AnsweredOnce`), where what is told or shown is interpreted from a whole stream of units
again at each state; the interpretation is a fold that `FoldRuns` could be used for, and the invariants
over it are not stated yet. Every safety property of the other nine components is proved.

## Known divergences

While modelling, these places came up where the code does something its documents or comments do not
say. The models do what the code does; the properties that hold are stated with the exception, which
the module names where it is made.

- A retry drops a refresh at an await, and with it the cache's lock, while the store write it handed
  to a blocking thread goes on (`refresh_once` says every writer takes the lock across its
  write). A session created in between is missing from the cache until the next refresh (`dropped`
  in `HostActor`).
- Without an identity the lock is released before the list is published, with the same effect on the
  list in memory.
- A refusal is published without looking whether the row has moved since, so a mismatch of the old
  destination can stand next to the new row, and the user's answer adopts the one's identity for the
  other.
- Delete checks a directory's identity and then renames it by path; what is put there in between is
  moved to the trash, though SPEC.md says a foreign object at the path remains untouched (`strayed`, and
  the wording of `OwnMoved`, in `WorkingCopies`).
- The notice of a directory a Delete left behind is in its reply only; a crash after the commit loses
  it, though SPEC.md says it is never silent (`lost` in `WorkingCopies`).
- `forget_deleted_session` says that a successful teardown cannot leave a newly published listener
  behind. Forgetting the cached row is best effort: if the host reconnected since the delete was sent, if
  the write of the cache fails, or if a dropped refresh writes its older list after it, the row stays or
  comes back, and an open waiting at the gate publishes a listener for the deleted session, which the
  next refresh does not close (`unforgotten` in `Tunnels`, the exception of `DeletedHasNone`).
- `Host::step` says of its last look at held frames that whatever it queues brings its own wakeup. With
  the terminal's output at its end the pty is not polled, and an Input let through by that look waits
  for something unrelated to wake the loop before it is discarded and acknowledged.
  `InputBringsWakeup` states the comment's claim and the run `input_wakeup` shows it violated;
  `NoLostWakeup` states everything else the comment promises, with the exception it names: what the loop
  sleeps on then is Inputs of which nothing is started, and nothing else.

## Not modelled

Everything is listed in `PROJECT.json` with its reason. In short: wire encodings, descriptor flags,
parsing and presentation are data or single calls (the host's and the supervisor's protocol types,
the UI, the desktop shell, the command line). tmux, systemd, git, ssh, the Tensorlake API and the
vendored emulator are not in the repository; the older tmux terminals, provisioning and the
Tensorlake lifecycle are sequences of calls to them. The supervisor's and the helm's stores are SQL
statements, each an action of the module that relies on it. The channels of the supervisor's link
(uploads, downloads, relays, grids) are each a stream between two tasks. Of the session code,
creates, restarts and Delete are modelled where they touch directories, attachments and versions; the
status ticker, the hooks, the sweep of a process tree and the handover of a host between
launches are not: they spread over the store, marks, scopes and the process table, and a model that left
most of these out would show nothing about them.
