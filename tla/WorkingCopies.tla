--------------------------- MODULE WorkingCopies ---------------------------
(***************************************************************************)
(* The supervisor's managed checkouts: the registry of the directories it  *)
(* made under a repository root (working_copies.rs), the create that makes *)
(* one and its retry after a crash, the sessions that keep it, the Delete  *)
(* that ends a session and archives its last checkout (teardown.rs), the   *)
(* recovery of an interrupted archive at startup, and the trash            *)
(* (checkout_trash.rs).                                                    *)
(*                                                                         *)
(* Three things move under each other's feet: the database, whose commits  *)
(* survive a crash of the supervisor; the file system, which the user      *)
(* changes between any two calls; and the operation in progress, of which  *)
(* there is one at a time, since every create, Delete, restart check and   *)
(* trash delete holds the directory admission (working_copy_operations).   *)
(*                                                                         *)
(* A directory is an object with an inode, which a later object may reuse, *)
(* and a creation time, which it may not.  A place is a name under one of  *)
(* the directories that have been the repository root; names are checkout  *)
(* paths and names inside the archive.                                     *)
(***************************************************************************)
EXTENDS Naturals, Sequences, FiniteSets

CONSTANTS
    Sessions, Checkouts,   \* identifiers, each used once
    Paths,                 \* checkout paths
    Stems,                 \* archive names that carry a time of day
    Fresh,                 \* archive names with a new UUID, each used once
    Roots,                 \* directories that can be at the root's path
    None,
    ATTEMPTS,              \* ARCHIVE_ATTEMPTS
    MaxFaults,             \* bound: failing calls
    MaxActs,               \* bound: changes the user makes to the file system
    MaxCrashes             \* bound: crashes of the supervisor

Names == Paths \cup Stems \cup Fresh
User == "user"

\* A checkout's name is never one in the archive; the user is nobody's checkout.
ASSUME CopiesConstants ==
    /\ User \notin Checkouts
    /\ None \notin Sessions \cup Checkouts \cup Names \cup Roots
    /\ None \notin [ino : Nat, birth : Nat]
    /\ Paths \cap (Stems \cup Fresh) = {}
    /\ IsFiniteSet(Sessions)
    /\ {MaxFaults, MaxActs, MaxCrashes} \subseteq Nat

VARIABLES
    rows,        \* working_copies, by checkout
    members,     \* working_copy_members: the sessions of each checkout
    sess,        \* sessions: outcome, working directory, originated checkout
    att,         \* a session's attachments: at home, parked or gone
    runs,        \* sessions whose agent runs
    starting,    \* restarts between their check and their launch
    root, tree, objs,          \* the file system
    op,          \* the operation that holds the directory admission
    told,        \* history: places a Delete's reply or a trash reply named
    lost,        \* history: notices a crash took with it
    strayed,     \* history: objects the user has moved
    asked,       \* history: sessions a Delete was asked for
    spent,       \* how much of each bound is used
    births       \* whether the file system reports creation times; never changes

fs == <<root, tree, objs>>
db == <<rows, members, sess>>
history == <<told, lost, strayed, asked>>
vars == <<rows, members, sess, att, runs, starting, root, tree, objs, op,
          told, lost, strayed, asked, spent>>

NoRow == [st |-> "none", root |-> None, name |-> None, id |-> None, dest |-> None]
Unborn == [st |-> "new", cwd |-> None, origin |-> None]
Idle == [kind |-> "idle", at |-> "idle", s |-> None, w |-> None, src |-> 0,
         tries |-> 0, todo |-> {}, released |-> {}, notices |-> {}]

Init ==
    /\ rows = [w \in Checkouts |-> NoRow]
    /\ members = [w \in Checkouts |-> {}]
    /\ sess = [s \in Sessions |-> Unborn]
    /\ att = [s \in Sessions |-> "none"]
    /\ runs = {} /\ starting = {}
    /\ root \in Roots
    /\ tree = [q \in Roots \X Names |-> 0]
    /\ objs = << >>
    /\ op = Idle
    /\ told = {} /\ lost = {} /\ strayed = {} /\ asked = {}
    /\ spent \in [faults : 0..MaxFaults, acts : 0..MaxActs, crashes : 0..MaxCrashes]
    /\ births \in BOOLEAN

Listed(s) == sess[s].st \in {"launching", "live", "error"}
Active(w) == rows[w].st \notin {"none", "retired"}
At(n) == tree[<<root, n>>]

\* A call fails, or does not.
Fault == /\ spent.faults < MaxFaults
         /\ spent' = [spent EXCEPT !.faults = @ + 1]
Works == UNCHANGED spent

-----------------------------------------------------------------------------
(* Identity.  A directory is the recorded one when inode and creation time *)
(* agree; without creation times the inode alone speaks, and no archive    *)
(* or deletion trusts it.                                                  *)

Identity(o) == [ino |-> objs[o].ino, birth |-> objs[o].birth]
same_directory(o, id) == objs[o].ino = id.ino /\ objs[o].birth = id.birth
\* Mutant: a directory without creation times is trusted.
always_confirmed(o, id) == FALSE

creation_time_unconfirmed(o, id) == id.birth = 0 /\ objs[o].birth = 0
verified_root(w) == rows[w].root = root
Matches(w) == At(rows[w].name) # 0 /\ same_directory(At(rows[w].name), rows[w].id)

\* A new directory at a place, with an inode no living object has.
Used == {objs[o].ino : o \in {tree[q] : q \in DOMAIN tree} \ {0}}
Made(place, ino, by) ==
    /\ objs' = Append(objs, [ino |-> ino, by |-> by,
                             birth |-> IF births THEN Len(objs) + 1 ELSE 0])
    /\ tree' = [tree EXCEPT ![place] = Len(objs) + 1]
    /\ UNCHANGED root

-----------------------------------------------------------------------------
(* Creating a session in a new checkout.                                   *)

\* A name is free when nothing is there and no active record, a plan included,
\* claims it.
Unclaimed(p) == At(p) = 0 /\ \A w \in Checkouts : Active(w) => rows[w].name # p

\* One transaction: the launching session, the plan and its membership.
insert_session_with_plan(s, w, p) ==
    /\ op = Idle /\ sess[s].st = "new" /\ rows[w].st = "none"
    /\ \A x \in Sessions : sess[x].origin # w
    /\ Unclaimed(p)
    /\ rows' = [rows EXCEPT ![w] = [NoRow EXCEPT !.st = "planned", !.root = root, !.name = p]]
    /\ members' = [members EXCEPT ![w] = {s}]
    /\ sess' = [sess EXCEPT ![s] = [st |-> "launching", cwd |-> p, origin |-> w]]
    /\ att' = [att EXCEPT ![s] = "home"]
    /\ op' = [Idle EXCEPT !.kind = "create", !.at = "mkdir", !.s = s, !.w = w]
    /\ UNCHANGED <<runs, starting, fs, history, spent>>

\* Mutant: the plan goes and its membership stays.
rollback_keeps_member ==
    /\ rows' = [rows EXCEPT ![op.w] = NoRow]
    /\ sess' = [sess EXCEPT ![op.s].st = "gone"]
    /\ att' = [att EXCEPT ![op.s] = "none"]
    /\ op' = Idle
    /\ UNCHANGED members

\* Before mkdir: the plan, its membership and the session go in one step.
rollback_pre_mkdir_create ==
    /\ rows' = [rows EXCEPT ![op.w] = NoRow]
    /\ members' = [members EXCEPT ![op.w] = {}]
    /\ sess' = [sess EXCEPT ![op.s].st = "gone"]
    /\ att' = [att EXCEPT ![op.s] = "none"]
    /\ op' = Idle

\* From mkdir on: everything stays, as a visible refusal.
retain_create_refusal(s) ==
    /\ sess' = [sess EXCEPT ![s].st = "error"]
    /\ op' = Idle
    /\ UNCHANGED <<rows, members, att>>

\* The exclusive mkdir and the look at what it made.
mkdir ==
    /\ op.kind = "create" /\ op.at = "mkdir"
    /\ LET w == op.w  p == rows[w].name IN
         IF ~verified_root(w) \/ At(p) # 0
         THEN rollback_pre_mkdir_create /\ Works /\ UNCHANGED fs
         ELSE \/ /\ Made(<<root, p>>, Len(objs) + 1, w)
                 /\ op' = [op EXCEPT !.at = "record", !.src = Len(objs) + 1]
                 /\ Works /\ UNCHANGED <<db, att>>
              \/ /\ Made(<<root, p>>, Len(objs) + 1, w) \/ UNCHANGED fs
                 /\ Fault /\ retain_create_refusal(op.s)
    /\ UNCHANGED <<runs, starting, history>>

\* Sessions whose recorded directory is the new checkout's path.
attach_retained_sessions(p) == {s \in Sessions : Listed(s) /\ sess[s].cwd = p}

\* One transaction: the identity, the path and the members.
allocate ==
    /\ op.kind = "create" /\ op.at = "record"
    /\ LET w == op.w IN
         \/ /\ At(rows[w].name) # 0
            /\ rows' = [rows EXCEPT ![w].st = "allocated", ![w].root = root,
                                    ![w].id = Identity(op.src)]
            /\ members' = [members EXCEPT ![w] = @ \cup {op.s}
                                                  \cup attach_retained_sessions(rows[w].name)]
            /\ op' = [op EXCEPT !.at = "launch"]
            /\ Works /\ UNCHANGED <<sess, att>>
         \/ /\ retain_create_refusal(op.s)
            /\ \/ At(rows[w].name) = 0 /\ Works
               \/ Fault
    /\ UNCHANGED <<runs, starting, fs, history>>

launch ==
    /\ op.kind = "create" /\ op.at = "launch"
    /\ \/ /\ sess' = [sess EXCEPT ![op.s].st = "live"]
          /\ runs' = runs \cup {op.s}
          /\ op' = Idle
          /\ Works /\ UNCHANGED <<rows, members, att>>
       \/ Fault /\ retain_create_refusal(op.s) /\ UNCHANGED runs
    /\ UNCHANGED <<starting, fs, history>>

\* A path whose archive is pending is nowhere to start a session.
refuse_pending_archive(n) == \A w \in Checkouts : rows[w].st = "pending" => rows[w].name # n

\* The retry of a create a crash cut short.
\* An occupied plan, or a checkout that is not the recorded one, is refused.
retry_create(s) ==
    /\ op = Idle /\ sess[s].st = "launching"
    /\ LET w == sess[s].origin
           again(at) == /\ op' = [Idle EXCEPT !.kind = "create", !.at = at, !.s = s, !.w = w]
                        /\ UNCHANGED <<db, att>>
           here == verified_root(w) /\ refuse_pending_archive(rows[w].name)
       IN CASE here /\ rows[w].st = "planned" /\ At(rows[w].name) = 0 -> again("mkdir")
            [] here /\ rows[w].st = "allocated" /\ Matches(w) -> again("launch")
            [] OTHER -> retain_create_refusal(s)
    /\ UNCHANGED <<runs, starting, fs, history, spent>>

-----------------------------------------------------------------------------
(* Sessions in a directory that exists, and restarts.                      *)

\* The session joins every allocated checkout its directory is in, by path.
attach_existing_ancestors(s, n) ==
    members' = [w \in Checkouts |-> members[w] \cup
                   IF rows[w].st = "allocated" /\ rows[w].name = n THEN {s} ELSE {}]

create_existing(s, n) ==
    /\ op = Idle /\ sess[s].st = "new"
    /\ At(n) # 0 /\ refuse_pending_archive(n)
    /\ attach_existing_ancestors(s, n)
    /\ sess' = [sess EXCEPT ![s] = [st |-> "live", cwd |-> n, origin |-> None]]
    /\ att' = [att EXCEPT ![s] = "home"]
    /\ runs' = runs \cup {s}
    /\ UNCHANGED <<rows, starting, fs, op, history, spent>>

\* A restart checks the registry under the admission and then lets it go;
\* the lifecycle claim keeps a Delete of this session out until it is done.
restart_check(s) ==
    /\ op = Idle /\ sess[s].st \in {"live", "error"} /\ s \notin runs \cup starting
    /\ \A w \in Checkouts : s \in members[w] => rows[w].st \notin {"pending", "planned"}
    /\ LET w == sess[s].origin IN
         w # None => rows[w].st = "allocated" /\ verified_root(w) /\ Matches(w)
    /\ At(sess[s].cwd) # 0
    /\ starting' = starting \cup {s}
    /\ UNCHANGED <<db, att, runs, fs, op, history, spent>>

restart_launch(s) ==
    /\ s \in starting
    /\ runs' = runs \cup {s}
    /\ starting' = starting \ {s}
    /\ UNCHANGED <<db, att, fs, op, history, spent>>

-----------------------------------------------------------------------------
(* Delete.  Every step before the transaction may fail, and then the       *)
(* session stays; what the archive itself meets never fails the Delete.    *)

delete_start(s) ==
    /\ op = Idle /\ Listed(s) /\ s \notin starting
    /\ op' = [Idle EXCEPT !.kind = "delete", !.at = "sweep", !.s = s]
    /\ asked' = asked \cup {s}
    /\ UNCHANGED <<db, att, runs, starting, fs, told, lost, strayed, spent>>

\* Mutant: a process tree that could not be ended does not stop the Delete.
delete_sweep_lax ==
    /\ op.kind = "delete" /\ op.at = "sweep"
    /\ \/ Works /\ runs' = runs \ {op.s}
       \/ Fault /\ UNCHANGED runs
    /\ op' = [op EXCEPT !.at = "park"]
    /\ UNCHANGED <<db, att, starting, fs, history>>

\* The process tree, the hosts and the terminal.
delete_sweep ==
    /\ op.kind = "delete" /\ op.at = "sweep"
    /\ \/ Works /\ runs' = runs \ {op.s} /\ op' = [op EXCEPT !.at = "park"]
       \/ Fault /\ UNCHANGED runs /\ op' = Idle
       \/ Fault /\ runs' = runs \ {op.s} /\ op' = Idle
    /\ UNCHANGED <<db, att, starting, fs, history>>

\* The attachments are set aside, and the memberships read.
quarantine_session_dir ==
    /\ op.kind = "delete" /\ op.at = "park"
    /\ \/ /\ att' = [att EXCEPT ![op.s] = IF @ = "home" THEN "parked" ELSE @]
          /\ op' = [op EXCEPT !.at = "next",
                              !.todo = {w \in Checkouts : op.s \in members[w]}]
          /\ Works
       \/ Fault /\ op' = Idle /\ UNCHANGED att
    /\ UNCHANGED <<db, runs, starting, fs, history>>

\* One checkout is settled: nothing more to do, or it is given up and what is
\* said names every place it can be.  At startup nobody is told: it waits.
Over == /\ op' = [op EXCEPT !.at = "next", !.todo = @ \ {op.w}, !.w = None, !.src = 0]
        /\ UNCHANGED rows
Given(w, names) == [op EXCEPT !.at = "next", !.todo = @ \ {w}, !.w = None, !.src = 0,
                              !.released = @ \cup {w}, !.notices = @ \cup ({w} \X names)]
\* Mutant: what cannot be archived cannot be deleted.
GiveUpBlocks(w, names) == op' = IF op.kind = "delete" THEN Idle
                                ELSE [op EXCEPT !.at = "next", !.todo = @ \ {w}, !.w = None, !.src = 0]

GiveUp(w, names) == op' = IF op.kind = "delete" THEN Given(w, names)
                          ELSE [op EXCEPT !.at = "next", !.todo = @ \ {w}, !.w = None, !.src = 0]

\* Mutant: a notice names the recorded path alone.
WherePath(w) == {rows[w].name}

Where(w) == {rows[w].name} \cup ({rows[w].dest} \ {None})
OthersRemain(w) == Cardinality(members[w]) > 1

\* Another active record of the same path: moving either would act on evidence
\* that cannot be right.
Overlapped(w) == \E v \in Checkouts \ {w} :
    rows[v].st \in {"allocated", "pending"} /\ rows[v].name = rows[w].name

\* archive_last_reference and the checks of archive_move.
\* `src` is the object they saw.
Begin(w, at) == op' = [op EXCEPT !.at = at, !.w = w, !.src = At(rows[w].name), !.tries = 0]
archive_last_reference(w) ==
    IF Overlapped(w) THEN GiveUp(w, Where(w))
    ELSE IF rows[w].st = "pending" THEN Begin(w, "reconcile")
    ELSE IF verified_root(w) /\ At(rows[w].name) = 0 THEN op' = [op EXCEPT !.todo = @ \ {w}]
    ELSE IF \/ ~verified_root(w) \/ ~Matches(w)
            \/ creation_time_unconfirmed(At(rows[w].name), rows[w].id)
         THEN GiveUp(w, {rows[w].name})
         ELSE Begin(w, "journal")

\* The decision for one membership of the session.
decide ==
    /\ op.kind = "delete" /\ op.at = "next"
    /\ \E w \in op.todo :
         IF rows[w].st = "planned"
         THEN op' = [op EXCEPT !.todo = @ \ {w},
                               !.notices = @ \cup IF At(rows[w].name) = 0 THEN {}
                                                  ELSE {<<w, rows[w].name>>}]
         ELSE IF ~Active(w) \/ OthersRemain(w)
              THEN op' = [op EXCEPT !.todo = @ \ {w}]
              ELSE archive_last_reference(w)
    /\ UNCHANGED <<db, att, runs, starting, fs, history, spent>>

\* The destination is journaled before the rename.
persist_journal ==
    /\ op.at = "journal"
    /\ \/ /\ \E n \in Stems :
               rows' = [rows EXCEPT ![op.w].st = "pending", ![op.w].dest = n]
          /\ op' = [op EXCEPT !.at = "rename"]
          /\ Works
       \/ Fault /\ GiveUp(op.w, Where(op.w)) /\ UNCHANGED rows
    /\ UNCHANGED <<members, sess, att, runs, starting, fs, history>>

\* A name with a new UUID, journaled in place of the last one.
Unused == {n \in Fresh : /\ \A r \in Roots : tree[<<r, n>>] = 0
                         /\ \A w \in Checkouts : rows[w].dest # n}
repoint_journal == \E n \in Unused : rows' = [rows EXCEPT ![op.w].dest = n]

\* The rename was refused and moved nothing: the journal is taken back.
unjournal == rows' = [rows EXCEPT ![op.w].st = "allocated", ![op.w].dest = None]

Moved(from, to) == tree' = [tree EXCEPT ![to] = tree[from], ![from] = 0]

\* The rename that never overwrites.
rename_exclusive_into ==
    /\ op.at = "rename"
    /\ LET w == op.w  from == <<root, rows[w].name>>  to == <<root, rows[w].dest>> IN
         \/ /\ tree[from] # 0 /\ tree[to] = 0
            /\ Moved(from, to)
            /\ \/ op' = [op EXCEPT !.at = "sync"] /\ Works
               \/ GiveUp(w, Where(w)) /\ Fault
            /\ UNCHANGED rows
         \/ /\ tree[from] # 0 /\ tree[to] # 0 /\ Works
            /\ IF op.tries + 1 < ATTEMPTS
               THEN repoint_journal /\ op' = [op EXCEPT !.tries = @ + 1]
               ELSE GiveUp(w, Where(w)) /\ UNCHANGED rows
            /\ UNCHANGED tree
         \/ /\ tree[from] = 0 /\ Works
            /\ GiveUp(w, Where(w)) /\ UNCHANGED <<rows, tree>>
         \/ /\ Fault /\ UNCHANGED tree
            /\ \/ unjournal /\ GiveUp(w, {rows[w].name})
               \/ GiveUp(w, Where(w)) /\ UNCHANGED rows
    /\ UNCHANGED <<members, sess, att, runs, starting, root, objs, history>>

\* Both parents are made durable before the journal may go.
sync_archive_parent ==
    /\ op.at = "sync"
    /\ \/ Over /\ Works
       \/ Fault /\ GiveUp(op.w, Where(op.w)) /\ UNCHANGED rows
    /\ UNCHANGED <<members, sess, att, runs, starting, fs, history>>

\* What a row that is archive_pending comes to: a matching destination wins,
\* else the source moves if it is the recorded one, else nothing moves.
reconcile_archive ==
    /\ op.at = "reconcile"
    /\ LET w == op.w
           dest == At(rows[w].dest)
           done == dest # 0 /\ same_directory(dest, rows[w].id)
           source == At(rows[w].name) # 0
           go(at) == op' = [op EXCEPT !.at = at, !.src = At(rows[w].name)]
           closed == Overlapped(w) \/ ~verified_root(w)
       IN CASE closed -> GiveUp(w, Where(w)) /\ UNCHANGED rows
            [] ~closed /\ done -> go("sync") /\ UNCHANGED rows
            [] ~closed /\ ~done /\ source ->
                 IF ~Matches(w) THEN GiveUp(w, Where(w)) /\ UNCHANGED rows
                 ELSE go("rename") /\ IF dest = 0 THEN UNCHANGED rows ELSE repoint_journal
            [] OTHER -> IF dest = 0 THEN Over ELSE GiveUp(w, Where(w)) /\ UNCHANGED rows
    /\ UNCHANGED <<members, sess, att, runs, starting, fs, history, spent>>

\* What becomes of a checkout whose last member goes: its row after the
\* transaction, and the late notice when it is no longer proved missing.
Settled(w) ==
    IF w \notin op.released /\ rows[w].st = "pending"
    THEN [rows[w] EXCEPT !.st = "retired"] ELSE NoRow
Late(w) == /\ w \notin op.released /\ rows[w].st = "allocated"
           /\ ~verified_root(w) \/ At(rows[w].name) # 0

\* The transaction that ends the session, and what is put back if it fails.
delete_session_archiving_memberships ==
    /\ op.kind = "delete" /\ op.at = "next" /\ op.todo = {}
    /\ LET last == {w \in Checkouts : members[w] = {op.s} /\ Active(w)} IN
         \/ /\ rows' = [w \in Checkouts |-> IF w \in last THEN Settled(w) ELSE rows[w]]
            /\ members' = [w \in Checkouts |-> members[w] \ {op.s}]
            /\ sess' = [sess EXCEPT ![op.s].st = "gone"]
            /\ op' = [op EXCEPT !.at = "reply", !.released = {},
                        !.notices = @ \cup {<<w, rows[w].name>> : w \in {v \in last : Late(v)}}]
            /\ Works /\ UNCHANGED att
         \/ /\ Fault /\ op' = Idle /\ UNCHANGED db
            /\ att' = [att EXCEPT ![op.s] = IF @ = "parked" THEN "home" ELSE @]
    /\ UNCHANGED <<runs, starting, fs, history>>

\* The parked attachments go, and the reply carries the notices.
discard_and_reply ==
    /\ op.kind = "delete" /\ op.at = "reply"
    /\ att' = [att EXCEPT ![op.s] = "none"]
    /\ told' = told \cup op.notices
    /\ op' = Idle
    /\ UNCHANGED <<db, runs, starting, fs, lost, strayed, asked, spent>>

-----------------------------------------------------------------------------
(* Startup.  The agents keep running; what was in progress is gone, and    *)
(* with it what a Delete had still to tell.  Every pending archive is      *)
(* resolved before the supervisor serves, and then the attachments go      *)
(* where their session is.                                                 *)

crash ==
    /\ spent.crashes < MaxCrashes
    /\ spent' = [spent EXCEPT !.crashes = @ + 1]
    /\ lost' = lost \cup op.notices
    /\ op' = [Idle EXCEPT !.kind = "startup", !.at = "next",
                          !.todo = {w \in Checkouts : rows[w].st = "pending"}]
    /\ starting' = {}
    /\ UNCHANGED <<db, att, runs, fs, told, strayed, asked>>

startup_next ==
    /\ op.kind = "startup" /\ op.at = "next"
    /\ \E w \in op.todo : Begin(w, "reconcile")
    /\ UNCHANGED <<db, att, runs, starting, fs, history, spent>>

reconcile_at_startup ==
    /\ op.kind = "startup" /\ op.at = "next" /\ op.todo = {}
    /\ att' = [s \in Sessions |-> IF ~Listed(s) THEN "none"
                                    ELSE IF att[s] = "parked" THEN "home" ELSE att[s]]
    /\ op' = Idle
    /\ UNCHANGED <<db, runs, starting, fs, history, spent>>

-----------------------------------------------------------------------------
(* The trash.                                                              *)

Archived(w) == rows[w].st = "retired" /\ members[w] = {}
MatchesArchive(w) == /\ same_directory(At(rows[w].dest), rows[w].id)
                     /\ ~creation_time_unconfirmed(At(rows[w].dest), rows[w].id)
forget_retired(w) == rows' = [rows EXCEPT ![w] = NoRow]

\* Listing forgets only an archive that is missing under the recorded root.
\* It holds no admission.
list(w) ==
    /\ Archived(w) /\ op.kind # "startup"
    /\ verified_root(w) /\ At(rows[w].dest) = 0
    /\ forget_retired(w)
    /\ UNCHANGED <<members, sess, att, runs, starting, fs, op, history, spent>>

\* An archive that is not the recorded one is forgotten, and the reply says so;
\* one a session would restart in is refused; else its opened directory goes.
InUse(n) == \E s \in Sessions : Listed(s) /\ sess[s].cwd = n
delete(w) ==
    /\ op = Idle /\ Archived(w)
    /\ LET dest == rows[w].dest IN
         CASE verified_root(w) /\ At(dest) = 0 ->
                forget_retired(w) /\ UNCHANGED <<op, told>>
           [] ~verified_root(w) \/ (At(dest) # 0 /\ ~MatchesArchive(w)) ->
                forget_retired(w) /\ told' = told \cup {<<w, dest>>} /\ UNCHANGED op
           [] OTHER ->
                /\ ~InUse(dest)
                /\ op' = [Idle EXCEPT !.kind = "trash", !.at = "remove", !.w = w, !.src = At(dest)]
                /\ UNCHANGED <<rows, told>>
    /\ UNCHANGED <<members, sess, att, runs, starting, fs, lost, strayed, asked, spent>>

\* The removal works on the directory it opened, wherever that is now.
remove_archive ==
    /\ op.kind = "trash"
    /\ \/ /\ tree' = [q \in DOMAIN tree |-> IF tree[q] = op.src THEN 0 ELSE tree[q]]
          /\ forget_retired(op.w) /\ Works
       \/ Fault /\ UNCHANGED <<tree, rows>>
    /\ op' = Idle
    /\ UNCHANGED <<members, sess, att, runs, starting, root, objs, history>>

-----------------------------------------------------------------------------
(* The user, at any time.                                                  *)

Act == /\ spent.acts < MaxActs
       /\ spent' = [spent EXCEPT !.acts = @ + 1]
Rest == UNCHANGED <<db, att, runs, starting, op, told, lost, asked>>

\* Another directory at a name, with an inode that may have been seen before.
put(n) ==
    /\ Act /\ Rest /\ At(n) = 0 /\ UNCHANGED strayed
    /\ \E ino \in 1..(Len(objs) + 1) \ Used : Made(<<root, n>>, ino, User)

take_away(n) ==
    /\ Act /\ Rest /\ At(n) # 0
    /\ tree' = [tree EXCEPT ![<<root, n>>] = 0]
    /\ UNCHANGED <<root, objs, strayed>>

move(n, m) ==
    /\ Act /\ Rest /\ At(n) # 0 /\ At(m) = 0
    /\ Moved(<<root, n>>, <<root, m>>)
    /\ strayed' = strayed \cup {At(n)}
    /\ UNCHANGED <<root, objs>>

\* Another directory at the root's path, as a mount or a rename makes it.
\* With it goes out of sight a directory only planned, whose root nothing
\* looks at again; between a check and its rename, whatever is moved is.
swap_root ==
    /\ Act /\ Rest
    /\ root' \in Roots \ {root}
    /\ strayed' = strayed \cup {o \in DOMAIN objs : objs[o].by # User
                                   /\ rows[objs[o].by].st = "planned"}
                          \cup (IF op.at \in {"journal", "rename"} THEN DOMAIN objs ELSE {})
    /\ UNCHANGED <<tree, objs>>

-----------------------------------------------------------------------------
Create == \/ \E s \in Sessions, w \in Checkouts, p \in Paths : insert_session_with_plan(s, w, p)
          \/ mkdir \/ allocate \/ launch
          \/ \E s \in Sessions : retry_create(s) \/ \E n \in Names : create_existing(s, n)
Restart == \E s \in Sessions : restart_check(s) \/ restart_launch(s)
Archive == persist_journal \/ rename_exclusive_into \/ sync_archive_parent \/ reconcile_archive
Delete == \/ delete_sweep \/ quarantine_session_dir \/ decide
          \/ delete_session_archiving_memberships \/ discard_and_reply
Startup == startup_next \/ reconcile_at_startup
Trash == \E w \in Checkouts : list(w) \/ delete(w)
UserActs == \/ \E n \in Paths \cup Stems : put(n) \/ take_away(n)
            \/ \E n \in Names, m \in Paths \cup Stems : move(n, m)
            \/ swap_root

Steps == \/ Create \/ Restart \/ Archive \/ Delete \/ Startup
         \/ \E s \in Sessions : delete_start(s)
         \/ Trash \/ remove_archive \/ crash \/ UserActs

Next == Steps /\ UNCHANGED births

Spec == Init /\ [][Next]_<<vars, births>>

\* The operation in progress goes on, a restart that began ends, and a Delete
\* that was asked for is asked again until its session is gone.
Fairness ==
    /\ WF_vars(mkdir \/ allocate \/ launch \/ Archive \/ Delete \/ Startup \/ remove_archive)
    /\ \A s \in Sessions : /\ WF_vars(restart_launch(s))
                          /\ SF_vars(s \in asked /\ delete_start(s))

-----------------------------------------------------------------------------
(* Properties.                                                             *)

\* Every row carries what its state needs: an identity from the allocation on,
\* a journaled destination while a move is pending or done, and none else.
TypeOK ==
    /\ \A w \in Checkouts :
         /\ rows[w].st \in {"none", "planned", "allocated", "pending", "retired"}
         /\ rows[w].st \in {"allocated", "pending", "retired"} => rows[w].id # None
         /\ rows[w].dest # None <=> rows[w].st \in {"pending", "retired"}
         /\ members[w] \subseteq Sessions
    /\ \A s \in Sessions : att[s] \in {"none", "home", "parked"}
    /\ runs \cup starting \cup asked \subseteq Sessions
    /\ root \in Roots
    /\ \A q \in Roots \X Names : tree[q] \in 0..Len(objs)

\* Farhelm's own steps on the directories, told from the user's by the bound.
Touched == {o \in DOMAIN objs : /\ spent'.acts = spent.acts
                               /\ \E q \in DOMAIN tree : tree[q] = o /\ tree'[q] # o}

\* A directory that is moved or deleted is one that was made for the checkout
\* it is moved or deleted for: one that was put there instead, even with the
\* same inode, stays where it is. (What is put there between the check and the
\* rename, which goes by path, is not the object that was checked.)
OwnMoved == [][\A o \in Touched : o = op.src => objs[o].by = op.w]_vars

\* No directory goes from under a session nobody asked to delete, be it
\* stopped, nor from under an agent that runs, the deleted session's own
\* included; and no agent is started in a checkout whose archive is pending,
\* which a Delete or the next startup may still move. A directory the user moved
\* about while it was being deleted is left out.
InUseStays ==
    [][/\ \A o \in Touched \ strayed, n \in Names :
             At(n) = o => /\ \A s \in Sessions : Listed(s) /\ sess[s].cwd = n => s \in asked
                          /\ \A s \in runs : sess[s].cwd # n
       /\ \A s \in runs' \ runs, w \in Checkouts :
             s \in members[w] \/ sess'[s].cwd = rows[w].name => rows[w].st # "pending"]_vars

\* A directory Farhelm made is where its record says, or where a notice said,
\* for as long as the user leaves it there.
Placed(o) == LET w == objs[o].by IN
    \A q \in DOMAIN tree : tree[q] = o =>
        \/ rows[w].st # "none" /\ q[2] \in {rows[w].name, rows[w].dest}
        \/ <<w, q[2]>> \in told \cup op.notices
Left(o) == objs[o].by = User \/ o \in strayed
KnownOrTold == \A o \in DOMAIN objs : Left(o) \/ Placed(o)
                   \/ \E q \in DOMAIN tree : tree[q] = o /\ <<objs[o].by, q[2]>> \in lost

\* Membership and use agree: an active record has a member, and a session in
\* an allocated checkout's directory is one, so no other Delete settles it first.
MembersHold ==
    \A w \in Checkouts :
        /\ Active(w) <=> members[w] # {}
        /\ \A s \in Sessions :
             Listed(s) /\ rows[w].st = "allocated" /\ sess[s].cwd = rows[w].name => s \in members[w]

\* Every member is a session that is kept, so the final Delete is seen to be
\* the final one.
MembersAreSessions == \A w \in Checkouts : \A s \in members[w] : Listed(s)

\* A session that is kept has its attachments, at home unless its Delete is
\* under way or a crash cut it.
AttachmentsKept ==
    \A s \in Sessions :
        /\ Listed(s) => att[s] # "none"
        /\ Listed(s) /\ att[s] = "parked" => op.s = s \/ op.kind = "startup"

\* Rows, members, sessions and attachments belong together, whichever step of
\* a create, a Delete or a startup failed or was cut.
Consistent == TypeOK /\ MembersHold /\ MembersAreSessions /\ AttachmentsKept

\* Whatever the archive meets, a Delete that is asked for often enough ends.
DeleteCompletes == \A s \in Sessions : s \in asked ~> sess[s].st = "gone"
=============================================================================
