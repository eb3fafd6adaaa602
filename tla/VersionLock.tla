----------------------------- MODULE VersionLock -----------------------------
(***************************************************************************)
(* The versions kept side by side in the Mac app, and who may remove them: *)
(* version_lock.rs, session_hold.rs, the forwarder (scripts/install.sh),   *)
(* the update path of installation/install.rs and the app's uninstall.     *)
(*                                                                         *)
(* A version is a path; `at` says which file is there now, and a file that *)
(* was opened stays what it is when another takes its place.  A lock       *)
(* belongs to an open file, named for who opened it: the one a session's   *)
(* window takes is kept by its keeper when the window becomes the shell.   *)
(* Opening, locking and looking at the path again are steps of their own,  *)
(* and every process, the installer and the uninstall included, may be     *)
(* killed at any of them.  Installing and uninstalling exclude each other  *)
(* by the installation lock.                                               *)
(*                                                                         *)
(* The filesystem is taken to support flock; where it does not, the code   *)
(* runs without this protection.  A power cut, and what is flushed before  *)
(* it, is left out.                                                        *)
(***************************************************************************)
EXTENDS Naturals, FiniteSets

CONSTANTS
    Versions,
    Commands,       \* commands run through the forwarder
    Servers,        \* the app or a supervisor, each of one version
    Windows,        \* session windows
    Uninstallers,   \* runs of uninstall
    Nothing,
    Present,        \* the versions present at the start
    Installed0,     \* the installed one
    MaxInstalls     \* bound: runs of the installer

ASSUME VersionConstants ==
    /\ Present \subseteq Versions /\ Installed0 \in Present
    /\ MaxInstalls \in Nat
    /\ IsFiniteSet(Versions)
    /\ Nothing \notin Versions \cup Nat
    /\ {Nothing, "installer"} \cap (Commands \cup Servers \cup Windows \cup Uninstallers) = {}
    /\ Nothing # "installer"
    /\ Windows \cap (Commands \cup Servers \cup Uninstallers) = {}
    /\ Uninstallers \cap (Commands \cup Servers) = {}
    /\ Commands \cap Servers = {}

Proc == Commands \cup Servers \cup Windows \cup Uninstallers

Own(p) == <<"own", p>>              \* the open file a process locks for itself
Shim(w) == <<"shim", w>>            \* a window's second one, in the launch shim
Remover(v) == <<"remove", v>>       \* opened by an installer or uninstall to remove v
Desc == {Own(p) : p \in Proc} \cup {Shim(w) : w \in Windows} \cup {Remover(v) : v \in Versions}

VARIABLES
    at,             \* the file at a version's path
    damaged,        \* files that are not what was downloaded
    installed,      \* the Installed record
    record,         \* the Running record
    files,          \* files made so far
    fd, lock,       \* what an open file refers to, and its lock
    pc, version,    \* where a process is, and the version it chose
    stage,          \* a window's program: the hold step or the launch shim
    tries,          \* a forwarder's attempts
    useRunning,     \* does the forwarder still look at the Running record
    keeper,         \* is a window's keeper there
    marked,         \* did the shim write the "launched" mark
    busy,           \* who holds the installation lock: Nothing, "installer" or an uninstaller
    inst,           \* the installer: where it is, its version, what it keeps and looks at
    installs,       \* runs of the installer so far
    plan,           \* versions the uninstall has still to lock, or to remove
    calm,           \* commands during which nothing was installed or removed
    keeperKilled    \* windows whose keeper was killed

files_vars == <<at, damaged, installed, record, files>>
lock_vars == <<fd, lock>>
command_vars == <<tries, useRunning, calm>>
window_vars == <<stage, keeper, marked, keeperKilled>>
install_vars == <<busy, inst, installs, plan>>
all_vars == <<files_vars, lock_vars, pc, version, command_vars, window_vars, install_vars>>

Fd(p) == IF p \in Windows /\ stage[p] = "shim" THEN Shim(p) ELSE Own(p)

-----------------------------------------------------------------------------
(* flock.                                                                  *)

CanShare(d, f) == \A e \in Desc \ {d} : fd[e] = f => lock[e] # "exclusive"
CanExclude(d, f) == \A e \in Desc \ {d} : fd[e] = f => lock[e] = "none"

\* Closing the last descriptor of an open file drops its lock.
Close(S) ==
    /\ fd' = [d \in Desc |-> IF d \in S THEN Nothing ELSE fd[d]]
    /\ lock' = [d \in Desc |-> IF d \in S THEN "none" ELSE lock[d]]

-----------------------------------------------------------------------------
(* Holding a version: hold_for_process and, for the forwarder, run_helper. *)

Goto(p, where) == pc' = [pc EXCEPT ![p] = where]

\* The version is gone or stays locked: the forwarder chooses again, anything
\* else refuses to run.
TurnedAway(p) ==
    /\ Close({Fd(p)})
    /\ Goto(p, IF p \in Commands THEN "choose" ELSE "refused")

hold_open(p) ==
    /\ pc[p] = "open"
    /\ IF at[version[p]] = Nothing
       THEN TurnedAway(p)
       ELSE /\ fd' = [fd EXCEPT ![Fd(p)] = at[version[p]]]
            /\ Goto(p, "lock")
            /\ UNCHANGED lock
    /\ UNCHANGED <<files_vars, version, command_vars, window_vars, install_vars>>

\* The helper first checks the forwarder's descriptor against its own file.
lock_shared(p) ==
    /\ pc[p] = "lock"
    /\ p \in Commands => fd[Fd(p)] = at[version[p]]
    /\ CanShare(Fd(p), fd[Fd(p)])
    /\ lock' = [lock EXCEPT ![Fd(p)] = "shared"]
    /\ Goto(p, "check")
    /\ UNCHANGED <<files_vars, fd, version, command_vars, window_vars, install_vars>>

\* Mutant: a holder that does not let go is waited for.
lock_busy_waits(p) ==
    /\ pc[p] = "lock"
    /\ p \in Commands /\ fd[Fd(p)] # at[version[p]]
    /\ TurnedAway(p)
    /\ UNCHANGED <<files_vars, version, command_vars, window_vars, install_vars>>

\* SHARED_WAIT passes, or the helper finds another file at its path.
lock_busy(p) ==
    /\ pc[p] = "lock"
    /\ \/ ~ CanShare(Fd(p), fd[Fd(p)])
       \/ p \in Commands /\ fd[Fd(p)] # at[version[p]]
    /\ TurnedAway(p)
    /\ UNCHANGED <<files_vars, version, command_vars, window_vars, install_vars>>

lock_check(p) ==
    /\ pc[p] = "check"
    /\ IF fd[Fd(p)] = at[version[p]]
       THEN Goto(p, "running") /\ UNCHANGED lock_vars
       ELSE TurnedAway(p)
    /\ UNCHANGED <<files_vars, version, command_vars, window_vars, install_vars>>

hold_for_process(p) == hold_open(p) \/ lock_shared(p) \/ lock_busy(p) \/ lock_check(p)

-----------------------------------------------------------------------------
(* The forwarder.  A command that runs holds what the forwarder locked.    *)

command(c) ==
    /\ pc[c] = "idle"
    /\ Goto(c, "choose")
    /\ calm' = [calm EXCEPT ![c] = busy = Nothing]
    /\ UNCHANGED <<files_vars, lock_vars, version, tries, useRunning, window_vars, install_vars>>

FromRunning(c) == useRunning[c] /\ record # Nothing

choose(c) ==
    /\ pc[c] = "choose"
    /\ IF tries[c] = 3 \/ (~ FromRunning(c) /\ installed = Nothing)
       THEN Goto(c, "gave_up") /\ UNCHANGED <<version, tries>>
       ELSE /\ version' = [version EXCEPT ![c] = IF FromRunning(c) THEN record ELSE installed]
            /\ tries' = [tries EXCEPT ![c] = @ + 1]
            /\ Goto(c, IF FromRunning(c) THEN "test_running" ELSE "test")
    /\ UNCHANGED <<files_vars, lock_vars, useRunning, calm, window_vars, install_vars>>

\* Mutant: a Running record that names a version that is gone is tried again.
test_again(c) ==
    /\ pc[c] \in {"test", "test_running"}
    /\ Goto(c, IF at[version[c]] # Nothing THEN "open" ELSE IF tries[c] < 3 THEN "choose" ELSE "gave_up")
    /\ UNCHANGED <<files_vars, lock_vars, version, command_vars, window_vars, install_vars>>

test(c) ==
    /\ pc[c] \in {"test", "test_running"}
    /\ IF at[version[c]] # Nothing
       THEN Goto(c, "open") /\ UNCHANGED useRunning
       ELSE IF pc[c] = "test_running"
            THEN useRunning' = [useRunning EXCEPT ![c] = FALSE] /\ Goto(c, "choose")
            ELSE /\ Goto(c, IF tries[c] < 3 THEN "choose" ELSE "gave_up")
                 /\ UNCHANGED useRunning
    /\ UNCHANGED <<files_vars, lock_vars, version, tries, calm, window_vars, install_vars>>

-----------------------------------------------------------------------------
(* The app's programs, started by path, and the sessions' windows.         *)

serve_start(s) ==
    /\ s \in Servers
    /\ pc[s] = "idle"
    /\ \E v \in Versions : at[v] # Nothing /\ version' = [version EXCEPT ![s] = v]
    /\ Goto(s, "open")
    /\ UNCHANGED <<files_vars, lock_vars, command_vars, window_vars, install_vars>>

\* A supervisor says which version it is before it accepts a connection.
publish_running_record(s) ==
    /\ s \in Servers
    /\ pc[s] = "running"
    /\ record # version[s]
    /\ record' = version[s]
    /\ UNCHANGED <<at, damaged, installed, files, lock_vars, pc, version, command_vars,
                   window_vars, install_vars>>

window_start(w, s) ==
    /\ w \in Windows /\ pc[w] = "idle"
    /\ pc[s] = "running" /\ record = version[s]
    /\ version' = [version EXCEPT ![w] = version[s]]
    /\ Goto(w, "open")
    /\ UNCHANGED <<files_vars, lock_vars, command_vars, window_vars, install_vars>>

\* The hold step starts the keeper, which adopts its lock, waits until it is
\* ready, marks "held" and becomes the login shell, which has no descriptor.
run_hold(w) ==
    /\ pc[w] = "running" /\ stage[w] = "hold"
    /\ \/ Goto(w, "shell") /\ keeper' = [keeper EXCEPT ![w] = TRUE] /\ UNCHANGED lock_vars
       \/ Goto(w, "refused") /\ Close({Own(w)}) /\ UNCHANGED keeper
    /\ UNCHANGED <<files_vars, version, command_vars, stage, marked, keeperKilled, install_vars>>

\* The shell's startup ends in the launch shim, which takes a lock of its own.
shell_execs_shim(w) ==
    /\ pc[w] = "shell"
    /\ stage' = [stage EXCEPT ![w] = "shim"]
    /\ Goto(w, "open")
    /\ UNCHANGED <<files_vars, lock_vars, version, command_vars, keeper, marked, keeperKilled,
                   install_vars>>

mark_launched(w) ==
    /\ pc[w] = "running" /\ stage[w] = "shim"
    /\ marked' = [marked EXCEPT ![w] = TRUE]
    /\ Goto(w, "launching")
    /\ UNCHANGED <<files_vars, lock_vars, version, command_vars, stage, keeper, keeperKilled,
                   install_vars>>

Ended == {"done", "refused", "gave_up"}

\* run_keeper returns when the mark names its window or the window has exited.
run_keeper(w) ==
    /\ keeper[w]
    /\ marked[w] \/ pc[w] \in Ended
    /\ keeper' = [keeper EXCEPT ![w] = FALSE]
    /\ Close({Own(w)})
    /\ UNCHANGED <<files_vars, pc, version, command_vars, stage, marked, keeperKilled, install_vars>>

keeper_killed(w) ==
    /\ keeper[w] /\ ~ marked[w]
    /\ keeper' = [keeper EXCEPT ![w] = FALSE]
    /\ keeperKilled' = [keeperKilled EXCEPT ![w] = TRUE]
    /\ Close({Own(w)})
    /\ UNCHANGED <<files_vars, pc, version, command_vars, stage, marked, install_vars>>

\* A process exits, becomes an agent or is killed, at any step.
ends(p) ==
    /\ pc[p] \notin Ended \cup {"idle"}
    /\ Goto(p, "done")
    /\ Close(IF p \in Windows THEN {Shim(p)} \cup (IF keeper[p] THEN {} ELSE {Own(p)})
             ELSE IF busy = p THEN {Own(p)} \cup {Remover(v) : v \in Versions}
             ELSE {Own(p)})
    /\ busy' = IF busy = p THEN Nothing ELSE busy
    /\ UNCHANGED <<files_vars, version, command_vars, window_vars, inst, installs, plan>>

-----------------------------------------------------------------------------
(* The installer: Context::update and prune.                               *)

Idle == [at |-> "idle", v |-> Nothing, keep |-> {}, look |-> {}]
InstallerIs(where) == inst' = [inst EXCEPT !.at = where]
Disturb == calm' = [c \in Commands |-> FALSE]

install(v) ==
    /\ busy = Nothing /\ installs < MaxInstalls
    /\ busy' = "installer"
    /\ inst' = [at |-> "place", v |-> v, keep |-> {v} \cup ({installed} \ {Nothing}), look |-> {}]
    /\ installs' = installs + 1
    /\ Disturb
    /\ UNCHANGED <<files_vars, lock_vars, pc, version, tries, useRunning, window_vars, plan>>

install_ends ==
    /\ busy' = Nothing
    /\ inst' = Idle
    /\ Close({Remover(v) : v \in Versions})
    /\ UNCHANGED <<files_vars, installs, plan>>

Intact(v) == at[v] # Nothing /\ at[v] \notin damaged

\* A program that differs from the download is replaced only under its lock.
compare ==
    LET v == inst.v IN
    /\ inst.at = "place"
    /\ \/ /\ Intact(v) \/ at[v] = Nothing
          /\ InstallerIs(IF Intact(v) THEN "record" ELSE "stage")
          /\ UNCHANGED <<files_vars, lock_vars, busy, installs, plan>>
       \/ /\ at[v] \in damaged
          /\ CanExclude(Remover(v), at[v])
          /\ fd' = [fd EXCEPT ![Remover(v)] = at[v]]
          /\ lock' = [lock EXCEPT ![Remover(v)] = "exclusive"]
          /\ InstallerIs("stage")
          /\ UNCHANGED <<files_vars, busy, installs, plan>>
       \/ /\ at[v] \in damaged
          /\ ~ CanExclude(Remover(v), at[v])
          /\ install_ends
    /\ UNCHANGED <<pc, version, command_vars, window_vars>>

\* The staged folder takes the name, in exchange for the one there.
swap ==
    /\ inst.at = "stage"
    /\ files' = files + 1
    /\ at' = [at EXCEPT ![inst.v] = files + 1]
    /\ InstallerIs("discard")
    /\ UNCHANGED <<damaged, installed, record, lock_vars, pc, version, command_vars, window_vars,
                   busy, installs, plan>>

\* Where the volume cannot exchange two folders, the one there is moved away.
empty_name ==
    /\ inst.at = "stage"
    /\ at[inst.v] # Nothing
    /\ at' = [at EXCEPT ![inst.v] = Nothing]
    /\ UNCHANGED <<damaged, installed, record, files, lock_vars, pc, version, command_vars,
                   window_vars, install_vars>>

discard ==
    /\ inst.at = "discard"
    /\ Close({Remover(inst.v)})
    /\ InstallerIs("record")
    /\ UNCHANGED <<files_vars, pc, version, command_vars, window_vars, busy, installs, plan>>

record_installed ==
    /\ inst.at = "record"
    /\ installed' = inst.v
    /\ InstallerIs("list")
    /\ UNCHANGED <<at, damaged, record, files, lock_vars, pc, version, command_vars, window_vars,
                   busy, installs, plan>>

\* Kept: the new version, the one installed before, and the running one.
prune ==
    /\ inst.at = "list"
    /\ inst' = [inst EXCEPT !.at = "prune",
                            !.look = {v \in Versions : at[v] # Nothing} \ (inst.keep \cup {record})]
    /\ UNCHANGED <<files_vars, lock_vars, pc, version, command_vars, window_vars,
                   busy, installs, plan>>

\* Mutant: a version is pruned whoever holds it.
prune_lock_skipped(v) ==
    /\ inst.at = "prune" /\ v \in inst.look
    /\ inst' = [inst EXCEPT !.at = "rename", !.v = v, !.look = @ \ {v}]
    /\ UNCHANGED <<files_vars, lock_vars, pc, version, command_vars, window_vars, busy, installs,
                   plan>>

prune_lock(v) ==
    /\ inst.at = "prune" /\ v \in inst.look
    /\ IF CanExclude(Remover(v), at[v])
       THEN /\ fd' = [fd EXCEPT ![Remover(v)] = at[v]]
            /\ lock' = [lock EXCEPT ![Remover(v)] = "exclusive"]
            /\ inst' = [inst EXCEPT !.at = "rename", !.v = v, !.look = @ \ {v}]
       ELSE inst' = [inst EXCEPT !.look = @ \ {v}] /\ UNCHANGED lock_vars
    /\ UNCHANGED <<files_vars, pc, version, command_vars, window_vars, busy, installs, plan>>

prune_rename ==
    /\ inst.at = "rename"
    /\ at' = [at EXCEPT ![inst.v] = Nothing]
    /\ Close({Remover(inst.v)})
    /\ InstallerIs("prune")
    /\ UNCHANGED <<damaged, installed, record, files, pc, version, command_vars, window_vars,
                   busy, installs, plan>>

installer_ends ==
    /\ inst.at = "prune" /\ inst.look = {}
    /\ install_ends
    /\ UNCHANGED <<pc, version, command_vars, window_vars>>

installer_killed ==
    /\ inst.at # "idle"
    /\ install_ends
    /\ UNCHANGED <<pc, version, command_vars, window_vars>>

-----------------------------------------------------------------------------
(* Uninstall: a program of one version, that removes them all.             *)

uninstall_start(u) ==
    /\ pc[u] = "idle"
    /\ \E v \in {installed, record} \ {Nothing} : version' = [version EXCEPT ![u] = v]
    /\ Goto(u, "open")
    /\ UNCHANGED <<files_vars, lock_vars, command_vars, window_vars, install_vars>>

uninstall_refuses(u) ==
    /\ Goto(u, "refused")
    /\ Close({Own(u)} \cup (IF busy = u THEN {Remover(v) : v \in Versions} ELSE {}))
    /\ busy' = IF busy = u THEN Nothing ELSE busy
    /\ UNCHANGED <<plan, calm>>

ThereNow == {v \in Versions : at[v] # Nothing}

lock_and_recheck(u) ==
    /\ u \in Uninstallers /\ pc[u] = "running"
    /\ \/ /\ busy = Nothing
          /\ busy' = u
          /\ plan' = ThereNow
          /\ Goto(u, "locking")
          /\ Disturb
          /\ UNCHANGED lock_vars
       \/ busy # Nothing /\ uninstall_refuses(u)
    /\ UNCHANGED <<files_vars, version, tries, useRunning, window_vars, inst, installs>>

\* Its own lock is converted; the others' are taken without waiting.
hold_versions(u) ==
    /\ pc[u] = "locking"
    /\ \E v \in plan :
           LET d == IF v = version[u] THEN Own(u) ELSE Remover(v) IN
           IF CanExclude(d, at[v]) /\ (v = version[u] => fd[d] = at[v])
           THEN /\ fd' = [fd EXCEPT ![d] = at[v]]
                /\ lock' = [lock EXCEPT ![d] = "exclusive"]
                /\ plan' = plan \ {v}
                /\ UNCHANGED <<pc, busy, calm>>
           ELSE uninstall_refuses(u)
    /\ UNCHANGED <<files_vars, version, tries, useRunning, window_vars, inst, installs>>

\* The Running records go first.
remove_records(u) ==
    /\ pc[u] = "locking" /\ plan = {}
    /\ record' = Nothing
    /\ plan' = ThereNow
    /\ Goto(u, "removing")
    /\ UNCHANGED <<at, damaged, installed, files, lock_vars, version, command_vars, window_vars,
                   busy, inst, installs>>

Late(u) == {version[u], installed}

\* The versions a retry may run as go last.
remove_version(u) ==
    /\ pc[u] = "removing"
    /\ \E v \in plan :
           /\ v \in Late(u) => plan \subseteq Late(u)
           /\ at' = [at EXCEPT ![v] = Nothing]
           /\ plan' = plan \ {v}
    /\ UNCHANGED <<damaged, installed, record, files, lock_vars, pc, version, command_vars,
                   window_vars, busy, inst, installs>>

remove_rest(u) ==
    /\ pc[u] = "removing" /\ plan = {}
    /\ installed' = Nothing
    /\ Goto(u, "done")
    /\ Close({Own(u)} \cup {Remover(v) : v \in Versions})
    /\ busy' = Nothing
    /\ UNCHANGED <<at, damaged, record, files, version, command_vars, window_vars,
                   inst, installs, plan>>

-----------------------------------------------------------------------------
LockInit ==
    /\ \E bad \in SUBSET (Versions \ Present) :
           LET there == Present \cup bad
               f == CHOOSE g \in [there -> 1 .. Cardinality(there)] :
                        \A v, w \in there : v # w => g[v] # g[w]
           IN /\ at = [v \in Versions |-> IF v \in there THEN f[v] ELSE Nothing]
              /\ damaged = {f[v] : v \in bad}
              /\ files = Cardinality(there)
    /\ installed = Installed0
    /\ record \in Present \cup {Nothing}
    /\ fd = [d \in Desc |-> Nothing]
    /\ lock = [d \in Desc |-> "none"]
    /\ pc = [p \in Proc |-> "idle"]
    /\ version = [p \in Proc |-> Nothing]
    /\ stage = [w \in Windows |-> "hold"]
    /\ tries = [c \in Commands |-> 0]
    /\ useRunning = [c \in Commands |-> TRUE]
    /\ keeper = [w \in Windows |-> FALSE]
    /\ marked = [w \in Windows |-> FALSE]
    /\ keeperKilled = [w \in Windows |-> FALSE]
    /\ busy = Nothing /\ inst = Idle /\ installs = 0 /\ plan = {}
    /\ calm = [c \in Commands |-> TRUE]

ProcStep(p) == hold_for_process(p) \/ ends(p)
CommandStep(c) == command(c) \/ choose(c) \/ test(c)
ServerStep(s) == serve_start(s) \/ publish_running_record(s)
WindowStep(w) ==
    \/ \E s \in Servers : window_start(w, s)
    \/ run_hold(w) \/ shell_execs_shim(w) \/ mark_launched(w) \/ run_keeper(w) \/ keeper_killed(w)
InstallerStep ==
    \/ \E v \in Versions : install(v) \/ prune_lock(v)
    \/ compare \/ swap \/ empty_name \/ discard \/ record_installed
    \/ prune \/ prune_rename \/ installer_ends \/ installer_killed
UninstallStep(u) ==
    \/ uninstall_start(u) \/ lock_and_recheck(u) \/ hold_versions(u)
    \/ remove_records(u) \/ remove_version(u) \/ remove_rest(u)

LockNext ==
    \/ \E p \in Proc : ProcStep(p)
    \/ \E c \in Commands : CommandStep(c)
    \/ \E s \in Servers : ServerStep(s)
    \/ \E w \in Windows : WindowStep(w)
    \/ \E u \in Uninstallers : UninstallStep(u)
    \/ InstallerStep

LockSpec == LockInit /\ [][LockNext]_all_vars

\* A process that waits for a lock and a keeper run; what the shells, the
\* installer and an uninstall do is not counted on.
LockFairness ==
    /\ \A p \in Proc : WF_all_vars(hold_for_process(p))
    /\ \A w \in Windows : WF_all_vars(run_keeper(w))

-----------------------------------------------------------------------------
(* Properties.                                                             *)

Where == {"idle", "choose", "test", "test_running", "open", "lock", "check", "running", "shell",
          "launching", "locking", "removing"} \cup Ended

FilesTyped ==
    /\ files \in Nat
    /\ at \in [Versions -> (1 .. files) \cup {Nothing}]
    /\ damaged \subseteq 1 .. files
    /\ installed \in Versions \cup {Nothing} /\ record \in Versions \cup {Nothing}
LocksTyped ==
    /\ fd \in [Desc -> (1 .. files) \cup {Nothing}]
    /\ lock \in [Desc -> {"none", "shared", "exclusive"}]
ProcsTyped ==
    /\ pc \in [Proc -> Where]
    /\ version \in [Proc -> Versions \cup {Nothing}]
    /\ tries \in [Commands -> 0 .. 3]
    /\ useRunning \in [Commands -> BOOLEAN] /\ calm \in [Commands -> BOOLEAN]
WindowsTyped ==
    /\ stage \in [Windows -> {"hold", "shim"}]
    /\ keeper \in [Windows -> BOOLEAN] /\ marked \in [Windows -> BOOLEAN]
    /\ keeperKilled \in [Windows -> BOOLEAN]
InstallsTyped ==
    /\ busy \in {Nothing, "installer"} \cup Uninstallers
    /\ inst \in [at : {"idle", "place", "stage", "discard", "record", "list", "prune", "rename"},
                 v : Versions \cup {Nothing}, keep : SUBSET Versions, look : SUBSET Versions]
    /\ installs \in Nat
    /\ plan \subseteq Versions

\* Files are numbered as they are made; a process is at one place.
LockTypeOK == FilesTyped /\ LocksTyped /\ ProcsTyped /\ WindowsTyped /\ InstallsTyped

\* The version of everything that runs, and of every window whose keeper is
\* there while its shell starts, stays at its path: an install that prunes or
\* replaces versions and an uninstall leave it (version_lock.rs).
HeldVersionStays ==
    /\ \A p \in Proc \ Uninstallers :
           pc[p] \in {"running", "launching"} => at[version[p]] = fd[Fd(p)] /\ fd[Fd(p)] # Nothing
    /\ \A w \in Windows : keeper[w] => at[version[w]] = fd[Own(w)] /\ fd[Own(w)] # Nothing

\* However long the shell's startup takes, the launch shim finds the version
\* its supervisor launched, unless the keeper was killed (session_hold.rs).
ShimFindsItsVersion ==
    \A w \in Windows : stage[w] = "shim" /\ pc[w] = "refused" => keeperKilled[w]

\* The Installed record names a program that is there and whole, whatever
\* step an install was killed at, until an uninstall removes.
InstalledIsThere ==
    (\A u \in Uninstallers : pc[u] \notin {"removing", "done"}) =>
        installed # Nothing /\ Intact(installed)

\* Uninstall removes nothing while anything runs or may start a version.
UninstallMeansUnused ==
    \A u \in Uninstallers : pc[u] = "removing" =>
        /\ \A p \in Proc \ {u} : pc[p] \notin {"running", "launching", "locking", "removing"}
        /\ \A w \in Windows : ~ keeper[w]

\* Whatever is installed, pruned, killed or uninstalled meanwhile, what runs,
\* is about to run or is to be run next finds the file it holds at its path.
VersionsKept ==
    LockTypeOK /\ HeldVersionStays /\ ShimFindsItsVersion /\ InstalledIsThere /\ UninstallMeansUnused

\* A command of the forwarder fails to start a version only if something was
\* installed or uninstalled meanwhile, or the versions are gone already: what an
\* interrupted install, an ended supervisor's record or a pruned version leaves
\* behind does not stop it.
GivesUpOnlyIfDisturbed ==
    (\A u \in Uninstallers : pc[u] \notin {"removing", "done"}) =>
        \A c \in Commands : pc[c] = "gave_up" => ~ calm[c]

\* Nobody waits for a lock for ever, though its holder may be stopped, and a
\* keeper lets its version go once the shim has its own or the window ended.
LocksLetGo ==
    /\ \A p \in Proc : pc[p] = "lock" ~> pc[p] # "lock"
    /\ \A w \in Windows : (marked[w] \/ pc[w] \in Ended) ~> ~ keeper[w]

=============================================================================
