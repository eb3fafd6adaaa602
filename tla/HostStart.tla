------------------------------ MODULE HostStart ------------------------------
(***************************************************************************)
(* Starting and ending terminal hosts at one socket path                   *)
(* (crates/terminal-host/src/spawn.rs, and listen, remove_socket, abandon  *)
(* and run of host.rs).                                                    *)
(*                                                                         *)
(* A start is two processes: the first stage, which its starter waits for, *)
(* and the second, which becomes the host.  Starts race each other for the *)
(* path, a SIGTERM may come and the first stage may be killed at any step, *)
(* every step that can fail may fail, and something else may remove the    *)
(* file at the path.  The host's event loop is module TerminalHost; here a *)
(* running host only ends.                                                 *)
(*                                                                         *)
(* A socket file is named for the start that bound it: each binds at most  *)
(* once, as a new inode.  remove_socket compares and unlinks in two calls, *)
(* and listen binds and looks in two; the file is taken not to be replaced *)
(* between them (host.rs says so of the former).                           *)
(***************************************************************************)
EXTENDS Naturals

CONSTANTS
    Starts,         \* the starts
    Blocked,        \* those whose starter has SIGTERM blocked
    MaxRemovals,    \* bound: times something else removes the file
    NoSocket

ASSUME StartConstants ==
    /\ Blocked \subseteq Starts
    /\ MaxRemovals \in Nat
    /\ NoSocket \notin Starts

VARIABLES
    first,          \* the first stage
    second,         \* where the second stage is
    masked,         \* does the second stage block SIGTERM
    noted,          \* has a SIGTERM come: no, blocked for now, or TERMINATED
    report,         \* what the second stage wrote to the readiness pipe
    writers,        \* who holds the pipe's write end
    child,          \* the program
    path,           \* the file at the socket path
    removals        \* how often something else removed it

startVars == <<first, second, masked, noted, report, writers, child, path, removals>>

-----------------------------------------------------------------------------
(* The first stage: start.                                                 *)

\* The spec is read, and the path must not exist.
start_checks(s) ==
    /\ first[s] = "none"
    /\ first' = [first EXCEPT ![s] = IF path = NoSocket THEN "checked" ELSE "failed"]
    /\ UNCHANGED <<second, masked, noted, report, writers, child, path, removals>>

\* The program is resolved and the pipe made, and the second stage forked,
\* which inherits the starter's signal mask.
start_fork(s) ==
    /\ first[s] = "checked"
    /\ first' = [first EXCEPT ![s] = "waiting"]
    /\ second' = [second EXCEPT ![s] = "setup"]
    /\ writers' = [writers EXCEPT ![s] = {"second"}]
    /\ UNCHANGED <<masked, noted, report, child, path, removals>>

start_fails(s) ==
    /\ first[s] = "checked"
    /\ first' = [first EXCEPT ![s] = "failed"]
    /\ UNCHANGED <<second, masked, noted, report, writers, child, path, removals>>

\* The report is read up to the end of the pipe, which comes once nobody holds
\* its write end.
start_reads(s) ==
    /\ first[s] = "waiting"
    /\ writers[s] = {}
    /\ first' = [first EXCEPT ![s] = IF report[s] = "ok" THEN "ok" ELSE "failed"]
    /\ UNCHANGED <<second, masked, noted, report, writers, child, path, removals>>

-----------------------------------------------------------------------------
(* The second stage up to readiness: second_stage and after_bind.          *)

Goes(s, from, to) ==
    /\ second[s] = from
    /\ second' = [second EXCEPT ![s] = to]

\* The start failed before the socket was bound, or after it.
FailUnbound(s, from) ==
    /\ Goes(s, from, "failing")
    /\ UNCHANGED <<first, masked, noted, report, writers, child, path, removals>>

FailBound(s, from) ==
    /\ Goes(s, from, "unbinding")
    /\ UNCHANGED <<first, masked, noted, report, writers, child, path, removals>>

\* A session of its own, clean descriptors, the working directory.
setup(s) ==
    /\ Goes(s, "setup", "handlers")
    /\ UNCHANGED <<first, masked, noted, report, writers, child, path, removals>>

install_signal_handlers(s) ==
    /\ Goes(s, "handlers", "mask")
    /\ UNCHANGED <<first, masked, noted, report, writers, child, path, removals>>

\* With the handlers in place the mask is cleared, and a SIGTERM that was
\* blocked arrives.
clear_mask(s) ==
    /\ Goes(s, "mask", "listen")
    /\ masked' = [masked EXCEPT ![s] = FALSE]
    /\ noted' = [noted EXCEPT ![s] = IF @ = "no" THEN "no" ELSE "terminated"]
    /\ UNCHANGED <<first, report, writers, child, path, removals>>

listen(s) ==
    /\ path = NoSocket
    /\ Goes(s, "listen", "open_pty")
    /\ path' = s
    /\ UNCHANGED <<first, masked, noted, report, writers, child, removals>>

open_pty(s) ==
    /\ Goes(s, "open_pty", "first_check")
    /\ UNCHANGED <<first, masked, noted, report, writers, child, path, removals>>

first_check(s) ==
    /\ Goes(s, "first_check", IF noted[s] = "terminated" THEN "unbinding" ELSE "spawn_child")
    /\ UNCHANGED <<first, masked, noted, report, writers, child, path, removals>>

\* Mutant: the pipe's write end survives the child's exec.
spawn_exec_inherits(s) ==
    /\ Goes(s, "spawn_wait", "second_check")
    /\ child[s] = "forked"
    /\ child' = [child EXCEPT ![s] = "running"]
    /\ UNCHANGED <<first, masked, noted, report, writers, path, removals>>

\* The child is forked, holding what the second stage holds until it execs or
\* exits; the second stage waits for either.
spawn_fork(s) ==
    /\ Goes(s, "spawn_child", "spawn_wait")
    /\ child' = [child EXCEPT ![s] = "forked"]
    /\ writers' = [writers EXCEPT ![s] = @ \cup {"child"}]
    /\ UNCHANGED <<first, masked, noted, report, path, removals>>

spawn_exec(s) ==
    /\ Goes(s, "spawn_wait", "second_check")
    /\ child[s] = "forked"
    /\ child' = [child EXCEPT ![s] = "running"]
    /\ writers' = [writers EXCEPT ![s] = @ \ {"child"}]
    /\ UNCHANGED <<first, masked, noted, report, path, removals>>

\* The child could not exec: it exited, and is reaped.
spawn_exec_fails(s) ==
    /\ Goes(s, "spawn_wait", "unbinding")
    /\ child' = [child EXCEPT ![s] = "reaped"]
    /\ writers' = [writers EXCEPT ![s] = @ \ {"child"}]
    /\ UNCHANGED <<first, masked, noted, report, path, removals>>

\* Mutant: a child that was started already is left running.
second_check_no_kill(s) ==
    /\ Goes(s, "second_check", IF noted[s] = "terminated" THEN "unbinding" ELSE "report")
    /\ UNCHANGED <<first, masked, noted, report, writers, child, path, removals>>

kill_child_group(s) == child' = [child EXCEPT ![s] = "reaped"]

second_check(s) ==
    /\ Goes(s, "second_check", IF noted[s] = "terminated" THEN "unbinding" ELSE "report")
    /\ IF noted[s] = "terminated" THEN kill_child_group(s) ELSE UNCHANGED child
    /\ UNCHANGED <<first, masked, noted, report, writers, path, removals>>

\* The report fails when the first stage is gone: the host is abandoned.
report_ready(s) ==
    /\ IF first[s] = "waiting"
       THEN /\ Goes(s, "report", "running")
            /\ report' = [report EXCEPT ![s] = "ok"]
            /\ UNCHANGED child
       ELSE /\ Goes(s, "report", "abandoning")
            /\ kill_child_group(s)
            /\ UNCHANGED report
    /\ writers' = [writers EXCEPT ![s] = @ \ {"second"}]
    /\ UNCHANGED <<first, masked, noted, path, removals>>

\* Shutdown or SIGTERM: step returned.
run_ends(s) ==
    /\ Goes(s, "running", "ending")
    /\ UNCHANGED <<first, masked, noted, report, writers, child, path, removals>>

-----------------------------------------------------------------------------
(* The end of a second stage.                                              *)

\* Mutant: whatever is at the path is removed.
remove_socket_any(s) == path' = NoSocket

remove_socket(s) == path' = IF path = s THEN NoSocket ELSE path

\* A start that failed removes its socket before it says so.
unbind(s) ==
    /\ Goes(s, "unbinding", "failing")
    /\ remove_socket(s)
    /\ UNCHANGED <<first, masked, noted, report, writers, child, removals>>

fail(s) ==
    /\ Goes(s, "failing", "exited")
    /\ report' = [report EXCEPT ![s] = IF first[s] = "waiting" THEN "error" ELSE @]
    /\ writers' = [writers EXCEPT ![s] = @ \ {"second"}]
    /\ UNCHANGED <<first, masked, noted, child, path, removals>>

abandon(s) ==
    /\ Goes(s, "abandoning", "exited")
    /\ remove_socket(s)
    /\ UNCHANGED <<first, masked, noted, report, writers, child, removals>>

run_removes(s) ==
    /\ Goes(s, "ending", "exited")
    /\ remove_socket(s)
    /\ UNCHANGED <<first, masked, noted, report, writers, child, removals>>

-----------------------------------------------------------------------------
(* What happens to them.                                                   *)

FallibleUnbound == {"setup", "handlers", "mask", "listen"}
FallibleBound == {"open_pty", "spawn_child"}

step_fails(s) ==
    \/ \E at \in FallibleUnbound : FailUnbound(s, at)
    \/ \E at \in FallibleBound : FailBound(s, at)

first_killed(s) ==
    /\ first[s] \in {"checked", "waiting"}
    /\ first' = [first EXCEPT ![s] = "killed"]
    /\ UNCHANGED <<second, masked, noted, report, writers, child, path, removals>>

Living == {"setup", "handlers", "mask", "listen", "open_pty", "first_check", "spawn_child", "spawn_wait",
          "second_check", "report", "running", "ending", "unbinding", "failing", "abandoning"}
Unhandled == {"setup", "handlers"}

\* Before the handlers are installed a SIGTERM kills, unless it is blocked;
\* on_signal notes it after that.
sigterm(s) ==
    /\ second[s] \in Living
    /\ IF masked[s]
       THEN /\ noted' = [noted EXCEPT ![s] = "blocked"]
            /\ UNCHANGED <<second, writers>>
       ELSE IF second[s] \in Unhandled
       THEN /\ second' = [second EXCEPT ![s] = "exited"]
            /\ writers' = [writers EXCEPT ![s] = @ \ {"second"}]
            /\ UNCHANGED noted
       ELSE /\ noted' = [noted EXCEPT ![s] = "terminated"]
            /\ UNCHANGED <<second, writers>>
    /\ UNCHANGED <<first, masked, report, child, path, removals>>

\* Something that judged the host gone removes the file.
file_removed ==
    /\ path # NoSocket
    /\ removals < MaxRemovals
    /\ path' = NoSocket
    /\ removals' = removals + 1
    /\ UNCHANGED <<first, second, masked, noted, report, writers, child>>

-----------------------------------------------------------------------------
StartInit ==
    /\ first = [s \in Starts |-> "none"]
    /\ second = [s \in Starts |-> "none"]
    /\ masked = [s \in Starts |-> s \in Blocked]
    /\ noted = [s \in Starts |-> "no"]
    /\ report = [s \in Starts |-> "nothing"]
    /\ writers = [s \in Starts |-> {}]
    /\ child = [s \in Starts |-> "none"]
    /\ path = NoSocket
    /\ removals = 0

FirstStage(s) == start_checks(s) \/ start_fork(s) \/ start_fails(s) \/ start_reads(s)

SecondStage(s) ==
    \/ setup(s) \/ install_signal_handlers(s) \/ clear_mask(s) \/ listen(s)
    \/ open_pty(s) \/ first_check(s) \/ spawn_fork(s) \/ spawn_exec(s) \/ spawn_exec_fails(s)
    \/ second_check(s) \/ report_ready(s) \/ unbind(s) \/ fail(s) \/ abandon(s)
    \/ run_removes(s) \/ step_fails(s)

\* A running host that was terminated ends; one that was not may be shut down.
StartNext ==
    \/ \E s \in Starts :
           FirstStage(s) \/ SecondStage(s) \/ run_ends(s) \/ first_killed(s) \/ sigterm(s)
    \/ file_removed

StartSpec == StartInit /\ [][StartNext]_startVars

\* Each process runs; a host is shut down only if someone asks.
FairSpec ==
    /\ StartSpec
    /\ \A s \in Starts :
           /\ WF_startVars(FirstStage(s) /\ first[s] # "none")
           /\ WF_startVars(SecondStage(s))
           /\ WF_startVars(run_ends(s) /\ noted[s] = "terminated")

-----------------------------------------------------------------------------
(* Properties.                                                             *)

\* Every start is in a stage of its own, and the path holds one file or none.
StartTypeOK ==
    /\ first \in [Starts -> {"none", "checked", "waiting", "ok", "failed", "killed"}]
    /\ second \in [Starts -> Living \cup {"none", "exited"}]
    /\ masked \in [Starts -> BOOLEAN]
    /\ noted \in [Starts -> {"no", "blocked", "terminated"}]
    /\ report \in [Starts -> {"nothing", "ok", "error"}]
    /\ writers \in [Starts -> SUBSET {"second", "child"}]
    /\ child \in [Starts -> {"none", "forked", "running", "reaped"}]
    /\ path \in Starts \cup {NoSocket}
    /\ removals \in Nat

Started(s) == report[s] = "ok"

\* A start that did not end in a report of readiness leaves nothing behind, at
\* whichever step it failed, was terminated or lost its first stage: when its
\* starter learns of the failure, or once the second stage is gone, neither its
\* socket nor its program is there.
NothingLeftBehind ==
    \A s \in Starts :
        first[s] = "failed" \/ (second[s] = "exited" /\ ~ Started(s)) =>
            /\ path # s
            /\ child[s] \in {"none", "reaped"}

\* Exit 0 of the first stage means what it says: the program was exec'd, and
\* the host runs or was ended since; and a host that runs and was not noted a
\* SIGTERM since can be reached, unless something else removed its socket.
ReadyIsTrue ==
    \A s \in Starts :
        /\ first[s] = "ok" => child[s] = "running" /\ second[s] \in {"running", "ending", "exited"}
        /\ second[s] = "running" => child[s] = "running" /\ (path = s \/ removals > 0)

\* What a starter is told is how things are: ready means served, failed means
\* that nothing is left.
AnswerIsTrue == StartTypeOK /\ NothingLeftBehind /\ ReadyIsTrue

\* No start and no ending host takes the file of another from the path.
OthersLeftAlone ==
    [][\A s \in Starts :
           path = s /\ path' # s =>
               removals' > removals \/ second'[s] # second[s]]_startVars

\* A first stage does not wait for ever: no process keeps the pipe open past
\* the start.
StarterLearns ==
    \A s \in Starts : first[s] = "waiting" ~> first[s] \in {"ok", "failed", "killed"}

\* A SIGTERM ends the second stage at whichever step it comes.
SigtermEnds == \A s \in Starts : noted[s] # "no" ~> second[s] = "exited"

\* A starter learns what became of its start, and a SIGTERM is heeded.
StartsSettle == StarterLearns /\ SigtermEnds

=============================================================================
