------------------------------- MODULE StopHosts -------------------------------
(***************************************************************************)
(* Finding out whether the terminal host of a socket is there, ending it,  *)
(* and removing the socket file it leaves: hosts/client.rs (connect_with), *)
(* hosts/stop.rs (end_host_at, the stop-terminal-hosts command),           *)
(* hosts/process.rs (socket_process, terminate_verified) and               *)
(* hosts/registry.rs (classify, remove_socket).                            *)
(*                                                                         *)
(* One call for one socket: `stop` is the command, `supervisor` is         *)
(* end_host_at followed by GoneHost::ended_at, `scan` is the registry's    *)
(* scan followed by the removal of a host it found gone.  Around it the    *)
(* world goes on: the host may exit, be stopped or continued, stop         *)
(* answering or lose its socket file; a pid that is free goes to another   *)
(* process; a new host may draw the same socket name.                      *)
(*                                                                         *)
(* A process is known by its pid and its start identity, which no two      *)
(* processes share.  A zombie counts as gone.  The command lines of the    *)
(* user's own live processes can be read, unless a fault says otherwise;   *)
(* what a search of the process table does is one walk, and one that fails *)
(* or runs out of time is a fault.                                         *)
(* Sleeps and deadlines are steps that may come at any moment.             *)
(***************************************************************************)
EXTENDS Naturals, FiniteSets

CONSTANTS
    Pids,
    Nobody,
    MaxStarts,      \* bound: processes started, the host included
    MaxFaults       \* bound: failed reads, cut connections, unusable answers

ASSUME StopConstants ==
    /\ MaxStarts \in Nat \ {0} /\ MaxFaults \in Nat
    /\ Nobody \notin Pids /\ Nobody \notin Nat /\ Nobody \notin [pid : Pids, start : Nat]

VARIABLES
    table,          \* the process at each pid
    file,           \* the socket file: the start identity of the host that bound it
    full,           \* the listen backlog of the socket is full
    starts,         \* the latest start identity given
    e,              \* the call
    outcome,        \* what it said of the host
    stray,          \* observed: a signal that reached a process it may not
    faults,
    caller,         \* "stop", "supervisor" or "scan"; never changes
    fullRefuses     \* a full listen backlog refuses (macOS) or answers EAGAIN (Linux); never changes

stopVars == <<table, file, full, starts, e, outcome, stray, faults>>
world == <<table, file, full, starts>>

Listening == {"runs", "stopped", "stopped_ending", "wedged", "exiting", "killed"}
Modes == Listening \cup {"starting"}
HostProcess == [pid : Pids, start : 1..MaxStarts]
Process == [start : 1..MaxStarts, serves : BOOLEAN, argv : {"exact", "alike", "other"}, mode : Modes]
Removing == {"listed", "probe", "unlink"}

StopTypeOK ==
    /\ table \in [Pids -> Process \cup {Nobody}]
    /\ file \in 1..MaxStarts \cup {Nobody} /\ full \in BOOLEAN
    /\ starts \in 1..MaxStarts /\ stray \in BOOLEAN /\ faults \in 0..MaxFaults
    /\ outcome \in {"none", "stopped", "gone", "kept", "unconfirmed"}
    /\ e.pc \in {"list", "connect", "peer", "hello", "walk", "match", "pin", "shutdown", "ending",
                 "running", "argv", "still", "send", "cont", "wait", "left", "settled", "done"} \cup Removing
    /\ e.use \in {"first", "again", "remove"} /\ e.late \in BOOLEAN
    /\ e.refusing \in {"no", "yes", "window"} /\ e.tried \in BOOLEAN
    /\ e.last \in HostProcess \cup {Nobody} /\ e.peer \in HostProcess \cup {Nobody}
    /\ e.conn \in HostProcess \cup {Nobody} /\ e.sig \in {"TERM", "KILL"}
    /\ e.argv \in {"exact", "alike", "other", "unread"} /\ e.gone \in BOOLEAN
    /\ e.pids \subseteq Pids /\ e.cur \in Pids \cup {Nobody}
    /\ e.id \in 1..MaxStarts \cup {Nobody} /\ e.checked \in 0..MaxStarts

Call == [pc |-> IF caller = "scan" THEN "list" ELSE "connect", use |-> "first", late |-> FALSE,
         refusing |-> "no", tried |-> FALSE, last |-> Nobody, peer |-> Nobody, conn |-> Nobody, sig |-> "TERM",
         argv |-> "unread", gone |-> FALSE, pids |-> {}, cur |-> Nobody, id |-> Nobody, checked |-> 0]

(* The host of the socket has start identity 1; its command line spells the  *)
(* socket as the call does, or its directory some other way.  Another        *)
(* process may run, one that names a socket of the same name elsewhere too.  *)
StopInit ==
    /\ \E h \in Pids, spelled \in {"exact", "alike"}, mode \in {"runs", "starting"} :
         \/ table = [p \in Pids |-> IF p = h THEN [start |-> 1, serves |-> TRUE, argv |-> spelled, mode |-> mode]
                                             ELSE Nobody] /\ starts = 1
         \/ \E q \in Pids \ {h}, argv \in {"alike", "other"} :
              /\ starts = 2 /\ MaxStarts >= 2
              /\ table = [p \in Pids |->
                   CASE p = h -> [start |-> 1, serves |-> TRUE, argv |-> spelled, mode |-> mode]
                     [] p = q -> [start |-> 2, serves |-> FALSE, argv |-> argv, mode |-> "runs"]
                     [] OTHER -> Nobody]
    /\ file = 1 /\ full = FALSE
    /\ caller \in {"stop", "supervisor", "scan"} /\ e = Call /\ outcome = "none" /\ stray = FALSE /\ faults = 0
    /\ fullRefuses \in BOOLEAN

Runs(h) == table[h.pid] # Nobody /\ table[h.pid].start = h.start
Alive(start) == \E p \in Pids : table[p] # Nobody /\ table[p].start = start
(* The process that listens on the socket file, if one does. *)
Listeners == {p \in Pids : table[p] # Nobody /\ table[p].serves /\ table[p].start = file
                           /\ table[p].mode \in Listening}
Fault == faults < MaxFaults /\ faults' = faults + 1

-----------------------------------------------------------------------------
(* The world *)

Set(p, mode) == table' = [table EXCEPT ![p].mode = mode]
Host(p, modes) == table[p] # Nobody /\ table[p].serves /\ table[p].mode \in modes
SameCall == UNCHANGED <<e, outcome, stray, faults>>

host_listen(p) == Host(p, {"starting"}) /\ Set(p, "runs") /\ UNCHANGED <<file, full, starts>> /\ SameCall

(* A host ends by removing its own socket file and exiting: because its      *)
(* child ended, or because it was asked to.                                  *)
host_exit(p) ==
    /\ Host(p, {"runs", "exiting"})
    /\ table' = [table EXCEPT ![p] = Nobody]
    /\ file' = IF file = table[p].start THEN Nobody ELSE file
    /\ full' = FALSE /\ UNCHANGED starts /\ SameCall
(* Killed, it leaves its file behind; an unrelated process just goes. *)
die(p) ==
    /\ table[p] # Nobody /\ (table[p].serves => table[p].mode = "killed")
    /\ table' = [table EXCEPT ![p] = Nobody]
    /\ full' = (full /\ ~table[p].serves) /\ UNCHANGED <<file, starts>> /\ SameCall
freeze(p) ==
    /\ Host(p, {"runs", "exiting"})
    /\ Set(p, IF table[p].mode = "runs" THEN "stopped" ELSE "stopped_ending")
    /\ UNCHANGED <<file, full, starts>> /\ SameCall
thaw(p) ==
    /\ Host(p, {"stopped", "stopped_ending"})
    /\ Set(p, IF table[p].mode = "stopped" THEN "runs" ELSE "exiting")
    /\ full' = FALSE /\ UNCHANGED <<file, starts>> /\ SameCall
wedge(p) == Host(p, {"runs", "exiting"}) /\ Set(p, "wedged") /\ UNCHANGED <<file, full, starts>> /\ SameCall
(* Connections that time out stay queued at a listener that accepts none. *)
fill(p) ==
    /\ p \in Listeners /\ table[p].mode \in {"stopped", "stopped_ending", "wedged"}
    /\ ~full /\ full' = TRUE /\ UNCHANGED <<table, file, starts>> /\ SameCall
start_other(p, argv) ==
    /\ table[p] = Nobody /\ starts < MaxStarts /\ starts' = starts + 1
    /\ table' = [table EXCEPT ![p] = [start |-> starts', serves |-> FALSE, argv |-> argv, mode |-> "runs"]]
    /\ UNCHANGED <<file, full>> /\ SameCall
(* A new host that drew the same name: it refuses a path that exists, and    *)
(* nothing is spawned while a socket is being removed (the state directory's *)
(* lock and the supervisor's own order).                                     *)
spawn_host(p) ==
    /\ caller = "scan" /\ e.pc \notin Removing /\ ~(e.use = "remove" /\ e.pc # "done")
    /\ file = Nobody /\ table[p] = Nobody /\ starts < MaxStarts /\ starts' = starts + 1
    /\ table' = [table EXCEPT ![p] = [start |-> starts', serves |-> TRUE, argv |-> "exact", mode |-> "starting"]]
    /\ file' = starts' /\ full' = FALSE /\ SameCall
(* Somebody else removes the socket file. *)
meddle ==
    /\ file # Nobody /\ file' = Nobody
    /\ UNCHANGED <<table, full, starts>> /\ SameCall

World == \/ \E p \in Pids : \/ host_listen(p) \/ host_exit(p) \/ die(p) \/ freeze(p) \/ thaw(p) \/ wedge(p) \/ fill(p)
                            \/ spawn_host(p) \/ \E argv \in {"alike", "other"} : start_other(p, argv)
         \/ meddle

-----------------------------------------------------------------------------
(* connect_with: retries until one attempt settles it, then the search of the *)
(* process table for an outcome that names no process.                        *)

Same == UNCHANGED <<world, stray, faults>>
Quiet == Same /\ UNCHANGED outcome
Begin(use) == [e EXCEPT !.pc = "connect", !.use = use, !.late = FALSE, !.refusing = "no", !.tried = FALSE,
                        !.last = Nobody, !.conn = Nobody, !.gone = FALSE]
Done(say) == outcome' = say /\ e' = [e EXCEPT !.pc = "done"]
Unconfirmed == Done("unconfirmed")

(* What the caller of connect_with does with a host it cannot use. *)
Unavailable(call, peer) ==
    IF e.use = "first" /\ caller # "scan" /\ peer # Nobody
      THEN e' = [call EXCEPT !.peer = peer, !.sig = "TERM", !.pc = "running"] /\ UNCHANGED outcome
      ELSE Done(IF caller = "scan" THEN "kept" ELSE "unconfirmed")
(* An error that names its process is final; the others are checked against   *)
(* the process table first.                                                   *)
Fails(call, gone, peer) ==
    IF ~gone /\ peer # Nobody
      THEN Unavailable(call, peer)
      ELSE e' = [call EXCEPT !.pc = "walk", !.gone = gone, !.peer = peer] /\ UNCHANGED outcome
(* An attempt worth retrying: it ends a run of refusals, and the deadline     *)
(* ends the retries with what they found last.                                *)
Retry(peer) ==
    LET call == [e EXCEPT !.pc = "connect", !.refusing = "no", !.tried = TRUE, !.last = peer, !.conn = Nobody]
    IN  IF e.late THEN Fails(call, FALSE, peer) ELSE e' = call /\ UNCHANGED outcome
(* An attempt cut short by the deadline: an earlier one says more. *)
CutShort(peer) ==
    Fails(e, FALSE, IF e.tried /\ e.last # Nobody THEN e.last ELSE peer)

Refused == file # Nobody /\ (Listeners = {} \/ (full /\ fullRefuses))

connect_no_file == e.pc = "connect" /\ file = Nobody /\ Fails(e, TRUE, Nobody) /\ Same
connect_refused ==
    /\ e.pc = "connect" /\ Refused /\ Same
    /\ IF e.refusing = "window" THEN Fails(e, TRUE, Nobody)
       ELSE e' = [e EXCEPT !.refusing = "yes"] /\ UNCHANGED outcome
connect_again ==    \* EAGAIN
    /\ e.pc = "connect" /\ file # Nobody /\ Listeners # {} /\ full /\ ~fullRefuses
    /\ (IF e.late THEN CutShort(Nobody) ELSE Retry(Nobody)) /\ Same
connect_queued ==
    /\ e.pc = "connect" /\ ~full
    /\ \E p \in Listeners : e' = [e EXCEPT !.pc = "peer", !.conn = [pid |-> p, start |-> table[p].start]]
    /\ Quiet
(* peer_process: whatever process has the listener's pid by now. *)
peer_process ==
    /\ e.pc = "peer"
    /\ LET p == table[e.conn.pid]
       IN  \/ e' = [e EXCEPT !.pc = "hello",
                    !.peer = IF p = Nobody THEN Nobody ELSE [pid |-> e.conn.pid, start |-> p.start]]
              /\ UNCHANGED faults
           \/ e' = [e EXCEPT !.pc = "hello", !.peer = Nobody] /\ Fault
    /\ UNCHANGED <<world, stray, outcome>>
HostAt(h, modes) == Runs(h) /\ table[h.pid].mode \in modes

hello_welcome ==
    /\ e.pc = "hello" /\ HostAt(e.conn, {"runs"})
    /\ IF caller = "scan" THEN Done("kept")
       ELSE IF e.use = "again" THEN Unconfirmed
       ELSE e' = [e EXCEPT !.pc = "shutdown"] /\ UNCHANGED outcome
    /\ Same
(* The host ended, or is ending. *)
hello_closed == e.pc = "hello" /\ ~HostAt(e.conn, Listening \ {"exiting"}) /\ Retry(e.peer) /\ Same
(* Another version, a malformed or a refusing answer. *)
hello_unusable ==
    /\ e.pc = "hello" /\ HostAt(e.conn, {"runs"}) /\ Fault
    /\ Fails(e, FALSE, e.peer) /\ UNCHANGED <<world, stray>>
\* Mutant: an answer is waited for without a deadline.
hello_forever == FALSE /\ UNCHANGED stopVars
hello_timeout == e.pc = "hello" /\ e.late /\ CutShort(e.peer) /\ Same

deadline == e.pc \in {"connect", "peer", "hello"} /\ ~e.late /\ e' = [e EXCEPT !.late = TRUE] /\ Quiet
window == e.pc \in {"connect", "probe"} /\ e.refusing = "yes" /\ e' = [e EXCEPT !.refusing = "window"] /\ Quiet

(* confirm_with_process and socket_process: the pids first, then the command  *)
(* line of each, then the identity of the first that may serve the socket.    *)
walk == e.pc = "walk" /\ Quiet
        /\ e' = [e EXCEPT !.pc = "match", !.pids = {p \in Pids : table[p] # Nobody}]
match(p) ==
    /\ e.pc = "match" /\ p \in e.pids
    /\ e' = IF table[p] # Nobody /\ table[p].argv # "other"
            THEN [e EXCEPT !.pc = "pin", !.cur = p, !.pids = @ \ {p}]
            ELSE [e EXCEPT !.pids = @ \ {p}]
    /\ Quiet
(* The process that was found makes even a socket that looks gone unavailable. *)
pin ==
    /\ e.pc = "pin" /\ Same
    /\ IF table[e.cur] = Nobody THEN e' = [e EXCEPT !.pc = "match"] /\ UNCHANGED outcome
       ELSE IF e.use = "remove" THEN e' = [e EXCEPT !.pc = "done"] /\ UNCHANGED outcome
       ELSE Unavailable(e, [pid |-> e.cur, start |-> table[e.cur].start])
(* No process serves the socket. *)
walk_none ==
    /\ e.pc = "match" /\ e.pids = {} /\ Same
    /\ CASE e.use = "remove" -> e' = [e EXCEPT !.pc = "unlink"] /\ UNCHANGED outcome
         [] e.use # "remove" /\ ~e.gone -> Unavailable(e, Nobody)
         [] OTHER -> /\ outcome' = IF caller = "scan" THEN "gone" ELSE "stopped"
                     /\ e' = [e EXCEPT !.pc = "settled"]
(* A walk that could not run or took too long never makes a socket gone. *)
walk_fails ==
    /\ e.pc \in {"walk", "match", "pin"} /\ Fault
    /\ IF e.use = "remove" THEN e' = [e EXCEPT !.pc = "done"] /\ UNCHANGED outcome ELSE Unavailable(e, Nobody)
    /\ UNCHANGED <<world, stray>>

-----------------------------------------------------------------------------
(* shut_down: Shutdown over the connection, and a wait for the end of the     *)
(* process, or of the socket file where no process is known.                  *)

NotEnded == IF e.peer # Nobody THEN e' = [e EXCEPT !.pc = "running", !.sig = "TERM"] /\ UNCHANGED outcome
                             ELSE Unconfirmed
shutdown_acted ==
    /\ e.pc = "shutdown" /\ HostAt(e.conn, {"runs"})
    /\ Set(e.conn.pid, "exiting") /\ e' = [e EXCEPT !.pc = "ending"]
    /\ UNCHANGED <<file, full, starts, stray, faults, outcome>>
(* The connection ends once Shutdown was written: the host is ending, or     *)
(* another client took it over and it never read Shutdown.                   *)
shutdown_closed ==
    /\ e.pc = "shutdown" /\ e' = [e EXCEPT !.pc = "ending"]
    /\ \/ ~HostAt(e.conn, Listening \ {"exiting"}) /\ UNCHANGED faults
       \/ Fault
    /\ UNCHANGED <<world, stray, outcome>>
shutdown_fails == e.pc = "shutdown" /\ ~HostAt(e.conn, {"runs"}) /\ NotEnded /\ Same

ended ==
    /\ e.pc = "ending" /\ (IF e.peer # Nobody THEN ~Runs(e.peer) ELSE file = Nobody)
    /\ outcome' = "stopped" /\ e' = [e EXCEPT !.pc = "settled"] /\ Same
end_wait_over == e.pc = "ending" /\ NotEnded /\ Same

-----------------------------------------------------------------------------
(* terminate_verified: each signal only after the identity, the command line  *)
(* and the identity again.                                                    *)

(* The process is gone: before a signal that confirms nothing, and the socket *)
(* is looked at once more; after SIGTERM it is the end.                       *)
AlreadyGone ==
    IF e.sig = "TERM" THEN e' = Begin("again") /\ UNCHANGED outcome
                      ELSE outcome' = "stopped" /\ e' = [e EXCEPT !.pc = "settled"]
verify_running ==
    /\ e.pc = "running" /\ Same
    /\ IF Runs(e.peer) THEN e' = [e EXCEPT !.pc = "argv"] /\ UNCHANGED outcome ELSE AlreadyGone
verify_argv ==
    /\ e.pc = "argv" /\ Quiet
    /\ e' = [e EXCEPT !.pc = "still",
             !.argv = IF table[e.peer.pid] = Nobody THEN "unread" ELSE table[e.peer.pid].argv]
\* Mutant: the identity is not read again after the command line.
verify_no_recheck ==
    /\ e.pc = "still" /\ Same
    /\ IF e.argv = "exact" THEN e' = [e EXCEPT !.pc = "send", !.checked = starts] /\ UNCHANGED outcome
       ELSE Unconfirmed
verify_still ==
    /\ e.pc = "still" /\ Same
    /\ IF ~Runs(e.peer) THEN AlreadyGone
       ELSE IF e.argv = "exact" THEN e' = [e EXCEPT !.pc = "send", !.checked = starts] /\ UNCHANGED outcome
       ELSE Unconfirmed
unreadable ==
    /\ e.pc \in {"running", "argv", "still", "send", "wait"} /\ Fault
    /\ Unconfirmed /\ UNCHANGED <<world, stray>>

(* A process may be signalled if it is the pinned one and its command line    *)
(* names the socket, or if it got the pid only since that was checked: the    *)
(* window SPEC_impl.md accepts.                                               *)
May(t) == (t.start = e.peer.start /\ t.argv = "exact") \/ t.start > e.checked
After(t, sig) ==
    IF ~t.serves THEN t
    ELSE [t EXCEPT !.mode =
      CASE sig = "KILL" -> "killed"
        [] sig = "TERM" /\ @ \in {"starting", "runs"} -> "exiting"
        [] sig = "TERM" /\ @ = "stopped" -> "stopped_ending"
        [] sig = "CONT" /\ @ = "stopped" -> "runs"
        [] sig = "CONT" /\ @ = "stopped_ending" -> "exiting"
        [] OTHER -> @]
kill(sig) ==
    LET p == e.peer.pid IN
    IF table[p] = Nobody THEN UNCHANGED <<table, stray>>
    ELSE /\ table' = [table EXCEPT ![p] = After(@, sig)]
         /\ stray' = (stray \/ ~May(table[p]))
send ==
    /\ e.pc = "send" /\ kill(e.sig) /\ UNCHANGED <<file, full, starts, faults>>
    /\ IF table[e.peer.pid] = Nobody THEN AlreadyGone
       ELSE e' = [e EXCEPT !.pc = IF e.sig = "TERM" THEN "cont" ELSE "wait"] /\ UNCHANGED outcome
cont ==
    /\ e.pc = "cont" /\ kill("CONT") /\ e' = [e EXCEPT !.pc = "wait"]
    /\ UNCHANGED <<file, full, starts, faults, outcome>>
wait_gone ==
    /\ e.pc = "wait" /\ ~Runs(e.peer)
    /\ outcome' = "stopped" /\ e' = [e EXCEPT !.pc = "settled"] /\ Same
grace_over ==
    /\ e.pc = "wait" /\ Runs(e.peer) /\ Same
    /\ IF e.sig = "TERM" THEN e' = [e EXCEPT !.pc = "running", !.sig = "KILL"] /\ UNCHANGED outcome
                         ELSE Unconfirmed

-----------------------------------------------------------------------------
(* The socket file of a host that is gone: the command removes what it finds, *)
(* the supervisor and the scan judge the socket once more first.              *)

(* The command's budget ends: the task is dropped where it waits. *)
budget_ends ==
    /\ caller = "stop" /\ e.pc \notin {"settled", "done"} /\ Fault
    /\ Unconfirmed /\ UNCHANGED <<world, stray>>
remove_left ==
    /\ e.pc = "settled" /\ caller = "stop"
    /\ file' = Nobody /\ e' = [e EXCEPT !.pc = "done"]
    /\ UNCHANGED <<table, full, starts, stray, faults, outcome>>
ended_at ==
    /\ e.pc = "settled" /\ caller = "supervisor" /\ Quiet
    /\ e' = IF file = Nobody THEN [e EXCEPT !.pc = "done"]
            ELSE [Begin("remove") EXCEPT !.pc = "listed", !.id = file]
list ==
    /\ e.pc = "list" /\ Quiet
    /\ e' = [e EXCEPT !.pc = IF file = Nobody THEN "done" ELSE "connect", !.id = file]
remove_settled == e.pc = "settled" /\ caller = "scan" /\ e' = [Begin("remove") EXCEPT !.pc = "listed"] /\ Quiet

(* listed_file: a later file at the path may have the same inode number. *)
listed_file(to) ==
    IF file = Nobody THEN e' = [e EXCEPT !.pc = "done"]
    ELSE \/ e' = [e EXCEPT !.pc = to]
         \/ file # e.id /\ e' = [e EXCEPT !.pc = "done"]
check_listed == e.pc = "listed" /\ listed_file("probe") /\ Quiet
\* Mutant: refusals for the whole window are enough; the process table is not searched.
probe_refused_enough ==
    /\ e.pc = "probe" /\ Refused /\ Quiet
    /\ e' = IF e.refusing = "window" THEN [e EXCEPT !.pc = "unlink"] ELSE [e EXCEPT !.refusing = "yes"]
probe_refused ==
    /\ e.pc = "probe" /\ Refused /\ Quiet
    /\ e' = IF e.refusing = "window" THEN [e EXCEPT !.pc = "walk"] ELSE [e EXCEPT !.refusing = "yes"]
(* The file is missing, a connection is queued, the backlog is full, or the  *)
(* connect failed in some other way: nothing is removed.                     *)
probe_settles ==
    /\ e.pc = "probe" /\ e' = [e EXCEPT !.pc = "done"]
    /\ (~Refused /\ UNCHANGED faults) \/ Fault
    /\ UNCHANGED <<world, stray, outcome>>
unlink ==
    /\ e.pc = "unlink" /\ e' = [e EXCEPT !.pc = "done"]
    /\ file' = Nobody \/ (file # e.id /\ UNCHANGED file)
    /\ UNCHANGED <<table, full, starts, stray, faults, outcome>>

-----------------------------------------------------------------------------
Connect == \/ connect_no_file \/ connect_refused \/ connect_again \/ connect_queued \/ peer_process
           \/ hello_welcome \/ hello_closed \/ hello_unusable \/ hello_timeout
           \/ walk \/ pin \/ walk_none \/ walk_fails \/ \E p \in Pids : match(p)
Shutdown == shutdown_acted \/ shutdown_closed \/ shutdown_fails \/ ended \/ end_wait_over
Terminate == \/ verify_running \/ verify_argv \/ verify_still \/ unreadable
             \/ send \/ cont \/ wait_gone \/ grace_over
Remove == \/ list \/ remove_left \/ ended_at \/ remove_settled \/ check_listed
          \/ probe_refused \/ probe_settles \/ unlink

Steps == Connect \/ Shutdown \/ Terminate \/ Remove \/ deadline \/ window \/ budget_ends \/ World

StopNext == Steps /\ UNCHANGED <<caller, fullRefuses>>

StopSpec == StopInit /\ [][StopNext]_<<stopVars, caller, fullRefuses>>

(* The call is scheduled and its timers run. *)
Fairness == WF_stopVars(Connect \/ Shutdown \/ Terminate \/ Remove) /\ WF_stopVars(deadline) /\ WF_stopVars(window)

-----------------------------------------------------------------------------
(* "Stopped" means confirmed, and gone is the one outcome that lets a caller  *)
(* forget a host: neither is said while the host the call was about runs.     *)
(* Where no connection named a process, the socket file's end stands for the  *)
(* host's, which comes just after (the module comment of stop.rs).            *)
GoneIsGone ==
    outcome \in {"stopped", "gone"} /\ Alive(1) => e.use = "first" /\ e.peer = Nobody /\ e.conn # Nobody /\ file # 1

(* Every signal reaches the pinned process with the host's exact command line, *)
(* or a process that took its pid since the last check (the accepted window). *)
OnlyTheHostSignalled == ~stray

(* What the call says and does is about the host it was made for, and nobody    *)
(* else, whatever becomes of pids, sockets and names around it.                 *)
Consistent == StopTypeOK /\ GoneIsGone /\ OnlyTheHostSignalled

(* The program removes no socket file whose host lives: not one that is       *)
(* stopped, between its bind and its listen, or a new one at an old path.     *)
ServedSocketKept ==
    [][(remove_left \/ unlink) /\ file # Nobody /\ file' = Nobody => ~Alive(file)]_stopVars

(* The call ends, whatever the host and the kernel do not do. *)
CallEnds == <>(e.pc = "done")
===============================================================================
