------------------------------- MODULE Tunnels -------------------------------
(****************************************************************************)
(* The loopback tunnels of the desktop helm (farhelm-helm/src/tunnels.rs):  *)
(* the listeners a link opens to a remote host, the sockets they accept and *)
(* relay, and everything that ends them: a close, a withdrawn consent, the  *)
(* deletion of the session, the helm's shutdown. One asynchronous mutex,    *)
(* the mutation gate, orders publication against all of these; it is held   *)
(* across awaits, and every await is a boundary between two steps here.     *)
(*                                                                          *)
(* The connection to the host, its identity and its cached sessions, which  *)
(* module HostActor models step by step, change here in whole steps: they   *)
(* are what a request finds different after it has waited. The store write  *)
(* of a refresh that a retry dropped is one of them, and lands whenever it  *)
(* does. The host reports an identity, is remote and stays registered; all  *)
(* links lead to one port.                                                  *)
(****************************************************************************)
EXTENDS Naturals, FiniteSets

CONSTANTS
  Requests,   \* HTTP and agent requests, each handled once
  Kinds,      \* which requests, of the kinds named below
  Relays,     \* accepted sockets
  Listeners,  \* listeners, each bound once
  Sessions,
  Installs,   \* supervisor installations, by identity
  Hosted,     \* the session ids each installation reports
  None,
  MaxMoves,   \* bound on lost connections, dropped refreshes and reinstalls
  MaxFaults   \* bound on failed accepts, binds, reads and writes and cancelled requests

AllKinds == {"open", "agent", "enable", "disable", "delete", "close", "shutdown"}

ASSUME TunnelAssumption ==
  /\ Kinds \subseteq AllKinds
  /\ Hosted \in [Installs -> SUBSET Sessions]
  /\ None \notin Requests \cup Relays \cup Listeners \cup Sessions \cup Installs
  /\ None \notin AllKinds \cup {"relay"}
  /\ Requests \cap Relays = {}
  /\ MaxMoves \in Nat /\ MaxFaults \in Nat

VARIABLES
  at,       \* the installation on the host's machine
  ident,    \* the identity recorded in the host's row
  cache,    \* the cached sessions of the row
  conn,     \* the published connection, or None
  serial,   \* connections made
  deleted,  \* the sessions deleted, with their installation
  late,     \* the store writes of dropped refreshes that go on
  unforgotten,  \* history: deleted sessions whose row outlived the delete, or came back
  consent,  \* tunnel_consent in helm.db
  stopped,  \* Listeners::stopped
  entries,  \* Listeners::entries
  gate,     \* who holds the mutation gate, or None
  lst,      \* the listeners and their accept loops
  task,     \* the requests and the relays
  moves, faults

walk == <<late, unforgotten>>
host == <<at, ident, cache, conn, serial, deleted, walk>>
vars == <<host, consent, stopped, entries, gate, lst, task, moves, faults>>

Tasks == Requests \cup Relays

Connections == [id : Nat, install : Installs]

Live(l) == lst[l].pc \in {"accepting", "closing"}

Unborn == [pc |-> "none", s |-> None, owner |-> None, cancel |-> FALSE, agent |-> None,
           conn |-> None]
Idle == [pc |-> "idle", kind |-> None, s |-> None, conn |-> None, origin |-> None,
         todo |-> {}, l |-> None]

Init ==
  /\ at \in Installs /\ ident = at /\ cache = Hosted[at]
  /\ conn = [id |-> 0, install |-> at] /\ serial = 1
  /\ deleted = {} /\ late = {} /\ unforgotten = {}
  /\ consent \in BOOLEAN
  /\ stopped = FALSE /\ entries = {} /\ gate = None
  /\ lst = [l \in Listeners |-> Unborn]
  /\ task = [t \in Tasks |-> Idle]
  /\ moves \in 0..MaxMoves /\ faults \in 0..MaxFaults

-----------------------------------------------------------------------------
(* The host: what module HostActor does in detail.                          *)

Move == moves < MaxMoves /\ moves' = moves + 1
Helm == <<consent, stopped, entries, gate, lst, task, faults>>

Lose ==
  /\ conn # None /\ Move
  /\ conn' = None
  /\ UNCHANGED <<at, ident, cache, serial, deleted, walk, Helm>>

\* Another installation answers at the destination; the old one's peer is gone.
Reinstall ==
  /\ Move
  /\ at' \in Installs \ {at}
  /\ conn' = None
  /\ UNCHANGED <<ident, cache, serial, deleted, walk, Helm>>

\* A connection is published before its first list is asked for: the cache of
\* the previous one is served until then.
Connect ==
  /\ conn = None /\ ident = at
  /\ conn' = [id |-> serial, install |-> at]
  /\ serial' = serial + 1
  /\ UNCHANGED <<at, ident, cache, deleted, walk, Helm, moves>>

\* The user adopts the installation a mismatched host reports; the cached
\* sessions of the old one are purged.
Adopt ==
  /\ conn = None /\ ident # at
  /\ ident' = at
  /\ cache' = {}
  /\ UNCHANGED <<at, conn, serial, deleted, walk, Helm, moves>>

Listed(i) == {s \in Hosted[i] : <<i, s>> \notin deleted}

Refresh ==
  /\ conn # None
  /\ cache' = Listed(conn.install)
  /\ cache' # cache
  /\ UNCHANGED <<at, ident, conn, serial, deleted, walk, Helm, moves>>

\* A retry ends the connection and drops a refresh inside its store write, which
\* was handed to a thread of its own.
Nudge ==
  /\ conn # None /\ Move
  /\ conn' = None
  /\ late' = late \cup {[ident |-> conn.install, entries |-> Listed(conn.install)]}
  /\ UNCHANGED <<at, ident, cache, serial, deleted, unforgotten, Helm>>

\* The write lands, if the row still has the identity it is for, whatever was
\* deleted and forgotten since.
LateReplace(w) ==
  /\ w \in late
  /\ late' = late \ {w}
  /\ IF ident = w.ident
     THEN /\ cache' = w.entries
          /\ unforgotten' = unforgotten \cup (({w.ident} \X w.entries) \cap deleted)
     ELSE UNCHANGED <<cache, unforgotten>>
  /\ UNCHANGED <<at, ident, conn, serial, deleted, Helm, moves>>

-----------------------------------------------------------------------------
(* Requests: their start, the gate, the route.                              *)

Fault == faults < MaxFaults /\ faults' = faults + 1
Goto(t, pc) == task' = [task EXCEPT ![t].pc = pc]
Rest == <<host, consent, stopped, moves>>

\* An agent's open carries the connection it asked on, after its approval. A
\* delete routes before it waits for anything; the others wait for the gate.
start(q, kind, s) ==
  /\ task[q].pc = "idle" /\ q \in Requests
  /\ kind \in Kinds /\ s \in Sessions
  /\ kind = "shutdown" => \A p \in Requests : task[p].kind # "shutdown"
  /\ kind = "agent" => conn # None
  /\ task' = [task EXCEPT ![q] =
       [Idle EXCEPT !.kind = kind, !.s = s,
          !.pc = IF kind = "delete" THEN "route" ELSE "gate",
          !.origin = IF kind = "agent" THEN conn.id ELSE None]]
  /\ UNCHANGED <<Rest, entries, gate, lst, faults>>

\* mutation.lock()
lock(q) ==
  /\ task[q].pc = "gate"
  /\ gate = None
  /\ gate' = q
  /\ Goto(q, CASE task[q].kind \in {"open", "agent"} -> "consent"
               [] task[q].kind \in {"enable", "disable"} -> "write"
               [] OTHER -> "take")
  /\ UNCHANGED <<Rest, entries, lst, faults>>

\* The guard is dropped wherever the handler returns.
Unlock(q) == gate' = IF gate = q THEN None ELSE gate
Return(q) == Goto(q, "ended") /\ Unlock(q)
Refuse(q) == Goto(q, "refused") /\ Unlock(q)

\* A browser that leaves drops its open before publication; every other
\* handler runs on to its end.
leave(q) ==
  /\ task[q].kind = "open"
  /\ task[q].pc \in {"gate", "consent", "route", "status", "again", "publish"}
  /\ Fault
  /\ Refuse(q)
  /\ UNCHANGED <<Rest, entries, lst>>

\* A read or a write of helm.db fails: the handler returns the error.
store_fails(t) ==
  /\ task[t].pc \in {"consent", "route", "again", "publish", "write"}
  /\ Fault
  /\ Refuse(t)
  /\ UNCHANGED <<Rest, entries, lst>>

\* resolve_owner: has_cached_session
route(t) ==
  /\ task[t].pc = "route"
  /\ IF task[t].s \in cache THEN Goto(t, "status") /\ UNCHANGED gate ELSE Refuse(t)
  /\ UNCHANGED <<Rest, entries, lst, faults>>

\* One capture of the client, its incarnation and its identity.
capture(t) ==
  /\ task[t].pc = "status"
  /\ task' = [task EXCEPT ![t].pc = "again", ![t].conn = conn]
  /\ UNCHANGED <<Rest, entries, gate, lst, faults>>

Routed(t) ==
  Goto(t, CASE task[t].kind \in {"open", "agent"} -> "publish"
            [] task[t].kind = "delete" -> "delete"
            [] task[t].kind = "relay" -> "owner")

\* The cache is read again: a purge across the capture refuses the request, and
\* so does a host that is not connected.
route_again(t) ==
  /\ task[t].pc = "again"
  /\ IF task[t].s \in cache /\ task[t].conn # None
     THEN Routed(t) /\ UNCHANGED gate
     ELSE Refuse(t)
  /\ UNCHANGED <<Rest, entries, lst, faults>>

-----------------------------------------------------------------------------
(* Opening: open_from.                                                      *)

check_consent(q) ==
  /\ task[q].pc = "consent"
  /\ IF consent THEN Goto(q, "route") /\ UNCHANGED gate ELSE Refuse(q)
  /\ UNCHANGED <<Rest, entries, lst, faults>>

\* An approved agent link is bound to the connection it was asked on.
SameConnection(q) == task[q].origin \in {None, task[q].conn.id}

\* Mutant: the identity is not compared.
same_owner_Entry(owner, c) == TRUE

\* Same host entry, and the same installation.
same_owner(owner, c) == owner = c.install

\* prune
Kept == {l \in entries : lst[l].pc # "ended"}

Admitted(q) == SameConnection(q) /\ ~stopped

Same(q) == {l \in Kept : lst[l].s = task[q].s}

\* The listener that serves this session already, if its installation is still
\* the one routed to. Its URL goes to the opener after the gate is dropped.
reuse(q) ==
  /\ task[q].pc = "publish" /\ Admitted(q)
  /\ entries' = Kept
  /\ \E l \in Same(q) :
       IF same_owner(lst[l].owner, task[q].conn)
       THEN task' = [task EXCEPT ![q].pc = "opener", ![q].l = l] /\ Unlock(q)
       ELSE Refuse(q)
  /\ UNCHANGED <<Rest, lst, faults>>

\* Mutant: the gate is held while the browser is started.
bind_Holding(q, l) ==
  /\ task[q].pc = "publish" /\ Admitted(q)
  /\ Same(q) = {}
  /\ lst[l].pc = "none"
  /\ entries' = Kept \cup {l}
  /\ lst' = [lst EXCEPT ![l] = [pc |-> "accepting", s |-> task[q].s,
                                owner |-> task[q].conn.install, cancel |-> FALSE,
                                agent |-> task[q].origin, conn |-> task[q].conn.id]]
  /\ task' = [task EXCEPT ![q].pc = "opener", ![q].l = l]
  /\ UNCHANGED <<Rest, gate, faults>>

\* A new listener, its accept loop and its entry.
bind(q, l) ==
  /\ task[q].pc = "publish" /\ Admitted(q)
  /\ Same(q) = {}
  /\ lst[l].pc = "none"
  /\ entries' = Kept \cup {l}
  /\ lst' = [lst EXCEPT ![l] = [pc |-> "accepting", s |-> task[q].s,
                                owner |-> task[q].conn.install, cancel |-> FALSE,
                                agent |-> task[q].origin, conn |-> task[q].conn.id]]
  /\ task' = [task EXCEPT ![q].pc = "opener", ![q].l = l]
  /\ Unlock(q)
  /\ UNCHANGED <<Rest, faults>>

\* Refused, or no port could be bound.
refuse(q) ==
  /\ task[q].pc = "publish"
  /\ \/ ~Admitted(q) /\ UNCHANGED faults
     \/ Admitted(q) /\ Same(q) = {}
          /\ Fault
     \/ Admitted(q) /\ Same(q) = {} /\ (\A l \in Listeners : lst[l].pc # "none")
          /\ UNCHANGED faults
  /\ Refuse(q)
  /\ UNCHANGED <<Rest, entries, lst>>

\* The browser was started, or could not be. Nothing bounds how long it takes.
opened(q) ==
  /\ task[q].pc = "opener"
  /\ Return(q)
  /\ UNCHANGED <<Rest, entries, lst, faults>>

-----------------------------------------------------------------------------
(* Closing.                                                                 *)

\* Entries are taken out of the map before they are stopped one by one.
TakeOut(q, ls) ==
  /\ entries' = entries \ ls
  /\ task' = [task EXCEPT ![q].pc = "closing", ![q].todo = ls]

\* put_preferences: the write, then close_all_locked when consent is gone.
write(q) ==
  /\ task[q].pc = "write"
  /\ consent' = (task[q].kind = "enable")
  /\ \/ task[q].kind = "disable" /\ TakeOut(q, entries) /\ UNCHANGED gate
     \/ task[q].kind = "enable" /\ Return(q) /\ UNCHANGED entries
  /\ UNCHANGED <<host, stopped, lst, moves, faults>>

\* close_tunnel removes one entry of the session; close_session_locked all of
\* them; shutdown everything, after it has stopped publication.
take(q) ==
  LET mine == {l \in entries : lst[l].s = task[q].s}
  IN /\ task[q].pc = "take"
     /\ \/ task[q].kind = "close" /\ \E l \in mine : TakeOut(q, {l})
        \/ task[q].kind = "close" /\ mine = {} /\ TakeOut(q, {})
        \/ task[q].kind = "delete" /\ TakeOut(q, mine)
        \/ task[q].kind = "shutdown" /\ TakeOut(q, entries)
     /\ stopped' = (stopped \/ task[q].kind = "shutdown")
     /\ UNCHANGED <<host, consent, gate, lst, moves, faults>>

\* Entry::stop sends the cancellation...
cancel(q, l) ==
  /\ task[q].pc = "closing" /\ task[q].l = None
  /\ l \in task[q].todo
  /\ task' = [task EXCEPT ![q].l = l]
  /\ lst' = [lst EXCEPT ![l].cancel = TRUE]
  /\ UNCHANGED <<Rest, entries, gate, faults>>

\* ... and waits for the loop and its relays.
joined(q) ==
  /\ task[q].pc = "closing" /\ task[q].l # None
  /\ lst[task[q].l].pc = "ended"
  /\ task' = [task EXCEPT ![q].l = None, ![q].todo = @ \ {task[q].l}]
  /\ UNCHANGED <<Rest, entries, gate, lst, faults>>

\* Mutant: the gate is dropped before the session is forgotten.
closed_Early(q) ==
  /\ task[q].pc = "closing" /\ task[q].todo = {}
  /\ Unlock(q)
  /\ Goto(q, IF task[q].kind = "delete" THEN "forget" ELSE "ended")
  /\ UNCHANGED <<Rest, entries, lst, faults>>

\* The handler returns; a delete forgets the session first.
closed(q) ==
  /\ task[q].pc = "closing" /\ task[q].todo = {}
  /\ IF task[q].kind = "delete" THEN Goto(q, "forget") /\ UNCHANGED gate ELSE Return(q)
  /\ UNCHANGED <<Rest, entries, lst, faults>>

-----------------------------------------------------------------------------
(* Deleting a session: do_delete_session, forget_deleted_session.           *)

\* The supervisor deletes and answers; or the connection the request was sent
\* on is lost, before or after the supervisor has deleted.
delete_on_host(q) ==
  /\ task[q].pc = "delete"
  /\ \/ /\ conn = task[q].conn
        /\ deleted' = deleted \cup {<<task[q].conn.install, task[q].s>>}
        /\ Goto(q, "gate")
        /\ UNCHANGED gate
     \/ /\ conn # task[q].conn
        /\ Refuse(q)
        /\ deleted' \in {deleted, deleted \cup {<<task[q].conn.install, task[q].s>>}}
  /\ UNCHANGED <<at, ident, cache, conn, serial, walk, consent, stopped, entries, lst,
                 moves, faults>>

\* forget_session: refused when the connection changed since the route. Neither
\* that nor a failed write of the cache keeps the delete from succeeding.
forget(q) ==
  LET install == task[q].conn.install
  IN /\ task[q].pc = "forget"
     /\ \/ conn = task[q].conn /\ cache' = cache \ {task[q].s} /\ UNCHANGED faults
        \/ conn = task[q].conn /\ Fault /\ UNCHANGED cache
        \/ conn # task[q].conn /\ UNCHANGED <<cache, faults>>
     /\ unforgotten' = IF ident = install /\ task[q].s \in cache'
                       THEN unforgotten \cup {<<install, task[q].s>>}
                       ELSE unforgotten \ {<<install, task[q].s>>}
     /\ Return(q)
     /\ UNCHANGED <<at, ident, conn, serial, deleted, late, consent, stopped, entries, lst,
                    moves>>

-----------------------------------------------------------------------------
(* Listeners: accept_loop, and the relays it spawns.                        *)

\* A socket is accepted; its relay routes the session again.
accept(r, l) ==
  /\ task[r].pc = "idle" /\ r \in Relays
  /\ lst[l].pc = "accepting" /\ ~lst[l].cancel
  /\ task' = [task EXCEPT ![r] = [Idle EXCEPT !.pc = "route", !.kind = "relay",
                                               !.s = lst[l].s, !.l = l]]
  /\ UNCHANGED <<Rest, entries, gate, lst, faults>>

\* The socket is dropped unless it leads to the owner of its listener.
check_owner(r) ==
  /\ task[r].pc = "owner"
  /\ Goto(r, IF same_owner(lst[task[r].l].owner, task[r].conn) THEN "relaying" ELSE "refused")
  /\ UNCHANGED <<Rest, entries, gate, lst, faults>>

\* A side closes, or the connection to the host is lost.
relay_ends(r) ==
  /\ task[r].pc = "relaying"
  /\ Goto(r, "ended")
  /\ UNCHANGED <<Rest, entries, gate, lst, faults>>

\* The loop leaves on the cancellation, or on a failed accept; the listening
\* socket is dropped.
leave_loop(l) ==
  /\ lst[l].pc = "accepting"
  /\ IF lst[l].cancel THEN UNCHANGED faults ELSE Fault
  /\ lst' = [lst EXCEPT ![l].pc = "closing"]
  /\ UNCHANGED <<Rest, entries, gate, task>>

Over(t) == task[t].pc \in {"ended", "refused"}
Of(l) == {r \in Relays : task[r].l = l /\ ~Over(r)}

\* relays.shutdown(): every relay is aborted at its next await ...
abort(r) ==
  /\ r \in Relays /\ task[r].l # None
  /\ ~Over(r)
  /\ lst[task[r].l].pc = "closing"
  /\ Goto(r, "ended")
  /\ UNCHANGED <<Rest, entries, gate, lst, faults>>

\* ... and waited for.
finish(l) ==
  /\ lst[l].pc = "closing"
  /\ Of(l) = {}
  /\ lst' = [lst EXCEPT ![l].pc = "ended"]
  /\ UNCHANGED <<Rest, entries, gate, task, faults>>

-----------------------------------------------------------------------------
Environment ==
  \/ Lose \/ Reinstall \/ Connect \/ Adopt \/ Refresh \/ Nudge
  \/ \E w \in late : LateReplace(w)

Step(q) ==
  \/ lock(q) \/ route(q) \/ capture(q) \/ route_again(q) \/ check_consent(q)
  \/ reuse(q) \/ refuse(q) \/ write(q) \/ take(q) \/ joined(q) \/ closed(q)
  \/ delete_on_host(q) \/ forget(q)
  \/ \E l \in Listeners : bind(q, l) \/ cancel(q, l)

Relay(r) == route(r) \/ capture(r) \/ route_again(r) \/ check_owner(r) \/ abort(r)

Next ==
  \/ Environment
  \/ \E q \in Requests : \/ Step(q) \/ leave(q) \/ opened(q) \/ store_fails(q)
                         \/ \E k \in Kinds, s \in Sessions : start(q, k, s)
  \/ \E r \in Relays : \/ Relay(r) \/ relay_ends(r) \/ store_fails(r)
                       \/ \E l \in Listeners : accept(r, l)
  \/ \E l \in Listeners : leave_loop(l) \/ finish(l)

Spec == Init /\ [][Next]_vars

\* The runtime polls every ready task. Not assumed: that the opener returns,
\* that a relayed connection ends, that a socket comes, that the host is there.
Fairness ==
  /\ \A q \in Requests : WF_vars(Step(q))
  /\ \A r \in Relays : WF_vars(Relay(r))
  /\ \A l \in Listeners : WF_vars(finish(l)) /\ WF_vars(lst[l].cancel /\ leave_loop(l))

-----------------------------------------------------------------------------
TypeOK ==
  /\ at \in Installs /\ ident \in Installs /\ cache \subseteq Sessions
  /\ conn \in Connections \cup {None} /\ serial \in Nat
  /\ deleted \subseteq Installs \X Sessions
  /\ late \subseteq [ident : Installs, entries : SUBSET Sessions]
  /\ unforgotten \subseteq Installs \X Sessions
  /\ consent \in BOOLEAN /\ stopped \in BOOLEAN
  /\ entries \subseteq Listeners
  /\ gate \in Requests \cup {None}
  /\ lst \in [Listeners -> [pc : {"none", "accepting", "closing", "ended"},
                            s : Sessions \cup {None}, owner : Installs \cup {None},
                            cancel : BOOLEAN, agent : Nat \cup {None},
                            conn : Nat \cup {None}]]
  /\ task \in [Tasks ->
       [pc : {"idle", "gate", "consent", "route", "status", "again", "publish", "opener",
              "write", "take", "closing", "delete", "forget", "owner", "relaying", "ended", "refused"},
        kind : AllKinds \cup {"relay", None}, s : Sessions \cup {None},
        conn : Connections \cup {None}, origin : Nat \cup {None},
        todo : SUBSET Listeners, l : Listeners \cup {None}]]
  /\ moves \in 0..MaxMoves /\ faults \in 0..MaxFaults

\* Without consent nothing listens and nothing is relayed, except while the
\* request that withdrew it still closes what it found (put_preferences
\* holding the gate through update_preferences and close_all_locked).
ConsentBounds ==
  ~consent =>
    \/ \E q \in Requests : task[q].kind = "disable" /\ task[q].pc = "closing"
    \/ (\A l \in Listeners : ~Live(l)) /\ (\A r \in Relays : task[r].pc # "relaying")

\* A link is never served by two listeners: open_from looks for one and
\* publishes its own in one hold of the gate.
OneListener ==
  \A k, l \in Listeners : Live(k) /\ Live(l) /\ k # l /\ lst[k].s = lst[l].s =>
    ~({k, l} \subseteq entries)

\* A relayed socket leads to the installation its listener was opened for,
\* through reconnects, a reinstall and an adoption (same_owner, route_session).
RelaysToItsOwner ==
  \A r \in Relays : task[r].pc = "relaying" =>
    task[r].conn.install = lst[task[r].l].owner

\* A request is routed to a standing connection only if the installation behind
\* it reported the session: cached membership of one is never paired with the
\* connection of another (resolve_owner). Two adoptions between its two reads of
\* the cache defeat the second read, but only for a connection that is gone.
RoutedWhereListed ==
  \A t \in Tasks :
    /\ task[t].pc \in {"publish", "delete", "owner", "relaying"}
    /\ task[t].conn = conn
    => task[t].s \in Hosted[task[t].conn.install]

\* An agent's approved link opens on the connection it asked on, however long
\* it waited for the gate (open_agent_url).
AgentKeepsItsConnection ==
  \A l \in Listeners : lst[l].agent # None => lst[l].agent = lst[l].conn

\* After the shutdown of the tunnels nothing listens or is relayed again
\* (TunnelManager::shutdown, before the manager's own).
NothingAfterShutdown ==
  \A q \in Requests : task[q].kind = "shutdown" /\ task[q].pc = "ended" =>
    /\ \A l \in Listeners : ~Live(l)
    /\ \A r \in Relays : task[r].pc \notin {"route", "status", "again", "owner", "relaying"}

\* A completed delete leaves no listener of its session behind, and none is
\* published after it ("so successful teardown cannot leave a newly published
\* listener behind", forget_deleted_session), unless its row outlived it: the
\* connection had changed before the session was forgotten, the cache could not be
\* written, or the write of a dropped refresh landed after it. Then the row is
\* routed until the next refresh, and what was published meanwhile stays. (Two
\* adoptions may publish a listener on a later connection once that is gone.)
DeletedHasNone ==
  \A q \in Requests, l \in Listeners :
    /\ task[q].kind = "delete" /\ task[q].pc = "ended"
    /\ <<task[q].conn.install, task[q].s>> \notin unforgotten
    /\ lst[l].s = task[q].s /\ lst[l].owner = task[q].conn.install
    /\ lst[l].conn \in 0..task[q].conn.id \/ (conn # None /\ lst[l].conn = conn.id)
    => ~Live(l)

\* What listens and is relayed is what consent, deletes, the shutdown and the
\* entries say, whichever requests race for the gate.
Consistent == TypeOK /\ ConsentBounds /\ OneListener /\ NothingAfterShutdown /\ DeletedHasNone

\* Every socket and link leads where it was asked to lead, through reconnects,
\* reinstalls and adoptions.
RoutesSound == RelaysToItsOwner /\ RoutedWhereListed /\ AgentKeepsItsConnection

\* The gate is always free again: neither relayed bytes nor the opener of a
\* browser, which may never end, hold it, and whatever stops listeners under it
\* gets to the end of what they relay (open_from, Entry::stop).
GateReleased == []<>(gate = None)
=============================================================================
