------------------------------ MODULE HostActor ------------------------------
(****************************************************************************)
(* One registered host of the helm (farhelm-helm/src/manager.rs): the actor *)
(* that dials its supervisor, settles its identity and keeps the list of    *)
(* its sessions; the manager's edits of the row (retry, retarget, adopt);   *)
(* and the handlers that create, change and delete sessions and record the  *)
(* reply in that list (sessions.rs record_session, forget_session).         *)
(*                                                                          *)
(* The list has two shapes. A host that reports an identity has a durable   *)
(* cache in helm.db, written by store transactions that check the identity; *)
(* one that reports none is served from `live', in the published status.    *)
(* Every await of the code is a boundary between two steps here.            *)
(*                                                                          *)
(* Not modelled: removal of the row, the provisioning hold, a retired actor *)
(* and its revival, version skew, duplicate rows, the pacing of refreshes,  *)
(* LIST_SESSIONS_CAP, failed reads and writes of the store.                 *)
(****************************************************************************)
EXTENDS Naturals, FiniteSets

CONSTANTS
  Sessions,    \* session ids, unique over all installs
  Installs,    \* supervisor installations, each with an identity
  Dests,       \* ssh destinations
  Ops,         \* the session operations of a behaviour, each run once
  Kinds,       \* which operations: a subset of {"create", "touch", "delete"}
  None,        \* no identity, no connection, no list
  First,       \* the destination the row starts with
  MaxMoves,    \* bound on retargets and reinstalls
  MaxRetries,  \* bound on the user's retries
  MaxFaults    \* bound on failed dials, failed walks and lost connections

ASSUME HostAssumption ==
  /\ Kinds \subseteq {"create", "touch", "delete"}
  /\ First \in Dests
  /\ None \notin Installs \cup Dests \cup Sessions
  /\ None \notin {"actor", "edit"} /\ Ops \cap {"actor", "edit", None} = {}
  /\ None \notin [id : Nat, install : Installs, dest : Dests, ident : Installs \cup {None}]
  /\ MaxMoves \in Nat /\ MaxRetries \in Nat /\ MaxFaults \in Nat

VARIABLES
  at,       \* the install that answers at each destination
  owner,    \* the install a session was created on, None before
  deleted,  \* the sessions deleted on their install
  dest, ident, cache,  \* the row in helm.db: destination, identity, cached list
  known,    \* ActorHandle::row: the destination the manager last applied
  status,   \* ActorStatus, read and written under its own lock
  tokens,   \* the next incarnation token, never reused
  nudge,    \* whether a nudge is waiting for the actor
  lock,     \* who holds this host's cache_lock
  epoch,    \* seed_epoch
  actor,    \* the actor's place and locals
  edit,     \* set_destination: None, or the destination being applied
  adopt,    \* adopt: None, or what it read
  op,       \* the session operations
  late,     \* replacements whose task goes on after the actor dropped the call
  told,     \* history: the sessions recorded in the cache since the last adoption
  gone,     \* history: the sessions a completed delete has forgotten and no reply named since
  dropped,  \* history: whether a nudge dropped a refresh inside its store write
  identified, \* whether the supervisors report an identity in their hello; never changes
  moves, retries, faults

store == <<dest, ident, cache>>
world == <<at, owner, deleted>>
bounds == <<moves, retries, faults>>
hist == <<told, gone, dropped>>
manager == <<known, edit, adopt>>
vars == <<world, store, manager, status, tokens, nudge, lock, epoch, actor, op,
          late, hist, bounds>>

-----------------------------------------------------------------------------
Hosted(i) == {s \in Sessions : owner[s] = i} \ deleted

\* What a hello reports.
Hello(i) == IF identified THEN i ELSE None

Connections == [id : Nat, install : Installs, dest : Dests, ident : Installs \cup {None}]

\* The peer of a connection still answers; a reinstalled machine does not.
Alive(c) == at[c.dest] = c.install

\* The sessions the routes and the list find (resolve_owner).
Served == IF identified THEN cache ELSE IF status.live = None THEN {} ELSE status.live

Idle == [pc |-> "idle", kind |-> None, s |-> None, inc |-> 0, conn |-> None]

Init ==
  /\ at \in {f \in [Dests -> Installs] : \A d, e \in Dests : f[d] = f[e] => d = e}
  /\ owner = [s \in Sessions |-> None]
  /\ deleted = {}
  /\ dest = First /\ ident = None /\ cache = {}
  /\ known = First
  /\ status = [phase |-> "connecting", client |-> None, inc |-> 1, live |-> None,
               shown |-> None]
  /\ tokens = 2
  /\ nudge = FALSE
  /\ lock = None
  /\ epoch = 0
  /\ actor = [pc |-> "top", seen |-> 0, dialed |-> First, conn |-> None,
              outcome |-> "failed", recorded |-> None, sampled |-> 0,
              entries |-> {}, live |-> "retain", ends |-> FALSE]
  /\ edit = None
  /\ adopt = None
  /\ op = [o \in Ops |-> Idle]
  /\ late = {}
  /\ told = {}
  /\ gone = {}
  /\ dropped = FALSE
  /\ identified \in BOOLEAN
  /\ moves = 0 /\ retries = 0 /\ faults \in 0..MaxFaults

-----------------------------------------------------------------------------
(* Publishing.                                                              *)

\* publish_refresh: state, client and list in one send_modify; a change of the
\* client mints a new incarnation.
Publish(phase, client, live, shown) ==
  /\ status' = [phase |-> phase, client |-> client, live |-> live, shown |-> shown,
                inc |-> IF client = status.client THEN status.inc ELSE tokens]
  /\ tokens' = IF client = status.client THEN tokens ELSE tokens + 1

Unpublished == UNCHANGED <<status, tokens>>

\* A withdrawal by the manager (sync_registry, adopt): always a new incarnation.
Withdraw ==
  /\ status' = [phase |-> "connecting", client |-> None, live |-> None, shown |-> None,
                inc |-> tokens]
  /\ tokens' = tokens + 1

\* PublishGuard::WhileIncarnation
WhileIncarnation == status.inc = actor.seen

\* PublishGuard::WhileCurrent
WhileCurrent == status.client = actor.conn

Fault(ok) ==
  \/ ok /\ UNCHANGED faults
  \/ faults < MaxFaults /\ faults' = faults + 1

Goto(pc) == actor' = [actor EXCEPT !.pc = pc]

-----------------------------------------------------------------------------
(* The actor's dial: HostActor::run, connect_phase, dial.                   *)

\* The token is read before the row is reloaded.
Top ==
  /\ actor.pc = "top"
  /\ actor' = [actor EXCEPT !.pc = "reload", !.seen = status.inc]
  /\ UNCHANGED <<world, store, manager, status, tokens, nudge, lock, epoch, op, late,
                 hist, bounds>>

\* Mutant: the row is not read again.
Reload_KeepsRow ==
  /\ actor.pc = "reload"
  /\ actor' = [actor EXCEPT !.pc = "dial"]
  /\ \/ WhileIncarnation /\ Publish("connecting", None, None, None)
     \/ (~WhileIncarnation \/ status.phase = "down") /\ Unpublished
  /\ UNCHANGED <<world, store, manager, nudge, lock, epoch, op, late, hist, bounds>>

\* An active window publishes Connecting; a background probe of an unreachable
\* host leaves its state alone.
Reload ==
  /\ actor.pc = "reload"
  /\ actor' = [actor EXCEPT !.pc = "dial", !.dialed = dest]
  /\ \/ WhileIncarnation /\ Publish("connecting", None, None, None)
     \/ (~WhileIncarnation \/ status.phase = "down") /\ Unpublished
  /\ UNCHANGED <<world, store, manager, nudge, lock, epoch, op, late, hist, bounds>>

Dial ==
  /\ actor.pc = "dial"
  /\ actor' = [actor EXCEPT !.pc = "record",
                 !.conn = [id |-> tokens, install |-> at[actor.dialed],
                           dest |-> actor.dialed, ident |-> Hello(at[actor.dialed])]]
  /\ UNCHANGED <<world, store, manager, status, tokens, nudge, lock, epoch, op, late,
                 hist, bounds>>

\* record_first_contact, one transaction. It writes only a first identity.
FirstContact ==
  LET c == actor.conn
      settle(o) == actor' = [actor EXCEPT !.pc = "settle", !.outcome = o, !.recorded = ident]
  IN /\ actor.pc = "record"
     /\ \/ identified /\ dest # actor.dialed /\ settle("failed") /\ UNCHANGED ident
        \/ identified /\ dest = actor.dialed /\ ident \in {None, c.ident}
             /\ ident' = c.ident /\ settle("connected")
        \/ identified /\ dest = actor.dialed /\ ident \notin {None, c.ident}
             /\ settle("mismatch") /\ UNCHANGED ident
        \/ ~identified /\ settle("connected") /\ UNCHANGED ident
     /\ UNCHANGED <<world, dest, cache, manager, status, tokens, nudge, lock, epoch, op,
                    late, hist, bounds>>

\* A dial that is refused, times out or fails in its last setup: the ladder
\* dials the same row again, or the window is over.
AttemptFails ==
  /\ \/ actor.pc \in {"dial", "record"}
     \/ actor.pc = "settle" /\ actor.outcome = "connected"
  /\ Fault(FALSE)
  /\ \/ Goto("dial")
     \/ actor' = [actor EXCEPT !.pc = "settle", !.outcome = "failed"]
  /\ UNCHANGED <<world, store, manager, status, tokens, nudge, lock, epoch, op, late,
                 hist, moves, retries>>

\* take_settled_outcome: a nudge that arrived first wins over the outcome.
Settle ==
  /\ actor.pc = "settle"
  /\ Goto(IF nudge THEN "top" ELSE actor.outcome)
  /\ nudge' = FALSE
  /\ UNCHANGED <<world, store, manager, status, tokens, lock, epoch, op, late, hist, bounds>>

\* Every wait of the dial races the nudge.
Interrupted ==
  /\ actor.pc \in {"dial", "record", "connected", "hold", "frozen"}
  /\ nudge
  /\ Goto("top")
  /\ nudge' = FALSE
  /\ UNCHANGED <<world, store, manager, status, tokens, lock, epoch, op, late, hist, bounds>>

\* set_state(Unreachable)
Unreachable ==
  /\ actor.pc = "failed"
  /\ Publish("down", None, None, None)
  /\ Goto("hold")
  /\ UNCHANGED <<world, store, manager, nudge, lock, epoch, op, late, hist, bounds>>

HoldOver ==
  /\ actor.pc = "hold"
  /\ Goto("top")
  /\ UNCHANGED <<world, store, manager, status, tokens, nudge, lock, epoch, op, late,
                 hist, bounds>>

\* set_refusal(IdentityMismatch), unguarded; then no timer, only a nudge.
Refuse ==
  /\ actor.pc = "mismatch"
  /\ Publish("mismatch", None, None,
             [recorded |-> actor.recorded, reported |-> actor.conn.ident])
  /\ Goto("frozen")
  /\ UNCHANGED <<world, store, manager, nudge, lock, epoch, op, late, hist, bounds>>

-----------------------------------------------------------------------------
(* The connected phase: HostActor::serve, refresh_once.                     *)

\* A host without an identity serves from memory at once, from an empty list.
Serve ==
  /\ actor.pc = "connected"
  /\ IF WhileIncarnation
     THEN Publish("connected", actor.conn, IF identified THEN None ELSE {}, None)
     ELSE Unpublished
  /\ Goto("walk")
  /\ UNCHANGED <<world, store, manager, nudge, lock, epoch, op, late, hist, bounds>>

\* The epoch is sampled before the host is asked.
Walk ==
  /\ actor.pc = "walk"
  /\ actor' = [actor EXCEPT !.pc = "asked", !.sampled = epoch]
  /\ UNCHANGED <<world, store, manager, status, tokens, nudge, lock, epoch, op, late,
                 hist, bounds>>

\* ListSessions: the host reads its sessions at one moment.
Answer ==
  /\ actor.pc = "asked"
  /\ Alive(actor.conn)
  /\ actor' = [actor EXCEPT !.pc = "lock", !.entries = Hosted(actor.conn.install)]
  /\ UNCHANGED <<world, store, manager, status, tokens, nudge, lock, epoch, op, late,
                 hist, bounds>>

\* An error reply keeps the connection, no reply within refresh_timeout ends
\* it; both keep the list.
WalkFails ==
  /\ actor.pc = "asked"
  /\ Fault(~Alive(actor.conn) \/ status.client # actor.conn)
  /\ \E ends \in BOOLEAN :
       /\ ~Alive(actor.conn) => ends
       /\ actor' = [actor EXCEPT !.pc = "check", !.live = "retain", !.ends = ends]
  /\ UNCHANGED <<world, store, manager, status, tokens, nudge, lock, epoch, op, late,
                 hist, moves, retries>>

\* Mutant: the replacement is committed whatever was seeded meanwhile.
CompareEpoch_Always ==
  /\ actor.pc = "lock"
  /\ lock = None
  /\ lock' = "actor"
  /\ Goto("write")
  /\ UNCHANGED <<world, store, manager, status, tokens, nudge, epoch, op, late, hist, bounds>>

\* Under cache_lock: a walk older than the newest seed is discarded. Without an
\* identity the lock is dropped again before the list is published.
CompareEpoch ==
  LET fresh == epoch = actor.sampled
  IN /\ actor.pc = "lock"
     /\ lock = None
     /\ \/ /\ fresh /\ identified
           /\ lock' = "actor"
           /\ Goto("write")
        \/ /\ ~(fresh /\ identified)
           /\ actor' = [actor EXCEPT !.pc = "check", !.ends = FALSE,
                          !.live = IF fresh THEN "set" ELSE "retain"]
           /\ UNCHANGED lock
     /\ UNCHANGED <<world, store, manager, status, tokens, nudge, epoch, op, late, hist,
                    bounds>>

\* replace_host_sessions, one transaction bound to the identity the list was
\* asked under; a refusal ends the connection.
ReplaceSessions ==
  /\ actor.pc = "write"
  /\ cache' = IF ident = actor.conn.ident THEN actor.entries ELSE cache
  /\ actor' = [actor EXCEPT !.pc = "check", !.live = "retain",
                 !.ends = ident # actor.conn.ident]
  /\ lock' = None
  /\ UNCHANGED <<world, dest, ident, manager, status, tokens, nudge, epoch, op, late,
                 hist, bounds>>

\* A nudge drops refresh_once at whatever await it has reached. A store call
\* already made runs on in its blocking task; its lock guard does not.
WalkNudged ==
  /\ actor.pc \in {"asked", "lock", "write"}
  /\ nudge
  /\ nudge' = FALSE
  /\ IF actor.pc = "write"
     THEN /\ lock' = None
          /\ late' = late \cup {[ident |-> actor.conn.ident, entries |-> actor.entries]}
          /\ dropped' = TRUE
     ELSE UNCHANGED <<lock, late, dropped>>
  /\ Goto("end")
  /\ UNCHANGED <<world, store, manager, status, tokens, epoch, op, told, gone, bounds>>

\* The dropped call's transaction.
LateReplace(w) ==
  /\ w \in late
  /\ cache' = IF ident = w.ident THEN w.entries ELSE cache
  /\ late' = late \ {w}
  /\ UNCHANGED <<world, dest, ident, manager, status, tokens, nudge, lock, epoch, actor,
                 op, hist, bounds>>

\* A nudge that landed while the refresh was finishing.
CheckNudge ==
  /\ actor.pc = "check"
  /\ Goto(IF nudge THEN "end" ELSE "publish")
  /\ nudge' = FALSE
  /\ UNCHANGED <<world, store, manager, status, tokens, lock, epoch, op, late, hist, bounds>>

\* Mutant: the refresh republishes its connection unconditionally.
PublishWalk_Unguarded ==
  /\ actor.pc = "publish"
  /\ Publish("connected", actor.conn,
             IF actor.live = "set" THEN actor.entries ELSE status.live, None)
  /\ Goto(IF actor.ends THEN "end" ELSE "wait")
  /\ UNCHANGED <<world, store, manager, nudge, lock, epoch, op, late, hist, bounds>>

PublishWalk ==
  /\ actor.pc = "publish"
  /\ IF WhileCurrent
     THEN Publish("connected", actor.conn,
                  IF actor.live = "set" THEN actor.entries ELSE status.live, None)
     ELSE Unpublished
  /\ Goto(IF actor.ends THEN "end" ELSE "wait")
  /\ UNCHANGED <<world, store, manager, nudge, lock, epoch, op, late, hist, bounds>>

\* The next poll, hint or refresh_now.
WaitOver ==
  /\ actor.pc = "wait"
  /\ Alive(actor.conn) /\ status.client = actor.conn
  /\ Goto("walk")
  /\ UNCHANGED <<world, store, manager, status, tokens, nudge, lock, epoch, op, late,
                 hist, bounds>>

\* client.closed(): the peer is gone, the client was retired, or the transport
\* failed. A nudge ends the wait as well.
Closed ==
  /\ actor.pc = "wait"
  /\ \/ nudge /\ UNCHANGED faults
     \/ Fault(~Alive(actor.conn) \/ status.client # actor.conn)
  /\ Goto("end")
  /\ UNCHANGED <<world, store, manager, status, tokens, nudge, lock, epoch, op, late,
                 hist, moves, retries>>

\* Leaving serve consumes the nudge and withdraws the client.
EndServe ==
  /\ actor.pc = "end"
  /\ nudge' = FALSE
  /\ Publish("connecting", None, None, None)
  /\ Goto("top")
  /\ UNCHANGED <<world, store, manager, lock, epoch, op, late, hist, bounds>>

ActorSteps ==
  \/ Top \/ Reload \/ Dial \/ FirstContact \/ Settle \/ Interrupted \/ Unreachable
  \/ HoldOver \/ Refuse \/ Serve \/ Walk \/ Answer \/ CompareEpoch \/ ReplaceSessions
  \/ CheckNudge \/ PublishWalk \/ WaitOver \/ EndServe \/ WalkFails \/ WalkNudged \/ Closed

-----------------------------------------------------------------------------
(* The manager's edits.                                                     *)

\* retry_now on a live actor.
RetryNow ==
  /\ retries < MaxRetries
  /\ retries' = retries + 1
  /\ nudge' = TRUE
  /\ UNCHANGED <<world, store, manager, status, tokens, lock, epoch, actor, op, late,
                 hist, moves, faults>>

\* set_destination: under cache_lock, the row is written ...
UpdateDestination(d) ==
  /\ edit = None /\ lock = None /\ d # dest
  /\ moves < MaxMoves
  /\ moves' = moves + 1
  /\ lock' = "edit"
  /\ edit' = d
  /\ dest' = d
  /\ UNCHANGED <<world, ident, cache, known, adopt, status, tokens, nudge, epoch, actor,
                 op, late, hist, retries, faults>>

\* ... and sync_registry applies it: client and list withdrawn, then the nudge.
SyncRegistry ==
  /\ edit # None
  /\ known' = edit
  /\ Withdraw
  /\ nudge' = TRUE
  /\ lock' = None
  /\ edit' = None
  /\ UNCHANGED <<world, store, adopt, epoch, actor, op, late, hist, bounds>>

\* adopt: the mismatch and the row, read in one hold of the actor map.
AdoptRead ==
  /\ adopt = None
  /\ status.phase = "mismatch"
  /\ adopt' = [pc |-> "store", recorded |-> status.shown.recorded,
               reported |-> status.shown.reported, dialed |-> known]
  /\ UNCHANGED <<world, store, known, edit, status, tokens, nudge, lock, epoch, actor, op,
                 late, hist, bounds>>

\* adopt_identity: compare-and-swap of the identity and the purge, one transaction.
AdoptStore ==
  LET taken == dest = adopt.dialed /\ ident = adopt.recorded
  IN /\ adopt # None /\ adopt.pc = "store"
     /\ IF taken
        THEN /\ ident' = adopt.reported
             /\ cache' = {}
             /\ told' = {}
             /\ adopt' = [adopt EXCEPT !.pc = "publish"]
        ELSE adopt' = None /\ UNCHANGED <<ident, cache, told>>
     /\ UNCHANGED <<world, dest, known, edit, status, tokens, nudge, lock, epoch, actor, op,
                    late, gone, dropped, bounds>>

AdoptPublish ==
  /\ adopt # None /\ adopt.pc = "publish"
  /\ Withdraw
  /\ nudge' = TRUE
  /\ adopt' = None
  /\ UNCHANGED <<world, store, known, edit, lock, epoch, actor, op, late, hist, bounds>>

\* The machine behind a destination is replaced by another install.
Reinstall(d) ==
  /\ moves < MaxMoves
  /\ moves' = moves + 1
  /\ \E i \in Installs \ {at[d]} : at' = [at EXCEPT ![d] = i]
  /\ UNCHANGED <<owner, deleted, store, manager, status, tokens, nudge, lock, epoch,
                 actor, op, late, hist, retries, faults>>

-----------------------------------------------------------------------------
(* Session operations.                                                      *)

\* create_target and route_session: client and claim from one read of the
\* status; an operation on a session needs it in the list.
Route(o, kind, s) ==
  /\ op[o].pc = "idle"
  /\ kind \in Kinds
  /\ status.client # None
  /\ IF kind = "create" THEN s = None ELSE s \in Served
  /\ op' = [op EXCEPT ![o] = [pc |-> "sent", kind |-> kind, s |-> s, inc |-> status.inc,
                              conn |-> status.client]]
  /\ UNCHANGED <<world, store, manager, status, tokens, nudge, lock, epoch, actor, late,
                 hist, bounds>>

\* The supervisor does it and replies; it refuses a session it does not have.
Execute(o) ==
  LET i == op[o].conn.install
      s == op[o].s
      replied(t) == op' = [op EXCEPT ![o].pc = "replied", ![o].s = t]
  IN /\ op[o].pc = "sent"
     /\ Alive(op[o].conn)
     /\ \/ /\ op[o].kind = "create"
           /\ \E t \in Sessions :
                /\ owner[t] = None
                /\ owner' = [owner EXCEPT ![t] = i]
                /\ replied(t)
           /\ UNCHANGED deleted
        \/ /\ op[o].kind = "touch" /\ s \in Hosted(i)
           /\ replied(s)
           /\ UNCHANGED <<owner, deleted>>
        \/ /\ op[o].kind = "delete" /\ s \in Hosted(i)
           /\ deleted' = deleted \cup {s}
           /\ replied(s)
           /\ UNCHANGED owner
        \/ /\ op[o].kind # "create" /\ s \notin Hosted(i)
           /\ op' = [op EXCEPT ![o].pc = "done"]
           /\ UNCHANGED <<owner, deleted>>
     /\ UNCHANGED <<at, store, manager, status, tokens, nudge, lock, epoch, actor, late,
                    hist, bounds>>

\* The request or its reply is lost with the connection.
Lost(o) ==
  /\ op[o].pc \in {"sent", "replied"}
  /\ ~Alive(op[o].conn) \/ status.client # op[o].conn
  /\ op' = [op EXCEPT ![o].pc = "done"]
  /\ UNCHANGED <<world, store, manager, status, tokens, nudge, lock, epoch, actor, late,
                 hist, bounds>>

\* claim_is_current
ClaimIsCurrent(o) == status.inc = op[o].inc

\* remember_session and forget_session: cache_lock, then the claim.
TakeLock(o) ==
  /\ op[o].pc = "replied"
  /\ lock = None
  /\ IF ClaimIsCurrent(o)
     THEN lock' = o /\ op' = [op EXCEPT ![o].pc = "write"]
     ELSE UNCHANGED lock /\ op' = [op EXCEPT ![o].pc = "done"]
  /\ UNCHANGED <<world, store, manager, status, tokens, nudge, epoch, actor, late, hist,
                 bounds>>

With(list, o) == IF op[o].kind = "delete" THEN list \ {op[o].s} ELSE list \cup {op[o].s}

\* The durable write is a transaction bound to the claim's identity; the one in
\* memory re-checks the claim inside the status's lock.
WriteList(o) ==
  LET live == status.live # None /\ status.client # None /\ status.inc = op[o].inc
      wrote == IF identified THEN ident = op[o].conn.ident
               ELSE live \/ op[o].kind = "delete"
  IN /\ op[o].pc = "write"
     /\ cache' = IF identified /\ wrote THEN With(cache, o) ELSE cache
     /\ status' = IF ~identified /\ live
                  THEN [status EXCEPT !.live = With(status.live, o)] ELSE status
     /\ lock' = IF wrote THEN lock ELSE None
     /\ op' = [op EXCEPT ![o].pc = IF wrote THEN "bump" ELSE "done"]
     /\ IF wrote /\ op[o].kind # "delete"
        THEN told' = told \cup {op[o].s} /\ gone' = gone \ {op[o].s}
        ELSE UNCHANGED <<told, gone>>
     /\ UNCHANGED <<world, dest, ident, manager, tokens, nudge, epoch, actor, late, dropped,
                    bounds>>

\* After the write, still under the lock: the epoch; then the caller is answered.
Bump(o) ==
  /\ op[o].pc = "bump"
  /\ epoch' = epoch + 1
  /\ lock' = None
  /\ op' = [op EXCEPT ![o].pc = "done"]
  /\ gone' = IF op[o].kind = "delete" THEN gone \cup {op[o].s} ELSE gone
  /\ UNCHANGED <<world, store, manager, status, tokens, nudge, actor, late, told, dropped, bounds>>

OpSteps(o) == Execute(o) \/ Lost(o) \/ TakeLock(o) \/ WriteList(o) \/ Bump(o)

-----------------------------------------------------------------------------
Steps ==
  \/ ActorSteps \/ AttemptFails
  \/ \E w \in late : LateReplace(w)
  \/ RetryNow \/ SyncRegistry \/ AdoptRead \/ AdoptStore \/ AdoptPublish
  \/ \E d \in Dests : UpdateDestination(d) \/ Reinstall(d)
  \/ \E o \in Ops, k \in Kinds, s \in Sessions \cup {None} : Route(o, k, s)
  \/ \E o \in Ops : OpSteps(o)

Next == Steps /\ UNCHANGED identified

Spec == Init /\ [][Next]_<<vars, identified>>

\* The actor's task, a handler that has begun and a spawned store call run to
\* their next await; that the user acts, or that a fault happens, is not assumed.
Fairness ==
  /\ WF_vars(ActorSteps)
  /\ WF_vars(SyncRegistry) /\ WF_vars(AdoptStore) /\ WF_vars(AdoptPublish)
  /\ WF_vars(\E w \in late : LateReplace(w))
  /\ \A o \in Ops : WF_vars(OpSteps(o))

-----------------------------------------------------------------------------
(* Properties.                                                              *)

\* The types of the variables.
TypeOK ==
  /\ at \in [Dests -> Installs]
  /\ owner \in [Sessions -> Installs \cup {None}]
  /\ deleted \subseteq Sessions
  /\ dest \in Dests /\ known \in Dests
  /\ ident \in Installs \cup {None}
  /\ cache \subseteq Sessions
  /\ status.phase \in {"connecting", "connected", "mismatch", "down"}
  /\ status.client \in Connections \cup {None}
  /\ status.inc \in Nat /\ status.inc < tokens
  /\ status.live = None \/ status.live \subseteq Sessions
  /\ nudge \in BOOLEAN
  /\ lock \in Ops \cup {"actor", "edit", None}
  /\ actor.entries \subseteq Sessions
  /\ gone \subseteq Sessions

\* "The helm never silently merges": whatever retargets, reinstalls, adoptions,
\* delayed refreshes and late replies do, every cached session was created on
\* the install whose identity the row holds (replace_host_sessions,
\* remember_session, adopt_identity).
OneInstall == \A s \in cache : owner[s] = ident

\* Once a retarget is applied, no connection to the old destination is ever
\* routable again (PublishGuard): a published client was dialed where the row
\* points, but for the moment between the row's write and its reconcile.
RoutedWhereTheRowPoints ==
  status.client # None /\ edit = None => status.client.dest = dest

\* A list in memory never outlives its connection, and holds only sessions of
\* the install behind it (remember_session's re-check, publish).
MemoryOfItsConnection ==
  status.live # None =>
    /\ status.client # None
    /\ \A s \in status.live : owner[s] = status.client.install

\* A session whose creation was recorded and answered stays in the cache for as
\* long as its install has it: no refresh that began before it can erase it
\* (cache_lock and seed_epoch). The one exception is a refresh that a nudge
\* dropped inside its store write: the write goes on without the lock.
RecordedStays ==
  identified /\ ~dropped =>
    told \cap Hosted(ident) \subseteq cache

\* A session that a completed delete removed from the cache is not brought back
\* by a refresh that began before it: only the late reply of another operation
\* on it can (forget_session's epoch), with the exception of RecordedStays.
DeletedStaysGone ==
  identified /\ ~dropped => gone \cap cache = {}

\* What the operations have recorded stays as they recorded it, in both
\* directions, whatever refreshes overlap them.
WritesStay == RecordedStays /\ DeletedStaysGone

\* What the row, the cache, the list in memory and the published connection say
\* belongs together, through every edit, reinstall and late reply.
Consistent == TypeOK /\ OneInstall /\ RoutedWhereTheRowPoints /\ MemoryOfItsConnection

\* Once the user and the faults leave it alone, the list agrees with what the
\* host has, or the host is frozen on an identity only the user can accept.
Heals == <>[](status.phase = "mismatch" \/ Served = Hosted(at[dest]))
=============================================================================
