----------------------------- MODULE TunnelsProofs -----------------------------
(***************************************************************************)
(* Tunnels: whichever requests race for the gate, what listens and relays  *)
(* is what consent, deletes and the shutdown allow (Consistent), and every *)
(* socket leads to the installation it was opened for (RoutesSound), for   *)
(* any number of requests, sockets, sessions and installations.            *)
(*                                                                         *)
(* The argument: the gate has one holder (Gated), and what it holds it for *)
(* is fixed by where it is (RequestOK); a listener that lives is in the    *)
(* entries or in the hands of the holder (AllKnown), so a holder that took *)
(* out the entries and has joined them leaves nothing behind.              *)
(***************************************************************************)
EXTENDS Tunnels, TLAPS

Pcs == {"idle", "gate", "consent", "route", "status", "again", "publish", "opener", "write", "take",
        "closing", "delete", "forget", "owner", "relaying", "ended", "refused"}
TaskRecords ==
    [pc : Pcs, kind : AllKinds \cup {"relay", None}, s : Sessions \cup {None},
     conn : Connections \cup {None}, origin : Nat \cup {None},
     todo : SUBSET Listeners, l : Listeners \cup {None}]
ListenerRecords ==
    [pc : {"none", "accepting", "closing", "ended"}, s : Sessions \cup {None},
     owner : Installs \cup {None}, cancel : BOOLEAN, agent : Nat \cup {None}, conn : Nat \cup {None}]

Links == {"open", "agent"}
Routing == {"route", "status", "again"}

\* A request holds the gate in these places; a delete routes without it.
Holding(x) == x.pc \in {"consent", "publish", "write", "take", "closing", "forget"}
              \/ (x.pc \in Routing /\ x.kind \in Links)
Gated == \A q \in Requests : Holding(task[q]) <=> gate = q

RequestKind(x) ==
    /\ x.pc \notin {"owner", "relaying"} /\ x.kind # "relay"
    /\ x.pc # "idle" => x.s \in Sessions
    /\ x.pc = "gate" => x.kind \in AllKinds
    /\ x.pc \in {"consent", "publish", "opener"} => x.kind \in Links
    /\ x.pc \in Routing => x.kind \in Links \cup {"delete"}
    /\ x.pc = "write" => x.kind \in {"enable", "disable"}
    /\ x.pc = "take" => x.kind \in {"close", "delete", "shutdown"}
    /\ x.pc = "closing" => x.kind \in {"disable", "close", "delete", "shutdown"}
    /\ x.pc \in {"delete", "forget"} => x.kind = "delete"
    /\ x.pc \in {"publish", "delete"} => x.conn # None
    /\ x.kind = "delete" /\ x.pc \in {"gate", "take", "closing", "forget", "ended"} => x.conn # None

\* What a request has established by the time it is where it is.
RequestOK(x) ==
    /\ RequestKind(x)
    /\ x.kind \in Links /\ x.pc \in Routing \cup {"publish"} => consent
    /\ x.kind = "shutdown" /\ x.pc \in {"closing", "ended"} => stopped
    /\ x.kind \in {"disable", "shutdown"} /\ x.pc = "closing" => entries = {}
    /\ x.kind = "delete" /\ x.pc = "closing" => \A l \in entries : lst[l].s # x.s
    /\ x.pc = "forget" => \A l \in Listeners : Live(l) => lst[l].s # x.s
    /\ x.kind = "delete" /\ x.pc \in {"gate", "take", "closing", "forget", "ended"} =>
           <<x.conn.install, x.s>> \in deleted

\* A relay under way has a listener that has not ended.
RelayOK(x) ==
    /\ x.kind \in {"relay", None}
    /\ x.pc \in Routing \cup {"idle", "owner", "relaying", "ended", "refused"}
    /\ x.pc \notin {"idle", "ended", "refused"} => x.kind = "relay" /\ x.l # None /\ Live(x.l)
    /\ x.pc \in {"owner", "relaying"} => x.conn # None
    /\ x.pc = "relaying" => x.conn.install = lst[x.l].owner

\* The connection leads to the recorded installation, whose sessions are cached;
\* every connection a task or a listener knows was made, and has its own id.
HostSound ==
    /\ conn # None => conn.id < serial /\ conn.install = ident
    /\ cache \subseteq Hosted[ident]
    /\ \A w \in late : w.entries \subseteq Hosted[w.ident]
    /\ \A t \in Tasks : task[t].conn # None => task[t].conn.id < serial
    /\ \A t \in Tasks : conn # None /\ task[t].conn # None /\ task[t].conn.id = conn.id => task[t].conn = conn
    /\ \A l \in Listeners : Live(l) => lst[l].conn \in Nat /\ lst[l].conn < serial

AllKnown ==
    \A l \in Listeners : Live(l) =>
        l \in entries \/ \E q \in Requests : task[q].pc = "closing" /\ l \in task[q].todo

NothingListens == \A l \in Listeners : ~Live(l)
Withdrawing(x) == x.kind = "disable" /\ x.pc = "closing"
ConsentSound == ~consent => NothingListens \/ \E q \in Requests : Withdrawing(task[q])
ShutSound == \A q \in Requests : task[q].kind = "shutdown" /\ task[q].pc = "ended" => NothingListens

\* A completed delete x whose row did not outlive it.
Gone(x) == x.kind = "delete" /\ x.pc = "ended" /\ <<x.conn.install, x.s>> \notin unforgotten
Links2(x) == x.kind \in Links /\ x.pc \in {"status", "again", "publish"}

\* A link y under way for the session of x leads to another installation, or to a
\* later connection; and by the time it publishes, to one that is gone.
LinkAway(y, x) ==
    /\ y.pc = "status" /\ conn # None /\ conn.install = x.conn.install => x.conn.id < conn.id
    /\ y.pc \in {"again", "publish"} /\ y.conn # None /\ y.conn.install = x.conn.install =>
           x.conn.id < y.conn.id
    /\ y.pc = "publish" /\ y.conn # None /\ y.conn.install = x.conn.install => y.conn # conn

ListenerAway(l, x) == x.conn.id < lst[l].conn /\ (conn # None => lst[l].conn # conn.id)

\* A session that is gone is not routed to the installation it is gone from.
Forgotten ==
    \A q \in Requests : Gone(task[q]) =>
        /\ ident = task[q].conn.install => task[q].s \notin cache
        /\ \A p \in Requests : Links2(task[p]) /\ task[p].s = task[q].s => LinkAway(task[p], task[q])
        /\ \A l \in Listeners : Live(l) /\ lst[l].s = task[q].s /\ lst[l].owner = task[q].conn.install =>
               ListenerAway(l, task[q])

Inv ==
    /\ TypeOK /\ Gated /\ HostSound /\ AllKnown /\ ConsentSound /\ ShutSound /\ Forgotten
    /\ OneListener /\ RoutedWhereListed /\ AgentKeepsItsConnection
    /\ \A q \in Requests : RequestOK(task[q])
    /\ \A r \in Relays : RelayOK(task[r])

LEMMA InitInv == Init => Inv
<1> SUFFICES ASSUME Init PROVE Inv
    OBVIOUS
<1> USE TunnelAssumption
<1>1. /\ \A t \in Tasks : task[t] = Idle
      /\ \A l \in Listeners : lst[l] = Unborn
    BY DEF Init
<1>2. TypeOK
    <2>1. Unborn \in ListenerRecords /\ Idle \in TaskRecords
        BY DEF Unborn, Idle, ListenerRecords, TaskRecords, Pcs
    <2>2. lst \in [Listeners -> ListenerRecords] /\ task \in [Tasks -> TaskRecords]
        BY <2>1 DEF Init
    <2>3. /\ at \in Installs /\ ident \in Installs /\ cache \subseteq Sessions
          /\ conn \in Connections \cup {None} /\ serial \in Nat
        BY DEF Init, Connections
    <2>4. /\ deleted \subseteq Installs \X Sessions /\ consent \in BOOLEAN /\ stopped \in BOOLEAN
          /\ late = {} /\ unforgotten \subseteq Installs \X Sessions
          /\ entries \subseteq Listeners /\ gate \in Requests \cup {None}
          /\ moves \in 0..MaxMoves /\ faults \in 0..MaxFaults
        BY DEF Init
    <2> QED BY <2>2, <2>3, <2>4 DEF TypeOK, ListenerRecords, TaskRecords, Pcs
<1>3. \A q \in Requests : task[q] = Idle
    BY <1>1 DEF Tasks
<1>4. Gated /\ ShutSound /\ Forgotten
    <2>1. \A q \in Requests : task[q].pc = "idle" /\ q # None
        BY <1>3 DEF Idle
    <2>2. gate = None
        BY DEF Init
    <2> QED BY <2>1, <2>2 DEF Gated, ShutSound, Forgotten, Gone, Holding, Routing
<1>5. HostSound /\ RoutedWhereListed
    BY <1>1 DEF HostSound, RoutedWhereListed, Idle, Unborn, Live, Init
<1>6. AllKnown /\ ConsentSound /\ OneListener /\ AgentKeepsItsConnection
    BY <1>1 DEF AllKnown, ConsentSound, NothingListens, OneListener, AgentKeepsItsConnection, Live, Unborn
<1>7. \A q \in Requests : RequestOK(task[q])
    BY <1>3 DEF RequestOK, RequestKind, Idle, Routing, Links, AllKinds
<1>8. \A r \in Relays : RelayOK(task[r])
    BY <1>1 DEF RelayOK, Idle, Tasks
<1> QED BY <1>2, <1>4, <1>5, <1>6, <1>7, <1>8 DEF Inv

LEMMA Types ==
    TypeOK <=> /\ at \in Installs /\ ident \in Installs /\ cache \subseteq Sessions
               /\ conn \in Connections \cup {None} /\ serial \in Nat
               /\ deleted \subseteq Installs \X Sessions
               /\ late \subseteq [ident : Installs, entries : SUBSET Sessions]
               /\ unforgotten \subseteq Installs \X Sessions
               /\ consent \in BOOLEAN /\ stopped \in BOOLEAN
               /\ entries \subseteq Listeners
               /\ gate \in Requests \cup {None}
               /\ lst \in [Listeners -> ListenerRecords]
               /\ task \in [Tasks -> TaskRecords]
               /\ moves \in 0..MaxMoves /\ faults \in 0..MaxFaults
BY DEF TypeOK, ListenerRecords, TaskRecords, Pcs

\* The invariant implies what the runs check.
LEMMA InvFacts == Inv => Consistent /\ RoutesSound
<1> SUFFICES ASSUME Inv PROVE Consistent /\ RoutesSound
    OBVIOUS
<1>1. \A r \in Relays : task[r].pc \notin {"idle", "ended", "refused"} => task[r].l # None /\ Live(task[r].l)
    BY DEF Inv, RelayOK
<1>2. \A r \in Relays : task[r].l \in Listeners \cup {None}
    BY Types DEF Inv, TaskRecords, Tasks
<1>3. NothingListens => \A r \in Relays : task[r].pc \in {"idle", "ended", "refused"}
    BY <1>1, <1>2 DEF NothingListens
<1>4. ConsentBounds /\ NothingAfterShutdown
    BY <1>3 DEF Inv, ConsentSound, ConsentBounds, Withdrawing, ShutSound, NothingAfterShutdown, NothingListens
<1>5. DeletedHasNone
    <2>1. SUFFICES ASSUME NEW q \in Requests, NEW l \in Listeners, Gone(task[q]), Live(l),
                          lst[l].s = task[q].s, lst[l].owner = task[q].conn.install,
                          \/ lst[l].conn \in 0..task[q].conn.id
                          \/ conn # None /\ lst[l].conn = conn.id
                   PROVE  FALSE
        BY DEF DeletedHasNone, Gone
    <2>2. task[q].conn.id < lst[l].conn /\ (conn # None => lst[l].conn # conn.id)
        BY <2>1 DEF Inv, Forgotten, ListenerAway
    <2>3. task[q].conn.id \in Nat
        <3>1. task[q].conn # None
            BY <2>1 DEF Inv, RequestOK, RequestKind, Gone
        <3> QED BY <3>1, Types DEF Inv, TaskRecords, Connections, Tasks
    <2>4. lst[l].conn \in 0..task[q].conn.id
        BY <2>1, <2>2
    <2> QED BY ONLY <2>2, <2>3, <2>4
<1>6. RelaysToItsOwner
    BY DEF Inv, RelayOK, RelaysToItsOwner
<1> QED BY <1>4, <1>5, <1>6 DEF Inv, Consistent, RoutesSound

\* A step of one task, to x, that changes nothing else but the gate and what ended.
LEMMA TaskStep ==
    ASSUME Inv, NEW t \in Tasks, NEW x \in TaskRecords, task' = [task EXCEPT ![t] = x],
           UNCHANGED <<host, consent, stopped, lst, moves>>, faults' \in 0..MaxFaults,
           entries' \in {entries, Kept}, gate' \in Requests \cup {None},
           \A q \in Requests \ {t} : gate' = q <=> gate = q,
           t \in Requests => RequestOK(x) /\ (Holding(x) <=> gate' = t),
           t \in Relays => RelayOK(x),
           task[t].pc = "closing" /\ x.pc # "closing" => task[t].todo = {} /\ (NothingListens \/ task[t].kind # "disable"),
           x.pc = "closing" => task[t].pc = "closing" /\ x.kind = task[t].kind
                               /\ \A l \in task[t].todo : l \in x.todo \/ ~Live(l),
           x.kind = "shutdown" /\ x.pc = "ended" => NothingListens,
           x.kind = "delete" => x.pc # "ended",
           Links2(x) => /\ task[t].kind = x.kind /\ task[t].s = x.s
                        /\ \/ x.pc = "status" /\ x.s \in cache
                           \/ x.pc = "again" /\ task[t].pc = "status" /\ x.conn = conn
                           \/ x.pc = "publish" /\ task[t].pc = "again" /\ x.conn = task[t].conn /\ x.s \in cache,
           x.conn # None => x.conn = conn \/ x.conn = task[t].conn,
           x.pc \in {"publish", "delete", "owner", "relaying"} /\ x.conn = conn =>
               x.s \in Hosted[conn.install]
    PROVE  Inv'
<1> USE TunnelAssumption
<1>1. /\ task \in [Tasks -> TaskRecords] /\ Tasks = Requests \cup Relays /\ task' \in [Tasks -> TaskRecords]
      /\ task'[t] = x /\ \A u \in Tasks \ {t} : task'[u] = task[u]
    BY Types DEF Inv, Tasks
<1>0. entries' \subseteq entries /\ \A l \in entries : Live(l) => l \in entries'
    BY DEF Kept, Live
<1>2. TypeOK'
    BY <1>1, <1>0, Types DEF Inv, host, walk, TypeOK, TaskRecords, Pcs
<1>3. Gated'
    BY <1>1 DEF Inv, Gated
<1>4. HostSound'
    BY <1>1 DEF Inv, HostSound, Live, host, walk
<1>5. AllKnown'
    BY <1>1, <1>0 DEF Inv, AllKnown, Live
<1>6. ConsentSound'
    BY <1>1 DEF Inv, ConsentSound, Withdrawing, NothingListens, Live
<1>7. ShutSound'
    BY <1>1 DEF Inv, ShutSound, NothingListens, Live
<1>8. Forgotten'
    <2>1. SUFFICES ASSUME NEW q \in Requests, Gone(task[q])'
          PROVE  /\ ident = task'[q].conn.install => task'[q].s \notin cache
                 /\ \A p \in Requests : Links2(task'[p]) /\ task'[p].s = task'[q].s => LinkAway(task'[p], task'[q])
                 /\ \A l \in Listeners : Live(l) /\ lst[l].s = task'[q].s /\ lst[l].owner = task'[q].conn.install =>
                        ListenerAway(l, task'[q])
        BY DEF Forgotten, Links2, LinkAway, ListenerAway, Live, host
    <2>2. q # t /\ task'[q] = task[q] /\ Gone(task[q])
        BY <1>1, <2>1 DEF Gone, host, walk
    <2>3. /\ ident = task[q].conn.install => task[q].s \notin cache
          /\ \A p \in Requests : Links2(task[p]) /\ task[p].s = task[q].s => LinkAway(task[p], task[q])
          /\ \A l \in Listeners : Live(l) /\ lst[l].s = task[q].s /\ lst[l].owner = task[q].conn.install =>
                 ListenerAway(l, task[q])
        BY <2>2 DEF Inv, Forgotten
    <2>4. ASSUME t \in Requests, Links2(x), x.s = task[q].s PROVE LinkAway(x, task[q])
        <3>1. x.s \in cache => conn = None \/ conn.install # task[q].conn.install
            BY <2>3, <2>4 DEF Inv, HostSound
        <3>2. CASE x.pc = "status"
            BY <2>4, <3>1, <3>2 DEF LinkAway
        <3>3. CASE x.pc = "again"
            <4>1. Links2(task[t]) /\ task[t].s = task[q].s /\ task[t].pc = "status" /\ x.conn = conn
                BY <2>4, <3>3 DEF Links2
            <4> QED BY <2>3, <2>4, <3>3, <4>1 DEF LinkAway
        <3>4. CASE x.pc = "publish"
            <4>1. /\ Links2(task[t]) /\ task[t].s = task[q].s /\ task[t].pc = "again" /\ x.conn = task[t].conn
                  /\ x.s \in cache
                BY <2>4, <3>4 DEF Links2
            <4> QED BY <2>3, <2>4, <3>1, <3>4, <4>1 DEF LinkAway
        <3> QED BY <2>4, <3>2, <3>3, <3>4 DEF Links2
    <2> QED BY <1>1, <2>2, <2>3, <2>4
<1>9. OneListener' /\ AgentKeepsItsConnection'
    BY <1>0 DEF Inv, OneListener, AgentKeepsItsConnection, Live
<1>10. RoutedWhereListed'
    BY <1>1 DEF Inv, RoutedWhereListed, host
<1>11. \A q \in Requests : RequestOK(task[q])'
    BY <1>1, <1>0 DEF Inv, RequestOK, RequestKind, Live, host
<1>12. \A r \in Relays : RelayOK(task[r])'
    BY <1>1 DEF Inv, RelayOK, Live
<1> QED BY <1>2, <1>3, <1>4, <1>5, <1>6, <1>7, <1>8, <1>9, <1>10, <1>11, <1>12 DEF Inv

-----------------------------------------------------------------------------
(* Steps of one task. *)

LEMMA TaskFacts ==
    ASSUME Inv
    PROVE  /\ task \in [Tasks -> TaskRecords] /\ lst \in [Listeners -> ListenerRecords]
           /\ Requests \subseteq Tasks /\ Relays \subseteq Tasks /\ gate \in Requests \cup {None}
           /\ faults \in 0..MaxFaults /\ MaxFaults \in Nat
           /\ conn \in Connections \cup {None} /\ entries \subseteq Listeners
           /\ \A t \in Tasks : task[t] \in TaskRecords /\ t # None
BY Types, TunnelAssumption DEF Inv, Tasks

LEMMA StartInv ==
    ASSUME Inv, NEW q \in Requests, NEW k \in Kinds, NEW s \in Sessions, start(q, k, s)
    PROVE  Inv'
<1> USE TunnelAssumption
<1> DEFINE x == [Idle EXCEPT !.kind = k, !.s = s,
                             !.pc = IF k = "delete" THEN "route" ELSE "gate",
                             !.origin = IF k = "agent" THEN conn.id ELSE None]
<1>1. task' = [task EXCEPT ![q] = x] /\ task[q].pc = "idle"
    BY DEF start
<1>2. /\ x.kind = k /\ x.pc = (IF k = "delete" THEN "route" ELSE "gate") /\ x.conn = None /\ x.s = s
      /\ x \in TaskRecords
    <2>1. k \in AllKinds /\ (k = "agent" => conn.id \in Nat)
        BY TaskFacts DEF start, Connections
    <2>2. (IF k = "delete" THEN "route" ELSE "gate") \in Pcs
        BY DEF Pcs
    <2>3. (IF k = "agent" THEN conn.id ELSE None) \in Nat \cup {None}
        BY <2>1
    <2> QED BY <2>1, <2>2, <2>3 DEF Idle, TaskRecords
<1> HIDE DEF x
<1>3. k \in AllKinds
    OBVIOUS
<1>4. RequestOK(x) /\ ~Holding(x)
    BY <1>2, <1>3 DEF RequestOK, RequestKind, Holding, Routing, Links, AllKinds
<1>5. gate # q
    BY <1>1 DEF Inv, Gated, Holding, Routing
<1>6. ~Links2(x)
    BY <1>2 DEF Links2, Links
<1> QED BY <1>1, <1>2, <1>4, <1>5, <1>6, TaskStep, TaskFacts DEF start, Rest

Frame == /\ UNCHANGED <<host, consent, stopped, lst, moves>> /\ faults' \in 0..MaxFaults
         /\ entries' \in {entries, Kept}

LEMMA FrameFacts == ASSUME Inv, UNCHANGED Rest, UNCHANGED <<entries, lst>>, Fault \/ UNCHANGED faults PROVE Frame
BY TaskFacts DEF Frame, Rest, Fault, host

LEMMA GotoFacts ==
    ASSUME Inv, NEW t \in Tasks, NEW p \in Pcs, Goto(t, p)
    PROVE  \E x \in TaskRecords :
              /\ task' = [task EXCEPT ![t] = x]
              /\ x.pc = p /\ x.kind = task[t].kind /\ x.s = task[t].s /\ x.conn = task[t].conn
              /\ x.origin = task[t].origin /\ x.todo = task[t].todo /\ x.l = task[t].l
<1> DEFINE x == [task[t] EXCEPT !.pc = p]
<1>1. task[t] \in TaskRecords
    BY TaskFacts
<1>2. /\ x \in TaskRecords
      /\ x.pc = p /\ x.kind = task[t].kind /\ x.s = task[t].s /\ x.conn = task[t].conn
      /\ x.origin = task[t].origin /\ x.todo = task[t].todo /\ x.l = task[t].l
    BY <1>1 DEF TaskRecords
<1>3. task' = [task EXCEPT ![t] = x]
    BY TaskFacts DEF Goto
<1> HIDE DEF x
<1> QED BY <1>2, <1>3

LEMMA UnlockFacts ==
    ASSUME Inv, NEW t \in Tasks, Unlock(t)
    PROVE  /\ gate' \in Requests \cup {None} /\ gate' # t
           /\ \A q \in Requests \ {t} : gate' = q <=> gate = q
BY TaskFacts, TunnelAssumption DEF Unlock, Tasks

LEMMA RefuseInv ==
    ASSUME Inv, NEW t \in Tasks, Refuse(t), task[t].pc \notin {"closing", "idle"}, Frame
    PROVE  Inv'
<1>1. PICK x \in TaskRecords :
              /\ task' = [task EXCEPT ![t] = x]
              /\ x.pc = "refused" /\ x.kind = task[t].kind /\ x.s = task[t].s /\ x.conn = task[t].conn
              /\ x.origin = task[t].origin /\ x.todo = task[t].todo /\ x.l = task[t].l
    BY GotoFacts DEF Refuse, Pcs
<1>2. t \in Requests => RequestOK(x) /\ ~Holding(x)
    BY <1>1 DEF Inv, RequestOK, RequestKind, Holding, Routing
<1>3. t \in Relays => RelayOK(x)
    BY <1>1 DEF Inv, RelayOK
<1>4. ~Links2(x)
    BY <1>1 DEF Links2
<1> QED BY <1>1, <1>2, <1>3, <1>4, UnlockFacts, TaskStep DEF Refuse, Frame

\* A step that goes to p and neither takes nor gives the gate.
LEMMA GoesOn ==
    ASSUME Inv, NEW t \in Tasks, NEW p \in Pcs, Goto(t, p), UNCHANGED gate, Frame, task[t].pc # "closing",
           p \notin {"closing", "gate", "take", "forget"},
           p = "ended" => task[t].kind \notin {"delete", "shutdown"},
           t \in Requests => /\ RequestKind([task[t] EXCEPT !.pc = p])
                             /\ Holding([task[t] EXCEPT !.pc = p]) <=> Holding(task[t])
                             /\ task[t].kind \in Links /\ p \in Routing \cup {"publish"} => consent,
           t \in Relays => RelayOK([task[t] EXCEPT !.pc = p]),
           Links2([task[t] EXCEPT !.pc = p]) =>
               task[t].s \in cache /\ (p = "status" \/ (p = "publish" /\ task[t].pc = "again")),
           p \in {"publish", "delete", "owner", "relaying"} /\ task[t].conn = conn =>
               task[t].s \in Hosted[conn.install]
    PROVE  Inv'
<1> DEFINE x == [task[t] EXCEPT !.pc = p]
<1>1. task[t] \in TaskRecords
    BY TaskFacts
<1>2. /\ x \in TaskRecords
      /\ x.pc = p /\ x.kind = task[t].kind /\ x.s = task[t].s /\ x.conn = task[t].conn
    BY <1>1 DEF TaskRecords
<1>3. task' = [task EXCEPT ![t] = x]
    BY TaskFacts DEF Goto
<1> HIDE DEF x
<1>4. t \in Requests => RequestOK(x)
    BY <1>2 DEF RequestOK, x
<1>5. t \in Requests => (Holding(x) <=> gate = t)
    BY DEF Inv, Gated, x
<1> QED BY <1>2, <1>3, <1>4, <1>5, TaskStep, TaskFacts DEF Frame, x

LEMMA LockInv ==
    ASSUME Inv, NEW q \in Requests, lock(q)
    PROVE  Inv'
<1> USE TunnelAssumption
<1>1. task[q].kind \in AllKinds /\ task[q].pc = "gate" /\ gate = None /\ gate' = q
    BY TaskFacts DEF Inv, RequestOK, RequestKind, lock
<1>2. PICK p \in Pcs :
          /\ Goto(q, p)
          /\ \/ task[q].kind \in {"open", "agent"} /\ p = "consent"
             \/ task[q].kind \in {"enable", "disable"} /\ p = "write"
             \/ task[q].kind \in {"close", "delete", "shutdown"} /\ p = "take"
    BY <1>1 DEF lock, Pcs, AllKinds
<1>3. PICK x \in TaskRecords :
              /\ task' = [task EXCEPT ![q] = x]
              /\ x.pc = p /\ x.kind = task[q].kind /\ x.s = task[q].s /\ x.conn = task[q].conn
              /\ x.origin = task[q].origin /\ x.todo = task[q].todo /\ x.l = task[q].l
    BY <1>2, GotoFacts, TaskFacts
<1>4. RequestOK(x) /\ Holding(x)
    BY <1>1, <1>2, <1>3 DEF Inv, RequestOK, RequestKind, Holding, Routing, Links
<1>5. Frame
    BY FrameFacts DEF lock
<1>6. ~Links2(x)
    BY <1>2, <1>3 DEF Links2
<1>7. q \notin Relays /\ q \in Tasks
    BY DEF Tasks
<1>8. gate' \in Requests \cup {None} /\ \A p2 \in Requests \ {q} : gate' = p2 <=> gate = p2
    BY <1>1
<1> QED BY <1>1, <1>2, <1>3, <1>4, <1>5, <1>6, <1>7, <1>8, TaskStep DEF Frame

LEMMA LeavesInv ==
    ASSUME Inv, NEW t \in Tasks, leave(t) \/ store_fails(t) \/ refuse(t)
    PROVE  Inv'
<1>1. Frame
    BY FrameFacts DEF leave, store_fails, refuse
<1> QED BY <1>1, RefuseInv DEF leave, store_fails, refuse

\* The cached sessions are those of the recorded installation, to which the
\* connection leads.
LEMMA CacheIsHosted ==
    ASSUME Inv, conn # None
    PROVE  cache \subseteq Hosted[conn.install]
BY DEF Inv, HostSound

LEMMA RouteInv ==
    ASSUME Inv, NEW t \in Tasks, route(t) \/ route_again(t)
    PROVE  Inv'
<1> USE TunnelAssumption
<1>1. Frame
    BY FrameFacts DEF route, route_again
<1>2. CASE Refuse(t)
    BY <1>1, <1>2, RefuseInv DEF route, route_again
<1>3. task[t] \in TaskRecords
    BY TaskFacts
<1>4. CASE route(t) /\ ~Refuse(t)
    <2>1. Goto(t, "status") /\ UNCHANGED gate /\ task[t].s \in cache /\ task[t].pc = "route"
        BY <1>4 DEF route
    <2>2. t \in Requests => /\ RequestKind([task[t] EXCEPT !.pc = "status"])
                            /\ Holding([task[t] EXCEPT !.pc = "status"]) <=> Holding(task[t])
                            /\ task[t].kind \in Links => consent
        BY <1>3, <2>1 DEF Inv, RequestOK, RequestKind, Holding, Routing, TaskRecords
    <2>3. t \in Relays => RelayOK([task[t] EXCEPT !.pc = "status"])
        BY <1>3, <2>1 DEF Inv, RelayOK, Routing, TaskRecords
    <2> QED BY <1>1, <2>1, <2>2, <2>3, GoesOn DEF Pcs
<1>5. CASE route_again(t) /\ ~Refuse(t)
    <2>1. /\ Routed(t) /\ UNCHANGED gate /\ task[t].s \in cache /\ task[t].pc = "again"
          /\ task[t].conn # None
        BY <1>5 DEF route_again
    <2>2. task[t].conn = conn => task[t].s \in Hosted[conn.install]
        BY <2>1, CacheIsHosted
    <2>3. CASE t \in Requests
        <3>1. task[t].kind \in Links \cup {"delete"} /\ (task[t].kind \in Links => consent)
            BY <2>1, <2>3 DEF Inv, RequestOK, RequestKind, Routing
        <3>2. PICK p \in {"publish", "delete"} :
                  Goto(t, p) /\ (p = "publish" <=> task[t].kind \in Links)
            BY <2>1, <3>1 DEF Routed, Links
        <3>3. RequestKind([task[t] EXCEPT !.pc = p])
            BY <1>3, <2>1, <2>3, <3>1, <3>2 DEF Inv, RequestOK, RequestKind, TaskRecords, Routing
        <3>4. Holding([task[t] EXCEPT !.pc = p]) <=> Holding(task[t])
            BY <1>3, <2>1, <3>1, <3>2 DEF Holding, TaskRecords, Routing, Links
        <3>5. t \notin Relays
            BY <2>3
        <3>6. Links2([task[t] EXCEPT !.pc = p]) => p = "publish"
            BY <1>3, <3>2 DEF Links2, TaskRecords
        <3> QED BY <1>1, <2>1, <2>2, <3>1, <3>2, <3>3, <3>4, <3>5, <3>6, GoesOn DEF Pcs
    <2>4. CASE t \in Relays
        <3>1. task[t].kind = "relay"
            BY <2>1, <2>4 DEF Inv, RelayOK
        <3>2. Goto(t, "owner")
            BY <2>1, <3>1 DEF Routed
        <3>3. RelayOK([task[t] EXCEPT !.pc = "owner"])
            BY <1>3, <2>1, <2>4 DEF Inv, RelayOK, TaskRecords
        <3>4. t \notin Requests
            BY <2>4
        <3>5. ~Links2([task[t] EXCEPT !.pc = "owner"])
            BY <1>3 DEF Links2, TaskRecords
        <3> QED BY <1>1, <2>1, <2>2, <3>2, <3>3, <3>4, <3>5, GoesOn DEF Pcs
    <2> QED BY <2>3, <2>4 DEF Tasks
<1> QED BY <1>2, <1>4, <1>5

LEMMA CaptureInv ==
    ASSUME Inv, NEW t \in Tasks, capture(t)
    PROVE  Inv'
<1> USE TunnelAssumption
<1>1. Frame
    BY FrameFacts DEF capture
<1> DEFINE x == [task[t] EXCEPT !.pc = "again", !.conn = conn]
<1>2. task[t] \in TaskRecords /\ conn \in Connections \cup {None}
    BY TaskFacts
<1>3. task' = [task EXCEPT ![t] = x] /\ task[t].pc = "status" /\ UNCHANGED gate
    BY TaskFacts DEF capture
<1>4. /\ x \in TaskRecords /\ x.pc = "again" /\ x.kind = task[t].kind /\ x.s = task[t].s
      /\ x.conn = conn /\ x.l = task[t].l
    BY <1>2 DEF TaskRecords, Pcs
<1> HIDE DEF x
<1>5. t \in Requests => RequestOK(x) /\ (Holding(x) <=> gate = t)
    BY <1>3, <1>4 DEF Inv, RequestOK, RequestKind, Gated, Holding, Routing, Links
<1>6. t \in Relays => RelayOK(x)
    BY <1>3, <1>4 DEF Inv, RelayOK, Routing
<1> QED BY <1>1, <1>3, <1>4, <1>5, <1>6, TaskStep, TaskFacts DEF Frame

LEMMA ConsentInv ==
    ASSUME Inv, NEW q \in Requests, check_consent(q)
    PROVE  Inv'
<1> USE TunnelAssumption
<1>1. Frame /\ q \in Tasks /\ q \notin Relays /\ task[q] \in TaskRecords
    BY FrameFacts, TaskFacts DEF check_consent
<1>2. CASE Refuse(q)
    BY <1>1, <1>2, RefuseInv DEF check_consent
<1>3. CASE consent /\ Goto(q, "route") /\ UNCHANGED gate
    <2>1. task[q].kind \in Links /\ task[q].pc = "consent"
        BY <1>3 DEF Inv, RequestOK, RequestKind, check_consent
    <2>2. RequestKind([task[q] EXCEPT !.pc = "route"])
        <3>1. task[q].s \in Sessions /\ task[q].kind # "relay"
            BY <2>1 DEF Inv, RequestOK, RequestKind
        <3> QED BY <1>1, <2>1, <3>1 DEF RequestKind, Routing, TaskRecords, Links
    <2>3. Holding([task[q] EXCEPT !.pc = "route"]) /\ Holding(task[q])
        BY <1>1, <2>1 DEF Holding, Routing, TaskRecords
    <2>4. ~Links2([task[q] EXCEPT !.pc = "route"])
        BY <1>1 DEF Links2, TaskRecords
    <2> QED BY <1>1, <1>3, <2>1, <2>2, <2>3, <2>4, GoesOn DEF Pcs
<1> QED BY <1>2, <1>3 DEF check_consent

LEMMA OpenedInv ==
    ASSUME Inv, NEW q \in Requests, opened(q)
    PROVE  Inv'
<1> USE TunnelAssumption
<1>1. Frame /\ q \in Tasks /\ q \notin Relays /\ task[q] \in TaskRecords
    BY FrameFacts, TaskFacts DEF opened
<1>2. task[q].kind \in Links /\ task[q].pc = "opener" /\ Goto(q, "ended")
    BY DEF Inv, RequestOK, RequestKind, opened, Return
<1>3. ~Holding(task[q])
    BY <1>2 DEF Holding, Routing
<1>4. UNCHANGED gate
    BY <1>3 DEF Inv, Gated, opened, Return, Unlock
<1>5. RequestKind([task[q] EXCEPT !.pc = "ended"])
    <2>1. task[q].s \in Sessions /\ task[q].kind # "relay"
        BY <1>2 DEF Inv, RequestOK, RequestKind
    <2> QED BY <1>1, <1>2, <2>1 DEF RequestKind, Routing, TaskRecords, Links
<1>6. ~Holding([task[q] EXCEPT !.pc = "ended"])
    BY <1>1 DEF Holding, Routing, TaskRecords
<1>7. ~Links2([task[q] EXCEPT !.pc = "ended"])
    BY <1>1 DEF Links2, TaskRecords
<1> QED BY <1>1, <1>2, <1>3, <1>4, <1>5, <1>6, <1>7, GoesOn DEF Pcs, Links, Routing

LEMMA RelayInv ==
    ASSUME Inv, NEW r \in Relays, check_owner(r) \/ relay_ends(r) \/ abort(r)
    PROVE  Inv'
<1> USE TunnelAssumption
<1>1. Frame /\ r \in Tasks /\ r \notin Requests /\ task[r] \in TaskRecords /\ UNCHANGED gate
    BY FrameFacts, TaskFacts DEF check_owner, relay_ends, abort
<1>2. RelayOK(task[r])
    BY DEF Inv
<1>3. CASE Goto(r, "ended") \/ Goto(r, "refused")
    <2>1. PICK p \in {"ended", "refused"} : Goto(r, p)
        BY <1>3
    <2>2. RelayOK([task[r] EXCEPT !.pc = p]) /\ ~Links2([task[r] EXCEPT !.pc = p])
        BY <1>1, <1>2 DEF RelayOK, TaskRecords, Links2
    <2>3. task[r].kind \notin {"delete", "shutdown"} /\ task[r].pc # "closing"
        BY <1>2 DEF RelayOK, Routing, AllKinds
    <2> QED BY <1>1, <2>1, <2>2, <2>3, GoesOn DEF Pcs
<1>4. CASE check_owner(r) /\ Goto(r, "relaying") /\ lst[task[r].l].owner = task[r].conn.install
    <2>1. RelayOK([task[r] EXCEPT !.pc = "relaying"])
        BY <1>1, <1>2, <1>4 DEF RelayOK, TaskRecords, check_owner
    <2>2. ~Links2([task[r] EXCEPT !.pc = "relaying"]) /\ task[r].pc = "owner"
        BY <1>1, <1>4 DEF Links2, TaskRecords, check_owner
    <2>3. task[r].conn = conn => task[r].s \in Hosted[conn.install]
        BY <1>1, <2>2 DEF Inv, RoutedWhereListed
    <2> QED BY <1>1, <1>4, <2>1, <2>2, <2>3, GoesOn DEF Pcs
<1>5. CASE check_owner(r)
    BY <1>3, <1>4, <1>5 DEF check_owner, same_owner
<1> QED BY <1>3, <1>5 DEF relay_ends, abort

LEMMA AcceptInv ==
    ASSUME Inv, NEW r \in Relays, NEW l \in Listeners, accept(r, l)
    PROVE  Inv'
<1> USE TunnelAssumption
<1>1. Frame /\ r \in Tasks /\ r \notin Requests /\ task[r] \in TaskRecords /\ UNCHANGED gate
    BY FrameFacts, TaskFacts DEF accept
<1> DEFINE x == [Idle EXCEPT !.pc = "route", !.kind = "relay", !.s = lst[l].s, !.l = l]
<1>2. task' = [task EXCEPT ![r] = x] /\ task[r].pc = "idle" /\ lst[l].pc = "accepting"
    BY DEF accept
<1>3. lst[l].s \in Sessions \cup {None}
    BY TaskFacts DEF ListenerRecords
<1>4. x \in TaskRecords /\ x.pc = "route" /\ x.kind = "relay" /\ x.l = l /\ x.conn = None
    BY <1>3 DEF Idle, TaskRecords, Pcs
<1> HIDE DEF x
<1>5. RelayOK(x) /\ ~Links2(x)
    BY <1>2, <1>4 DEF RelayOK, Routing, Links2, Live
<1> QED BY <1>1, <1>2, <1>4, <1>5, TaskStep, TaskFacts DEF Frame

\* Nothing lives that is neither in the entries nor still to be joined by the
\* one request that closes.
LEMMA ClosingKnows ==
    ASSUME Inv, NEW q \in Requests, task[q].pc = "closing", NEW l \in Listeners, Live(l)
    PROVE  l \in entries \/ l \in task[q].todo
BY DEF Inv, AllKnown, Gated, Holding

LEMMA ClosedInv ==
    ASSUME Inv, NEW q \in Requests, closed(q)
    PROVE  Inv'
<1> USE TunnelAssumption
<1>1. Frame /\ q \in Tasks /\ q \notin Relays /\ task[q] \in TaskRecords
    BY FrameFacts, TaskFacts DEF closed
<1>2. /\ task[q].pc = "closing" /\ task[q].todo = {} /\ gate = q /\ RequestOK(task[q])
      /\ task[q].kind \in {"disable", "close", "delete", "shutdown"}
    BY DEF closed, Inv, Gated, Holding, RequestOK, RequestKind
<1>3. \A l \in Listeners : Live(l) => l \in entries
    BY <1>2, ClosingKnows
<1>4. task[q].kind \in {"disable", "shutdown"} => NothingListens
    BY <1>2, <1>3 DEF RequestOK, NothingListens
<1>5. CASE task[q].kind = "delete"
    <2>1. PICK x \in TaskRecords :
              /\ task' = [task EXCEPT ![q] = x]
              /\ x.pc = "forget" /\ x.kind = task[q].kind /\ x.s = task[q].s /\ x.conn = task[q].conn
              /\ x.origin = task[q].origin /\ x.todo = task[q].todo /\ x.l = task[q].l
        BY <1>1, <1>5, GotoFacts DEF closed, Pcs
    <2>2. RequestOK(x) /\ Holding(x) /\ ~Links2(x)
        BY <1>2, <1>3, <1>5, <2>1
           DEF RequestOK, RequestKind, Holding, Routing, Links, Links2, Inv, TypeOK
    <2>3. UNCHANGED gate
        BY <1>5 DEF closed
    <2> QED BY <1>1, <1>2, <1>5, <2>1, <2>2, <2>3, TaskStep, TaskFacts DEF Frame
<1>6. CASE task[q].kind # "delete"
    <2>1. PICK x \in TaskRecords :
              /\ task' = [task EXCEPT ![q] = x]
              /\ x.pc = "ended" /\ x.kind = task[q].kind /\ x.s = task[q].s /\ x.conn = task[q].conn
              /\ x.origin = task[q].origin /\ x.todo = task[q].todo /\ x.l = task[q].l
        BY <1>1, <1>6, GotoFacts DEF closed, Pcs, Return
    <2>2. RequestOK(x) /\ ~Holding(x) /\ ~Links2(x)
        BY <1>2, <1>6, <2>1 DEF RequestOK, RequestKind, Holding, Routing, Links, Links2
    <2>3. Unlock(q)
        BY <1>6 DEF closed, Return
    <2> QED BY <1>1, <1>2, <1>4, <1>6, <2>1, <2>2, <2>3, TaskStep, UnlockFacts DEF Frame
<1> QED BY <1>5, <1>6

LEMMA JoinedInv ==
    ASSUME Inv, NEW q \in Requests, joined(q)
    PROVE  Inv'
<1> USE TunnelAssumption
<1>1. Frame /\ q \in Tasks /\ q \notin Relays /\ task[q] \in TaskRecords
    BY FrameFacts, TaskFacts DEF joined
<1> DEFINE rest == task[q].todo \ {task[q].l}
           x == [task[q] EXCEPT !.l = None, !.todo = rest]
<1>2. task' = [task EXCEPT ![q] = x] /\ UNCHANGED gate /\ task[q].pc = "closing"
      /\ lst[task[q].l].pc = "ended"
    BY <1>1, TaskFacts DEF joined
<1>3. /\ x \in TaskRecords /\ x.pc = "closing" /\ x.kind = task[q].kind /\ x.s = task[q].s
      /\ x.conn = task[q].conn /\ x.todo = rest
    BY <1>1, <1>2 DEF TaskRecords
<1> HIDE DEF x
<1>4. RequestOK(x) /\ Holding(x) /\ gate = q /\ ~Links2(x)
    BY <1>2, <1>3 DEF Inv, RequestOK, RequestKind, Gated, Holding, Routing, Links, Links2
<1>5. \A l \in task[q].todo : l \in x.todo \/ ~Live(l)
    BY <1>2, <1>3 DEF Live
<1> QED BY <1>1, <1>2, <1>3, <1>4, <1>5, TaskStep, TaskFacts DEF Frame

\* A listener changes, but not whose it is; one that is over has no relay left.
LEMMA ListenerStep ==
    ASSUME Inv, UNCHANGED <<host, consent, stopped, entries, gate, moves>>, faults' \in 0..MaxFaults,
           lst' \in [Listeners -> ListenerRecords],
           \A l \in Listeners :
               /\ lst'[l].s = lst[l].s /\ lst'[l].owner = lst[l].owner /\ lst'[l].agent = lst[l].agent
               /\ lst'[l].conn = lst[l].conn
               /\ Live(l)' => Live(l)
               /\ Live(l) /\ ~Live(l)' => Of(l) = {},
           task' \in [Tasks -> TaskRecords],
           \A t \in Tasks : /\ task'[t].pc = task[t].pc /\ task'[t].kind = task[t].kind
                            /\ task'[t].s = task[t].s /\ task'[t].conn = task[t].conn
                            /\ task'[t].todo = task[t].todo
                            /\ t \in Relays => task'[t].l = task[t].l
    PROVE  Inv'
<1> USE TunnelAssumption
<1>1. Requests \subseteq Tasks /\ Relays \subseteq Tasks /\ entries \subseteq Listeners
    BY TaskFacts
<1>2. TypeOK'
    BY Types DEF Inv, host, walk, TypeOK, TaskRecords, ListenerRecords, Pcs
<1>3. Gated' /\ HostSound'
    BY <1>1 DEF Inv, Gated, Holding, HostSound, host, walk
<1>4. AllKnown'
    BY <1>1 DEF Inv, AllKnown
<1>5. NothingListens => NothingListens'
    BY DEF NothingListens
<1>6. ConsentSound' /\ ShutSound'
    BY <1>1, <1>5 DEF Inv, ConsentSound, Withdrawing, ShutSound
<1>7. Forgotten'
    BY <1>1 DEF Inv, Forgotten, Gone, Links2, LinkAway, ListenerAway, host, walk
<1>8. OneListener' /\ AgentKeepsItsConnection'
    BY <1>1 DEF Inv, OneListener, AgentKeepsItsConnection
<1>9. RoutedWhereListed'
    BY <1>1 DEF Inv, RoutedWhereListed, host
<1>10. \A q \in Requests : RequestOK(task[q])'
    BY <1>1 DEF Inv, RequestOK, RequestKind, host
<1>11. ASSUME NEW r \in Relays PROVE RelayOK(task[r])'
    <2>1. task[r].l \in Listeners \cup {None} /\ task'[r].l = task[r].l
        BY <1>1, TaskFacts DEF TaskRecords
    <2>2. task[r].pc \notin {"idle", "ended", "refused"} => Live(task[r].l)'
        <3>1. SUFFICES ASSUME task[r].pc \notin {"idle", "ended", "refused"} PROVE Live(task[r].l)'
            OBVIOUS
        <3>2. task[r].l \in Listeners /\ Live(task[r].l)
            BY <2>1, <3>1 DEF Inv, RelayOK
        <3>3. task[r].pc # "idle" /\ r \in Of(task[r].l)
            BY <3>1 DEF Of, Over
        <3> QED BY <2>1, <3>2, <3>3
    <2> QED BY <1>1, <2>1, <2>2 DEF Inv, RelayOK, Live
<1> QED BY <1>2, <1>3, <1>4, <1>6, <1>7, <1>8, <1>9, <1>10, <1>11 DEF Inv

LEMMA CancelInv ==
    ASSUME Inv, NEW q \in Requests, NEW l \in Listeners, cancel(q, l)
    PROVE  Inv'
<1> USE TunnelAssumption
<1>1. Frame \/ TRUE
    OBVIOUS
<1>2. lst \in [Listeners -> ListenerRecords] /\ task \in [Tasks -> TaskRecords] /\ q \in Tasks
      /\ q \notin Relays /\ faults \in 0..MaxFaults
    BY TaskFacts
<1>3. lst' = [lst EXCEPT ![l].cancel = TRUE] /\ task' = [task EXCEPT ![q].l = l]
    BY DEF cancel
<1>4. lst' \in [Listeners -> ListenerRecords] /\ task' \in [Tasks -> TaskRecords]
    <2>1. task[q] \in TaskRecords /\ lst[l] \in ListenerRecords
        BY <1>2
    <2>2. [task[q] EXCEPT !.l = l] \in TaskRecords
        BY <2>1 DEF TaskRecords
    <2>3. [lst[l] EXCEPT !.cancel = TRUE] \in ListenerRecords
        BY <2>1 DEF ListenerRecords
    <2>4. lst' = [lst EXCEPT ![l] = [lst[l] EXCEPT !.cancel = TRUE]]
          /\ task' = [task EXCEPT ![q] = [task[q] EXCEPT !.l = l]]
        BY <1>2, <1>3
    <2> QED BY <1>2, <2>2, <2>3, <2>4
<1>5. \A k \in Listeners :
               /\ lst'[k].s = lst[k].s /\ lst'[k].owner = lst[k].owner /\ lst'[k].agent = lst[k].agent
               /\ lst'[k].conn = lst[k].conn /\ lst'[k].pc = lst[k].pc
    BY <1>2, <1>3 DEF ListenerRecords
<1>6. \A t \in Tasks : /\ task'[t].pc = task[t].pc /\ task'[t].kind = task[t].kind
                       /\ task'[t].s = task[t].s /\ task'[t].conn = task[t].conn
                       /\ task'[t].todo = task[t].todo
                       /\ t \in Relays => task'[t].l = task[t].l
    BY <1>2, <1>3 DEF TaskRecords
<1>7. UNCHANGED <<host, consent, stopped, entries, gate, moves, faults>>
    BY DEF cancel, Rest
<1>8. \A k \in Listeners : Live(k)' <=> Live(k)
    BY <1>5 DEF Live
<1> QED BY <1>2, <1>4, <1>5, <1>6, <1>7, <1>8, ListenerStep

LEMMA LoopInv ==
    ASSUME Inv, NEW l \in Listeners, leave_loop(l) \/ finish(l)
    PROVE  Inv'
<1> USE TunnelAssumption
<1>1. lst \in [Listeners -> ListenerRecords] /\ task \in [Tasks -> TaskRecords]
    BY TaskFacts
<1>2. UNCHANGED <<host, consent, stopped, entries, gate, moves, task>> /\ faults' \in 0..MaxFaults
    BY TaskFacts DEF leave_loop, finish, Rest, Fault
<1>3. PICK p \in {"closing", "ended"} :
          /\ lst' = [lst EXCEPT ![l].pc = p] /\ Live(l)
          /\ p = "ended" => Of(l) = {}
    BY DEF leave_loop, finish, Live
<1>4. lst' \in [Listeners -> ListenerRecords]
    BY <1>1, <1>3 DEF ListenerRecords
<1>5. \A k \in Listeners :
               /\ lst'[k].s = lst[k].s /\ lst'[k].owner = lst[k].owner /\ lst'[k].agent = lst[k].agent
               /\ lst'[k].conn = lst[k].conn /\ lst'[k].pc = (IF k = l THEN p ELSE lst[k].pc)
    BY <1>1, <1>3 DEF ListenerRecords
<1>6. \A k \in Listeners : /\ Live(k)' => Live(k)
                           /\ Live(k) /\ ~Live(k)' => Of(k) = {}
    BY <1>3, <1>5 DEF Live
<1> QED BY <1>1, <1>2, <1>4, <1>5, <1>6, ListenerStep

-----------------------------------------------------------------------------
(* Steps that change more than the task. *)

\* The links of an opener that publishes, and of one that finds its listener.
LEMMA PublishedInv ==
    ASSUME Inv, NEW q \in Requests, NEW l \in Listeners, task[q].pc = "publish",
           task' = [task EXCEPT ![q].pc = "opener", ![q].l = l], Unlock(q),
           UNCHANGED <<host, consent, stopped, moves, faults>>, Admitted(q),
           \/ entries' = Kept /\ UNCHANGED lst
           \/ /\ entries' = Kept \cup {l} /\ Same(q) = {} /\ lst[l].pc = "none"
              /\ lst' = [lst EXCEPT ![l] = [pc |-> "accepting", s |-> task[q].s,
                                            owner |-> task[q].conn.install, cancel |-> FALSE,
                                            agent |-> task[q].origin, conn |-> task[q].conn.id]]
    PROVE  Inv'
<1> USE TunnelAssumption
<1>1. /\ lst \in [Listeners -> ListenerRecords] /\ task \in [Tasks -> TaskRecords] /\ q \in Tasks
      /\ q \notin Relays /\ faults \in 0..MaxFaults /\ entries \subseteq Listeners
      /\ Requests \subseteq Tasks /\ Relays \subseteq Tasks /\ task[q] \in TaskRecords
    BY TaskFacts
<1>2. /\ RequestOK(task[q]) /\ gate = q /\ task[q].kind \in Links /\ task[q].conn # None /\ consent
      /\ task[q].conn \in Connections /\ ~stopped
    BY <1>1 DEF Inv, RequestOK, RequestKind, Gated, Holding, Routing, Links, Admitted, TaskRecords
<1>3. \A p \in Requests \ {q} : task[p].pc # "closing" /\ ~Links2(task[p]) /\ task[p].pc # "forget"
    BY <1>2 DEF Inv, Gated, Holding, Links2, Routing
<1>4. task' \in [Tasks -> TaskRecords]
      /\ \A t \in Tasks : /\ task'[t].pc = (IF t = q THEN "opener" ELSE task[t].pc)
                          /\ task'[t].kind = task[t].kind /\ task'[t].s = task[t].s
                          /\ task'[t].conn = task[t].conn /\ task'[t].todo = task[t].todo
                          /\ t \in Relays => task'[t].l = task[t].l
    BY <1>1 DEF TaskRecords, Pcs
<1>5. /\ lst' \in [Listeners -> ListenerRecords]
      /\ \A k \in Listeners :
             \/ lst'[k] = lst[k]
             \/ /\ k = l /\ lst'[k].pc = "accepting" /\ lst[k].pc = "none"
                /\ lst'[k].s = task[q].s /\ lst'[k].agent = task[q].origin
                /\ lst'[k].conn = task[q].conn.id /\ lst'[k].owner = task[q].conn.install
    <2> DEFINE new == [pc |-> "accepting", s |-> task[q].s, owner |-> task[q].conn.install,
                       cancel |-> FALSE, agent |-> task[q].origin, conn |-> task[q].conn.id]
    <2>1. new \in ListenerRecords /\ new.pc = "accepting" /\ new.s = task[q].s
          /\ new.agent = task[q].origin /\ new.conn = task[q].conn.id /\ new.owner = task[q].conn.install
        BY <1>1, <1>2 DEF TaskRecords, ListenerRecords, Connections
    <2>2. UNCHANGED lst \/ (lst[l].pc = "none" /\ lst' = [lst EXCEPT ![l] = new])
        OBVIOUS
    <2> HIDE DEF new
    <2> QED BY <1>1, <2>1, <2>2
<1>6. entries' \subseteq Listeners /\ \A k \in entries : Live(k) => k \in entries'
    BY <1>1 DEF Kept, Live
<1>7. TypeOK'
    BY <1>4, <1>5, <1>6, UnlockFacts, Types, <1>1
       DEF Inv, host, walk, TypeOK, TaskRecords, ListenerRecords, Pcs
<1>8. Gated'
    BY <1>1, <1>4, UnlockFacts DEF Inv, Gated, Holding, Routing
<1>9. HostSound' /\ RoutedWhereListed'
    <2>1. task[q].conn.id \in Nat /\ task[q].conn.id < serial
        BY <1>1, <1>2 DEF Inv, HostSound, Connections
    <2>2. \A k \in Listeners : Live(k)' => lst'[k].conn \in Nat /\ lst'[k].conn < serial
        BY <1>5, <2>1 DEF Inv, HostSound, Live
    <2>3. HostSound'
        BY <1>1, <1>4, <2>2 DEF Inv, HostSound, host, walk
    <2> QED BY <1>1, <1>4, <2>3 DEF Inv, RoutedWhereListed, host
<1>10. AllKnown'
    BY <1>1, <1>3, <1>4, <1>5, <1>6 DEF Inv, AllKnown, Live
<1>11. ConsentSound'
    BY <1>2 DEF ConsentSound
<1>12. ShutSound'
    <2>1. \A p \in Requests : ~(task[p].kind = "shutdown" /\ task[p].pc = "ended")
        BY <1>2 DEF Inv, RequestOK
    <2> QED BY <1>1, <1>4, <2>1 DEF ShutSound, Links
<1>14. Forgotten'
    <2>1. SUFFICES ASSUME NEW p \in Requests, Gone(task[p])'
          PROVE  /\ ident = task[p].conn.install => task[p].s \notin cache
                 /\ \A o \in Requests : Links2(task'[o]) /\ task'[o].s = task[p].s => LinkAway(task'[o], task[p])
                 /\ \A k \in Listeners : Live(k)' /\ lst'[k].s = task[p].s /\ lst'[k].owner = task[p].conn.install
                        => ListenerAway(k, task[p])'
        BY <1>1, <1>4 DEF Forgotten, Links2, LinkAway, ListenerAway, host
    <2>2. Gone(task[p])
        BY <1>1, <1>4, <2>1 DEF Gone, host, walk
    <2>3. /\ ident = task[p].conn.install => task[p].s \notin cache
          /\ \A k \in Listeners : Live(k) /\ lst[k].s = task[p].s /\ lst[k].owner = task[p].conn.install =>
                 ListenerAway(k, task[p])
          /\ task[q].s = task[p].s => LinkAway(task[q], task[p])
        BY <1>2, <2>2 DEF Inv, Forgotten, Links2
    <2>4. \A o \in Requests : ~Links2(task'[o])
        BY <1>1, <1>3, <1>4 DEF Links2
    <2>5. ASSUME NEW k \in Listeners, Live(k)', lst'[k].s = task[p].s, lst'[k].owner = task[p].conn.install
          PROVE  ListenerAway(k, task[p])'
        <3>1. CASE lst'[k] = lst[k]
            BY <1>1, <1>4, <2>3, <2>5, <3>1 DEF ListenerAway, Live, host
        <3>2. CASE lst'[k].s = task[q].s /\ lst'[k].conn = task[q].conn.id /\ lst'[k].owner = task[q].conn.install
            <4>1. task[p].conn.id < task[q].conn.id /\ task[q].conn # conn
                BY <1>2, <2>3, <2>5, <3>2 DEF LinkAway
            <4>2. conn # None => task[q].conn.id # conn.id
                BY <1>1, <1>2, <4>1 DEF Inv, HostSound
            <4> QED BY <1>1, <1>4, <3>2, <4>1, <4>2 DEF ListenerAway, host
        <3> QED BY <1>5, <3>1, <3>2
    <2> QED BY <2>3, <2>4, <2>5
<1>15. OneListener'
    <2>1. SUFFICES ASSUME NEW k \in Listeners, NEW j \in Listeners, Live(k)', Live(j)', k # j,
                          lst'[k].s = lst'[j].s, k \in entries', j \in entries'
                   PROVE  FALSE
        BY DEF OneListener
    <2>2. CASE UNCHANGED lst
        BY <2>1, <2>2 DEF Inv, OneListener, Live, Kept
    <2>3. CASE Same(q) = {} /\ lst[l].pc = "none" /\ entries' = Kept \cup {l}
        <3>1. \A i \in Listeners \ {l} : i \in entries' => lst[i].s # task[q].s
            BY <2>3 DEF Same
        <3>2. CASE k # l /\ j # l
            BY <1>5, <2>1, <2>3, <3>2 DEF Inv, OneListener, Live, Kept
        <3>3. k = l \/ j = l => lst'[l].s = task[q].s
            BY <1>5, <2>1, <2>3 DEF Live
        <3>4. \A i \in Listeners \ {l} : i \in entries' => lst'[i].s # task[q].s
            BY <1>5, <3>1
        <3> QED BY <2>1, <3>2, <3>3, <3>4
    <2> QED BY <2>2, <2>3
<1>16. AgentKeepsItsConnection'
    BY <1>1, <1>5 DEF Inv, AgentKeepsItsConnection, Admitted, SameConnection
<1>17. ASSUME NEW p \in Requests PROVE RequestOK(task[p])'
    <2>1. RequestOK(task[p]) /\ p \in Tasks
        BY <1>1 DEF Inv
    <2>2. CASE p = q
        BY <1>1, <1>2, <1>4, <2>2 DEF RequestOK, RequestKind, Routing, Links
    <2>3. CASE p # q
        BY <1>3, <1>4, <2>1, <2>3 DEF RequestOK, RequestKind, host
    <2> QED BY <2>2, <2>3
<1>18. \A r \in Relays : RelayOK(task[r])'
    BY <1>1, <1>4, <1>5 DEF Inv, RelayOK, Live, TaskRecords
<1> QED BY <1>7, <1>8, <1>9, <1>10, <1>11, <1>12, <1>14, <1>15, <1>16, <1>17, <1>18 DEF Inv

LEMMA PublishInv ==
    ASSUME Inv, NEW q \in Requests, reuse(q) \/ \E l \in Listeners : bind(q, l)
    PROVE  Inv'
<1>1. q \in Tasks
    BY DEF Tasks
<1>2. CASE reuse(q)
    <2>1. UNCHANGED <<host, consent, stopped, moves, faults, lst>> /\ task[q].pc = "publish"
          /\ entries' = Kept /\ Admitted(q)
        BY <1>2 DEF reuse, Rest
    <2>2. CASE \E l \in Listeners : task' = [task EXCEPT ![q].pc = "opener", ![q].l = l] /\ Unlock(q)
        BY <2>1, <2>2, PublishedInv
    <2>3. CASE Refuse(q)
        <3>1. Frame
            BY <2>1, TaskFacts DEF Frame
        <3> QED BY <1>1, <2>1, <2>3, <3>1, RefuseInv
    <2> QED BY <1>2, <2>2, <2>3, TaskFacts DEF reuse, Same, Kept
<1>3. ASSUME NEW l \in Listeners, bind(q, l) PROVE Inv'
    BY <1>3, PublishedInv DEF bind, Rest
<1> QED BY <1>2, <1>3

\* A request that holds the gate for it takes entries out and closes them.
LEMMA TakenOutInv ==
    ASSUME Inv, NEW q \in Requests, task[q].pc \in {"write", "take"}, NEW ls \in SUBSET entries, TakeOut(q, ls),
           UNCHANGED <<host, gate, lst, moves, faults>>, consent' \in BOOLEAN, stopped' \in BOOLEAN,
           stopped => stopped',
           task[q].kind \in {"disable", "close", "delete", "shutdown"},
           task[q].kind \in {"disable", "shutdown"} => ls = entries,
           task[q].kind = "shutdown" => stopped',
           task[q].kind = "delete" => \A l \in entries : lst[l].s = task[q].s => l \in ls,
           consent' = consent \/ task[q].kind = "disable"
    PROVE  Inv'
<1> USE TunnelAssumption
<1>1. /\ lst \in [Listeners -> ListenerRecords] /\ task \in [Tasks -> TaskRecords] /\ q \in Tasks
      /\ q \notin Relays /\ faults \in 0..MaxFaults /\ entries \subseteq Listeners
      /\ Requests \subseteq Tasks /\ Relays \subseteq Tasks /\ task[q] \in TaskRecords
    BY TaskFacts
<1>2. gate = q /\ RequestOK(task[q]) /\ task[q].kind \notin Links
    BY <1>1 DEF Inv, Gated, Holding, Links
<1>3. \A p \in Requests \ {q} : ~Holding(task[p])
    BY <1>2 DEF Inv, Gated
<1>4. /\ task' \in [Tasks -> TaskRecords]
      /\ \A t \in Tasks : /\ task'[t].pc = (IF t = q THEN "closing" ELSE task[t].pc)
                          /\ task'[t].todo = (IF t = q THEN ls ELSE task[t].todo)
                          /\ task'[t].kind = task[t].kind /\ task'[t].s = task[t].s
                          /\ task'[t].conn = task[t].conn /\ task'[t].l = task[t].l
    <2>1. [task[q] EXCEPT !.pc = "closing", !.todo = ls] \in TaskRecords
        BY <1>1 DEF TaskRecords, Pcs
    <2>2. task' = [task EXCEPT ![q] = [task[q] EXCEPT !.pc = "closing", !.todo = ls]]
        BY <1>1 DEF TakeOut
    <2> QED BY <1>1, <2>1, <2>2 DEF TaskRecords
<1>5. entries' = entries \ ls
    BY DEF TakeOut
<1>6. TypeOK'
    BY <1>1, <1>4, <1>5, Types DEF Inv, host, walk, TypeOK, TaskRecords, Pcs
<1>7. Gated'
    BY <1>1, <1>2, <1>3, <1>4 DEF Gated, Holding, Routing
<1>8. HostSound'
    BY <1>1, <1>4 DEF Inv, HostSound, Live, host, walk
<1>9. RoutedWhereListed'
    BY <1>1, <1>4 DEF Inv, RoutedWhereListed, host
<1>10. AllKnown'
    <2>1. \A p \in Requests : task[p].pc # "closing"
        BY <1>3 DEF Holding
    <2> QED BY <1>1, <1>4, <1>5, <2>1 DEF Inv, AllKnown, Live
<1>11. ConsentSound'
    <2>1. CASE task[q].kind = "disable"
        BY <1>1, <1>4, <2>1 DEF ConsentSound, Withdrawing
    <2>2. CASE consent' = consent
        BY <1>1, <1>3, <1>4, <2>2 DEF Inv, ConsentSound, Withdrawing, NothingListens, Live
    <2> QED BY <2>1, <2>2
<1>12. ShutSound'
    BY <1>1, <1>4 DEF Inv, ShutSound, NothingListens, Live
<1>13. Forgotten'
    BY <1>1, <1>4 DEF Inv, Forgotten, Gone, Links2, LinkAway, ListenerAway, Live, host, walk
<1>14. OneListener' /\ AgentKeepsItsConnection'
    BY <1>5 DEF Inv, OneListener, AgentKeepsItsConnection, Live
<1>15. ASSUME NEW p \in Requests PROVE RequestOK(task[p])'
    <2>1. RequestOK(task[p]) /\ p \in Tasks
        BY <1>1 DEF Inv
    <2>2. CASE p = q
        BY <1>1, <1>2, <1>4, <1>5, <2>2 DEF RequestOK, RequestKind, Routing, Links, host
    <2>3. CASE p # q
        BY <1>3, <1>4, <2>1, <2>3 DEF RequestOK, RequestKind, Holding, host, Live
    <2> QED BY <2>2, <2>3
<1>16. \A r \in Relays : RelayOK(task[r])'
    BY <1>1, <1>4 DEF Inv, RelayOK, Live
<1> QED BY <1>6, <1>7, <1>8, <1>9, <1>10, <1>11, <1>12, <1>13, <1>14, <1>15, <1>16 DEF Inv

LEMMA TakeInv ==
    ASSUME Inv, NEW q \in Requests, take(q)
    PROVE  Inv'
<1> DEFINE mine == {l \in entries : lst[l].s = task[q].s}
<1>1. UNCHANGED <<host, consent, gate, lst, moves, faults>> /\ stopped' = (stopped \/ task[q].kind = "shutdown")
      /\ task[q].pc = "take" /\ consent \in BOOLEAN /\ stopped \in BOOLEAN
    BY DEF take, Inv, TypeOK
<1>2. CASE task[q].kind = "close" /\ \E l \in mine : TakeOut(q, {l})
    <2>1. PICK ls \in SUBSET entries : TakeOut(q, ls)
        BY <1>2
    <2> QED BY <1>1, <1>2, <2>1, TakenOutInv
<1>3. CASE task[q].kind = "close" /\ TakeOut(q, {})
    BY <1>1, <1>3, TakenOutInv
<1>4. CASE task[q].kind = "delete" /\ TakeOut(q, mine)
    BY <1>1, <1>4, TakenOutInv
<1>5. CASE task[q].kind = "shutdown" /\ TakeOut(q, entries)
    BY <1>1, <1>5, TakenOutInv
<1> QED BY <1>2, <1>3, <1>4, <1>5 DEF take

LEMMA WriteInv ==
    ASSUME Inv, NEW q \in Requests, write(q)
    PROVE  Inv'
<1> USE TunnelAssumption
<1>1. UNCHANGED <<host, stopped, lst, moves, faults>> /\ task[q].pc = "write" /\ stopped \in BOOLEAN
      /\ consent' = (task[q].kind = "enable")
    BY DEF write, Inv, TypeOK
<1>2. CASE task[q].kind = "disable" /\ TakeOut(q, entries) /\ UNCHANGED gate
    BY <1>1, <1>2, TakenOutInv
<1>3. CASE task[q].kind = "enable" /\ Return(q) /\ UNCHANGED entries
    <2>1. q \in Tasks /\ q \notin Relays /\ Requests \subseteq Tasks /\ Relays \subseteq Tasks
          /\ task \in [Tasks -> TaskRecords]
        BY TaskFacts
    <2>2. PICK x \in TaskRecords :
              /\ task' = [task EXCEPT ![q] = x]
              /\ x.pc = "ended" /\ x.kind = "enable" /\ x.s = task[q].s /\ x.conn = task[q].conn
              /\ x.origin = task[q].origin /\ x.todo = task[q].todo /\ x.l = task[q].l
        BY <1>3, <2>1, GotoFacts DEF Return, Pcs
    <2>3. /\ task' \in [Tasks -> TaskRecords] /\ task'[q] = x
          /\ \A t \in Tasks \ {q} : task'[t] = task[t]
        BY <2>1, <2>2
    <2>4. consent'
        BY <1>1, <1>3
    <2>5. TypeOK'
        BY <1>1, <1>3, <2>1, <2>3, UnlockFacts, Types DEF Return, Inv, host, walk, TypeOK, TaskRecords, Pcs
    <2>6. Gated'
        BY <1>3, <2>1, <2>2, <2>3, UnlockFacts DEF Return, Inv, Gated, Holding, Routing
    <2>7. HostSound' /\ RoutedWhereListed'
        BY <1>1, <2>1, <2>2, <2>3 DEF Inv, HostSound, RoutedWhereListed, Live, host, walk
    <2>8. AllKnown'
        BY <1>1, <1>3, <2>1, <2>3 DEF Inv, AllKnown, Live
    <2>9. ConsentSound'
        BY <2>4 DEF ConsentSound
    <2>10. ShutSound' /\ Forgotten'
        <3>1. ~Links2(x) /\ ~Gone(x)
            BY <2>2 DEF Links2, Links, Gone
        <3>2. Forgotten'
            BY <1>1, <2>1, <2>3, <3>1
               DEF Inv, Forgotten, Gone, Links2, LinkAway, ListenerAway, Live, host, walk
        <3> QED BY <1>1, <2>1, <2>2, <2>3, <3>2 DEF Inv, ShutSound, NothingListens, Live
    <2>11. OneListener' /\ AgentKeepsItsConnection'
        BY <1>1, <1>3 DEF Inv, OneListener, AgentKeepsItsConnection, Live
    <2>12. \A p \in Requests : RequestOK(task[p])'
        BY <1>1, <1>3, <2>1, <2>2, <2>3, <2>4 DEF Inv, RequestOK, RequestKind, Routing, Links, Live, host
    <2>13. \A r \in Relays : RelayOK(task[r])'
        BY <1>1, <2>1, <2>3 DEF Inv, RelayOK, Live
    <2> QED BY <2>5, <2>6, <2>7, <2>8, <2>9, <2>10, <2>11, <2>12, <2>13 DEF Inv
<1> QED BY <1>2, <1>3 DEF write

\* A step of a delete that also changes the sessions deleted or cached.
LEMMA DeleteStep ==
    ASSUME Inv, NEW q \in Requests, NEW x \in TaskRecords, task' = [task EXCEPT ![q] = x],
           task[q].kind = "delete", task[q].pc \in {"delete", "forget"}, x.kind = "delete",
           x.pc \in {"gate", "ended", "refused"}, x.conn = task[q].conn, x.conn # None, x.s = task[q].s,
           UNCHANGED <<at, ident, conn, serial, late, consent, stopped, entries, lst, moves>>,
           faults' \in 0..MaxFaults,
           deleted' \subseteq Installs \X Sessions, deleted \subseteq deleted',
           cache' \subseteq cache, unforgotten' \subseteq Installs \X Sessions,
           gate' \in Requests \cup {None}, gate' # q,
           \A p \in Requests \ {q} : gate' = p <=> gate = p,
           x.pc \in {"gate", "ended"} => <<x.conn.install, x.s>> \in deleted',
           x.pc # "ended" => UNCHANGED unforgotten,
           x.pc = "ended" =>
               /\ task[q].pc = "forget"
               /\ \A o \in Requests : <<task[o].conn.install, task[o].s>> # <<x.conn.install, x.s>> =>
                      (<<task[o].conn.install, task[o].s>> \in unforgotten'
                          <=> <<task[o].conn.install, task[o].s>> \in unforgotten)
               /\ ident = x.conn.install /\ x.s \in cache' => <<x.conn.install, x.s>> \in unforgotten'
    PROVE  Inv'
<1> USE TunnelAssumption
<1>1. /\ lst \in [Listeners -> ListenerRecords] /\ task \in [Tasks -> TaskRecords] /\ q \in Tasks
      /\ q \notin Relays /\ Requests \subseteq Tasks /\ Relays \subseteq Tasks
      /\ task' \in [Tasks -> TaskRecords] /\ task'[q] = x /\ \A t \in Tasks \ {q} : task'[t] = task[t]
    BY TaskFacts
<1>2. TypeOK'
    BY <1>1, Types DEF Inv, TypeOK, TaskRecords, Pcs
<1>3. Gated'
    BY <1>1 DEF Inv, Gated, Holding, Routing
<1>4. HostSound' /\ RoutedWhereListed'
    BY <1>1 DEF Inv, HostSound, RoutedWhereListed, Live
<1>5. AllKnown'
    BY <1>1 DEF Inv, AllKnown, Live
<1>6. ConsentSound' /\ ShutSound'
    BY <1>1 DEF Inv, ConsentSound, ShutSound, Withdrawing, NothingListens, Live
<1>7. Forgotten'
    <2>1. SUFFICES ASSUME NEW p \in Requests, Gone(task[p])'
          PROVE  /\ ident = task'[p].conn.install => task'[p].s \notin cache'
                 /\ \A o \in Requests : Links2(task'[o]) /\ task'[o].s = task'[p].s => LinkAway(task'[o], task'[p])
                 /\ \A k \in Listeners : Live(k) /\ lst[k].s = task'[p].s /\ lst[k].owner = task'[p].conn.install
                        => ListenerAway(k, task'[p])
        BY DEF Forgotten, Links2, LinkAway, ListenerAway, Live
    <2>2. CASE x.pc = "ended" /\ task'[p].s = x.s /\ task'[p].conn.install = x.conn.install
        <3>1. task[q].pc = "forget" /\ <<x.conn.install, x.s>> \notin unforgotten'
            BY <2>1, <2>2 DEF Gone
        <3>2. gate = q
            BY <3>1 DEF Inv, Gated, Holding
        <3>3. \A o \in Requests : ~Links2(task'[o])
            BY <1>1, <2>2, <3>2 DEF Inv, Gated, Holding, Links2, Routing, Links
        <3>4. \A k \in Listeners : Live(k) => lst[k].s # x.s
            BY <3>1 DEF Inv, RequestOK
        <3> QED BY <2>2, <3>1, <3>3, <3>4
    <2>3. CASE ~(x.pc = "ended" /\ task'[p].s = x.s /\ task'[p].conn.install = x.conn.install)
        <3>1. p # q /\ task'[p] = task[p]
            BY <1>1, <2>1, <2>3 DEF Gone
        <3>2. <<task[p].conn.install, task[p].s>> \notin unforgotten
            BY <2>1, <2>3, <3>1 DEF Gone
        <3>3. Gone(task[p])
            BY <2>1, <3>1, <3>2 DEF Gone
        <3>4. \A o \in Requests : Links2(task'[o]) => task'[o] = task[o]
            BY <1>1 DEF Links2, Links
        <3> QED BY <3>1, <3>3, <3>4 DEF Inv, Forgotten
    <2> QED BY <2>2, <2>3
<1>8. OneListener' /\ AgentKeepsItsConnection'
    BY DEF Inv, OneListener, AgentKeepsItsConnection, Live
<1>9. ASSUME NEW p \in Requests PROVE RequestOK(task[p])'
    <2>1. RequestOK(task[p]) /\ p \in Tasks
        BY <1>1 DEF Inv
    <2>2. CASE p = q
        BY <1>1, <2>1, <2>2 DEF RequestOK, RequestKind, Routing, Links, AllKinds
    <2>3. CASE p # q
        BY <1>1, <2>1, <2>3 DEF RequestOK, RequestKind, Live
    <2> QED BY <2>2, <2>3
<1>10. \A r \in Relays : RelayOK(task[r])'
    BY <1>1 DEF Inv, RelayOK, Live
<1> QED BY <1>2, <1>3, <1>4, <1>5, <1>6, <1>7, <1>8, <1>9, <1>10 DEF Inv

LEMMA DeleteInv ==
    ASSUME Inv, NEW q \in Requests, delete_on_host(q) \/ forget(q)
    PROVE  Inv'
<1> USE TunnelAssumption
<1>1. q \in Tasks /\ task[q] \in TaskRecords /\ deleted \subseteq Installs \X Sessions
    BY TaskFacts DEF Inv, TypeOK
<1>2. PICK p \in Pcs :
          /\ Goto(q, p) /\ p \in {"gate", "ended", "refused"}
          /\ p = "ended" <=> forget(q)
          /\ p = "gate" => deleted' = deleted \cup {<<task[q].conn.install, task[q].s>>}
    BY DEF delete_on_host, forget, Refuse, Return, Pcs
<1>3. /\ task[q].kind = "delete" /\ task[q].conn # None /\ task[q].s \in Sessions
      /\ task[q].pc \in {"delete", "forget"} /\ task[q].conn.install \in Installs
      /\ p = "ended" => task[q].pc = "forget"
    BY <1>1, <1>2 DEF Inv, RequestOK, RequestKind, delete_on_host, forget, TaskRecords, Connections
<1>4. PICK x \in TaskRecords :
          /\ task' = [task EXCEPT ![q] = x]
          /\ x.pc = p /\ x.kind = task[q].kind /\ x.s = task[q].s /\ x.conn = task[q].conn
          /\ x.origin = task[q].origin /\ x.todo = task[q].todo /\ x.l = task[q].l
    BY <1>1, <1>2, GotoFacts
<1>5. /\ UNCHANGED <<at, ident, conn, serial, late, consent, stopped, entries, lst, moves>>
      /\ cache' \subseteq cache /\ deleted \subseteq deleted' /\ deleted' \subseteq Installs \X Sessions
      /\ faults' \in 0..MaxFaults
    BY <1>1, <1>3, TaskFacts DEF delete_on_host, forget, Refuse, Fault, walk
<1>6. /\ gate' \in Requests \cup {None} /\ gate' # q
      /\ \A o \in Requests \ {q} : gate' = o <=> gate = o
    <2>1. CASE Unlock(q)
        BY <1>1, <2>1, UnlockFacts
    <2>2. CASE UNCHANGED gate /\ task[q].pc = "delete"
        BY <2>2, TaskFacts DEF Inv, Gated, Holding, Routing
    <2> QED BY <2>1, <2>2 DEF delete_on_host, forget, Refuse, Return
<1>7. p = "ended" => <<task[q].conn.install, task[q].s>> \in deleted
    BY <1>3 DEF Inv, RequestOK
<1>8. p # "ended" => UNCHANGED unforgotten
    BY <1>2 DEF delete_on_host, walk
<1>9. p = "ended" =>
          unforgotten' = IF ident = task[q].conn.install /\ task[q].s \in cache'
                         THEN unforgotten \cup {<<task[q].conn.install, task[q].s>>}
                         ELSE unforgotten \ {<<task[q].conn.install, task[q].s>>}
    BY <1>2 DEF forget
<1>10. unforgotten' \subseteq Installs \X Sessions
    <2>1. unforgotten \subseteq Installs \X Sessions
        BY DEF Inv, TypeOK
    <2>2. <<task[q].conn.install, task[q].s>> \in Installs \X Sessions
        BY <1>3
    <2> QED BY <1>8, <1>9, <2>1, <2>2
<1>11. x.pc \in {"gate", "ended"} => <<x.conn.install, x.s>> \in deleted'
    BY <1>2, <1>4, <1>5, <1>7
<1>12. x.pc = "ended" =>
               /\ \A o \in Requests : <<task[o].conn.install, task[o].s>> # <<x.conn.install, x.s>> =>
                      (<<task[o].conn.install, task[o].s>> \in unforgotten'
                          <=> <<task[o].conn.install, task[o].s>> \in unforgotten)
               /\ ident = x.conn.install /\ x.s \in cache' => <<x.conn.install, x.s>> \in unforgotten'
    BY <1>4, <1>9
<1> QED BY <1>2, <1>3, <1>4, <1>5, <1>6, <1>8, <1>10, <1>11, <1>12, DeleteStep

\* A step of the host's connection, identity or cache.
LEMMA HostStep ==
    ASSUME Inv, UNCHANGED Helm, UNCHANGED deleted, moves' \in 0..MaxMoves,
           at' \in Installs, ident' \in Installs, cache' \subseteq Sessions,
           conn' \in Connections \cup {None}, serial' \in Nat, serial <= serial',
           conn' # None => conn'.id < serial' /\ conn'.install = ident',
           cache' \subseteq Hosted[ident'],
           conn' \in {conn, None} \/ conn'.id = serial,
           late' \subseteq [ident : Installs, entries : SUBSET Sessions],
           \A w \in late' : w.entries \subseteq Hosted[w.ident],
           unforgotten \subseteq unforgotten', unforgotten' \subseteq Installs \X Sessions,
           \A s \in cache' : \/ s \in cache /\ ident' = ident
                             \/ <<ident', s>> \notin deleted \/ <<ident', s>> \in unforgotten'
    PROVE  Inv'
<1> USE TunnelAssumption
<1>1. /\ task \in [Tasks -> TaskRecords] /\ Requests \subseteq Tasks /\ Relays \subseteq Tasks /\ serial \in Nat
      /\ \A t \in Tasks : task[t].conn # None => task[t].conn.id \in Nat
    BY TaskFacts DEF Inv, TypeOK, TaskRecords, Connections
<1>2. \A t \in Tasks : task[t].conn # None /\ task[t].conn = conn' => conn' = conn
    BY <1>1 DEF Inv, HostSound
<1>3. TypeOK'
    BY DEF Inv, TypeOK, Helm
<1>4. HostSound'
    <2>1. \A t \in Tasks : task[t].conn # None => task[t].conn.id < serial'
        BY <1>1 DEF Inv, HostSound
    <2>2. \A t \in Tasks : conn' # None /\ task[t].conn # None /\ task[t].conn.id = conn'.id => task[t].conn = conn'
        BY <1>1 DEF Inv, HostSound
    <2>3. \A l \in Listeners : Live(l) => lst[l].conn \in Nat /\ lst[l].conn < serial'
        BY <1>1 DEF Inv, HostSound
    <2> QED BY <2>1, <2>2, <2>3 DEF HostSound, Helm, Live
<1>5. Gated' /\ AllKnown' /\ ConsentSound' /\ ShutSound'
    BY DEF Inv, Gated, AllKnown, ConsentSound, ShutSound, NothingListens, Live, Helm
<1>6. OneListener' /\ AgentKeepsItsConnection'
    BY DEF Inv, OneListener, AgentKeepsItsConnection, Live, Helm
<1>7. \A t \in Tasks : task[t].pc \in {"publish", "delete", "owner", "relaying"} => task[t].conn # None
    <2>1. \A q \in Requests : task[q].pc \in {"publish", "delete", "owner", "relaying"} => task[q].conn # None
        BY DEF Inv, RequestOK, RequestKind
    <2>2. \A r \in Relays : task[r].pc \in {"publish", "delete", "owner", "relaying"} => task[r].conn # None
        BY DEF Inv, RelayOK, Routing
    <2> QED BY <2>1, <2>2 DEF Tasks
<1>8. RoutedWhereListed'
    BY <1>1, <1>2, <1>7 DEF Inv, RoutedWhereListed, Helm
<1>9. ASSUME NEW q \in Requests PROVE RequestOK(task[q])'
    BY <1>1, <1>2 DEF Inv, RequestOK, RequestKind, Live, Helm
<1>10. \A r \in Relays : RelayOK(task[r])'
    BY DEF Inv, RelayOK, Live, Helm
<1>11. Forgotten'
    <2>1. SUFFICES ASSUME NEW q \in Requests, Gone(task[q])'
          PROVE  /\ ident' = task[q].conn.install => task[q].s \notin cache'
                 /\ \A p \in Requests : Links2(task[p]) /\ task[p].s = task[q].s => LinkAway(task[p], task[q])'
                 /\ \A l \in Listeners : Live(l) /\ lst[l].s = task[q].s /\ lst[l].owner = task[q].conn.install =>
                        ListenerAway(l, task[q])'
        BY DEF Forgotten, Links2, Live, Helm
    <2>2. Gone(task[q]) /\ UNCHANGED <<task, lst>> /\ <<task[q].conn.install, task[q].s>> \notin unforgotten'
        BY <2>1 DEF Gone, Helm
    <2>3. /\ ident = task[q].conn.install => task[q].s \notin cache
          /\ \A p \in Requests : Links2(task[p]) /\ task[p].s = task[q].s => LinkAway(task[p], task[q])
          /\ \A l \in Listeners : Live(l) /\ lst[l].s = task[q].s /\ lst[l].owner = task[q].conn.install =>
                 ListenerAway(l, task[q])
        BY <2>2 DEF Inv, Forgotten
    <2>4. <<task[q].conn.install, task[q].s>> \in deleted
        BY <2>2 DEF Inv, RequestOK, Gone
    <2>5. ident' = task[q].conn.install => task[q].s \notin cache'
        BY <2>2, <2>3, <2>4
    <2>6. task[q].conn.id < serial
        BY <1>1, <2>2 DEF Inv, HostSound, RequestOK, RequestKind, Gone
    <2>7. ASSUME NEW p \in Requests, Links2(task[p]), task[p].s = task[q].s PROVE LinkAway(task[p], task[q])'
        <3>1. LinkAway(task[p], task[q])
            BY <2>3, <2>7
        <3>2. task[p].pc = "publish" /\ task[p].conn # None /\ task[p].conn.install = task[q].conn.install =>
                  task[p].conn # conn'
            BY <1>1, <1>2, <3>1 DEF LinkAway
        <3>3. task[p].pc = "status" /\ conn' # None /\ conn'.install = task[q].conn.install =>
                  task[q].conn.id < conn'.id
            BY <2>6, <3>1 DEF LinkAway
        <3> QED BY <2>2, <3>1, <3>2, <3>3 DEF LinkAway
    <2>8. ASSUME NEW l \in Listeners, Live(l), lst[l].s = task[q].s, lst[l].owner = task[q].conn.install
          PROVE  ListenerAway(l, task[q])'
        <3>1. ListenerAway(l, task[q]) /\ lst[l].conn \in Nat /\ lst[l].conn < serial
            BY <2>3, <2>8 DEF Inv, HostSound
        <3>2. conn' # None => lst[l].conn # conn'.id
            BY <1>1, <3>1 DEF ListenerAway
        <3> QED BY <2>2, <3>1, <3>2 DEF ListenerAway
    <2> QED BY <2>5, <2>7, <2>8
<1> QED BY <1>3, <1>4, <1>5, <1>6, <1>8, <1>9, <1>10, <1>11 DEF Inv

LEMMA HostFacts ==
    ASSUME Inv
    PROVE  /\ at \in Installs /\ ident \in Installs /\ cache \subseteq Sessions
           /\ conn \in Connections \cup {None} /\ serial \in Nat /\ moves \in 0..MaxMoves /\ MaxMoves \in Nat
           /\ cache \subseteq Hosted[ident]
           /\ conn # None => conn.id < serial /\ conn.install = ident
           /\ late \subseteq [ident : Installs, entries : SUBSET Sessions]
           /\ \A w \in late : w.entries \subseteq Hosted[w.ident]
           /\ unforgotten \subseteq Installs \X Sessions
BY TunnelAssumption DEF Inv, TypeOK, HostSound

LEMMA EnvironmentInv ==
    ASSUME Inv, Environment
    PROVE  Inv'
<1> USE TunnelAssumption
<1>2. CASE Lose
    BY <1>2, HostFacts, HostStep DEF Lose, Move, walk
<1>3. CASE Reinstall
    BY <1>3, HostFacts, HostStep DEF Reinstall, Move, walk
<1>4. CASE Connect
    <2>1. conn' \in Connections /\ conn'.id = serial /\ conn'.install = ident /\ serial' = serial + 1
        BY <1>4, HostFacts DEF Connect, Connections
    <2>2. serial' \in Nat /\ serial <= serial' /\ conn'.id < serial'
        BY <2>1, HostFacts
    <2> QED BY <1>4, <2>1, <2>2, HostFacts, HostStep DEF Connect, walk
<1>5. CASE Adopt
    BY <1>5, HostFacts, HostStep DEF Adopt, walk
<1>6. CASE Refresh
    <2>1. cache' = Listed(ident) /\ UNCHANGED ident
        BY <1>6, HostFacts DEF Refresh
    <2>2. \A s \in cache' : s \in Hosted[ident'] /\ <<ident', s>> \notin deleted
        BY <2>1 DEF Listed
    <2>3. cache' \subseteq Sessions
        <3>1. Hosted[ident'] \subseteq Sessions
            BY <2>1, HostFacts
        <3> QED BY <2>2, <3>1
    <2>4. cache' \subseteq Hosted[ident'] /\ \A s \in cache' : <<ident', s>> \notin deleted
        BY <2>2
    <2>5. UNCHANGED <<at, ident, conn, serial, deleted, late, unforgotten, moves>> /\ UNCHANGED Helm
        BY <1>6 DEF Refresh, walk
    <2> QED BY <2>3, <2>4, <2>5, HostFacts, HostStep
<1>7. CASE Nudge
    <2> DEFINE w == [ident |-> conn.install, entries |-> Listed(conn.install)]
    <2>1. late' = late \cup {w} /\ conn.install \in Installs /\ Listed(conn.install) \subseteq Hosted[conn.install]
        BY <1>7, HostFacts DEF Nudge, Listed
    <2>2. w \in [ident : Installs, entries : SUBSET Sessions] /\ w.entries \subseteq Hosted[w.ident]
        BY <2>1
    <2> HIDE DEF w
    <2>3. /\ late' \subseteq [ident : Installs, entries : SUBSET Sessions]
          /\ \A o \in late' : o.entries \subseteq Hosted[o.ident]
        BY <2>1, <2>2, HostFacts
    <2> QED BY <1>7, <2>3, HostFacts, HostStep DEF Nudge, Move
<1>8. ASSUME NEW w \in late, LateReplace(w) PROVE Inv'
    <2>1. /\ w \in [ident : Installs, entries : SUBSET Sessions] /\ w.entries \subseteq Hosted[w.ident]
          /\ late' \subseteq late
        BY <1>8, HostFacts DEF LateReplace
    <2>2. CASE ident = w.ident
        <3>1. cache' = w.entries /\ unforgotten' = unforgotten \cup (({w.ident} \X w.entries) \cap deleted)
            BY <1>8, <2>2 DEF LateReplace
        <3>2. \A s \in cache' : <<ident, s>> \notin deleted \/ <<ident, s>> \in unforgotten'
            BY <2>2, <3>1
        <3>3. unforgotten \subseteq unforgotten' /\ unforgotten' \subseteq Installs \X Sessions
            BY <3>1, HostFacts DEF Inv, TypeOK
        <3>4. cache' \subseteq Sessions /\ cache' \subseteq Hosted[ident]
            BY <2>1, <2>2, <3>1
        <3> QED BY <1>8, <2>1, <3>2, <3>3, <3>4, HostFacts, HostStep DEF LateReplace
    <2>3. CASE ident # w.ident
        BY <1>8, <2>1, <2>3, HostFacts, HostStep DEF LateReplace
    <2> QED BY <2>2, <2>3
<1> QED BY <1>2, <1>3, <1>4, <1>5, <1>6, <1>7, <1>8 DEF Environment

LEMMA NextInv ==
    ASSUME Inv, [Next]_vars
    PROVE  Inv'
<1>0. Requests \subseteq Tasks /\ Relays \subseteq Tasks
    BY DEF Tasks
<1>1. ASSUME NEW q \in Requests, Step(q) PROVE Inv'
    BY <1>0, <1>1, LockInv, RouteInv, CaptureInv, ConsentInv, PublishInv, LeavesInv, WriteInv, TakeInv,
       JoinedInv, ClosedInv, DeleteInv, CancelInv DEF Step
<1>2. ASSUME NEW q \in Requests, leave(q) \/ opened(q) \/ store_fails(q) PROVE Inv'
    BY <1>0, <1>2, LeavesInv, OpenedInv
<1>3. ASSUME NEW q \in Requests, NEW k \in Kinds, NEW s \in Sessions, start(q, k, s) PROVE Inv'
    BY <1>3, StartInv
<1>4. ASSUME NEW r \in Relays, Relay(r) \/ relay_ends(r) \/ store_fails(r) PROVE Inv'
    BY <1>0, <1>4, RouteInv, CaptureInv, RelayInv, LeavesInv DEF Relay
<1>5. ASSUME NEW r \in Relays, NEW l \in Listeners, accept(r, l) PROVE Inv'
    BY <1>5, AcceptInv
<1>6. ASSUME NEW l \in Listeners, leave_loop(l) \/ finish(l) PROVE Inv'
    BY <1>6, LoopInv
<1>7. CASE UNCHANGED vars
    <2>1. UNCHANGED Helm /\ UNCHANGED <<host, moves>>
        BY <1>7 DEF vars, Helm
    <2> QED BY <2>1, HostFacts, HostStep DEF host, walk
<1> QED BY <1>1, <1>2, <1>3, <1>4, <1>5, <1>6, <1>7, EnvironmentInv DEF Next

THEOREM InvHolds == Spec => []Inv
<1>1. Init => Inv
    BY InitInv
<1>2. Inv /\ [Next]_vars => Inv'
    BY NextInv
<1> QED BY <1>1, <1>2, PTL DEF Spec

\* Whichever requests race for the gate: without consent and after the shutdown nothing
\* listens or is relayed, a link has one listener, and a deleted session has none unless
\* its cached row outlived the delete or was written again after it (open_from,
\* put_preferences, close_session_locked, forget_session, TunnelManager::shutdown).
THEOREM TunnelsAreConsistent == Spec => []Consistent
<1>1. Inv => Consistent
    BY InvFacts
<1> QED BY <1>1, InvHolds, PTL

\* Every socket is relayed to the installation its listener was opened for, every
\* request is routed to an installation that reported its session, and an agent's link
\* opens on the connection it was asked on (resolve_owner, same_owner, open_agent_url).
THEOREM RoutesAreSound == Spec => []RoutesSound
<1>1. Inv => RoutesSound
    BY InvFacts
<1> QED BY <1>1, InvHolds, PTL

=============================================================================
