---------------------------- MODULE HostActorProofs ----------------------------
(***************************************************************************)
(* HostActor: whatever edits, reinstalls, nudges and late replies do, the  *)
(* row, the cache, the list in memory and the published connection belong  *)
(* together (Consistent), and no refresh undoes what an operation recorded *)
(* after it began (WritesStay), for any number of sessions, installations, *)
(* destinations and operations.                                            *)
(*                                                                         *)
(* The argument: an incarnation names one client for ever, so what was     *)
(* dialed under an incarnation that still stands was dialed where the row  *)
(* points, and a claim of that incarnation is of the published connection  *)
(* (ActorOK, OpOK); what is cached, recorded or about to be written was    *)
(* created on the identity it is written under (CacheOK); and a refresh    *)
(* whose sample is still the epoch was answered after every write that has *)
(* been bumped, while a write not yet bumped holds the lock (FreshOK).     *)
(***************************************************************************)
EXTENDS HostActor, TLAPS

ActorPcs == {"top", "reload", "dial", "record", "settle", "connected", "failed", "mismatch", "hold",
             "frozen", "walk", "asked", "lock", "write", "check", "publish", "wait", "end"}
ActorRecords ==
    [pc : ActorPcs, seen : Nat, dialed : Dests, conn : Connections \cup {None},
     outcome : {"failed", "connected", "mismatch"}, recorded : Installs \cup {None}, sampled : Nat,
     entries : SUBSET Sessions, live : {"retain", "set"}, ends : BOOLEAN]
Shown == [recorded : Installs \cup {None}, reported : Installs \cup {None}]
StatusRecords ==
    [phase : {"connecting", "connected", "mismatch", "down"}, client : Connections \cup {None},
     inc : Nat, live : (SUBSET Sessions) \cup {None}, shown : Shown \cup {None}]
AdoptRecords ==
    [pc : {"store", "publish"}, recorded : Installs \cup {None}, reported : Installs \cup {None},
     dialed : Dests]
OpRecords ==
    [pc : {"idle", "sent", "replied", "write", "bump", "done"}, kind : Kinds \cup {None},
     s : Sessions \cup {None}, inc : Nat, conn : Connections \cup {None}]
LateRecords == [ident : Installs, entries : SUBSET Sessions]

Typed ==
    /\ at \in [Dests -> Installs] /\ owner \in [Sessions -> Installs \cup {None}]
    /\ deleted \subseteq Sessions /\ dest \in Dests /\ known \in Dests
    /\ ident \in Installs \cup {None} /\ cache \subseteq Sessions
    /\ tokens \in Nat /\ epoch \in Nat /\ nudge \in BOOLEAN
    /\ lock \in Ops \cup {"actor", "edit", None}
    /\ actor \in ActorRecords /\ edit \in Dests \cup {None} /\ adopt \in AdoptRecords \cup {None}
    /\ op \in [Ops -> OpRecords] /\ late \subseteq LateRecords
    /\ told \subseteq Sessions /\ gone \subseteq Sessions
    /\ dropped \in BOOLEAN /\ identified \in BOOLEAN

\* The published status: an incarnation below the next token, a client that
\* said what its installation says, dialed where the row points.
StatusOK ==
    /\ status \in StatusRecords /\ status.inc < tokens
    /\ status.phase = "mismatch" => status.shown \in Shown
    /\ status.client # None => status.client.ident = Hello(status.client.install)
    /\ RoutedWhereTheRowPoints /\ MemoryOfItsConnection

\* Who holds the lock is where the lock is held.
LockOK ==
    /\ lock = "actor" <=> actor.pc = "write"
    /\ lock = "edit" <=> edit # None
    /\ \A o \in Ops : lock = o <=> op[o].pc \in {"write", "bump"}

\* The actor's locals: the connection it works on, and that it was dialed where
\* the row points if the incarnation it read before the row still stands.
Connected(a) ==
    \/ a.pc \in {"record", "connected", "mismatch", "walk", "asked", "lock", "write", "check",
                 "publish", "wait"}
    \/ a.pc = "settle" /\ a.outcome # "failed"
Dialing == {"dial", "record", "settle", "connected"}
Answered(a) == a.pc \in {"lock", "write"} \/ (a.pc \in {"check", "publish"} /\ a.live = "set")
ActorOK ==
    /\ actor.seen < tokens /\ actor.sampled <= epoch
    /\ Connected(actor) => actor.conn # None /\ actor.conn.ident = Hello(actor.conn.install)
    /\ Connected(actor) /\ actor.pc \in Dialing => actor.conn.dest = actor.dialed
    /\ actor.pc \in Dialing /\ status.inc = actor.seen /\ edit = None => actor.dialed = dest
    /\ Answered(actor) => \A s \in actor.entries : owner[s] = actor.conn.install
    /\ actor.pc = "write" => identified /\ actor.sampled = epoch

\* A walk that is still fresh misses nothing recorded and brings back nothing
\* forgotten; a write that is not bumped yet holds the lock the walk needs.
Bumping == \E o \in Ops : op[o].pc = "bump"
FreshOK ==
    identified /\ actor.pc \in {"lock", "write"} /\ actor.sampled = epoch =>
        /\ actor.entries \cap gone = {}
        /\ Bumping \/ told \cap Hosted(actor.conn.install) \subseteq actor.entries

\* An operation's claim is of its connection for as long as the incarnation stands.
OpOK(o) ==
    /\ op[o].pc # "idle" =>
           /\ op[o].kind \in Kinds /\ op[o].inc < tokens /\ op[o].conn # None
           /\ op[o].conn.ident = Hello(op[o].conn.install)
           /\ status.client # None /\ status.inc = op[o].inc => status.client = op[o].conn
    /\ op[o].pc \in {"replied", "write", "bump"} =>
           /\ op[o].s \in Sessions /\ owner[op[o].s] = op[o].conn.install
           /\ op[o].kind = "delete" => op[o].s \in deleted
    /\ op[o].pc = "bump" /\ op[o].kind = "delete" /\ identified /\ ~dropped => op[o].s \notin cache

\* What is cached, recorded or under way to the cache was created on the
\* identity it was written for.
CacheOK ==
    /\ \A s \in cache : identified /\ ident # None /\ owner[s] = ident
    /\ identified => \A s \in told : ident # None /\ owner[s] = ident
    /\ \A w \in late : identified /\ dropped /\ \A s \in w.entries : owner[s] = w.ident
    /\ gone \subseteq deleted
    /\ WritesStay

Inv == Typed /\ StatusOK /\ LockOK /\ ActorOK /\ FreshOK /\ CacheOK /\ \A o \in Ops : OpOK(o)

LEMMA InvFacts == Inv => Consistent /\ WritesStay
<1> SUFFICES ASSUME Inv PROVE Consistent /\ WritesStay
    OBVIOUS
<1>1. WritesStay /\ RoutedWhereTheRowPoints /\ MemoryOfItsConnection
    BY DEF Inv, CacheOK, StatusOK
<1>2. OneInstall
    BY DEF Inv, CacheOK, OneInstall
<1>3. TypeOK
    <2>1. status.phase \in {"connecting", "connected", "mismatch", "down"} /\ actor.entries \subseteq Sessions
        BY DEF Inv, Typed, StatusOK, StatusRecords, ActorRecords
    <2>2. /\ status.client \in Connections \cup {None} /\ status.inc \in Nat
          /\ status.live = None \/ status.live \subseteq Sessions
        BY DEF Inv, StatusOK, StatusRecords
    <2> QED BY <2>1, <2>2 DEF Inv, Typed, StatusOK, TypeOK
<1> QED BY <1>1, <1>2, <1>3 DEF Consistent

LEMMA InitInv == Init => Inv
<1> SUFFICES ASSUME Init PROVE Inv
    OBVIOUS
<1> USE HostAssumption
<1>1. Typed
    <2>1. Idle \in OpRecords
        BY DEF Idle, OpRecords
    <2>2. op \in [Ops -> OpRecords]
        BY <2>1 DEF Init
    <2>3. actor \in ActorRecords
        BY DEF Init, ActorRecords, ActorPcs
    <2>4. at \in [Dests -> Installs] /\ owner \in [Sessions -> Installs \cup {None}]
        BY DEF Init
    <2> QED BY <2>2, <2>3, <2>4 DEF Init, Typed
<1>2. StatusOK
    <2>1. status = [phase |-> "connecting", client |-> None, inc |-> 1, live |-> None, shown |-> None]
        BY DEF Init
    <2>2. None \in Connections \cup {None} /\ None \in (SUBSET Sessions) \cup {None} /\ None \in Shown \cup {None}
        OBVIOUS
    <2>3. status \in StatusRecords
        BY <2>1, <2>2 DEF StatusRecords
    <2> QED BY <2>1, <2>3 DEF Init, StatusOK, RoutedWhereTheRowPoints, MemoryOfItsConnection
<1>3. \A o \in Ops : op[o].pc = "idle"
    BY DEF Init, Idle
<1>4. LockOK /\ ActorOK /\ FreshOK
    BY <1>3 DEF Init, LockOK, ActorOK, FreshOK, Connected, Dialing, Answered
<1>5. CacheOK
    BY DEF Init, CacheOK, WritesStay, RecordedStays, DeletedStaysGone
<1>6. \A o \in Ops : OpOK(o)
    BY <1>3 DEF OpOK
<1> QED BY <1>1, <1>2, <1>4, <1>5, <1>6 DEF Inv

\* The status keeps its client and incarnation, or takes a new incarnation.
Reissued ==
    /\ tokens' \in Nat /\ tokens <= tokens'
    /\ \/ status'.inc = status.inc /\ status'.client = status.client
       \/ status'.inc = tokens

LEMMA StatusFacts == ASSUME Inv
                     PROVE  /\ tokens \in Nat /\ epoch \in Nat
                            /\ status \in StatusRecords /\ status.inc \in Nat /\ status.inc < tokens
                            /\ status.client \in Connections \cup {None}
                            /\ status.live \in (SUBSET Sessions) \cup {None}
                            /\ status.shown \in Shown \cup {None}
                            /\ actor \in ActorRecords /\ actor.pc \in ActorPcs
                            /\ actor.seen \in Nat /\ actor.dialed \in Dests
                            /\ actor.conn \in Connections \cup {None}
                            /\ actor.sampled \in Nat /\ actor.entries \subseteq Sessions
BY DEF Inv, Typed, StatusOK, StatusRecords, ActorRecords

LEMMA PublishFacts ==
    ASSUME Inv, NEW phase \in {"connecting", "connected", "mismatch", "down"},
           NEW client \in Connections \cup {None}, NEW live \in (SUBSET Sessions) \cup {None},
           NEW shown \in Shown \cup {None}, Publish(phase, client, live, shown),
           UNCHANGED <<edit, dest, owner, identified>>,
           phase = "mismatch" => shown \in Shown,
           client # None => client.ident = Hello(client.install),
           client # None /\ edit = None => client.dest = dest,
           live # None => client # None /\ \A s \in live : owner[s] = client.install
    PROVE  /\ StatusOK' /\ Reissued
           /\ status'.client = client /\ (status'.inc = status.inc \/ status'.inc = tokens)
<1>1. tokens \in Nat /\ status.inc \in Nat /\ status.inc < tokens
    BY StatusFacts
<1>2. /\ status'.phase = phase /\ status'.client = client /\ status'.live = live /\ status'.shown = shown
      /\ status'.inc = (IF client = status.client THEN status.inc ELSE tokens)
    BY DEF Publish
<1>3. tokens' \in Nat /\ tokens <= tokens' /\ status'.inc < tokens' /\ status'.inc \in Nat
    BY <1>1, <1>2 DEF Publish
<1>4. status' \in StatusRecords
    BY <1>3 DEF Publish, StatusRecords
<1>5. StatusOK'
    BY <1>2, <1>3, <1>4 DEF StatusOK, RoutedWhereTheRowPoints, MemoryOfItsConnection, Hello
<1> QED BY <1>2, <1>3, <1>5 DEF Reissued

LEMMA Unpublishing ==
    ASSUME Inv, Unpublished, UNCHANGED <<edit, dest, owner, identified>>
    PROVE  StatusOK' /\ Reissued /\ status' = status
<1>1. UNCHANGED <<status, tokens>>
    BY DEF Unpublished
<1> QED BY <1>1, StatusFacts DEF Inv, Reissued, StatusOK, RoutedWhereTheRowPoints, MemoryOfItsConnection, Hello

\* What is shown stays so when nothing it mentions changes.
LEMMA OpsKeep ==
    ASSUME Inv, UNCHANGED <<op, owner, deleted, cache, identified, dropped>>, Reissued
    PROVE  \A o \in Ops : OpOK(o)'
<1> SUFFICES ASSUME NEW o \in Ops PROVE OpOK(o)'
    OBVIOUS
<1>1. OpOK(o) /\ op[o].inc \in Nat /\ tokens \in Nat
    BY StatusFacts DEF Inv, Typed, OpRecords
<1>2. op[o].pc # "idle" => op[o].inc < tokens'
    BY <1>1 DEF OpOK, Reissued
<1>3. op[o].pc # "idle" /\ status'.inc = op[o].inc => status'.inc = status.inc /\ status'.client = status.client
    BY <1>1 DEF OpOK, Reissued
<1> QED BY <1>1, <1>2, <1>3 DEF OpOK, Hello

Still == <<at, owner, deleted, dest, ident, cache, known, edit, adopt, epoch, op, late, told, gone,
           dropped, identified>>

\* A step of the actor outside the write of a list.
LEMMA ActorStep ==
    ASSUME Inv, UNCHANGED Still, nudge' \in BOOLEAN, lock' = lock, actor' \in ActorRecords,
           actor.pc # "write", actor'.pc # "write", StatusOK', Reissued, ActorOK', FreshOK'
    PROVE  Inv'
<1>1. Typed'
    BY DEF Inv, Typed, Still, Reissued
<1>2. LockOK'
    BY DEF Inv, LockOK, Still
<1>3. CacheOK'
    BY DEF Inv, CacheOK, WritesStay, RecordedStays, DeletedStaysGone, Hosted, Still
<1>4. \A o \in Ops : OpOK(o)'
    BY OpsKeep DEF Still
<1> QED BY <1>1, <1>2, <1>3, <1>4 DEF Inv

LEMMA GotoFacts ==
    ASSUME Inv, NEW p \in ActorPcs, Goto(p)
    PROVE  /\ actor' \in ActorRecords /\ actor'.pc = p
           /\ actor'.seen = actor.seen /\ actor'.dialed = actor.dialed /\ actor'.conn = actor.conn
           /\ actor'.outcome = actor.outcome /\ actor'.recorded = actor.recorded
           /\ actor'.sampled = actor.sampled /\ actor'.entries = actor.entries
           /\ actor'.live = actor.live /\ actor'.ends = actor.ends
BY StatusFacts DEF Goto, ActorRecords

\* A step that only moves the actor on.
LEMMA GotoStep ==
    ASSUME Inv, NEW p \in ActorPcs, Goto(p), p \notin {"lock", "write"}, actor.pc # "write",
           UNCHANGED Still, nudge' \in BOOLEAN, lock' = lock, StatusOK', Reissued,
           Connected(actor') => Connected(actor), p \in Dialing => actor.pc \in Dialing,
           Answered(actor') => Answered(actor)
    PROVE  Inv'
<1>1. /\ actor' \in ActorRecords /\ actor'.pc = p
      /\ actor'.seen = actor.seen /\ actor'.dialed = actor.dialed /\ actor'.conn = actor.conn
      /\ actor'.sampled = actor.sampled /\ actor'.entries = actor.entries
    BY GotoFacts
<1>2. ActorOK'
    <2>1. actor'.seen < tokens' /\ actor'.sampled <= epoch'
        BY <1>1, StatusFacts DEF Inv, ActorOK, Reissued, Still
    <2>2. status'.inc = actor.seen => status'.inc = status.inc
        BY StatusFacts DEF Inv, ActorOK, Reissued
    <2> QED BY <1>1, <2>1, <2>2 DEF Inv, ActorOK, Hello, Still
<1>3. FreshOK'
    BY <1>1 DEF FreshOK
<1> QED BY <1>1, <1>2, <1>3, ActorStep

LEMMA SettleInv == ASSUME Inv, UNCHANGED identified, Settle PROVE Inv'
<1> DEFINE p == IF nudge THEN "top" ELSE actor.outcome
<1>1. p \in {"top", "failed", "connected", "mismatch"} /\ (p # "top" => p = actor.outcome)
    BY StatusFacts DEF ActorRecords
<1>2. Goto(p) /\ actor.pc = "settle" /\ UNCHANGED Still /\ nudge' \in BOOLEAN /\ lock' = lock /\ Unpublished
    BY DEF Settle, Still, manager, world, store, hist, Unpublished
<1> HIDE DEF p
<1>3. p \in ActorPcs /\ p \notin {"lock", "write"}
    BY <1>1 DEF ActorPcs
<1>4. actor'.pc = p
    BY <1>2, <1>3, GotoFacts
<1>5. (Connected(actor') => Connected(actor)) /\ ~Answered(actor')
    BY <1>1, <1>2, <1>4 DEF Connected, Answered
<1>6. StatusOK' /\ Reissued
    BY <1>2, Unpublishing DEF Still
<1> QED BY <1>1, <1>2, <1>3, <1>5, <1>6, GotoStep DEF Dialing

\* The steps that only move the actor on and publish nothing.
LEMMA QuietInv ==
    ASSUME Inv, UNCHANGED identified, Interrupted \/ HoldOver \/ CheckNudge \/ WaitOver \/ Closed
    PROVE  Inv'
<1>1. /\ UNCHANGED Still /\ lock' = lock /\ Unpublished /\ nudge' \in BOOLEAN
      /\ actor.pc \in {"dial", "record", "connected", "hold", "frozen", "check", "wait"}
    BY DEF Interrupted, HoldOver, CheckNudge, WaitOver, Closed, Still, world, store, manager, hist,
           Unpublished, Inv, Typed
<1>2. PICK p \in {"top", "end", "publish", "walk"} :
         /\ Goto(p) /\ (p = "publish" => actor.pc = "check") /\ (p = "walk" => actor.pc = "wait")
    BY DEF Interrupted, HoldOver, CheckNudge, WaitOver, Closed
<1>3. p \in ActorPcs /\ p \notin {"lock", "write"}
    BY DEF ActorPcs
<1>4. actor'.pc = p /\ actor'.live = actor.live
    BY <1>2, <1>3, GotoFacts
<1>5. (Connected(actor') => Connected(actor)) /\ (Answered(actor') => Answered(actor)) /\ p \notin Dialing
    BY <1>1, <1>2, <1>4 DEF Connected, Answered, Dialing
<1>6. StatusOK' /\ Reissued
    BY <1>1, Unpublishing DEF Still
<1> QED BY <1>1, <1>2, <1>3, <1>5, <1>6, GotoStep

\* The steps that publish and withdraw the client.
LEMMA WithdrawnInv ==
    ASSUME Inv, UNCHANGED identified, Unreachable \/ Refuse \/ EndServe
    PROVE  Inv'
<1>1. UNCHANGED Still /\ lock' = lock /\ nudge' \in BOOLEAN /\ actor.pc \in {"failed", "mismatch", "end"}
    BY DEF Unreachable, Refuse, EndServe, Still, world, store, manager, hist, Inv, Typed
<1>2. PICK p \in {"hold", "frozen", "top"} : Goto(p)
    BY DEF Unreachable, Refuse, EndServe
<1>3. p \in ActorPcs /\ p \notin {"lock", "write"} /\ p \notin Dialing
    BY DEF ActorPcs, Dialing
<1>4. ~Connected(actor') /\ ~Answered(actor')
    BY <1>2, <1>3, GotoFacts DEF Connected, Answered
<1>5. StatusOK' /\ Reissued
    <2>1. CASE Refuse
        <3>1. [recorded |-> actor.recorded, reported |-> actor.conn.ident] \in Shown
            <4>1. actor.conn \in Connections
                BY <2>1, StatusFacts DEF Inv, ActorOK, Connected, Refuse
            <4> QED BY <4>1, StatusFacts DEF ActorRecords, Shown, Connections
        <3> QED BY <2>1, <3>1, <1>1, PublishFacts DEF Refuse, Still
    <2>2. CASE Unreachable
        BY <2>2, <1>1, PublishFacts DEF Unreachable, Still
    <2>3. CASE EndServe
        BY <2>3, <1>1, PublishFacts DEF EndServe, Still
    <2> QED BY <2>1, <2>2, <2>3
<1> QED BY <1>1, <1>2, <1>3, <1>4, <1>5, GotoStep

LEMMA ServeInv == ASSUME Inv, UNCHANGED identified, Serve PROVE Inv'
<1>1. UNCHANGED Still /\ lock' = lock /\ nudge' \in BOOLEAN /\ actor.pc = "connected" /\ Goto("walk")
    BY DEF Serve, Still, world, store, manager, hist, Inv, Typed
<1>2. "walk" \in ActorPcs /\ "walk" \notin Dialing /\ actor'.pc = "walk"
    BY <1>1, GotoFacts DEF ActorPcs, Dialing
<1>3. /\ actor.conn \in Connections /\ actor.conn.ident = Hello(actor.conn.install)
      /\ actor.conn.dest = actor.dialed
      /\ status.inc = actor.seen /\ edit = None => actor.dialed = dest
    BY <1>1, StatusFacts DEF Inv, ActorOK, Connected, Dialing
<1>4. StatusOK' /\ Reissued
    <2>1. CASE WhileIncarnation
        <3>1. PICK l \in {None, {}} : Publish("connected", actor.conn, l, None)
            BY <2>1 DEF Serve
        <3>2. l \in (SUBSET Sessions) \cup {None} /\ (l # None => \A s \in l : owner[s] = actor.conn.install)
            OBVIOUS
        <3>3. actor.conn # None
            BY <1>1 DEF Inv, ActorOK, Connected
        <3> QED BY <2>1, <3>1, <3>2, <3>3, <1>1, <1>3, PublishFacts DEF Still, WhileIncarnation
    <2>2. CASE Unpublished
        BY <2>2, <1>1, Unpublishing DEF Still
    <2> QED BY <2>1, <2>2 DEF Serve
<1>5. Connected(actor) /\ ~Answered(actor')
    BY <1>1, <1>2 DEF Connected, Answered
<1> QED BY <1>1, <1>2, <1>4, <1>5, GotoStep

LEMMA PublishWalkInv == ASSUME Inv, UNCHANGED identified, PublishWalk PROVE Inv'
<1>1. UNCHANGED Still /\ lock' = lock /\ nudge' \in BOOLEAN /\ actor.pc = "publish"
    BY DEF PublishWalk, Still, world, store, manager, hist, Inv, Typed
<1>2. PICK p \in {"end", "wait"} : Goto(p)
    BY DEF PublishWalk
<1>3. p \in ActorPcs /\ p \notin {"lock", "write"} /\ p \notin Dialing
    BY DEF ActorPcs, Dialing
<1>4. actor'.pc = p
    BY <1>2, <1>3, GotoFacts
<1>5. Connected(actor) /\ ~Answered(actor')
    BY <1>1, <1>4 DEF Connected, Answered
<1>6. StatusOK' /\ Reissued
    <2>1. CASE WhileCurrent
        <3>1. actor.conn # None /\ actor.conn \in Connections /\ actor.conn = status.client
            BY <1>5, <2>1, StatusFacts DEF Inv, ActorOK, WhileCurrent
        <3>2. /\ status.client.ident = Hello(status.client.install)
              /\ edit = None => status.client.dest = dest
              /\ status.live # None => \A s \in status.live : owner[s] = status.client.install
            BY <3>1 DEF Inv, StatusOK, RoutedWhereTheRowPoints, MemoryOfItsConnection
        <3>3. actor.live = "set" => \A s \in actor.entries : owner[s] = actor.conn.install
            BY <1>1 DEF Inv, ActorOK, Answered
        <3>4. PICK l \in (SUBSET Sessions) \cup {None} :
                 /\ Publish("connected", actor.conn, l, None)
                 /\ l # None => \A s \in l : owner[s] = actor.conn.install
            BY <2>1, <3>1, <3>2, <3>3, StatusFacts DEF PublishWalk
        <3> QED BY <3>1, <3>2, <3>4, <1>1, PublishFacts DEF Still
    <2>2. CASE Unpublished
        BY <2>2, <1>1, Unpublishing DEF Still
    <2> QED BY <2>1, <2>2 DEF PublishWalk
<1> QED BY <1>1, <1>2, <1>3, <1>5, <1>6, GotoStep

\* The steps that set the actor's locals, before a walk is answered.
LEMMA LocalsInv ==
    ASSUME Inv, UNCHANGED identified, Top \/ Reload \/ Dial \/ Walk \/ WalkFails
    PROVE  Inv'
<1>1. UNCHANGED Still /\ lock' = lock /\ nudge' \in BOOLEAN /\ actor.pc \notin {"lock", "write"}
    BY DEF Top, Reload, Dial, Walk, WalkFails, Still, world, store, manager, hist, Inv, Typed
<1>2. StatusOK' /\ Reissued
    <2>1. CASE Publish("connecting", None, None, None)
        BY <2>1, <1>1, PublishFacts DEF Still
    <2>2. CASE Unpublished
        BY <2>2, <1>1, Unpublishing DEF Still
    <2> QED BY <2>1, <2>2 DEF Top, Reload, Dial, Walk, WalkFails, Unpublished
<1>3. /\ actor.seen < tokens /\ actor.sampled <= epoch
      /\ Connected(actor) => actor.conn # None /\ actor.conn.ident = Hello(actor.conn.install)
      /\ actor.pc \in Dialing /\ status.inc = actor.seen /\ edit = None => actor.dialed = dest
    BY DEF Inv, ActorOK
<1>4. status.inc < tokens /\ tokens \in Nat /\ epoch \in Nat /\ tokens <= tokens' /\ tokens' \in Nat
    BY <1>2, StatusFacts DEF Reissued
<1>5. UNCHANGED <<epoch, dest, edit, identified, owner>>
    BY <1>1 DEF Still
<1>6. ASSUME actor' \in ActorRecords, actor'.pc \notin {"lock", "write"}, ActorOK' PROVE Inv'
    BY <1>1, <1>2, <1>6, ActorStep DEF FreshOK
<1>7. CASE Top
    <2>1. /\ actor' \in ActorRecords /\ actor'.pc = "reload" /\ actor'.seen = status.inc
          /\ actor'.sampled = actor.sampled
        BY <1>7, StatusFacts DEF Top, ActorRecords, ActorPcs
    <2> QED BY <1>3, <1>4, <1>5, <1>6, <2>1, StatusFacts DEF ActorOK, Connected, Dialing, Answered
<1>8. CASE Reload
    <2>1. dest \in Dests
        BY DEF Inv, Typed
    <2>2. /\ actor' \in ActorRecords /\ actor'.pc = "dial" /\ actor'.seen = actor.seen
          /\ actor'.sampled = actor.sampled /\ actor'.dialed = dest
        BY <1>8, <2>1, StatusFacts DEF Reload, ActorRecords, ActorPcs
    <2> QED BY <1>3, <1>4, <1>5, <1>6, <2>2, StatusFacts DEF ActorOK, Connected, Dialing, Answered
<1>9. CASE Dial
    <2> DEFINE c == [id |-> tokens, install |-> at[actor.dialed], dest |-> actor.dialed,
                     ident |-> Hello(at[actor.dialed])]
    <2>1. at[actor.dialed] \in Installs /\ Hello(at[actor.dialed]) \in Installs \cup {None}
        BY StatusFacts DEF Inv, Typed, Hello
    <2>2. c \in Connections /\ c.ident = Hello(c.install) /\ c.dest = actor.dialed
        BY <2>1, StatusFacts DEF Connections
    <2>3. actor' = [actor EXCEPT !.pc = "record", !.conn = c]
        BY <1>9 DEF Dial
    <2>3a. c # None
        BY <2>2, HostAssumption DEF Connections
    <2> HIDE DEF c
    <2>4. /\ actor' \in ActorRecords /\ actor'.pc = "record" /\ actor'.seen = actor.seen
          /\ actor'.sampled = actor.sampled /\ actor'.dialed = actor.dialed /\ actor'.conn = c
        BY <2>2, <2>3, StatusFacts DEF ActorRecords, ActorPcs
    <2>5. UNCHANGED status /\ actor.pc = "dial"
        BY <1>9 DEF Dial
    <2> QED BY <1>3, <1>4, <1>5, <1>6, <2>2, <2>3a, <2>4, <2>5, StatusFacts
            DEF ActorOK, Connected, Dialing, Answered, Hello
<1>10. CASE Walk
    <2>1. /\ actor' \in ActorRecords /\ actor'.pc = "asked" /\ actor'.seen = actor.seen
          /\ actor'.sampled = epoch /\ actor'.conn = actor.conn
        BY <1>10, StatusFacts DEF Walk, ActorRecords, ActorPcs
    <2>2. Connected(actor)
        BY <1>10 DEF Walk, Connected
    <2> QED BY <1>3, <1>4, <1>5, <1>6, <2>1, <2>2, StatusFacts DEF ActorOK, Dialing, Answered, Hello
<1>11. CASE WalkFails
    <2>1. /\ actor' \in ActorRecords /\ actor'.pc = "check" /\ actor'.seen = actor.seen
          /\ actor'.sampled = actor.sampled /\ actor'.conn = actor.conn /\ actor'.live = "retain"
        BY <1>11, StatusFacts DEF WalkFails, ActorRecords, ActorPcs
    <2>2. Connected(actor)
        BY <1>11 DEF WalkFails, Connected
    <2> QED BY <1>3, <1>4, <1>5, <1>6, <2>1, <2>2, StatusFacts DEF ActorOK, Dialing, Answered, Hello
<1> QED BY <1>7, <1>8, <1>9, <1>10, <1>11

LEMMA AttemptFailsInv == ASSUME Inv, UNCHANGED identified, AttemptFails PROVE Inv'
<1>1. /\ UNCHANGED Still /\ lock' = lock /\ nudge' \in BOOLEAN /\ Unpublished
      /\ actor.pc \in {"dial", "record", "settle"}
    BY DEF AttemptFails, Still, world, store, manager, hist, Inv, Typed, Unpublished
<1>2. StatusOK' /\ Reissued /\ status' = status /\ tokens' = tokens
    BY <1>1, Unpublishing DEF Still, Unpublished
<1>3. PICK p \in {"dial", "settle"} :
         /\ actor' \in ActorRecords /\ actor'.pc = p /\ actor'.seen = actor.seen
         /\ actor'.dialed = actor.dialed /\ actor'.sampled = actor.sampled
         /\ p = "settle" => actor'.outcome = "failed"
    <2>1. CASE Goto("dial")
        BY <2>1, GotoFacts DEF ActorPcs
    <2>2. CASE actor' = [actor EXCEPT !.pc = "settle", !.outcome = "failed"]
        BY <2>2, StatusFacts DEF ActorRecords, ActorPcs
    <2> QED BY <2>1, <2>2 DEF AttemptFails
<1>4. ~Connected(actor') /\ ~Answered(actor')
    BY <1>3 DEF Connected, Answered
<1>5. ActorOK'
    BY <1>1, <1>2, <1>3, <1>4 DEF Inv, ActorOK, Dialing, Still
<1>6. FreshOK'
    BY <1>3 DEF FreshOK
<1> QED BY <1>1, <1>2, <1>3, <1>5, <1>6, ActorStep

\* The first identity is written over an empty cache.
LEMMA FirstContactInv == ASSUME Inv, UNCHANGED identified, FirstContact PROVE Inv'
<1>1. /\ UNCHANGED <<world, dest, cache, manager, status, tokens, nudge, lock, epoch, op, late, hist>>
      /\ actor.pc = "record"
    BY DEF FirstContact
<1>2. actor.conn # None /\ actor.conn \in Connections /\ actor.conn.ident = Hello(actor.conn.install)
      /\ actor.conn.dest = actor.dialed /\ actor.conn.ident \in Installs \cup {None}
    BY <1>1, StatusFacts DEF Inv, ActorOK, Connected, Dialing, Connections
<1>3. ident' \in Installs \cup {None} /\ (ident # None => ident' = ident)
    BY <1>2 DEF FirstContact, Inv, Typed
<1>4. PICK r \in {"failed", "connected", "mismatch"} :
         actor' = [actor EXCEPT !.pc = "settle", !.outcome = r, !.recorded = ident]
    BY DEF FirstContact
<1>5. /\ actor' \in ActorRecords /\ actor'.pc = "settle" /\ actor'.seen = actor.seen
      /\ actor'.sampled = actor.sampled /\ actor'.dialed = actor.dialed /\ actor'.conn = actor.conn
    BY <1>4, StatusFacts DEF ActorRecords, ActorPcs, Inv, Typed
<1>6. Typed'
    BY <1>1, <1>3, <1>5 DEF Inv, Typed, world, manager, hist
<1>7. StatusOK'
    BY <1>1 DEF Inv, StatusOK, RoutedWhereTheRowPoints, MemoryOfItsConnection, Hello, world, manager
<1>8. LockOK'
    BY <1>1, <1>5 DEF Inv, LockOK, manager
<1>9. ActorOK'
    BY <1>1, <1>2, <1>5 DEF Inv, ActorOK, Dialing, Answered, Hello, manager
<1>10. FreshOK'
    BY <1>5 DEF FreshOK
<1>11. CacheOK'
    <2>1. \A s \in cache : identified /\ ident' # None /\ owner[s] = ident'
        BY <1>3 DEF Inv, CacheOK
    <2>2. identified => \A s \in told : ident' # None /\ owner[s] = ident'
        BY <1>3 DEF Inv, CacheOK
    <2>3. identified /\ ident' # ident => told = {}
        BY <1>3 DEF Inv, CacheOK
    <2>4. WritesStay'
        BY <1>1, <2>3 DEF Inv, CacheOK, WritesStay, RecordedStays, DeletedStaysGone, Hosted, world, hist
    <2> QED BY <1>1, <2>1, <2>2, <2>4 DEF Inv, CacheOK, world, hist
<1>12. \A o \in Ops : OpOK(o)'
    BY <1>1, StatusFacts, OpsKeep DEF Reissued, world, hist
<1> QED BY <1>6, <1>7, <1>8, <1>9, <1>10, <1>11, <1>12 DEF Inv

LEMMA AnswerInv == ASSUME Inv, UNCHANGED identified, Answer PROVE Inv'
<1>1. UNCHANGED Still /\ lock' = lock /\ nudge' \in BOOLEAN /\ actor.pc = "asked" /\ Unpublished
    BY DEF Answer, Still, world, store, manager, hist, Inv, Typed, Unpublished
<1>2. StatusOK' /\ Reissued /\ tokens' = tokens
    BY <1>1, Unpublishing DEF Still, Unpublished
<1>3. Connected(actor) /\ actor.conn \in Connections /\ actor.conn.install \in Installs
    BY <1>1, StatusFacts DEF Inv, ActorOK, Connected, Connections
<1>4. /\ actor' \in ActorRecords /\ actor'.pc = "lock" /\ actor'.seen = actor.seen
      /\ actor'.sampled = actor.sampled /\ actor'.conn = actor.conn
      /\ actor'.entries = Hosted(actor.conn.install)
    BY StatusFacts DEF Answer, ActorRecords, ActorPcs, Hosted
<1>5. ActorOK'
    BY <1>1, <1>2, <1>3, <1>4 DEF Inv, ActorOK, Dialing, Answered, Hello, Hosted, Still
<1>6. actor'.entries \cap gone = {}
    BY <1>4 DEF Inv, CacheOK, Hosted
<1>7. FreshOK'
    BY <1>1, <1>4, <1>6 DEF FreshOK, Hosted, Still
<1> QED BY <1>1, <1>2, <1>4, <1>5, <1>7, ActorStep

LEMMA CompareEpochInv == ASSUME Inv, UNCHANGED identified, CompareEpoch PROVE Inv'
<1>1. /\ UNCHANGED Still /\ nudge' \in BOOLEAN /\ actor.pc = "lock" /\ lock = None
      /\ UNCHANGED <<status, tokens, epoch>>
    BY DEF CompareEpoch, Still, world, store, manager, hist, Inv, Typed
<1>2. StatusOK' /\ Reissued
    BY <1>1, Unpublishing DEF Still, Unpublished
<1>3. Connected(actor) /\ Answered(actor)
    BY <1>1 DEF Connected, Answered
<1>4. CASE epoch = actor.sampled /\ identified /\ lock' = "actor" /\ Goto("write")
    <2>1. /\ actor' \in ActorRecords /\ actor'.pc = "write" /\ actor'.seen = actor.seen
          /\ actor'.sampled = actor.sampled /\ actor'.conn = actor.conn
          /\ actor'.entries = actor.entries
        BY <1>4, GotoFacts DEF ActorPcs
    <2>2. Typed'
        BY <1>1, <1>4, <2>1 DEF Inv, Typed, Still
    <2>3. LockOK'
        <3>1. /\ lock = None /\ None \notin {"actor", "edit"} /\ \A o \in Ops : o # None /\ o # "actor" /\ o # "edit"
            BY <1>1, HostAssumption
        <3> QED BY <1>1, <1>4, <2>1, <3>1 DEF Inv, LockOK, Still
    <2>4. ActorOK'
        BY <1>1, <1>3, <1>4, <2>1 DEF Inv, ActorOK, Dialing, Answered, Hello, Still
    <2>5. FreshOK'
        BY <1>1, <1>4, <2>1 DEF Inv, FreshOK, Hosted, Still, Bumping
    <2>6. CacheOK'
        BY <1>1 DEF Inv, CacheOK, WritesStay, RecordedStays, DeletedStaysGone, Hosted, Still
    <2>7. \A o \in Ops : OpOK(o)'
        BY <1>1, <1>2, OpsKeep DEF Still
    <2> QED BY <1>2, <2>2, <2>3, <2>4, <2>5, <2>6, <2>7 DEF Inv
<1>5. CASE /\ UNCHANGED lock
           /\ actor' = [actor EXCEPT !.pc = "check", !.ends = FALSE,
                          !.live = IF epoch = actor.sampled THEN "set" ELSE "retain"]
    <2>1. /\ actor' \in ActorRecords /\ actor'.pc = "check" /\ actor'.seen = actor.seen
          /\ actor'.sampled = actor.sampled /\ actor'.conn = actor.conn
          /\ actor'.entries = actor.entries
        BY <1>5, StatusFacts DEF ActorRecords, ActorPcs
    <2>2. ActorOK'
        BY <1>1, <1>3, <2>1 DEF Inv, ActorOK, Dialing, Hello, Still
    <2>3. FreshOK'
        BY <2>1 DEF FreshOK
    <2> QED BY <1>1, <1>2, <1>5, <2>1, <2>2, <2>3, ActorStep
<1> QED BY <1>4, <1>5 DEF CompareEpoch

\* The fresh walk holds the lock, so nothing is between its write and its bump.
LEMMA ReplaceInv == ASSUME Inv, UNCHANGED identified, ReplaceSessions PROVE Inv'
<1> USE HostAssumption
<1>1. /\ actor.pc = "write" /\ lock = "actor" /\ lock' = None
      /\ UNCHANGED <<world, dest, ident, manager, status, tokens, nudge, epoch, op, late, hist>>
    BY DEF ReplaceSessions, Inv, LockOK
<1>2. /\ identified /\ actor.sampled = epoch /\ actor.conn \in Connections /\ actor.conn # None
      /\ actor.conn.ident = actor.conn.install /\ actor.conn.install \in Installs
      /\ \A s \in actor.entries : owner[s] = actor.conn.install
    BY <1>1, StatusFacts DEF Inv, ActorOK, Connected, Answered, Hello, Connections
<1>3. \A o \in Ops : op[o].pc \notin {"write", "bump"}
    BY <1>1 DEF Inv, LockOK
<1>4. /\ actor.entries \cap gone = {}
      /\ told \cap Hosted(actor.conn.install) \subseteq actor.entries
    BY <1>1, <1>2, <1>3 DEF Inv, FreshOK, Bumping
<1>5. /\ actor' \in ActorRecords /\ actor'.pc = "check" /\ actor'.seen = actor.seen
      /\ actor'.sampled = actor.sampled /\ actor'.conn = actor.conn /\ actor'.live = "retain"
    BY StatusFacts DEF ReplaceSessions, ActorRecords, ActorPcs
<1>6. cache' \in {cache, actor.entries} /\ (cache' # cache => ident = actor.conn.install)
    BY <1>2 DEF ReplaceSessions
<1>7. Typed'
    BY <1>1, <1>5, <1>6, StatusFacts DEF Inv, Typed, world, manager, hist
<1>8. StatusOK'
    BY <1>1 DEF Inv, StatusOK, RoutedWhereTheRowPoints, MemoryOfItsConnection, Hello, world, manager
<1>9. LockOK'
    BY <1>1, <1>3, <1>5 DEF Inv, LockOK, manager
<1>10. ActorOK'
    BY <1>1, <1>2, <1>5 DEF Inv, ActorOK, Dialing, Answered, Hello, manager
<1>11. FreshOK'
    BY <1>5 DEF FreshOK
<1>12. CacheOK'
    <2>1. \A s \in cache' : identified /\ ident # None /\ owner[s] = ident
        BY <1>2, <1>6 DEF Inv, CacheOK
    <2>2. WritesStay'
        BY <1>1, <1>2, <1>4, <1>6 DEF Inv, CacheOK, WritesStay, RecordedStays, DeletedStaysGone, Hosted, world, hist
    <2> QED BY <1>1, <2>1, <2>2 DEF Inv, CacheOK, world, hist
<1>13. \A o \in Ops : OpOK(o)'
    BY <1>1, <1>3, StatusFacts DEF Inv, OpOK, Hello, world, hist
<1> QED BY <1>7, <1>8, <1>9, <1>10, <1>11, <1>12, <1>13 DEF Inv

LEMMA WalkNudgedInv == ASSUME Inv, UNCHANGED identified, WalkNudged PROVE Inv'
<1> USE HostAssumption
<1>1. /\ actor.pc \in {"asked", "lock", "write"} /\ Goto("end") /\ nudge' \in BOOLEAN
      /\ UNCHANGED <<world, store, manager, status, tokens, epoch, op, told, gone>>
    BY DEF WalkNudged
<1>2. "end" \in ActorPcs /\ "end" \notin Dialing
    BY DEF ActorPcs, Dialing
<1>3. /\ actor' \in ActorRecords /\ actor'.pc = "end" /\ actor'.seen = actor.seen
      /\ actor'.sampled = actor.sampled
    BY <1>1, <1>2, GotoFacts
<1>4. ActorOK' /\ FreshOK'
    BY <1>1, <1>2, <1>3 DEF Inv, ActorOK, FreshOK, Connected, Answered
<1>5. CASE actor.pc # "write"
    <2>1. UNCHANGED Still /\ lock' = lock /\ Unpublished
        BY <1>1, <1>5 DEF WalkNudged, Still, world, store, manager, Unpublished
    <2> QED BY <1>1, <1>3, <1>4, <1>5, <2>1, Unpublishing, ActorStep DEF Still
<1>6. CASE actor.pc = "write"
    <2> DEFINE w == [ident |-> actor.conn.ident, entries |-> actor.entries]
    <2>1. lock' = None /\ lock = "actor" /\ late' = late \cup {w} /\ dropped' = TRUE
        BY <1>6 DEF WalkNudged, Inv, LockOK
    <2>2. /\ identified /\ w \in LateRecords /\ \A s \in w.entries : owner[s] = w.ident
        <3>1. identified /\ actor.conn \in Connections /\ actor.conn # None
            BY <1>6, StatusFacts DEF Inv, ActorOK, Connected
        <3>2. actor.conn.ident = actor.conn.install /\ actor.conn.install \in Installs
            BY <1>6, <3>1 DEF Inv, ActorOK, Connected, Hello, Connections
        <3>3. \A s \in actor.entries : owner[s] = actor.conn.install
            BY <1>6 DEF Inv, ActorOK, Answered
        <3> QED BY <3>1, <3>2, <3>3, StatusFacts DEF LateRecords
    <2> HIDE DEF w
    <2>3. Typed'
        BY <1>1, <1>3, <2>1, <2>2 DEF Inv, Typed, world, store, manager
    <2>4. StatusOK'
        BY <1>1 DEF Inv, StatusOK, RoutedWhereTheRowPoints, MemoryOfItsConnection, Hello, world, store, manager
    <2>5. LockOK'
        BY <1>1, <1>3, <2>1 DEF Inv, LockOK, manager
    <2>6. CacheOK'
        BY <1>1, <2>1, <2>2 DEF Inv, CacheOK, WritesStay, RecordedStays, DeletedStaysGone, world, store
    <2>7. \A o \in Ops : OpOK(o)'
        BY <1>1, <2>1 DEF Inv, OpOK, Hello, world, store
    <2> QED BY <1>4, <2>3, <2>4, <2>5, <2>6, <2>7 DEF Inv
<1> QED BY <1>5, <1>6

LEMMA LateReplaceInv == ASSUME Inv, UNCHANGED identified, NEW w \in late, LateReplace(w) PROVE Inv'
<1>1. /\ UNCHANGED <<world, dest, ident, manager, status, tokens, nudge, lock, epoch, actor, op, hist>>
      /\ late' \subseteq late
    BY DEF LateReplace
<1>2. identified /\ dropped /\ w \in LateRecords /\ \A s \in w.entries : owner[s] = w.ident
    BY DEF Inv, Typed, CacheOK
<1>3. cache' \in {cache, w.entries} /\ (cache' # cache => ident = w.ident)
    BY DEF LateReplace
<1>4. w.ident \in Installs /\ w.entries \subseteq Sessions
    BY <1>2 DEF LateRecords
<1>5. Typed'
    BY <1>1, <1>3, <1>4 DEF Inv, Typed, world, manager, hist
<1>6. StatusOK'
    BY <1>1 DEF Inv, StatusOK, RoutedWhereTheRowPoints, MemoryOfItsConnection, Hello, world, manager
<1>7. LockOK' /\ ActorOK' /\ FreshOK'
    BY <1>1 DEF Inv, LockOK, ActorOK, FreshOK, Bumping, Hello, Hosted, world, manager, hist
<1>8. CacheOK'
    <2>1. \A s \in cache' : identified /\ ident # None /\ owner[s] = ident
        BY <1>2, <1>3, <1>4, HostAssumption DEF Inv, CacheOK
    <2> QED BY <1>1, <1>2, <2>1 DEF Inv, CacheOK, WritesStay, RecordedStays, DeletedStaysGone, world, hist
<1>9. \A o \in Ops : OpOK(o)'
    BY <1>1, <1>2 DEF Inv, OpOK, Hello, world, hist
<1> QED BY <1>5, <1>6, <1>7, <1>8, <1>9 DEF Inv

\* A withdrawal by the manager: no client, and a new incarnation.
LEMMA WithdrawFacts ==
    ASSUME Inv, Withdraw
    PROVE  StatusOK' /\ Reissued /\ status'.inc = tokens
<1>1. tokens \in Nat
    BY StatusFacts
<1>2. /\ status' = [phase |-> "connecting", client |-> None, live |-> None, shown |-> None, inc |-> tokens]
      /\ tokens' = tokens + 1
    BY DEF Withdraw
<1>3. None \in Connections \cup {None} /\ None \in (SUBSET Sessions) \cup {None} /\ None \in Shown \cup {None}
    OBVIOUS
<1>4. status' \in StatusRecords
    BY <1>1, <1>2, <1>3 DEF StatusRecords
<1> QED BY <1>1, <1>2, <1>4 DEF StatusOK, Reissued, RoutedWhereTheRowPoints, MemoryOfItsConnection

\* A step that touches the lists of sessions not at all.
Lists == <<owner, deleted, cache, ident, told, gone, dropped, late, epoch, op, actor, identified>>

LEMMA ListsKeep ==
    ASSUME Inv, UNCHANGED Lists, Reissued
    PROVE  CacheOK' /\ FreshOK' /\ \A o \in Ops : OpOK(o)'
<1>1. CacheOK'
    BY DEF Inv, CacheOK, WritesStay, RecordedStays, DeletedStaysGone, Hosted, Lists
<1>2. FreshOK'
    BY DEF Inv, FreshOK, Bumping, Hosted, Lists
<1>3. \A o \in Ops : OpOK(o)'
    BY OpsKeep DEF Lists
<1> QED BY <1>1, <1>2, <1>3

\* The actor keeps its locals while the row moves or the status is withdrawn.
LEMMA ActorKeeps ==
    ASSUME Inv, UNCHANGED Lists, Reissued,
           edit' = None => UNCHANGED <<edit, dest>> \/ status'.inc = tokens
    PROVE  ActorOK'
<1>1. actor.seen < tokens /\ actor.seen \in Nat /\ tokens \in Nat /\ tokens' \in Nat /\ tokens <= tokens'
    BY StatusFacts DEF Inv, ActorOK, Reissued
<1>2. status'.inc = actor.seen /\ edit' = None => status.inc = actor.seen /\ edit = None /\ dest' = dest
    BY <1>1 DEF Reissued
<1> QED BY <1>1, <1>2 DEF Inv, ActorOK, Hello, Lists

LEMMA EditInv ==
    ASSUME Inv, UNCHANGED identified,
           RetryNow \/ SyncRegistry \/ AdoptRead \/ AdoptPublish
             \/ \E d \in Dests : UpdateDestination(d) \/ Reinstall(d)
    PROVE  Inv'
<1> USE HostAssumption
<1>1. UNCHANGED Lists
    BY DEF RetryNow, SyncRegistry, AdoptRead, AdoptPublish, UpdateDestination, Reinstall, Lists, world,
           store, hist, manager
<1>2. Reissued
    BY WithdrawFacts, StatusFacts
       DEF RetryNow, SyncRegistry, AdoptRead, AdoptPublish, UpdateDestination, Reinstall, Reissued
<1>3. edit' = None => UNCHANGED <<edit, dest>> \/ status'.inc = tokens
    BY WithdrawFacts DEF RetryNow, SyncRegistry, AdoptRead, AdoptPublish, UpdateDestination, Reinstall,
           manager, store
<1>4. StatusOK'
    <2>1. CASE UNCHANGED <<status, tokens>>
        <3>1. edit' = None => UNCHANGED <<edit, dest>>
            BY <1>3, <2>1, StatusFacts
        <3>2. UNCHANGED <<owner, identified>>
            BY <1>1 DEF Lists
        <3> QED BY <2>1, <3>1, <3>2 DEF Inv, StatusOK, RoutedWhereTheRowPoints, MemoryOfItsConnection, Hello
    <2>2. CASE Withdraw
        BY <2>2, WithdrawFacts
    <2> QED BY <2>1, <2>2 DEF RetryNow, SyncRegistry, AdoptRead, AdoptPublish, UpdateDestination, Reinstall
<1>5. Typed'
    <2>1. at' \in [Dests -> Installs]
        BY DEF RetryNow, SyncRegistry, AdoptRead, AdoptPublish, UpdateDestination, Reinstall, world,
               Inv, Typed
    <2>2. dest' \in Dests /\ known' \in Dests /\ edit' \in Dests \cup {None}
        BY DEF RetryNow, SyncRegistry, AdoptRead, AdoptPublish, UpdateDestination, Reinstall, store, manager,
               Inv, Typed
    <2>3. adopt' \in AdoptRecords \cup {None}
        <3>1. CASE AdoptRead
            <4>1. status.shown \in Shown /\ known \in Dests
                BY <3>1 DEF AdoptRead, Inv, StatusOK, Typed
            <4>2. status.shown.recorded \in Installs \cup {None} /\ status.shown.reported \in Installs \cup {None}
                BY <4>1 DEF Shown
            <4> QED BY <3>1, <4>1, <4>2 DEF AdoptRead, AdoptRecords
        <3>2. CASE adopt' \in {adopt, None}
            BY <3>2 DEF Inv, Typed
        <3> QED BY <3>1, <3>2
                DEF RetryNow, SyncRegistry, AdoptPublish, UpdateDestination, Reinstall, manager
    <2>4. nudge' \in BOOLEAN /\ lock' \in Ops \cup {"actor", "edit", None}
        BY DEF RetryNow, SyncRegistry, AdoptRead, AdoptPublish, UpdateDestination, Reinstall, Inv, Typed
    <2> QED BY <1>1, <1>2, <2>1, <2>2, <2>3, <2>4 DEF Inv, Typed, Lists, Reissued
<1>6. LockOK'
    <2>1. CASE UNCHANGED <<lock, edit>>
        BY <1>1, <2>1 DEF Inv, LockOK, Lists
    <2>2. CASE SyncRegistry
        <3>1. lock = "edit" /\ lock' = None /\ edit' = None
            BY <2>2 DEF SyncRegistry, Inv, LockOK
        <3> QED BY <1>1, <3>1 DEF Inv, LockOK, Lists
    <2>3. CASE \E d \in Dests : UpdateDestination(d)
        <3>1. lock = None /\ lock' = "edit" /\ edit' # None
            BY <2>3 DEF UpdateDestination
        <3>2. \A o \in Ops : o # None /\ o # "edit"
            OBVIOUS
        <3> QED BY <1>1, <3>1, <3>2 DEF Inv, LockOK, Lists
    <2> QED BY <2>1, <2>2, <2>3 DEF RetryNow, AdoptRead, AdoptPublish, Reinstall, manager
<1> QED BY <1>1, <1>2, <1>3, <1>4, <1>5, <1>6, ListsKeep, ActorKeeps DEF Inv

\* An adoption empties the cache, and nothing recorded before it counts.
LEMMA AdoptStoreInv == ASSUME Inv, UNCHANGED identified, AdoptStore PROVE Inv'
<1>1. /\ UNCHANGED <<world, dest, known, edit, status, tokens, nudge, lock, epoch, actor, op, late, gone, dropped>>
      /\ adopt \in AdoptRecords /\ adopt # None
    BY DEF AdoptStore, Inv, Typed
<1>2. CASE UNCHANGED <<ident, cache, told>> /\ adopt' = None
    <2>1. Typed'
        BY <1>1, <1>2 DEF Inv, Typed, world
    <2>2. UNCHANGED Lists /\ Reissued /\ UNCHANGED <<edit, dest>>
        BY <1>1, <1>2, StatusFacts DEF Lists, world, Reissued
    <2>3. StatusOK' /\ LockOK'
        BY <1>1 DEF Inv, StatusOK, LockOK, RoutedWhereTheRowPoints, MemoryOfItsConnection, Hello, world
    <2> QED BY <2>1, <2>2, <2>3, ListsKeep, ActorKeeps DEF Inv
<1>3. CASE ident' = adopt.reported /\ cache' = {} /\ told' = {} /\ adopt' = [adopt EXCEPT !.pc = "publish"]
    <2>1. adopt' \in AdoptRecords /\ ident' \in Installs \cup {None}
        BY <1>1, <1>3 DEF AdoptRecords
    <2>2. Typed'
        BY <1>1, <1>3, <2>1 DEF Inv, Typed, world
    <2>3. StatusOK' /\ LockOK'
        BY <1>1 DEF Inv, StatusOK, LockOK, RoutedWhereTheRowPoints, MemoryOfItsConnection, Hello, world
    <2>4. ActorOK' /\ FreshOK'
        BY <1>1, <1>3 DEF Inv, ActorOK, FreshOK, Bumping, Hello, world
    <2>5. CacheOK'
        BY <1>1, <1>3 DEF Inv, CacheOK, WritesStay, RecordedStays, DeletedStaysGone, world
    <2>6. \A o \in Ops : OpOK(o)'
        BY <1>1, <1>3 DEF Inv, OpOK, Hello, world
    <2> QED BY <2>2, <2>3, <2>4, <2>5, <2>6 DEF Inv
<1> QED BY <1>2, <1>3 DEF AdoptStore

OpPcs == {"idle", "sent", "replied", "write", "bump", "done"}

LEMMA OpFacts ==
    ASSUME Inv, NEW o \in Ops, NEW p \in OpPcs, op' = [op EXCEPT ![o].pc = p]
    PROVE  /\ op' \in [Ops -> OpRecords]
           /\ op'[o].pc = p /\ op'[o].kind = op[o].kind /\ op'[o].s = op[o].s
           /\ op'[o].inc = op[o].inc /\ op'[o].conn = op[o].conn
           /\ \A q \in Ops \ {o} : op'[q] = op[q]
<1>1. op \in [Ops -> OpRecords] /\ op[o] \in OpRecords
    BY DEF Inv, Typed
<1> DEFINE x == [op[o] EXCEPT !.pc = p]
<1>2. /\ x \in OpRecords /\ x.pc = p /\ x.kind = op[o].kind /\ x.s = op[o].s
      /\ x.inc = op[o].inc /\ x.conn = op[o].conn
    BY <1>1 DEF OpRecords, OpPcs
<1>3. op' = [op EXCEPT ![o] = x]
    BY <1>1
<1> HIDE DEF x
<1> QED BY <1>1, <1>2, <1>3

LEMMA RouteInv ==
    ASSUME Inv, UNCHANGED identified, NEW o \in Ops, NEW k \in Kinds, NEW s \in Sessions \cup {None},
           Route(o, k, s)
    PROVE  Inv'
<1> DEFINE x == [pc |-> "sent", kind |-> k, s |-> s, inc |-> status.inc, conn |-> status.client]
<1>1. /\ op[o].pc = "idle" /\ status.client # None /\ op' = [op EXCEPT ![o] = x]
      /\ UNCHANGED <<world, store, manager, status, tokens, nudge, lock, epoch, actor, late, hist>>
    BY DEF Route
<1>2. /\ x \in OpRecords /\ x.pc = "sent" /\ x.kind = k /\ x.inc = status.inc /\ x.conn = status.client
      /\ x.conn # None /\ x.inc < tokens /\ x.conn.ident = Hello(x.conn.install)
    BY <1>1, StatusFacts DEF OpRecords, Inv, StatusOK
<1> HIDE DEF x
<1>3. op' \in [Ops -> OpRecords] /\ op'[o] = x /\ \A q \in Ops \ {o} : op'[q] = op[q]
    BY <1>1, <1>2 DEF Inv, Typed
<1>4. Typed'
    BY <1>1, <1>3 DEF Inv, Typed, world, store, manager, hist
<1>5. StatusOK'
    BY <1>1 DEF Inv, StatusOK, RoutedWhereTheRowPoints, MemoryOfItsConnection, Hello, world, store, manager
<1>6. LockOK'
    BY <1>1, <1>2, <1>3 DEF Inv, LockOK, manager
<1>7. ActorOK'
    BY <1>1 DEF Inv, ActorOK, Hello, world, store, manager
<1>8. FreshOK'
    BY <1>1, <1>2, <1>3 DEF Inv, FreshOK, Bumping, Hosted, world, hist
<1>9. CacheOK'
    BY <1>1 DEF Inv, CacheOK, WritesStay, RecordedStays, DeletedStaysGone, Hosted, world, store, hist
<1>10. ASSUME NEW q \in Ops PROVE OpOK(q)'
    <2>1. CASE q = o
        BY <1>1, <1>2, <1>3, <2>1 DEF OpOK, Hello
    <2>2. CASE q # o
        BY <1>1, <1>3, <2>2 DEF Inv, OpOK, Hello, world, store, hist
    <2> QED BY <2>1, <2>2
<1> QED BY <1>4, <1>5, <1>6, <1>7, <1>8, <1>9, <1>10 DEF Inv

\* The request is lost, or finds its claim withdrawn, or takes the lock.
LEMMA WaitsInv == ASSUME Inv, UNCHANGED identified, NEW o \in Ops, Lost(o) \/ TakeLock(o) PROVE Inv'
<1> USE HostAssumption
<1>1. /\ op[o].pc \in {"sent", "replied"}
      /\ UNCHANGED <<world, store, manager, status, tokens, nudge, epoch, actor, late, hist>>
    BY DEF Lost, TakeLock
<1>2. PICK p \in {"write", "done"} :
          /\ op' = [op EXCEPT ![o].pc = p]
          /\ p = "write" => op[o].pc = "replied" /\ lock = None /\ lock' = o
          /\ p = "done" => lock' = lock
    BY DEF Lost, TakeLock
<1>3. /\ op' \in [Ops -> OpRecords]
      /\ op'[o].pc = p /\ op'[o].kind = op[o].kind /\ op'[o].s = op[o].s
      /\ op'[o].inc = op[o].inc /\ op'[o].conn = op[o].conn
      /\ \A q \in Ops \ {o} : op'[q] = op[q]
    BY <1>2, OpFacts DEF OpPcs
<1>4. Typed'
    BY <1>1, <1>2, <1>3 DEF Inv, Typed, world, store, manager, hist
<1>5. StatusOK'
    BY <1>1 DEF Inv, StatusOK, RoutedWhereTheRowPoints, MemoryOfItsConnection, Hello, world, store, manager
<1>6. LockOK'
    <2>1. \A q \in Ops : q # None /\ q # "actor" /\ q # "edit"
        OBVIOUS
    <2>2. CASE p = "write"
        BY <1>1, <1>2, <1>3, <2>1, <2>2 DEF Inv, LockOK, manager
    <2>3. CASE p = "done"
        BY <1>1, <1>2, <1>3, <2>1, <2>3 DEF Inv, LockOK, manager
    <2> QED BY <2>2, <2>3
<1>7. ActorOK'
    BY <1>1 DEF Inv, ActorOK, Hello, world, store, manager
<1>8. FreshOK'
    BY <1>1, <1>3 DEF Inv, FreshOK, Bumping, Hosted, world, hist
<1>9. CacheOK'
    BY <1>1 DEF Inv, CacheOK, WritesStay, RecordedStays, DeletedStaysGone, Hosted, world, store, hist
<1>10. ASSUME NEW q \in Ops PROVE OpOK(q)'
    <2>1. CASE q = o
        BY <1>1, <1>2, <1>3, <2>1 DEF Inv, OpOK, Hello, world, store, hist
    <2>2. CASE q # o
        BY <1>1, <1>3, <2>2 DEF Inv, OpOK, Hello, world, store, hist
    <2> QED BY <2>1, <2>2
<1> QED BY <1>4, <1>5, <1>6, <1>7, <1>8, <1>9, <1>10 DEF Inv

\* The host acts: a session is created on one install for ever.
LEMMA ExecuteInv == ASSUME Inv, UNCHANGED identified, NEW o \in Ops, Execute(o) PROVE Inv'
<1> USE HostAssumption
<1>1. /\ op[o].pc = "sent"
      /\ UNCHANGED <<at, store, manager, status, tokens, nudge, lock, epoch, actor, late, hist>>
    BY DEF Execute
<1>2. OpOK(o) /\ op[o] \in OpRecords /\ op[o].conn \in Connections /\ op[o].conn.install \in Installs
    BY <1>1 DEF Inv, Typed, OpOK, OpRecords, Connections
<1>3. PICK p \in {"replied", "done"}, t \in Sessions \cup {None} :
          /\ op' = [op EXCEPT ![o].pc = p, ![o].s = t]
          /\ p = "replied" => /\ t \in Sessions /\ owner'[t] = op[o].conn.install
                              /\ op[o].kind = "delete" => t \in deleted'
    <2>1. CASE op[o].kind = "create" /\ \E t \in Sessions :
                  /\ owner[t] = None /\ owner' = [owner EXCEPT ![t] = op[o].conn.install]
                  /\ op' = [op EXCEPT ![o].pc = "replied", ![o].s = t]
        BY <2>1 DEF Inv, Typed
    <2>2. CASE /\ op[o].kind \in {"touch", "delete"} /\ op[o].s \in Hosted(op[o].conn.install)
               /\ op' = [op EXCEPT ![o].pc = "replied", ![o].s = op[o].s]
               /\ owner' = owner /\ (op[o].kind = "delete" => deleted' = deleted \cup {op[o].s})
        <3>1. op[o].s \in Sessions /\ owner[op[o].s] = op[o].conn.install
            BY <2>2 DEF Hosted
        <3> QED BY <2>2, <3>1
    <2>3. CASE op' = [op EXCEPT ![o].pc = "done"]
        <3>1. op' = [op EXCEPT ![o].pc = "done", ![o].s = op[o].s]
            BY <1>2, <2>3 DEF Inv, Typed, OpRecords
        <3> QED BY <1>2, <3>1 DEF OpRecords
    <2> QED BY <2>1, <2>2, <2>3 DEF Execute
<1>4. /\ owner' \in [Sessions -> Installs \cup {None}] /\ deleted \subseteq deleted' /\ deleted' \subseteq Sessions
      /\ \A s \in Sessions : owner[s] # None => owner'[s] = owner[s]
    <2>1. CASE op[o].kind = "create" /\ deleted' = deleted /\ \E n \in Sessions :
                  owner[n] = None /\ owner' = [owner EXCEPT ![n] = op[o].conn.install]
        BY <1>2, <2>1 DEF Inv, Typed
    <2>2. CASE owner' = owner /\ (deleted' = deleted \/ (/\ deleted' = deleted \cup {op[o].s}
                                                          /\ op[o].s \in Hosted(op[o].conn.install)))
        BY <2>2 DEF Inv, Typed, Hosted
    <2> QED BY <2>1, <2>2 DEF Execute
<1>5. /\ op' \in [Ops -> OpRecords]
      /\ op'[o].pc = p /\ op'[o].kind = op[o].kind /\ op'[o].s = t
      /\ op'[o].inc = op[o].inc /\ op'[o].conn = op[o].conn
      /\ \A q \in Ops \ {o} : op'[q] = op[q]
    <2> DEFINE x == [op[o] EXCEPT !.pc = p, !.s = t]
    <2>1. /\ x \in OpRecords /\ x.pc = p /\ x.kind = op[o].kind /\ x.s = t
          /\ x.inc = op[o].inc /\ x.conn = op[o].conn
        BY <1>2 DEF OpRecords
    <2>2. op' = [op EXCEPT ![o] = x]
        BY <1>3 DEF Inv, Typed
    <2> HIDE DEF x
    <2> QED BY <2>1, <2>2 DEF Inv, Typed
<1>6. Typed'
    BY <1>1, <1>4, <1>5 DEF Inv, Typed, store, manager, hist
<1>7. StatusOK'
    <2>1. status.live # None => \A s \in status.live : s \in Sessions /\ owner'[s] = status.client.install
        <3>1. SUFFICES ASSUME status.live # None, NEW s \in status.live
              PROVE s \in Sessions /\ owner'[s] = status.client.install
            OBVIOUS
        <3>2. s \in Sessions /\ status.client \in Connections /\ owner[s] = status.client.install
            BY <3>1, StatusFacts DEF Inv, StatusOK, MemoryOfItsConnection
        <3>3. owner[s] # None
            BY <3>2 DEF Connections
        <3> QED BY <1>4, <3>2, <3>3
    <2> QED BY <1>1, <2>1 DEF Inv, StatusOK, RoutedWhereTheRowPoints, MemoryOfItsConnection, Hello, store, manager
<1>8. LockOK'
    BY <1>1, <1>3, <1>5 DEF Inv, LockOK, manager
<1>9. ActorOK'
    <2>1. Answered(actor) => \A s \in actor.entries : owner'[s] = actor.conn.install
        <3>1. SUFFICES ASSUME Answered(actor), NEW s \in actor.entries PROVE owner'[s] = actor.conn.install
            OBVIOUS
        <3>2. s \in Sessions /\ actor.conn \in Connections /\ owner[s] = actor.conn.install
            BY <3>1, StatusFacts DEF Inv, ActorOK, Connected, Answered
        <3>3. owner[s] # None
            BY <3>2 DEF Connections
        <3> QED BY <1>4, <3>2, <3>3
    <2> QED BY <1>1, <2>1 DEF Inv, ActorOK, Hello, store, manager
<1>10. identified => \A s \in told : s \in Sessions /\ owner[s] # None /\ owner'[s] = owner[s]
    BY <1>4 DEF Inv, Typed, CacheOK
<1>11. FreshOK'
    <2>1. Bumping' = Bumping
        BY <1>1, <1>3, <1>5 DEF Bumping
    <2>2. identified => told \cap Hosted(actor.conn.install)' \subseteq Hosted(actor.conn.install)
        BY <1>1, <1>4, <1>10 DEF Hosted
    <2> QED BY <1>1, <2>1, <2>2 DEF Inv, FreshOK, hist
<1>12. CacheOK'
    <2>1. \A s \in cache : identified /\ ident # None /\ owner'[s] = ident
        BY <1>4 DEF Inv, Typed, CacheOK
    <2>2. \A w \in late : identified /\ dropped /\ \A s \in w.entries : owner'[s] = w.ident
        <3>1. SUFFICES ASSUME NEW w \in late, NEW s \in w.entries PROVE owner'[s] = w.ident
            BY DEF Inv, CacheOK
        <3>2. w.ident \in Installs /\ s \in Sessions /\ owner[s] = w.ident
            BY DEF Inv, Typed, CacheOK, LateRecords
        <3> QED BY <1>4, <3>2
    <2>3. identified => told \cap Hosted(ident)' \subseteq told \cap Hosted(ident)
        BY <1>1, <1>4, <1>10 DEF Hosted, store
    <2>4. WritesStay'
        BY <1>1, <2>3 DEF Inv, CacheOK, WritesStay, RecordedStays, DeletedStaysGone, store, hist
    <2> QED BY <1>1, <1>4, <1>10, <2>1, <2>2, <2>4 DEF Inv, CacheOK, store, hist
<1>13. ASSUME NEW q \in Ops PROVE OpOK(q)'
    <2>1. CASE q = o
        BY <1>1, <1>2, <1>3, <1>5, <2>1 DEF OpOK, Hello
    <2>2. CASE q # o
        <3>1. op[q].pc \in {"replied", "write", "bump"} => owner'[op[q].s] = owner[op[q].s]
            <4>1. OpOK(q) /\ op[q].conn \in Connections \cup {None}
                BY DEF Inv, Typed, OpRecords
            <4>2. op[q].conn # None => op[q].conn.install \in Installs
                BY <4>1 DEF Connections
            <4> QED BY <1>4, <4>1, <4>2 DEF OpOK
        <3> QED BY <1>1, <1>4, <1>5, <2>2, <3>1 DEF Inv, OpOK, Hello, store, hist
    <2> QED BY <2>1, <2>2
<1> QED BY <1>6, <1>7, <1>8, <1>9, <1>11, <1>12, <1>13 DEF Inv

\* The write of a list by an operation, which holds the lock.
LEMMA WriteListInv == ASSUME Inv, UNCHANGED identified, NEW o \in Ops, WriteList(o) PROVE Inv'
<1> USE HostAssumption
<1> DEFINE s == op[o].s
           i == op[o].conn.install
           del == op[o].kind = "delete"
<1>1. /\ op[o].pc = "write" /\ lock = o /\ actor.pc # "write"
      /\ UNCHANGED <<world, dest, ident, manager, tokens, nudge, epoch, actor, late, dropped>>
      /\ \A q \in Ops \ {o} : op[q].pc \notin {"write", "bump"}
    BY DEF WriteList, Inv, LockOK
<1>2. /\ s \in Sessions /\ owner[s] = i /\ i \in Installs /\ op[o].conn \in Connections
      /\ del => s \in deleted
      /\ op[o].conn.ident = Hello(i)
      /\ status.client # None /\ status.inc = op[o].inc => status.client = op[o].conn
    BY <1>1 DEF Inv, Typed, OpOK, OpRecords, Connections
<1>3. PICK p \in {"bump", "done"} :
          /\ op' = [op EXCEPT ![o].pc = p]
          /\ lock' = IF p = "bump" THEN lock ELSE None
          /\ identified => (p = "bump" <=> ident = op[o].conn.ident)
          /\ cache' = IF identified /\ p = "bump" THEN With(cache, o) ELSE cache
          /\ IF p = "bump" /\ ~del
             THEN told' = told \cup {s} /\ gone' = gone \ {s}
             ELSE UNCHANGED <<told, gone>>
    BY DEF WriteList
<1>4. \/ status' = status
      \/ /\ status.live # None /\ status.client # None /\ status.inc = op[o].inc
         /\ status' = [status EXCEPT !.live = With(status.live, o)]
    BY DEF WriteList
<1>5. /\ op' \in [Ops -> OpRecords]
      /\ op'[o].pc = p /\ op'[o].kind = op[o].kind /\ op'[o].s = s
      /\ op'[o].inc = op[o].inc /\ op'[o].conn = op[o].conn
      /\ \A q \in Ops \ {o} : op'[q] = op[q]
    BY <1>3, OpFacts DEF OpPcs
<1>6. cache' \subseteq Sessions /\ told' \subseteq Sessions /\ gone' \subseteq gone
    BY <1>2, <1>3 DEF Inv, Typed, With
<1>7. Typed'
    BY <1>1, <1>3, <1>5, <1>6 DEF Inv, Typed, world, manager
<1>8. StatusOK' /\ status'.inc = status.inc /\ status'.client = status.client
    <2>1. CASE status' = status
        BY <1>1, <2>1 DEF Inv, StatusOK, RoutedWhereTheRowPoints, MemoryOfItsConnection, Hello, world, manager
    <2>2. CASE /\ status.live # None /\ status.client # None /\ status.inc = op[o].inc
               /\ status' = [status EXCEPT !.live = With(status.live, o)]
        <3> DEFINE l == With(status.live, o)
        <3>1. l \in SUBSET Sessions /\ \A t \in l : owner[t] = status.client.install
            BY <1>2, <2>2, StatusFacts DEF Inv, StatusOK, MemoryOfItsConnection, With
        <3>2. status' = [status EXCEPT !.live = l]
            BY <2>2
        <3> HIDE DEF l
        <3>3. /\ status' \in StatusRecords /\ status'.live = l /\ status'.client = status.client
              /\ status'.inc = status.inc /\ status'.phase = status.phase /\ status'.shown = status.shown
            BY <3>1, <3>2, StatusFacts DEF StatusRecords
        <3> QED BY <1>1, <2>2, <3>1, <3>3
                DEF Inv, StatusOK, RoutedWhereTheRowPoints, MemoryOfItsConnection, Hello, world, manager
    <2> QED BY <1>4, <2>1, <2>2
<1>9. LockOK'
    <2>1. \A q \in Ops : q # None /\ q # "actor" /\ q # "edit"
        OBVIOUS
    <2> QED BY <1>1, <1>3, <1>5, <2>1 DEF Inv, LockOK, manager
<1>10. ActorOK'
    BY <1>1, <1>8 DEF Inv, ActorOK, Hello, world, manager
<1>11. FreshOK'
    <2>1. CASE p = "bump"
        <3>1. Bumping'
            BY <1>5, <2>1 DEF Bumping
        <3> QED BY <1>1, <1>6, <3>1 DEF Inv, FreshOK
    <2>2. CASE p = "done"
        <3>1. ~Bumping /\ UNCHANGED <<told, gone>>
            BY <1>1, <1>3, <2>2 DEF Bumping
        <3> QED BY <1>1, <3>1 DEF Inv, FreshOK, Hosted, world
    <2> QED BY <2>1, <2>2
<1>12. CacheOK'
    <2>1. identified /\ p = "bump" => ident = i /\ ident # None
        BY <1>2, <1>3 DEF Hello
    <2>2. \A t \in cache' : identified /\ ident # None /\ owner[t] = ident
        BY <1>2, <1>3, <2>1 DEF Inv, CacheOK, With
    <2>3. identified => \A t \in told' : ident # None /\ owner[t] = ident
        BY <1>2, <1>3, <2>1 DEF Inv, CacheOK
    <2>4. identified /\ ~dropped => told' \cap Hosted(ident) \subseteq cache'
        BY <1>2, <1>3 DEF Inv, CacheOK, WritesStay, RecordedStays, With, Hosted
    <2>5. identified /\ ~dropped => gone' \cap cache' = {}
        BY <1>2, <1>3 DEF Inv, CacheOK, WritesStay, DeletedStaysGone, With
    <2>6. WritesStay'
        BY <1>1, <2>4, <2>5 DEF WritesStay, RecordedStays, DeletedStaysGone, Hosted, world
    <2> QED BY <1>1, <1>6, <2>2, <2>3, <2>6 DEF Inv, CacheOK, world
<1>13. ASSUME NEW q \in Ops PROVE OpOK(q)'
    <2>1. CASE q = o
        <3>1. del /\ p = "bump" /\ identified => s \notin cache'
            BY <1>3 DEF With
        <3> QED BY <1>1, <1>5, <1>8, <2>1, <3>1 DEF Inv, OpOK, Hello, world
    <2>2. CASE q # o
        BY <1>1, <1>5, <1>8, <2>2 DEF Inv, OpOK, Hello, world
    <2> QED BY <2>1, <2>2
<1> QED BY <1>7, <1>8, <1>9, <1>10, <1>11, <1>12, <1>13 DEF Inv

\* The bump makes every walk that was answered before it stale.
LEMMA BumpInv == ASSUME Inv, UNCHANGED identified, NEW o \in Ops, Bump(o) PROVE Inv'
<1> USE HostAssumption
<1>1. /\ op[o].pc = "bump" /\ lock = o /\ lock' = None /\ actor.pc # "write" /\ epoch' = epoch + 1
      /\ op' = [op EXCEPT ![o].pc = "done"]
      /\ UNCHANGED <<world, store, manager, status, tokens, nudge, actor, late, told, dropped>>
      /\ \A q \in Ops \ {o} : op[q].pc \notin {"write", "bump"}
    BY DEF Bump, Inv, LockOK
<1>2. /\ op' \in [Ops -> OpRecords]
      /\ op'[o].pc = "done" /\ op'[o].kind = op[o].kind
      /\ op'[o].inc = op[o].inc /\ op'[o].conn = op[o].conn
      /\ \A q \in Ops \ {o} : op'[q] = op[q]
    BY <1>1, OpFacts DEF OpPcs
<1>3. epoch \in Nat /\ epoch' \in Nat /\ actor.sampled \in Nat /\ actor.sampled <= epoch /\ actor.sampled < epoch'
    BY <1>1, StatusFacts DEF Inv, ActorOK
<1>4. /\ gone' \in {gone, gone \cup {op[o].s}} /\ (gone' # gone => op[o].kind = "delete")
      /\ op[o].s \in Sessions /\ (op[o].kind = "delete" => op[o].s \in deleted)
      /\ op[o].kind = "delete" /\ identified /\ ~dropped => op[o].s \notin cache
    BY <1>1 DEF Bump, Inv, OpOK
<1>5. Typed'
    BY <1>1, <1>2, <1>3, <1>4 DEF Inv, Typed, world, store, manager
<1>6. StatusOK'
    BY <1>1 DEF Inv, StatusOK, RoutedWhereTheRowPoints, MemoryOfItsConnection, Hello, world, store, manager
<1>7. LockOK'
    <2>1. \A q \in Ops : q # None /\ q # "actor" /\ q # "edit"
        OBVIOUS
    <2> QED BY <1>1, <1>2, <2>1 DEF Inv, LockOK, manager
<1>8. ActorOK'
    BY <1>1, <1>3 DEF Inv, ActorOK, Hello, world, store, manager
<1>9. FreshOK'
    BY <1>1, <1>3 DEF FreshOK
<1>10. CacheOK'
    <2>1. WritesStay'
        BY <1>1, <1>4 DEF Inv, CacheOK, WritesStay, RecordedStays, DeletedStaysGone, Hosted, world, store
    <2> QED BY <1>1, <1>4, <2>1 DEF Inv, CacheOK, world, store
<1>11. ASSUME NEW q \in Ops PROVE OpOK(q)'
    <2>1. CASE q = o
        BY <1>1, <1>2, <2>1 DEF Inv, OpOK, Hello, world, store
    <2>2. CASE q # o
        BY <1>1, <1>2, <2>2 DEF Inv, OpOK, Hello, world, store
    <2> QED BY <2>1, <2>2
<1> QED BY <1>5, <1>6, <1>7, <1>8, <1>9, <1>10, <1>11 DEF Inv

LEMMA NextInv == ASSUME Inv, [Next]_<<vars, identified>> PROVE Inv'
<1>1. CASE Next
    <2>1. UNCHANGED identified /\ Steps
        BY <1>1 DEF Next
    <2>2. CASE ActorSteps
        BY <2>1, <2>2, LocalsInv, FirstContactInv, SettleInv, QuietInv, WithdrawnInv, ServeInv, AnswerInv,
           CompareEpochInv, ReplaceInv, PublishWalkInv, WalkNudgedInv DEF ActorSteps
    <2>3. CASE AttemptFails \/ \E w \in late : LateReplace(w)
        BY <2>1, <2>3, AttemptFailsInv, LateReplaceInv
    <2>4. CASE RetryNow \/ SyncRegistry \/ AdoptRead \/ AdoptPublish
                 \/ \E d \in Dests : UpdateDestination(d) \/ Reinstall(d)
        BY <2>1, <2>4, EditInv
    <2>5. CASE AdoptStore
        BY <2>1, <2>5, AdoptStoreInv
    <2>6. CASE \E o \in Ops, k \in Kinds, s \in Sessions \cup {None} : Route(o, k, s)
        BY <2>1, <2>6, RouteInv
    <2>7. CASE \E o \in Ops : OpSteps(o)
        BY <2>1, <2>7, ExecuteInv, WaitsInv, WriteListInv, BumpInv DEF OpSteps
    <2> QED BY <2>1, <2>2, <2>3, <2>4, <2>5, <2>6, <2>7 DEF Steps
<1>2. CASE UNCHANGED <<vars, identified>>
    <2>1. /\ UNCHANGED Lists /\ UNCHANGED <<at, dest, known, tokens, nudge, lock, edit, adopt, status>>
        BY <1>2 DEF vars, Lists, world, store, manager, hist
    <2>2. Typed' /\ StatusOK' /\ LockOK'
        BY <2>1 DEF Inv, Typed, StatusOK, LockOK, RoutedWhereTheRowPoints, MemoryOfItsConnection, Hello, Lists
    <2>3. Reissued
        BY <2>1, StatusFacts DEF Reissued
    <2> QED BY <2>1, <2>2, <2>3, ListsKeep, ActorKeeps DEF Inv
<1> QED BY <1>1, <1>2

THEOREM InvHolds == Spec => []Inv
<1>1. Init => Inv
    BY InitInv
<1>2. Inv /\ [Next]_<<vars, identified>> => Inv'
    BY NextInv
<1> QED BY <1>1, <1>2, PTL DEF Spec

\* Whatever retargets, reinstalls, adoptions, delayed refreshes and late replies do, the
\* cache holds sessions of the identity the row records, a published client was dialed
\* where the row points, and a list in memory is of its connection (replace_host_sessions,
\* PublishGuard, remember_session).
THEOREM HostIsConsistent == Spec => []Consistent
<1>1. Inv => Consistent
    BY InvFacts
<1> QED BY <1>1, InvHolds, PTL

\* A refresh that began before an operation was recorded undoes none of it: a recorded
\* session stays while its host has it, a forgotten one stays forgotten, unless a nudge
\* dropped a refresh inside its store write (cache_lock, seed_epoch).
THEOREM RecordedWritesStay == Spec => []WritesStay
<1>1. Inv => WritesStay
    BY InvFacts
<1> QED BY <1>1, InvHolds, PTL

=============================================================================
