------------------------- MODULE SpareCheckoutsProofs -------------------------
(***************************************************************************)
(* SpareCheckouts: through kills and power cuts at any step, what is on    *)
(* disk, the record and what living shims and helpers hold agree           *)
(* (Consistent), the newest create decides where a spare is ready          *)
(* (PolicyHolds), and a start that could sweep leaves only spares and      *)
(* claims (StartupRecovers), for any number of roots, directories, creates *)
(* and faults.                                                             *)
(*                                                                         *)
(* The argument: a ready slot, now or after a power cut, is only ever of   *)
(* the recorded directory, because a record is replaced when the flushed   *)
(* namespace can hold no other (WorkerOK) and dropped when the flushed     *)
(* namespace is empty (SweepOK); a cleanup holds the cache lock and spares *)
(* the claims of every shim that can still move one (ShimOK).  Until it is *)
(* done, every ready slot that must go is still to be looked at            *)
(* (Evicting), and every remnant a start must clear is (Remnants).         *)
(***************************************************************************)
EXTENDS SpareCheckouts, TLAPS

ShimPcs == Waiting \cup {"new", "taken", "cloned", "failed", "dead"}
ShimRecords ==
    [pc : ShimPcs, root : Roots \cup {None}, on : BOOLEAN, owes : BOOLEAN, dir : Dirs \cup {None},
     dest : {"empty", "partial", "whole"}]
WorkerPcs == {"idle", "chosen", "wait_cache", "discard", "prepare", "mkdir", "spawn", "build",
              "record_ready", "publish", "sync", "keep", "cleanup_lock", "cleanup", "consume"}
WorkerRecords ==
    [pc : WorkerPcs, launch : Launches \cup {None}, dir : Dirs \cup {None},
     published : BOOLEAN, keep : BOOLEAN]
SweepRecords ==
    [why : {"none", "startup", "discard", "cleanup"}, live : SUBSET Launches,
     evict : SUBSET Roots, root : Roots \cup {None}, todo : SUBSET Roots,
     left : SUBSET Entries, parked : Dirs \cup {None},
     keep : SUBSET Roots, cleared : SUBSET Roots, fail : SUBSET Roots]

\* A ready slot of root r may be found after a power cut.
MaybeReady(r) == \E d \in Dirs : At(r, "ready") \in maybe[d]
Ready(r) == \E d \in Dirs : place[d] = At(r, "ready")

DiskOK ==
    /\ \A d \in Dirs : place[d] \in maybe[d]
    /\ NothingForgotten /\ ReadyIsRecorded /\ ReadyIsWhole

Holds == {"claimed", "fetched", "moving"}

\* A shim that holds a claim, or clones, is alone with it.
ShimOK(l) ==
    /\ shim[l].owes => shim[l].pc # "new"
    /\ shim[l].pc # "new" => shim[l].root \in Roots
    /\ shim[l].pc \in {"new", "claim", "claimed", "fetched", "clone", "cloning"} => shim[l].dest = "empty"
    /\ shim[l].pc \in Holds =>
           /\ shim[l].dir \in Dirs /\ place[shim[l].dir] = Claim(Root(l), l)
           /\ content[shim[l].dir] \in {"whole", "moved"}
    /\ shim[l].pc = "cloning" => lock = "visible" /\ \A k \in Launches : shim[k].pc = "cloning" => k = l
    /\ sweep.why # "none" /\ shim[l].pc \in Waiting => l \in sweep.live

HelperOK(d) ==
    helper[d] = "cloning" =>
        /\ place[d].name = "building" /\ lock = "helper"
        /\ \A e \in Dirs : helper[e] = "cloning" => e = d

\* The launch l has registered: its policy is fixed.
Known(l) == l \in Launches /\ shim[l].pc # "new" /\ ~shim[l].owes

\* The worker has a registered attempt, and the lock where it needs it.
WorkerOK ==
    /\ sup \in {"down", "starting"} => worker.pc = "idle" /\ desired = None /\ lastPolicy = None
    /\ worker.pc # "idle" => Known(worker.launch)
    /\ lock = "worker" <=> worker.pc \in {"discard", "prepare", "mkdir", "cleanup"}
    /\ desired # None => Known(desired) /\ lastPolicy # None
    /\ lastPolicy # None => Known(lastPolicy)

\* While it builds, no ready slot of its root can turn up beside its own.
Building == {"spawn", "build", "record_ready", "publish"}
BuildOK ==
    LET r == Root(worker.launch) IN
    /\ worker.pc \in Building \cup {"mkdir"} => ~MaybeReady(r)
    /\ worker.pc \in Building \cup {"mkdir", "prepare"} => On(worker.launch)
    /\ worker.pc = "mkdir" => record[r].known
    /\ worker.pc \in Building => worker.dir \in Dirs /\ place[worker.dir] = At(r, "building")
    /\ worker.pc = "build" /\ helper[worker.dir] = "done" => content[worker.dir] = "whole"
    /\ worker.pc \in {"record_ready", "publish"} =>
           helper[worker.dir] = "done" /\ content[worker.dir] = "whole"
    /\ worker.pc = "publish" => record[r].ready = worker.dir

\* A cleanup holds the lock; what it has flushed and found empty is empty.
SweepOK ==
    /\ sweep.why \in {"discard", "cleanup"} <=> worker.pc \in {"discard", "cleanup"}
    /\ worker.pc \in {"discard", "cleanup"} => sweep.why = worker.pc /\ sweep.live = Launches
    /\ sweep.why = "startup" => sup = "starting"
    /\ lock = "sweep" <=> sweep.why = "startup"
    /\ sweep.why = "none" => sweep.root = None /\ sweep.parked = None /\ sweep.cleared = {}
    /\ sweep.parked # None => sweep.root # None /\ place[sweep.parked] = At(sweep.root, "trash")
    /\ sweep.root # None => record[sweep.root].known
    /\ \A r \in sweep.todo : record[r].known
    /\ \A r \in sweep.cleared : ~Ready(r)
    /\ sweep.why # "none" =>
         \A r \in Roots \ (sweep.todo \cup sweep.fail \cup {sweep.root}) :
             /\ r \in sweep.cleared => ~MaybeReady(r)
             /\ r \notin sweep.keep => \A d \in Dirs : \A p \in maybe[d] : p.root # r

Same(l, k) == Root(l) = Root(k) /\ On(l) = On(k)
Good(l) == \A d \in Dirs : place[d].name = "ready" => On(l) /\ place[d].root = Root(l)

\* Cleanup has not looked yet at a ready slot that must go.
Evicting(l) ==
    \A d \in Dirs : place[d].name = "ready" /\ ~(On(l) /\ place[d].root = Root(l)) =>
        /\ place[d].root \in sweep.evict
        /\ \/ place[d].root \in sweep.todo
           \/ place[d].root = sweep.root /\ [dir |-> d, at |-> place[d]] \in sweep.left

After == {"prepare", "mkdir", "spawn", "build", "record_ready", "publish", "sync", "keep",
          "cleanup_lock", "cleanup", "consume"}
PolicyOK ==
    sup = "serving" /\ settled /\ lastPolicy # None =>
        /\ desired # None => Same(desired, lastPolicy)
        /\ desired = None => Good(lastPolicy)
        /\ desired = worker.launch /\ worker.pc \in After => Good(worker.launch)
        /\ desired = worker.launch /\ worker.pc = "discard" => Evicting(worker.launch)

\* What a cleanup at a start may leave, and where the rest still is.
MayStay(p) == p.name \in {"gone", "ready"} \/ (p.name = "claimed" /\ p.by \in sweep.live)
Remnants ==
    sweep.why = "startup" =>
        \A d \in Dirs :
            \/ MayStay(place[d])
            \/ place[d].root \in sweep.todo \cup sweep.fail
            \/ /\ place[d].root = sweep.root
               /\ sweep.parked = d \/ [dir |-> d, at |-> place[d]] \in sweep.left

Typed ==
    /\ place \in [Dirs -> Places] /\ maybe \in [Dirs -> SUBSET Places]
    /\ content \in [Dirs -> {"none", "empty", "partial", "whole", "moved"}]
    /\ record \in [Roots -> [known : BOOLEAN, ready : Dirs \cup {None}]]
    /\ lock \in {"free", "worker", "sweep", "helper", "visible"}
    /\ helper \in [Dirs -> {"none", "waiting", "cloning", "done", "dead"}]
    /\ shim \in [Launches -> ShimRecords]
    /\ desired \in Launches \cup {None} /\ running \in BOOLEAN
    /\ sup \in {"down", "starting", "serving", "stopping"}
    /\ worker \in WorkerRecords /\ sweep \in SweepRecords
    /\ crashes \in 0..MaxCrashes /\ faults \in 0..MaxFaults
    /\ lastPolicy \in Launches \cup {None} /\ settled \in BOOLEAN

Inv ==
    /\ Typed /\ DiskOK /\ WorkerOK /\ BuildOK /\ SweepOK /\ PolicyOK /\ Remnants
    /\ \A l \in Launches : ShimOK(l)
    /\ \A d \in Dirs : HelperOK(d)

LEMMA Types == Typed => TypeOK
BY DEF TypeOK, Typed, ShimRecords, ShimPcs, WorkerRecords, WorkerPcs, SweepRecords, Entries

\* The names, by their parts.
LEMMA Naming ==
    /\ Nowhere \in Places /\ Nowhere.root = None /\ Nowhere.name = "gone"
    /\ \A r \in Roots, n \in {"building", "ready", "trash"} :
          At(r, n) \in Places /\ At(r, n).root = r /\ At(r, n).name = n
    /\ \A r \in Roots, l \in Launches :
          /\ Claim(r, l) \in Places /\ Claim(r, l).root = r /\ Claim(r, l).name = "claimed"
          /\ Claim(r, l).by = l
    /\ \A p \in Places :
          \/ p = Nowhere
          \/ /\ p.root \in Roots /\ p.name \in {"building", "ready", "trash"} /\ p = At(p.root, p.name)
          \/ /\ p.root \in Roots /\ p.name = "claimed" /\ p.by \in Launches /\ p = Claim(p.root, p.by)
<1>1. Nowhere \in Places /\ Nowhere.root = None /\ Nowhere.name = "gone"
    BY DEF Places, Nowhere
<1>2. ASSUME NEW r \in Roots, NEW n \in {"building", "ready", "trash"}
      PROVE  At(r, n) \in Places /\ At(r, n).root = r /\ At(r, n).name = n
    BY DEF Places, At
<1>3. ASSUME NEW r \in Roots, NEW l \in Launches
      PROVE  /\ Claim(r, l) \in Places /\ Claim(r, l).root = r /\ Claim(r, l).name = "claimed"
             /\ Claim(r, l).by = l
    BY DEF Places, Claim
<1>4. ASSUME NEW p \in Places
      PROVE  \/ p = Nowhere
             \/ /\ p.root \in Roots /\ p.name \in {"building", "ready", "trash"} /\ p = At(p.root, p.name)
             \/ /\ p.root \in Roots /\ p.name = "claimed" /\ p.by \in Launches /\ p = Claim(p.root, p.by)
    <2>1. CASE p \in {At(r, n) : r \in Roots, n \in {"building", "ready", "trash"}}
        <3>1. PICK r \in Roots, n \in {"building", "ready", "trash"} : p = At(r, n)
            BY <2>1
        <3> QED BY <1>2, <3>1
    <2>2. CASE p \in {Claim(r, l) : r \in Roots, l \in Launches}
        <3>1. PICK r \in Roots, l \in Launches : p = Claim(r, l)
            BY <2>2
        <3> QED BY <1>3, <3>1
    <2> QED BY <2>1, <2>2 DEF Places
<1> QED BY <1>1, <1>2, <1>3, <1>4

LEMMA Facts ==
    ASSUME Inv
    PROVE  /\ Typed
           /\ \A d \in Dirs : place[d] \in Places /\ maybe[d] \subseteq Places /\ place[d] \in maybe[d]
           /\ \A l \in Launches : shim[l] \in ShimRecords
           /\ \A l \in Launches : Root(l) \in Roots \cup {None} /\ On(l) \in BOOLEAN
           /\ worker \in WorkerRecords /\ worker.pc \in WorkerPcs
           /\ worker.launch \in Launches \cup {None} /\ worker.dir \in Dirs \cup {None}
           /\ \A r \in Roots : record[r].known \in BOOLEAN /\ record[r].ready \in Dirs \cup {None}
           /\ sweep \in SweepRecords /\ sweep.root \in Roots \cup {None} /\ sweep.todo \subseteq Roots
           /\ sweep.left \subseteq Entries /\ sweep.parked \in Dirs \cup {None}
           /\ sweep.live \subseteq Launches /\ sweep.fail \subseteq Roots
<1>1. Typed
    BY DEF Inv
<1>2. \A l \in Launches : shim[l] \in ShimRecords
    BY <1>1 DEF Typed
<1> QED BY <1>1, <1>2 DEF Inv, DiskOK, Typed, ShimRecords, WorkerRecords, SweepRecords, Root, On

LEMMA InvFacts == Inv => Consistent /\ PolicyHolds
<1> SUFFICES ASSUME Inv PROVE Consistent /\ PolicyHolds
    OBVIOUS
<1>1. TypeOK /\ NothingForgotten /\ ReadyIsRecorded /\ ReadyIsWhole
    BY Types DEF Inv, DiskOK
<1>2. LiveClaimKept /\ CloneIntoEmpty
    BY DEF Inv, ShimOK, LiveClaimKept, CloneIntoEmpty, Holds
<1>3. HelperOwnsTarget
    BY DEF Inv, HelperOK, HelperOwnsTarget
<1>4. PolicyHolds
    BY DEF Inv, PolicyOK, PolicyHolds, Good
<1> QED BY <1>1, <1>2, <1>3, <1>4 DEF Consistent

LEMMA InitInv == Init => Inv
<1> SUFFICES ASSUME Init PROVE Inv
    OBVIOUS
<1> USE SpareConstants
<1>1. Typed
    <2>1. shim \in [Launches -> ShimRecords]
        BY DEF Init, ShimRecords, ShimPcs
    <2>2. worker \in WorkerRecords /\ sweep \in SweepRecords
        BY DEF Init, Idle, NoSweep, WorkerRecords, WorkerPcs, SweepRecords
    <2>3. place \in [Dirs -> Places] /\ maybe \in [Dirs -> SUBSET Places]
        BY Naming DEF Init
    <2>4. record \in [Roots -> [known : BOOLEAN, ready : Dirs \cup {None}]]
        BY DEF Init, NoEntry
    <2> QED BY <2>1, <2>2, <2>3, <2>4 DEF Init, Typed
<1>2. DiskOK
    BY Naming DEF Init, DiskOK, NothingForgotten, ReadyIsRecorded, ReadyIsWhole
<1>3. \A d \in Dirs : HelperOK(d)
    BY DEF Init, HelperOK
<1>4. \A l \in Launches : ShimOK(l)
    BY DEF Init, ShimOK, Holds, Waiting, NoSweep
<1>5. WorkerOK /\ BuildOK /\ PolicyOK /\ Remnants
    BY DEF Init, WorkerOK, BuildOK, PolicyOK, Remnants, Idle, NoSweep, Building
<1>6. SweepOK
    BY DEF Init, SweepOK, NoSweep, Idle
<1> QED BY <1>1, <1>2, <1>3, <1>4, <1>5, <1>6 DEF Inv

\* What a shim may do to the disk: claim a ready spare, or take what it claimed.
Moved(l, x) ==
    \/ UNCHANGED <<place, maybe>>
    \/ \E d \in Dirs, p \in Places :
          /\ Move(d, p)
          /\ \/ place[d] = At(x.root, "ready") /\ p = Claim(x.root, l) /\ x.pc \in Waiting
             \/ place[d] = Claim(x.root, l) /\ p = Nowhere

\* A step of the shim of launch l.
LEMMA ShimStep ==
    ASSUME Inv, NEW l \in Launches, NEW x \in ShimRecords, shim' = [shim EXCEPT ![l] = x],
           UNCHANGED <<record, helper, desired, running, sup, worker, sweep, lastPolicy, crashes>>,
           faults' \in 0..MaxFaults, settled' \in BOOLEAN, settled' => settled,
           x.pc # "new", x.root \in Roots,
           shim[l].pc # "new" => x.root = shim[l].root /\ x.on = shim[l].on /\ x.owes = shim[l].owes,
           sweep.why # "none" /\ x.pc \in Waiting => l \in sweep.live,
           x.pc \in {"claim", "claimed", "fetched", "clone", "cloning"} => x.dest = "empty",
           x.pc \in Holds => /\ x.dir \in Dirs /\ place'[x.dir] = Claim(x.root, l)
                             /\ content'[x.dir] \in {"whole", "moved"},
           \/ lock' = lock /\ (x.pc = "cloning" <=> shim[l].pc = "cloning")
           \/ lock = "free" /\ lock' = "visible" /\ x.pc = "cloning"
           \/ shim[l].pc = "cloning" /\ lock' = "free" /\ x.pc # "cloning",
           Moved(l, x),
           \/ content' = content
           \/ \E d \in Dirs : content' = [content EXCEPT ![d] = "moved"] /\ place[d] = Claim(x.root, l)
    PROVE  Inv'
<1> USE SpareConstants
<1>1. /\ shim \in [Launches -> ShimRecords] /\ shim'[l] = x /\ shim' \in [Launches -> ShimRecords]
      /\ \A k \in Launches \ {l} : shim'[k] = shim[k]
    BY Facts DEF Typed
<1>2. \A k \in Launches : shim[k].pc # "new" => Root(k)' = Root(k) /\ On(k)' = On(k) /\ shim'[k].owes = shim[k].owes
                                                  /\ shim'[k].pc # "new"
    BY <1>1 DEF Root, On
<1>3. \A k \in Launches : Known(k) => Known(k)'
    BY <1>1 DEF Known
<1>4. /\ \A d \in Dirs : place[d] \in Places /\ maybe[d] \subseteq Places
      /\ place' \in [Dirs -> Places] /\ maybe' \in [Dirs -> SUBSET Places]
      /\ \A d \in Dirs : /\ maybe'[d] = maybe[d] \cup {place'[d]}
                         /\ \/ place'[d] = place[d]
                            \/ place[d] = At(x.root, "ready") /\ place'[d] = Claim(x.root, l) /\ x.pc \in Waiting
                            \/ place[d] = Claim(x.root, l) /\ place'[d] = Nowhere
    <2>1. CASE UNCHANGED <<place, maybe>>
        BY <2>1, Facts DEF Typed
    <2>2. CASE \E d \in Dirs, p \in Places :
                  /\ Move(d, p)
                  /\ \/ place[d] = At(x.root, "ready") /\ p = Claim(x.root, l) /\ x.pc \in Waiting
                     \/ place[d] = Claim(x.root, l) /\ p = Nowhere
        BY <2>2, Facts DEF Typed, Move
    <2> QED BY <2>1, <2>2 DEF Moved
<1>5. /\ content' \in [Dirs -> {"none", "empty", "partial", "whole", "moved"}]
      /\ \A d \in Dirs : content'[d] = content[d] \/ (content'[d] = "moved" /\ place[d] = Claim(x.root, l))
    BY Facts DEF Typed
<1>6. Typed'
    BY <1>1, <1>4, <1>5, Facts DEF Typed
<1>7. /\ At(x.root, "ready").root = x.root /\ At(x.root, "ready").name = "ready"
      /\ Claim(x.root, l).root = x.root /\ Claim(x.root, l).name = "claimed" /\ Claim(x.root, l).by = l
      /\ Nowhere.name = "gone" /\ Nowhere.root = None
    BY Naming
<1>8. \A d \in Dirs : place'[d].name \in {"ready", "building", "trash"} => place'[d] = place[d]
    BY <1>4, <1>7
<1>9. \A d \in Dirs : \A p \in maybe'[d] \ maybe[d] :
         p = Nowhere \/ (p.name = "claimed" /\ p.root \in Roots /\ At(p.root, "ready") \in maybe[d])
    BY <1>4, <1>7, Facts
<1>10. DiskOK'
    <2>1. NothingForgotten'
        <3>1. SUFFICES ASSUME NEW d \in Dirs, NEW p \in maybe'[d] \ {Nowhere} PROVE record[p.root].known
            BY DEF NothingForgotten
        <3>2. CASE p \in maybe[d]
            BY <3>2 DEF Inv, DiskOK, NothingForgotten
        <3>3. CASE p \notin maybe[d]
            <4>1. p.root \in Roots /\ At(p.root, "ready") \in maybe[d]
                BY <1>9, <3>3
            <4>2. At(p.root, "ready") # Nowhere /\ At(p.root, "ready").root = p.root
                BY <4>1, Naming
            <4> QED BY <4>1, <4>2 DEF Inv, DiskOK, NothingForgotten
        <3> QED BY <3>2, <3>3
    <2>2. ReadyIsRecorded'
        BY <1>9, <1>7 DEF Inv, DiskOK, ReadyIsRecorded
    <2>3. ReadyIsWhole'
        BY <1>5, <1>7, <1>8 DEF Inv, DiskOK, ReadyIsWhole
    <2>4. \A d \in Dirs : place'[d] \in maybe'[d]
        BY <1>4
    <2> QED BY <2>1, <2>2, <2>3, <2>4 DEF DiskOK
<1>11. \A r \in Roots : (Ready(r)' => Ready(r)) /\ (MaybeReady(r)' => MaybeReady(r))
    <2>1. SUFFICES ASSUME NEW r \in Roots PROVE (Ready(r)' => Ready(r)) /\ (MaybeReady(r)' => MaybeReady(r))
        OBVIOUS
    <2>2. At(r, "ready").name = "ready"
        BY Naming
    <2> QED BY <1>7, <1>8, <1>9, <2>2 DEF Ready, MaybeReady
<1>12. ASSUME NEW k \in Launches PROVE ShimOK(k)'
    <2>1. CASE k = l
        <3>1. x.pc = "cloning" => lock' = "visible" /\ \A j \in Launches : shim'[j].pc = "cloning" => j = l
            BY <1>1 DEF Inv, ShimOK
        <3> QED BY <1>1, <2>1, <3>1 DEF Inv, ShimOK, Root, Holds
    <2>2. CASE k # l
        <3>1. /\ shim'[k] = shim[k] /\ ShimOK(k)
            BY <1>1, <2>2 DEF Inv
        <3>2. shim[k].pc \in Holds => place'[shim[k].dir] = place[shim[k].dir]
                                       /\ content'[shim[k].dir] = content[shim[k].dir]
            <4>1. SUFFICES ASSUME shim[k].pc \in Holds
                  PROVE place'[shim[k].dir] = place[shim[k].dir] /\ content'[shim[k].dir] = content[shim[k].dir]
                OBVIOUS
            <4>2. shim[k].dir \in Dirs /\ place[shim[k].dir] = Claim(Root(k), k) /\ Root(k) \in Roots
                BY <3>1, <4>1 DEF ShimOK, Holds, Root
            <4>3. place[shim[k].dir].by = k /\ place[shim[k].dir].name = "claimed"
                BY <4>2, Naming
            <4> QED BY <1>4, <1>5, <1>7, <2>2, <4>2, <4>3
        <3>3. shim[k].pc = "cloning" => lock' = "visible" /\ \A j \in Launches : shim'[j].pc = "cloning" => j = k
            BY <1>1, <2>2, <3>1 DEF Inv, ShimOK
        <3> QED BY <3>1, <3>2, <3>3 DEF ShimOK, Root, Holds
    <2> QED BY <2>1, <2>2
<1>13. \A d \in Dirs : HelperOK(d)'
    <2>1. SUFFICES ASSUME NEW d \in Dirs PROVE HelperOK(d)'
        OBVIOUS
    <2>2. place[d].name = "building" => place'[d] = place[d]
        BY <1>4, <1>7
    <2>3. lock = "helper" => lock' = "helper"
        BY DEF Inv, ShimOK
    <2> QED BY <2>2, <2>3 DEF Inv, HelperOK
<1>14. WorkerOK'
    <2>1. lock' = "worker" <=> lock = "worker"
        BY DEF Inv, ShimOK
    <2> QED BY <1>3, <2>1 DEF Inv, WorkerOK, Known
<1>14a. BuildOK'
    <2>1. SUFFICES ASSUME worker.pc \in Building \cup {"mkdir", "prepare"} PROVE BuildOK'
        BY DEF BuildOK, Building
    <2>2. Root(worker.launch)' = Root(worker.launch) /\ On(worker.launch)' = On(worker.launch)
                                 /\ Root(worker.launch) \in Roots
        BY <1>2, <2>1 DEF Inv, WorkerOK, Known, ShimOK, Root, Building
    <2>3. worker.pc \in Building => place'[worker.dir] = place[worker.dir] /\ content'[worker.dir] = content[worker.dir]
        <3>1. SUFFICES ASSUME worker.pc \in Building
              PROVE place'[worker.dir] = place[worker.dir] /\ content'[worker.dir] = content[worker.dir]
            OBVIOUS
        <3>2. worker.dir \in Dirs /\ place[worker.dir].name = "building"
            BY <2>2, <3>1, Naming DEF Inv, BuildOK, Building
        <3> QED BY <1>4, <1>5, <1>7, <3>2
    <2>4. ~MaybeReady(Root(worker.launch)) => ~MaybeReady(Root(worker.launch))'
        BY <1>11, <2>2 DEF MaybeReady
    <2> HIDE DEF MaybeReady
    <2> QED BY <2>2, <2>3, <2>4 DEF Inv, BuildOK, Building
<1>15. SweepOK'
    <2>1. lock' = "sweep" <=> lock = "sweep"
        BY DEF Inv, ShimOK
    <2>2. sweep.parked # None => place'[sweep.parked] = place[sweep.parked]
        <3>1. SUFFICES ASSUME sweep.parked # None PROVE place'[sweep.parked] = place[sweep.parked]
            OBVIOUS
        <3>2. sweep.parked \in Dirs /\ place[sweep.parked].name = "trash"
            BY <3>1, Facts, Naming DEF Inv, SweepOK
        <3> QED BY <1>4, <1>7, <3>2
    <2>3. \A r \in Roots : (\A d \in Dirs : \A p \in maybe[d] : p.root # r)
                            => \A d \in Dirs : \A p \in maybe'[d] : p.root # r
        <3>1. SUFFICES ASSUME NEW r \in Roots, \A d \in Dirs : \A p \in maybe[d] : p.root # r,
                              NEW d \in Dirs, NEW p \in maybe'[d]
              PROVE p.root # r
            OBVIOUS
        <3>2. CASE p \notin maybe[d] /\ p # Nowhere
            <4>1. p.root \in Roots /\ At(p.root, "ready") \in maybe[d]
                BY <1>9, <3>2
            <4>2. At(p.root, "ready").root = p.root
                BY <4>1, Naming
            <4> QED BY <3>1, <4>1, <4>2
        <3> QED BY <1>7, <3>1, <3>2
    <2>4. sweep.cleared \subseteq Roots
        BY Facts DEF SweepRecords
    <2> QED BY <1>11, <2>1, <2>2, <2>3, <2>4 DEF Inv, SweepOK
<1>16. PolicyOK'
    <2>1. \A k \in Launches : Known(k) /\ Good(k) => Good(k)'
        BY <1>2, <1>8 DEF Good, Known
    <2>2. \A k \in Launches : Known(k) /\ Evicting(k) => Evicting(k)'
        BY <1>2, <1>8 DEF Evicting, Known
    <2>3. \A k, j \in Launches : Known(k) /\ Known(j) /\ Same(k, j) => Same(k, j)'
        BY <1>2 DEF Same, Known
    <2>4. /\ desired # None => Known(desired)
          /\ lastPolicy # None => Known(lastPolicy)
          /\ worker.pc # "idle" => Known(worker.launch)
        BY DEF Inv, WorkerOK
    <2>5. "idle" \notin After
        BY DEF After
    <2> QED BY <2>1, <2>2, <2>3, <2>4, <2>5 DEF Inv, PolicyOK, Known
<1>17. Remnants'
    <2>1. SUFFICES ASSUME sweep.why = "startup", NEW d \in Dirs
          PROVE \/ MayStay(place'[d])
                \/ place'[d].root \in sweep.todo \cup sweep.fail
                \/ /\ place'[d].root = sweep.root
                   /\ sweep.parked = d \/ [dir |-> d, at |-> place'[d]] \in sweep.left
        BY DEF Remnants, MayStay
    <2>2. CASE place'[d] = place[d]
        BY <2>1, <2>2 DEF Inv, Remnants
    <2>3. CASE place'[d] # place[d]
        BY <1>4, <1>7, <2>1, <2>3 DEF MayStay
    <2> QED BY <2>2, <2>3
<1> QED BY <1>6, <1>10, <1>12, <1>13, <1>14, <1>14a, <1>15, <1>16, <1>17 DEF Inv

LEMMA ObservedFacts ==
    ASSUME Inv, Fault \/ UNCHANGED observed
    PROVE  /\ faults' \in 0..MaxFaults /\ settled' \in BOOLEAN /\ (settled' => settled)
           /\ crashes' = crashes /\ lastPolicy' = lastPolicy
<1>1. faults \in 0..MaxFaults /\ settled \in BOOLEAN /\ MaxFaults \in Nat
    BY Facts, SpareConstants DEF Typed
<1>2. faults' \in 0..MaxFaults
    BY <1>1 DEF Fault, observed
<1>3. (settled' = FALSE \/ settled' = settled) /\ crashes' = crashes /\ lastPolicy' = lastPolicy
    BY DEF Fault, observed
<1>4. CASE settled' = FALSE
    BY <1>2, <1>3, <1>4
<1>5. CASE settled' = settled
    BY <1>1, <1>2, <1>3, <1>5
<1> QED BY <1>3, <1>4, <1>5

LEMMA GotoFacts ==
    ASSUME Inv, NEW l \in Launches, NEW pc \in ShimPcs, Goto(l, pc)
    PROVE  \E x \in ShimRecords :
              /\ shim' = [shim EXCEPT ![l] = x]
              /\ x.pc = pc /\ x.root = shim[l].root /\ x.on = shim[l].on /\ x.owes = shim[l].owes
              /\ x.dir = shim[l].dir /\ x.dest = shim[l].dest
<1> DEFINE x == [shim[l] EXCEPT !.pc = pc]
<1>1. shim \in [Launches -> ShimRecords] /\ shim[l] \in ShimRecords
    BY Facts DEF Typed
<1>2. /\ x \in ShimRecords /\ x.pc = pc /\ x.root = shim[l].root /\ x.on = shim[l].on
      /\ x.owes = shim[l].owes /\ x.dir = shim[l].dir /\ x.dest = shim[l].dest
    BY <1>1 DEF ShimRecords
<1>3. shim' = [shim EXCEPT ![l] = x]
    BY <1>1 DEF Goto
<1> HIDE DEF x
<1> QED BY <1>2, <1>3

\* A step of a shim that goes on without touching the disk.
LEMMA GotoStep ==
    ASSUME Inv, NEW l \in Launches, NEW pc \in ShimPcs \ (Holds \cup {"new", "cloning"}), Goto(l, pc),
           UNCHANGED <<disk, record, helper, policy, sup, worker, sweep>>, Fault \/ UNCHANGED observed,
           shim[l].pc # "new",
           pc \in Waiting => shim[l].pc \in Waiting /\ shim[l].dest = "empty",
           lock' = IF shim[l].pc = "cloning" THEN "free" ELSE lock
    PROVE  Inv'
<1>1. PICK x \in ShimRecords :
              /\ shim' = [shim EXCEPT ![l] = x]
              /\ x.pc = pc /\ x.root = shim[l].root /\ x.on = shim[l].on /\ x.owes = shim[l].owes
              /\ x.dir = shim[l].dir /\ x.dest = shim[l].dest
    BY GotoFacts
<1>2. ShimOK(l) /\ x.root \in Roots
    BY <1>1 DEF Inv, ShimOK
<1>3. sweep.why # "none" /\ x.pc \in Waiting => l \in sweep.live
    BY <1>1, <1>2 DEF ShimOK
<1>4. x.pc \in {"claim", "claimed", "fetched", "clone", "cloning"} => x.dest = "empty"
    BY <1>1 DEF Waiting
<1>5. UNCHANGED <<place, maybe, content, record, helper, desired, running, sup, worker, sweep>>
    BY DEF disk, policy
<1>6. Moved(l, x)
    BY <1>5 DEF Moved
<1> QED BY <1>1, <1>2, <1>3, <1>4, <1>5, <1>6, ObservedFacts, ShimStep

LEMMA GoesOnInv ==
    ASSUME Inv, NEW l \in Launches,
           shim_declines(l) \/ shim_rest_fails(l) \/ shim_dies(l) \/ (shim_fetch(l) /\ Goto(l, "failed"))
             \/ (shim_move_fails(l) /\ Goto(l, "clone") /\ UNCHANGED content)
    PROVE  Inv'
<1>1. ShimOK(l)
    BY DEF Inv
<1>2. PICK pc \in {"clone", "failed", "dead"} :
         /\ Goto(l, pc) /\ shim[l].pc \in Waiting
         /\ pc = "clone" => shim[l].pc \in {"claim", "claimed", "fetched"}
         /\ lock' = IF shim[l].pc = "cloning" THEN "free" ELSE lock
    BY DEF shim_declines, shim_rest_fails, shim_dies, shim_fetch, shim_move_fails, Waiting
<1>3. pc = "clone" => shim[l].dest = "empty"
    BY <1>1, <1>2 DEF ShimOK
<1>4. pc \in ShimPcs \ (Holds \cup {"new", "cloning"}) /\ (pc \in Waiting => pc = "clone") /\ shim[l].pc # "new"
    BY <1>2 DEF ShimPcs, Holds, Waiting
<1>5. UNCHANGED <<disk, record, helper, policy, sup, worker, sweep>> /\ (Fault \/ UNCHANGED observed)
    BY DEF shim_declines, shim_rest_fails, shim_dies, shim_fetch, shim_move_fails, disk
<1> QED BY <1>2, <1>3, <1>4, <1>5, GotoStep

LEMMA CreateInv ==
    ASSUME Inv, NEW l \in Launches, NEW r \in Roots, NEW on \in BOOLEAN, create(l, r, on)
    PROVE  Inv'
<1> DEFINE x == [shim[l] EXCEPT !.pc = "claim", !.root = r, !.on = on, !.owes = TRUE]
<1>1. shim' = [shim EXCEPT ![l] = x] /\ shim[l].pc = "new" /\ sup = "serving"
    BY Facts DEF create, Typed
<1>2. shim[l].dest = "empty"
    BY <1>1 DEF Inv, ShimOK
<1>3. x \in ShimRecords /\ x.pc = "claim" /\ x.root = r /\ x.dest = "empty"
    BY <1>2, Facts DEF ShimRecords, ShimPcs, Waiting
<1> HIDE DEF x
<1>4. sweep.why # "none" => l \in sweep.live
    <2>1. sweep.why # "startup"
        BY <1>1 DEF Inv, SweepOK
    <2>2. sweep.why \in {"none", "startup", "discard", "cleanup"}
        BY Facts DEF SweepRecords
    <2> QED BY <2>1, <2>2 DEF Inv, SweepOK
<1>5. UNCHANGED <<place, maybe, content, record, lock, helper, desired, running, sup, worker, sweep>> /\ UNCHANGED observed
    BY DEF create, disk, policy
<1>6. Moved(l, x)
    BY <1>5 DEF Moved
<1> QED BY <1>1, <1>3, <1>4, <1>5, <1>6, ObservedFacts, ShimStep DEF Holds

LEMMA ClaimInv ==
    ASSUME Inv, NEW l \in Launches, NEW d \in Dirs, shim_claim(l, d)
    PROVE  Inv'
<1> DEFINE x == [shim[l] EXCEPT !.pc = "claimed", !.dir = d]
<1>1. /\ shim' = [shim EXCEPT ![l] = x] /\ shim[l].pc = "claim" /\ place[d] = At(Root(l), "ready")
      /\ Move(d, Claim(Root(l), l))
    BY Facts DEF shim_claim, Typed
<1>2. ShimOK(l) /\ shim[l].dest = "empty" /\ shim[l].root \in Roots
    BY <1>1 DEF Inv, ShimOK
<1>3. /\ x \in ShimRecords /\ x.pc = "claimed" /\ x.root = shim[l].root /\ x.on = shim[l].on
      /\ x.owes = shim[l].owes /\ x.dir = d /\ x.dest = "empty"
    BY <1>2, Facts DEF ShimRecords, ShimPcs, Waiting
<1> HIDE DEF x
<1>4. sweep.why # "none" => l \in sweep.live
    BY <1>1, <1>2 DEF ShimOK, Waiting
<1>5. UNCHANGED <<content, record, lock, helper, desired, running, sup, worker, sweep>> /\ UNCHANGED observed
    BY DEF shim_claim, policy
<1>6. Claim(x.root, l) \in Places /\ At(x.root, "ready").name = "ready"
    BY <1>2, <1>3, Naming
<1>7. Moved(l, x)
    BY <1>1, <1>3, <1>6 DEF Moved, Root, Waiting
<1>8. place'[d] = Claim(x.root, l) /\ content[d] = "whole"
    <2>1. place[d].name = "ready"
        BY <1>1, <1>3, <1>6 DEF Root
    <2> QED BY <1>1, <1>3, <2>1, Facts DEF Inv, DiskOK, ReadyIsWhole, Move, Root, Typed
<1> QED BY <1>1, <1>2, <1>3, <1>4, <1>5, <1>7, <1>8, ObservedFacts, ShimStep

LEMMA HoldingInv ==
    ASSUME Inv, NEW l \in Launches,
           (shim_fetch(l) /\ Goto(l, "fetched")) \/ shim_move_git(l)
             \/ (/\ shim_move_fails(l)
                 /\ content' = [content EXCEPT ![shim[l].dir] = "moved"]
                 /\ shim' = [shim EXCEPT ![l].pc = "failed", ![l].dest = "partial"])
    PROVE  Inv'
<1>1. /\ shim[l].pc \in {"claimed", "fetched"}
      /\ UNCHANGED <<place, maybe, record, lock, helper, desired, running, sup, worker, sweep>>
      /\ Fault \/ UNCHANGED observed
    BY DEF shim_fetch, shim_move_git, shim_move_fails, disk, policy
<1>2. /\ ShimOK(l) /\ shim[l].dir \in Dirs /\ place[shim[l].dir] = Claim(Root(l), l) /\ shim[l].dest = "empty"
      /\ content[shim[l].dir] \in {"whole", "moved"} /\ shim[l].root \in Roots
    BY <1>1 DEF Inv, ShimOK, Holds
<1>3. PICK x \in ShimRecords :
         /\ shim' = [shim EXCEPT ![l] = x]
         /\ x.pc \in {"fetched", "moving", "failed"} /\ x.root = shim[l].root /\ x.on = shim[l].on
         /\ x.owes = shim[l].owes /\ x.dir = shim[l].dir
         /\ x.pc = "fetched" => x.dest = "empty"
    <2>1. shim \in [Launches -> ShimRecords] /\ shim[l] \in ShimRecords
        BY Facts DEF Typed
    <2>2. CASE Goto(l, "fetched")
        BY <1>2, <2>2, GotoFacts DEF ShimPcs, Waiting
    <2>3. CASE \E p \in {"moving", "failed"} : shim' = [shim EXCEPT ![l].pc = p, ![l].dest = "partial"]
        <3>1. PICK p \in {"moving", "failed"} : shim' = [shim EXCEPT ![l].pc = p, ![l].dest = "partial"]
            BY <2>3
        <3> DEFINE x == [shim[l] EXCEPT !.pc = p, !.dest = "partial"]
        <3>2. /\ x \in ShimRecords /\ x.pc = p /\ x.root = shim[l].root /\ x.on = shim[l].on
              /\ x.owes = shim[l].owes /\ x.dir = shim[l].dir
            BY <2>1 DEF ShimRecords, ShimPcs, Waiting
        <3>3. shim' = [shim EXCEPT ![l] = x]
            BY <2>1, <3>1
        <3> HIDE DEF x
        <3> QED BY <3>2, <3>3
    <2> QED BY <2>2, <2>3 DEF shim_move_git
<1>4. content' \in {content, [content EXCEPT ![shim[l].dir] = "moved"]}
    BY DEF shim_fetch, shim_move_git, disk
<1>5. content'[shim[l].dir] \in {"whole", "moved"}
    BY <1>2, <1>4, Facts DEF Typed
<1>6. sweep.why # "none" => l \in sweep.live
    BY <1>1, <1>2 DEF ShimOK, Waiting
<1>7. Moved(l, x)
    BY <1>1 DEF Moved
<1>8. x.pc # "cloning" /\ shim[l].pc # "cloning" /\ x.pc # "new" /\ shim[l].pc # "new"
    BY <1>1, <1>3
<1>9. place'[shim[l].dir] = Claim(x.root, l) /\ place[shim[l].dir] = Claim(x.root, l)
    BY <1>1, <1>2, <1>3 DEF Root
<1>10. x.pc \in {"claim", "claimed", "fetched", "clone", "cloning"} => x.dest = "empty"
    BY <1>3
<1> QED BY <1>1, <1>2, <1>3, <1>4, <1>5, <1>6, <1>7, <1>8, <1>9, <1>10, ObservedFacts, ShimStep

LEMMA TakenInv == ASSUME Inv, NEW l \in Launches, shim_move_rest(l) PROVE Inv'
<1> DEFINE x == [shim[l] EXCEPT !.pc = "taken", !.dest = "whole"]
<1>1. /\ shim' = [shim EXCEPT ![l] = x] /\ shim[l].pc = "moving" /\ Move(shim[l].dir, Nowhere)
      /\ UNCHANGED <<content, record, lock, helper, desired, running, sup, worker, sweep>> /\ UNCHANGED observed
    BY Facts DEF shim_move_rest, policy, Typed
<1>2. shim[l].dir \in Dirs /\ place[shim[l].dir] = Claim(shim[l].root, l) /\ shim[l].root \in Roots
    BY <1>1 DEF Inv, ShimOK, Holds, Root
<1>3. /\ x \in ShimRecords /\ x.pc = "taken" /\ x.root = shim[l].root /\ x.on = shim[l].on /\ x.owes = shim[l].owes
    BY Facts DEF ShimRecords, ShimPcs
<1> HIDE DEF x
<1>4. Moved(l, x)
    BY <1>1, <1>2, <1>3, Naming DEF Moved
<1> QED BY <1>1, <1>2, <1>3, <1>4, ObservedFacts, ShimStep DEF Waiting, Holds

LEMMA VisibleInv == ASSUME Inv, NEW l \in Launches, shim_clone(l) \/ shim_cloned(l) PROVE Inv'
<1>1. /\ UNCHANGED <<place, maybe, content, record, helper, desired, running, sup, worker, sweep>>
      /\ UNCHANGED observed
    BY DEF shim_clone, shim_cloned, disk, policy
<1>2. ShimOK(l)
    BY DEF Inv
<1>3. CASE shim_clone(l)
    <2>1. shim[l].pc = "clone" /\ lock = "free" /\ lock' = "visible" /\ Goto(l, "cloning")
        BY <1>3 DEF shim_clone
    <2>2. PICK x \in ShimRecords :
              /\ shim' = [shim EXCEPT ![l] = x]
              /\ x.pc = "cloning" /\ x.root = shim[l].root /\ x.on = shim[l].on /\ x.owes = shim[l].owes
              /\ x.dir = shim[l].dir /\ x.dest = shim[l].dest
        BY <2>1, GotoFacts DEF ShimPcs, Waiting
    <2>3. x.root \in Roots /\ x.dest = "empty" /\ (sweep.why # "none" => l \in sweep.live)
        BY <1>2, <2>1, <2>2 DEF ShimOK, Waiting
    <2>4. Moved(l, x)
        BY <1>1 DEF Moved
    <2> QED BY <1>1, <2>1, <2>2, <2>3, <2>4, ObservedFacts, ShimStep DEF Holds
<1>4. CASE shim_cloned(l)
    <2>1. PICK p \in {"cloned", "failed"}, c \in {"whole", "partial"} :
             shim' = [shim EXCEPT ![l].pc = p, ![l].dest = c]
        BY <1>4 DEF shim_cloned
    <2> DEFINE x == [shim[l] EXCEPT !.pc = p, !.dest = c]
    <2>2. /\ x \in ShimRecords /\ x.pc = p /\ x.root = shim[l].root /\ x.on = shim[l].on
          /\ x.owes = shim[l].owes /\ x.dir = shim[l].dir
        BY Facts DEF ShimRecords, ShimPcs
    <2>3. shim' = [shim EXCEPT ![l] = x] /\ shim[l].pc = "cloning" /\ lock' = "free"
        BY <1>4, <2>1, Facts DEF shim_cloned, Typed
    <2> HIDE DEF x
    <2>4. Moved(l, x) /\ x.root \in Roots
        BY <1>1, <1>2, <2>2, <2>3 DEF Moved, ShimOK
    <2> QED BY <1>1, <2>2, <2>3, <2>4, ObservedFacts, ShimStep DEF Waiting, Holds
<1> QED BY <1>3, <1>4

\* A create registers its policy: the newest one counts from now on.
LEMMA RegisterInv == ASSUME Inv, NEW l \in Launches, register(l) PROVE Inv'
<1> USE SpareConstants
<1> DEFINE x == [shim[l] EXCEPT !.owes = FALSE]
<1>1. /\ sup = "serving" /\ shim[l].owes /\ shim' = [shim EXCEPT ![l] = x] /\ lastPolicy' = l
      /\ UNCHANGED <<place, maybe, content, record, lock, helper, sup, worker, sweep, crashes, faults>>
    BY Facts DEF register, disk, Typed
<1>2. /\ x \in ShimRecords /\ x.pc = shim[l].pc /\ x.root = shim[l].root /\ x.on = shim[l].on
      /\ x.owes = FALSE /\ x.dir = shim[l].dir /\ x.dest = shim[l].dest
    BY Facts DEF ShimRecords
<1> HIDE DEF x
<1>3. /\ shim' \in [Launches -> ShimRecords] /\ shim'[l] = x
      /\ \A k \in Launches \ {l} : shim'[k] = shim[k]
    BY <1>1, <1>2, Facts DEF Typed
<1>4. \A k \in Launches : /\ Root(k)' = Root(k) /\ On(k)' = On(k) /\ shim'[k].pc = shim[k].pc
                          /\ shim'[k].dir = shim[k].dir /\ shim'[k].dest = shim[k].dest
                          /\ shim'[k].owes => shim[k].owes
    BY <1>2, <1>3 DEF Root, On
<1>5. \A k \in Launches : Known(k) => Known(k)' /\ k # l
    BY <1>1, <1>4 DEF Known
<1>6. Known(l)'
    BY <1>1, <1>2, <1>3 DEF Inv, ShimOK, Known
<1>7. \/ /\ UNCHANGED <<desired, running, settled>> /\ desired # None
         /\ Root(desired) = Root(l) /\ On(desired) = On(l)
      \/ desired' = l /\ running' = FALSE /\ settled' = TRUE
    BY DEF register, policy
<1>8. Typed'
    <2>1. desired' \in Launches \cup {None} /\ running' \in BOOLEAN
        BY <1>7, Facts DEF Typed
    <2>2. settled' \in BOOLEAN
        BY <1>7, Facts DEF Typed
    <2> QED BY <1>1, <1>3, <2>1, <2>2, Facts DEF Typed
<1>9. DiskOK'
    BY <1>1 DEF Inv, DiskOK, NothingForgotten, ReadyIsRecorded, ReadyIsWhole
<1>10. ASSUME NEW k \in Launches PROVE ShimOK(k)'
    <2>1. shim'[k].root = shim[k].root
        BY <1>4 DEF Root
    <2> QED BY <1>1, <1>4, <2>1 DEF Inv, ShimOK, Root
<1>11. \A d \in Dirs : HelperOK(d)'
    BY <1>1 DEF Inv, HelperOK
<1>12. WorkerOK'
    BY <1>1, <1>5, <1>6, <1>7 DEF Inv, WorkerOK, Known
<1>13. BuildOK'
    <2>1. SUFFICES ASSUME worker.pc # "idle" PROVE BuildOK'
        BY <1>1 DEF BuildOK, Building
    <2>2. Root(worker.launch)' = Root(worker.launch) /\ On(worker.launch)' = On(worker.launch)
        BY <1>1, <1>4, <2>1 DEF Inv, WorkerOK, Known
    <2> QED BY <1>1, <2>2 DEF Inv, BuildOK, MaybeReady
<1>14. SweepOK' /\ Remnants'
    BY <1>1 DEF Inv, SweepOK, Remnants, MayStay, Ready, MaybeReady
<1>15. PolicyOK'
    <2>1. \A k \in Launches : (Good(k) => Good(k)') /\ (Evicting(k) => Evicting(k)')
        BY <1>1, <1>4 DEF Good, Evicting
    <2>2. worker.pc # "idle" => Known(worker.launch) /\ worker.launch # l /\ worker.launch \in Launches
        BY <1>5 DEF Inv, WorkerOK, Known
    <2>3. CASE /\ UNCHANGED <<desired, running, settled>> /\ desired # None
               /\ Root(desired) = Root(l) /\ On(desired) = On(l)
        <3>1. desired \in Launches /\ lastPolicy # None
            BY <2>3 DEF Inv, WorkerOK, Known
        <3>2. Same(desired, lastPolicy)'
            BY <1>1, <1>4, <2>3, <3>1 DEF Same
        <3>3. settled /\ desired = worker.launch /\ worker.pc \in After => Good(worker.launch)'
            BY <1>1, <2>1, <2>2, <3>1 DEF Inv, PolicyOK, After
        <3>4. settled /\ desired = worker.launch /\ worker.pc = "discard" => Evicting(worker.launch)'
            BY <1>1, <2>1, <2>2, <3>1 DEF Inv, PolicyOK
        <3> QED BY <1>1, <2>3, <3>2, <3>3, <3>4 DEF PolicyOK
    <2>4. CASE desired' = l
        <3>1. Same(desired, lastPolicy)' /\ l # None
            BY <1>1, <2>4 DEF Same
        <3>2. worker.pc \in After \cup {"discard"} => desired' # worker.launch
            BY <2>2, <2>4 DEF After
        <3> QED BY <1>1, <2>4, <3>1, <3>2 DEF PolicyOK
    <2> QED BY <1>7, <2>3, <2>4
<1> QED BY <1>8, <1>9, <1>10, <1>11, <1>12, <1>13, <1>14, <1>15 DEF Inv

LEMMA LaunchInv == ASSUME Inv, NEW l \in Launches, Launch(l) PROVE Inv'
<1>1. CASE shim_fetch(l)
    BY <1>1, GoesOnInv, HoldingInv DEF shim_fetch
<1>2. CASE shim_move_fails(l)
    BY <1>2, GoesOnInv, HoldingInv DEF shim_move_fails
<1> QED BY <1>1, <1>2, CreateInv, RegisterInv, ClaimInv, GoesOnInv, HoldingInv, TakenInv, VisibleInv DEF Launch

\* A step of the helper of directory d: it writes only while it has the lock, and
\* only to a directory that is being built.
LEMMA HelperInv == ASSUME Inv, NEW d \in Dirs, Helper(d) PROVE Inv'
<1>1. /\ helper[d] \in {"waiting", "cloning"}
      /\ UNCHANGED <<place, maybe, record, shim, desired, running, sup, worker, sweep, crashes, faults,
                     lastPolicy, settled>>
    BY DEF Helper, helper_clone, helper_cloned, helper_dies, disk, policy, observed
<1>2. PICK h \in {"cloning", "done", "dead"} : helper' = [helper EXCEPT ![d] = h]
    BY DEF Helper, helper_clone, helper_cloned, helper_dies
<1>3. \/ h = "cloning" /\ lock = "free" /\ lock' = "helper" /\ place[d].name = "building"
           /\ content' = [content EXCEPT ![d] = "partial"]
      \/ h = "done" /\ helper[d] = "cloning" /\ lock' = "free" /\ content' = [content EXCEPT ![d] = "whole"]
      \/ h = "dead" /\ lock' = (IF helper[d] = "cloning" THEN "free" ELSE lock) /\ content' = content
    BY <1>1, <1>2, Facts DEF Helper, helper_clone, helper_cloned, helper_dies, disk, Typed
<1>4. /\ helper' \in [Dirs -> {"none", "waiting", "cloning", "done", "dead"}] /\ helper'[d] = h
      /\ \A e \in Dirs \ {d} : helper'[e] = helper[e]
    BY <1>2, Facts DEF Typed
<1>5. /\ content' \in [Dirs -> {"none", "empty", "partial", "whole", "moved"}]
      /\ \A e \in Dirs \ {d} : content'[e] = content[e]
      /\ content'[d] # content[d] => place[d].name = "building"
      /\ h = "done" => content'[d] = "whole"
    BY <1>3, Facts DEF Typed, Inv, HelperOK
<1>6. lock' \in {"free", "worker", "sweep", "helper", "visible"}
    BY <1>3, Facts DEF Typed
<1>7. Typed'
    BY <1>1, <1>4, <1>5, <1>6, Facts DEF Typed
<1>8. lock' = lock \/ (lock = "free" /\ lock' = "helper") \/ (lock = "helper" /\ lock' = "free")
    BY <1>3 DEF Inv, HelperOK
<1>9. DiskOK'
    BY <1>1, <1>5 DEF Inv, DiskOK, NothingForgotten, ReadyIsRecorded, ReadyIsWhole
<1>10. ASSUME NEW l \in Launches PROVE ShimOK(l)'
    <2>1. shim[l].pc \in Holds => content'[shim[l].dir] = content[shim[l].dir]
        <3>1. SUFFICES ASSUME shim[l].pc \in Holds PROVE content'[shim[l].dir] = content[shim[l].dir]
            OBVIOUS
        <3>2. shim[l].dir \in Dirs /\ place[shim[l].dir] = Claim(Root(l), l) /\ Root(l) \in Roots
            BY <3>1 DEF Inv, ShimOK, Holds, Root
        <3>3. place[shim[l].dir].name = "claimed"
            BY <3>2, Naming
        <3> QED BY <1>5, <3>2, <3>3
    <2> QED BY <1>1, <1>8, <2>1 DEF Inv, ShimOK, Root
<1>11. ASSUME NEW e \in Dirs PROVE HelperOK(e)'
    BY <1>1, <1>3, <1>4 DEF Inv, HelperOK
<1>12. WorkerOK' /\ SweepOK' /\ PolicyOK' /\ Remnants'
    <2>1. WorkerOK'
        BY <1>1, <1>8 DEF Inv, WorkerOK, Known
    <2>2. SweepOK'
        BY <1>1, <1>8 DEF Inv, SweepOK, Ready, MaybeReady
    <2>3. PolicyOK' /\ Remnants'
        BY <1>1 DEF Inv, PolicyOK, Remnants, MayStay, Good, Evicting, Same, Root, On
    <2> QED BY <2>1, <2>2, <2>3
<1>13. BuildOK'
    <2>1. worker.pc \in {"record_ready", "publish"} => worker.dir # d
        BY <1>1 DEF Inv, BuildOK
    <2>2. worker.pc \in Building => worker.dir \in Dirs
        BY DEF Inv, BuildOK
    <2>3. worker.pc = "build" /\ helper'[worker.dir] = "done" => content'[worker.dir] = "whole"
        BY <1>4, <1>5, <2>2 DEF Inv, BuildOK, Building
    <2>4. worker.pc \in {"record_ready", "publish"} =>
              helper'[worker.dir] = "done" /\ content'[worker.dir] = "whole"
        BY <1>4, <1>5, <2>1, <2>2 DEF Inv, BuildOK, Building
    <2> QED BY <1>1, <2>3, <2>4 DEF Inv, BuildOK, MaybeReady, Root, On
<1> QED BY <1>7, <1>9, <1>10, <1>11, <1>12, <1>13 DEF Inv

\* While a cleanup is under way nobody else has the lock, and the worker builds nothing.
LEMMA SweepingFacts ==
    ASSUME Inv, sweep.why # "none"
    PROVE  /\ lock \in {"sweep", "worker"}
           /\ worker.pc \notin Building \cup {"mkdir", "prepare"}
           /\ \A d \in Dirs : helper[d] # "cloning"
           /\ \A l \in Launches : shim[l].pc \in Waiting => l \in sweep.live
           /\ \A l \in Launches : shim[l].pc # "cloning"
<1>1. sweep.why \in {"startup", "discard", "cleanup"}
    BY Facts DEF SweepRecords
<1>2. lock \in {"sweep", "worker"} /\ worker.pc \notin Building \cup {"mkdir", "prepare"}
    BY <1>1 DEF Inv, SweepOK, WorkerOK, Building
<1> QED BY <1>2 DEF Inv, HelperOK, ShimOK

\* What a cleanup does to a directory: nothing, or it goes; a claim in use does not.
Swept(d) ==
    \/ place'[d] = place[d] /\ content'[d] = content[d]
    \/ /\ place'[d] \in {At(sweep.root, "trash"), Nowhere} /\ sweep.root \in Roots
       /\ ~(place[d].name = "claimed" /\ place[d].by \in sweep.live)

\* A step of a cleanup before its end.
LEMMA SweepStep ==
    ASSUME Inv, sweep.why # "none",
           UNCHANGED <<record, lock, helper, shim, desired, running, sup, worker, crashes, lastPolicy>>,
           faults' \in 0..MaxFaults, settled' \in BOOLEAN, settled' => settled,
           place' \in [Dirs -> Places], maybe' \in [Dirs -> SUBSET Places],
           content' \in [Dirs -> {"none", "empty", "partial", "whole", "moved"}],
           \A d \in Dirs : Swept(d) /\ maybe'[d] \subseteq maybe[d] \cup {place'[d]} /\ place'[d] \in maybe'[d],
           sweep' \in SweepRecords, sweep'.why = sweep.why, sweep'.live = sweep.live, sweep'.evict = sweep.evict,
           SweepOK', Remnants',
           settled' /\ Evicting(worker.launch) => Evicting(worker.launch)'
    PROVE  Inv'
<1>1. Typed'
    BY Facts DEF Typed
<1>2. \A d \in Dirs : place'[d].name = "ready" => place'[d] = place[d] /\ content'[d] = content[d]
    BY Naming DEF Swept
<1>3. DiskOK'
    <2>1. ASSUME NEW d \in Dirs, NEW p \in maybe'[d] \ maybe[d]
          PROVE p = Nowhere \/ (p.name = "trash" /\ record[p.root].known)
        <3>1. p = place'[d] /\ p # place[d]
            BY <2>1, Facts
        <3>2. p = Nowhere \/ (p = At(sweep.root, "trash") /\ sweep.root \in Roots)
            BY <3>1 DEF Swept
        <3>3. sweep.root \in Roots => record[sweep.root].known
            BY SpareConstants DEF Inv, SweepOK
        <3> QED BY <3>2, <3>3, Naming
    <2>2. NothingForgotten'
        BY <2>1 DEF Inv, DiskOK, NothingForgotten
    <2>3. ReadyIsRecorded'
        BY <2>1, Naming DEF Inv, DiskOK, ReadyIsRecorded
    <2>4. ReadyIsWhole'
        BY <1>2 DEF Inv, DiskOK, ReadyIsWhole
    <2> QED BY <2>2, <2>3, <2>4 DEF DiskOK
<1>4. ASSUME NEW l \in Launches PROVE ShimOK(l)'
    <2>1. shim[l].pc \in Holds => place'[shim[l].dir] = place[shim[l].dir] /\ content'[shim[l].dir] = content[shim[l].dir]
        <3>1. SUFFICES ASSUME shim[l].pc \in Holds
              PROVE place'[shim[l].dir] = place[shim[l].dir] /\ content'[shim[l].dir] = content[shim[l].dir]
            OBVIOUS
        <3>2. shim[l].dir \in Dirs /\ place[shim[l].dir] = Claim(Root(l), l) /\ Root(l) \in Roots
            BY <3>1 DEF Inv, ShimOK, Holds, Root
        <3>3. l \in sweep.live
            BY <3>1, SweepingFacts DEF Holds, Waiting
        <3> QED BY <3>2, <3>3, Naming DEF Swept
    <2> QED BY <2>1 DEF Inv, ShimOK, Root
<1>5. \A d \in Dirs : HelperOK(d)'
    BY SweepingFacts DEF HelperOK
<1>6. WorkerOK'
    BY DEF Inv, WorkerOK, Known
<1>7. BuildOK'
    BY SweepingFacts DEF BuildOK, Building
<1>8. PolicyOK'
    <2>1. \A l : (Good(l) => Good(l)') /\ (\A k : Same(l, k) => Same(l, k)')
        BY <1>2 DEF Good, Same, On, Root
    <2> QED BY <2>1 DEF Inv, PolicyOK
<1> QED BY <1>1, <1>3, <1>4, <1>5, <1>6, <1>7, <1>8 DEF Inv

\* A step that reads names only.
LEMMA ReadingInv ==
    ASSUME Inv, \/ \E r \in Roots : sweep_list(r)
                \/ \E e \in sweep.left : sweep_leaves(e)
    PROVE  Inv'
<1> USE SpareConstants
<1>1. /\ UNCHANGED <<place, maybe, content, record, lock, helper, shim, desired, running, sup, worker>>
      /\ UNCHANGED <<crashes, faults, lastPolicy, settled>>
    BY DEF sweep_list, sweep_leaves, disk, policy, observed
<1>2. sweep \in SweepRecords
    BY Facts
<1>3. CASE \E r \in Roots : sweep_list(r)
    <2>1. PICK r \in Roots : sweep_list(r)
        BY <1>3
    <2> DEFINE named == {[dir |-> d, at |-> place[d]] : d \in InRoot(r)}
               s == [sweep EXCEPT !.root = r, !.todo = @ \ {r}, !.left = named]
    <2>2. sweep' = s /\ sweep.root = None /\ r \in sweep.todo /\ sweep.why # "none"
        BY <2>1 DEF sweep_list
    <2>3. named \subseteq Entries
        BY Facts DEF Entries, InRoot
    <2>4. s \in SweepRecords
        BY <1>2, <2>3 DEF SweepRecords
    <2>5. /\ s.why = sweep.why /\ s.live = sweep.live /\ s.evict = sweep.evict /\ s.root = r
          /\ s.todo = sweep.todo \ {r} /\ s.left = named /\ s.parked = sweep.parked
          /\ s.keep = sweep.keep /\ s.cleared = sweep.cleared /\ s.fail = sweep.fail
        BY <1>2 DEF SweepRecords
    <2>6. \A d \in Dirs : place[d].root = r => [dir |-> d, at |-> place[d]] \in named
        BY DEF InRoot
    <2> HIDE DEF s, named
    <2>7. SweepOK'
        BY <1>1, <2>2, <2>5 DEF Inv, SweepOK, Ready, MaybeReady
    <2>8. Remnants'
        BY <1>1, <2>2, <2>5, <2>6, Facts, Naming DEF Inv, Remnants, MayStay
    <2>9. Evicting(worker.launch) => Evicting(worker.launch)'
        BY <1>1, <2>2, <2>5, <2>6, Facts, Naming DEF Evicting, On, Root
    <2>10. \A d \in Dirs : Swept(d) /\ maybe'[d] \subseteq maybe[d] \cup {place'[d]} /\ place'[d] \in maybe'[d]
        BY <1>1, Facts DEF Swept
    <2> QED BY <1>1, <2>2, <2>4, <2>5, <2>7, <2>8, <2>9, <2>10, Facts, SweepStep DEF Typed
<1>4. CASE \E e \in sweep.left : sweep_leaves(e)
    <2>1. PICK e \in sweep.left : sweep_leaves(e)
        BY <1>4
    <2> DEFINE s == [sweep EXCEPT !.left = @ \ {e}]
    <2>2. sweep' = s /\ sweep.root # None /\ sweep.parked = None /\ sweep.why # "none"
        BY <2>1 DEF sweep_leaves, Next_name, Inv, SweepOK
    <2>3. s \in SweepRecords
        BY <1>2 DEF SweepRecords
    <2>4. /\ s.why = sweep.why /\ s.live = sweep.live /\ s.evict = sweep.evict /\ s.root = sweep.root
          /\ s.todo = sweep.todo /\ s.left = sweep.left \ {e} /\ s.parked = sweep.parked
          /\ s.keep = sweep.keep /\ s.cleared = sweep.cleared /\ s.fail = sweep.fail
        BY <1>2 DEF SweepRecords
    <2>5. \/ e.at.name = "claimed" /\ e.at.by \in sweep.live
          \/ e.at.name = "ready" /\ sweep.root \notin sweep.evict
        BY <2>1 DEF sweep_leaves
    <2>6. \A d : e = [dir |-> d, at |-> place[d]] => e.at = place[d]
        OBVIOUS
    <2> HIDE DEF s
    <2>7. SweepOK'
        BY <1>1, <2>2, <2>4 DEF Inv, SweepOK, Ready, MaybeReady
    <2>8. Remnants'
        BY <1>1, <2>2, <2>4, <2>5, <2>6, Facts DEF Inv, Remnants, MayStay
    <2>9. Evicting(worker.launch) => Evicting(worker.launch)'
        BY <1>1, <2>2, <2>4, <2>5, <2>6, Facts DEF Evicting, On, Root
    <2>10. \A d \in Dirs : Swept(d) /\ maybe'[d] \subseteq maybe[d] \cup {place'[d]} /\ place'[d] \in maybe'[d]
        BY <1>1, Facts DEF Swept
    <2> QED BY <1>1, <2>2, <2>3, <2>4, <2>7, <2>8, <2>9, <2>10, Facts, SweepStep DEF Typed
<1> QED BY <1>3, <1>4

\* A root is given up: its record stays, and the policy is not promised.
LEMMA GivenUpInv ==
    ASSUME Inv, sweep_fails \/ \E e \in sweep.left : sweep_stops(e)
    PROVE  Inv'
<1> USE SpareConstants
<1> DEFINE s == [sweep EXCEPT !.root = None, !.left = {}, !.parked = None, !.fail = @ \cup {sweep.root}]
<1>1. /\ UNCHANGED <<place, maybe, record, lock, helper, shim, desired, running, sup, worker, crashes, lastPolicy>>
      /\ settled' = FALSE /\ sweep.root # None /\ sweep' = s
      /\ \/ content' = content
         \/ sweep.parked # None /\ content' = [content EXCEPT ![sweep.parked] = "partial"]
    BY DEF sweep_fails, sweep_stops, Next_name, Failed, Fault, disk, policy
<1>2. faults' \in 0..MaxFaults
    BY ObservedFacts, Facts DEF sweep_fails, sweep_stops, Typed
<1>3. sweep.why # "none" /\ sweep.root \in Roots
    BY <1>1, Facts DEF Inv, SweepOK
<1>4. s \in SweepRecords
    BY <1>3, Facts DEF SweepRecords
<1>5. /\ s.why = sweep.why /\ s.live = sweep.live /\ s.evict = sweep.evict /\ s.root = None
      /\ s.todo = sweep.todo /\ s.left = {} /\ s.parked = None
      /\ s.keep = sweep.keep /\ s.cleared = sweep.cleared /\ s.fail = sweep.fail \cup {sweep.root}
    BY Facts DEF SweepRecords
<1> HIDE DEF s
<1>6. SweepOK'
    BY <1>1, <1>3, <1>5 DEF Inv, SweepOK, Ready, MaybeReady
<1>7. Remnants'
    BY <1>1, <1>3, <1>5, Facts DEF Inv, Remnants, MayStay
<1>8. sweep.parked # None => place[sweep.parked].name = "trash" /\ sweep.parked \in Dirs
                              /\ place[sweep.parked] = At(sweep.root, "trash")
    BY <1>3, Facts, Naming DEF Inv, SweepOK
<1>9. \A d \in Dirs : Swept(d) /\ maybe'[d] \subseteq maybe[d] \cup {place'[d]} /\ place'[d] \in maybe'[d]
    BY <1>1, <1>3, <1>8, Facts DEF Swept, Typed
<1>10. content' \in [Dirs -> {"none", "empty", "partial", "whole", "moved"}]
    BY <1>1, Facts DEF Typed
<1> QED BY <1>1, <1>2, <1>3, <1>4, <1>5, <1>6, <1>7, <1>9, <1>10, Facts, SweepStep DEF Typed

LEMMA ParkInv == ASSUME Inv, NEW e \in sweep.left, discard_park(e) PROVE Inv'
<1> USE SpareConstants
<1> DEFINE got == IF e.at.name = "ready" THEN sweep.cleared \cup {sweep.root} ELSE sweep.cleared
           s == [sweep EXCEPT !.left = @ \ {e}, !.parked = e.dir, !.cleared = got]
           p == At(sweep.root, "trash")
<1>1. /\ UNCHANGED <<content, record, lock, helper, shim, desired, running, sup, worker>>
      /\ UNCHANGED <<crashes, faults, lastPolicy, settled>>
      /\ sweep.root # None /\ sweep.parked = None /\ place[e.dir] = e.at /\ Move(e.dir, p) /\ Removable(e)
    BY DEF discard_park, Next_name, policy, observed
<1>2. sweep.why # "none" /\ sweep.root \in Roots /\ e \in Entries /\ e.dir \in Dirs
    BY <1>1, Facts DEF Inv, SweepOK, Entries
<1>3. sweep' = s
    BY Facts DEF discard_park, SweepRecords
<1>4. s \in SweepRecords
    BY <1>2, Facts DEF SweepRecords
<1>5. /\ s.why = sweep.why /\ s.live = sweep.live /\ s.evict = sweep.evict /\ s.root = sweep.root
      /\ s.todo = sweep.todo /\ s.left = sweep.left \ {e} /\ s.parked = e.dir
      /\ s.keep = sweep.keep /\ s.cleared = got /\ s.fail = sweep.fail
    BY Facts DEF SweepRecords
<1>6. p \in Places /\ p.root = sweep.root /\ p.name = "trash"
    BY <1>2, Naming
<1>7. /\ place' \in [Dirs -> Places] /\ maybe' \in [Dirs -> SUBSET Places]
      /\ place'[e.dir] = p /\ maybe'[e.dir] = maybe[e.dir] \cup {p}
      /\ \A d \in Dirs \ {e.dir} : place'[d] = place[d] /\ maybe'[d] = maybe[d]
    BY <1>1, <1>2, <1>6, Facts DEF Move, Typed
<1>8. ~(e.at.name = "claimed" /\ e.at.by \in sweep.live)
    BY <1>1 DEF Removable
<1>9. e.at.name = "ready" => ~Ready(sweep.root)'
    <2>1. SUFFICES ASSUME e.at.name = "ready", Ready(sweep.root)' PROVE FALSE
        OBVIOUS
    <2>2. record[sweep.root].ready = e.dir
        BY <1>1, <2>1 DEF Removable, Recorded
    <2>3. PICK d \in Dirs : place'[d] = At(sweep.root, "ready")
        BY <1>3, <1>5, <2>1 DEF Ready
    <2>4. At(sweep.root, "ready").name = "ready" /\ At(sweep.root, "ready").root = sweep.root
        BY <1>2, Naming
    <2>5. d # e.dir /\ At(sweep.root, "ready") \in maybe[d]
        BY <1>6, <1>7, <2>3, <2>4, Facts
    <2> QED BY <2>2, <2>4, <2>5 DEF Inv, DiskOK, ReadyIsRecorded
<1>10. \A r \in Roots : (Ready(r)' => Ready(r)) /\ (MaybeReady(r)' => MaybeReady(r))
    <2>1. SUFFICES ASSUME NEW r \in Roots PROVE (Ready(r)' => Ready(r)) /\ (MaybeReady(r)' => MaybeReady(r))
        OBVIOUS
    <2>2. At(r, "ready").name = "ready"
        BY Naming
    <2> QED BY <1>6, <1>7, <2>2 DEF Ready, MaybeReady
<1>10a. sweep.cleared \subseteq Roots
    BY Facts DEF SweepRecords
<1> HIDE DEF s, p
<1>11. SweepOK'
    <2>1. /\ sweep.why \in {"discard", "cleanup"} <=> worker.pc \in {"discard", "cleanup"}
          /\ worker.pc \in {"discard", "cleanup"} => sweep.why = worker.pc /\ sweep.live = Launches
          /\ sweep.why = "startup" => sup = "starting"
          /\ lock = "sweep" <=> sweep.why = "startup"
          /\ record[sweep.root].known /\ \A r \in sweep.todo : record[r].known
        BY <1>1 DEF Inv, SweepOK
    <2>2. \A r \in got : ~Ready(r)'
        <3>1. \A r \in sweep.cleared : ~Ready(r)'
            BY <1>10, <1>10a DEF Inv, SweepOK
        <3> QED BY <1>3, <1>5, <1>9, <3>1 DEF Ready
    <2>3. \A r \in Roots \ (sweep.todo \cup sweep.fail \cup {sweep.root}) :
             /\ r \in got => ~MaybeReady(r)'
             /\ r \notin sweep.keep => \A d \in Dirs : \A q \in maybe'[d] : q.root # r
        <3>1. SUFFICES ASSUME NEW r \in Roots \ (sweep.todo \cup sweep.fail \cup {sweep.root})
              PROVE /\ r \in got => ~MaybeReady(r)'
                    /\ r \notin sweep.keep => \A d \in Dirs : \A q \in maybe'[d] : q.root # r
            OBVIOUS
        <3>2. r \in sweep.cleared => ~MaybeReady(r)
            BY <1>2 DEF Inv, SweepOK
        <3>3. r \notin sweep.keep => \A d \in Dirs : \A q \in maybe[d] : q.root # r
            BY <1>2 DEF Inv, SweepOK
        <3> QED BY <1>6, <1>7, <1>10, <3>2, <3>3
    <2>4. place'[e.dir] = At(sweep.root, "trash")
        BY <1>7 DEF p
    <2> HIDE DEF got
    <2> QED BY <1>1, <1>2, <1>3, <1>5, <2>1, <2>2, <2>3, <2>4 DEF SweepOK, Ready, MaybeReady
<1> HIDE DEF got
<1>12. Remnants'
    <2>1. SUFFICES ASSUME sweep.why = "startup", NEW d \in Dirs
          PROVE \/ MayStay(place'[d])
                \/ place'[d].root \in sweep.todo \cup sweep.fail
                \/ /\ place'[d].root = sweep.root
                   /\ e.dir = d \/ [dir |-> d, at |-> place'[d]] \in sweep.left \ {e}
        BY <1>3, <1>5 DEF Remnants, MayStay
    <2>2. CASE d = e.dir
        BY <1>6, <1>7, <2>2
    <2>3. CASE d # e.dir
        BY <1>1, <1>7, <2>1, <2>3 DEF Inv, Remnants, MayStay
    <2> QED BY <2>2, <2>3
<1>13. Evicting(worker.launch) => Evicting(worker.launch)'
    <2>1. SUFFICES ASSUME Evicting(worker.launch), NEW d \in Dirs, place'[d].name = "ready",
                          ~(On(worker.launch) /\ place'[d].root = Root(worker.launch))
          PROVE /\ place'[d].root \in sweep.evict
                /\ \/ place'[d].root \in sweep.todo
                   \/ place'[d].root = sweep.root /\ [dir |-> d, at |-> place'[d]] \in sweep.left \ {e}
        BY <1>1, <1>3, <1>5 DEF Evicting, On, Root
    <2>2. d # e.dir
        BY <1>6, <1>7, <2>1
    <2> QED BY <1>7, <2>1, <2>2 DEF Evicting
<1>14. \A d \in Dirs : Swept(d) /\ maybe'[d] \subseteq maybe[d] \cup {place'[d]} /\ place'[d] \in maybe'[d]
    BY <1>1, <1>2, <1>7, <1>8, Facts DEF Swept, p
<1>15. faults' \in 0..MaxFaults /\ settled' \in BOOLEAN
    BY <1>1, Facts DEF Typed
<1> QED BY <1>1, <1>2, <1>3, <1>4, <1>5, <1>7, <1>11, <1>12, <1>13, <1>14, <1>15, Facts, SweepStep DEF Typed

LEMMA RemoveInv == ASSUME Inv, discard_remove PROVE Inv'
<1> USE SpareConstants
<1> DEFINE s == [sweep EXCEPT !.parked = None]
           d0 == sweep.parked
<1>1. /\ UNCHANGED <<record, lock, helper, shim, desired, running, sup, worker>>
      /\ UNCHANGED <<crashes, faults, lastPolicy, settled>>
      /\ d0 # None /\ Move(d0, Nowhere) /\ sweep' = s /\ content' = [content EXCEPT ![d0] = "none"]
    BY DEF discard_remove, policy, observed
<1>2. d0 \in Dirs /\ sweep.why # "none" /\ sweep.root \in Roots /\ place[d0] = At(sweep.root, "trash")
    BY <1>1, Facts DEF Inv, SweepOK
<1>3. s \in SweepRecords
    BY Facts DEF SweepRecords
<1>4. /\ s.why = sweep.why /\ s.live = sweep.live /\ s.evict = sweep.evict /\ s.root = sweep.root
      /\ s.todo = sweep.todo /\ s.left = sweep.left /\ s.parked = None
      /\ s.keep = sweep.keep /\ s.cleared = sweep.cleared /\ s.fail = sweep.fail
    BY Facts DEF SweepRecords
<1> HIDE DEF s
<1>5. /\ place' \in [Dirs -> Places] /\ maybe' \in [Dirs -> SUBSET Places]
      /\ content' \in [Dirs -> {"none", "empty", "partial", "whole", "moved"}]
      /\ place'[d0] = Nowhere /\ maybe'[d0] = maybe[d0] \cup {Nowhere}
      /\ \A d \in Dirs \ {d0} : place'[d] = place[d] /\ maybe'[d] = maybe[d] /\ content'[d] = content[d]
    BY <1>1, <1>2, Naming, Facts DEF Move, Typed
<1>6. place[d0].name = "trash" /\ Nowhere.name = "gone" /\ Nowhere.root = None
    BY <1>2, Naming
<1>7. \A r \in Roots : (Ready(r)' => Ready(r)) /\ (MaybeReady(r)' => MaybeReady(r))
    <2>1. SUFFICES ASSUME NEW r \in Roots PROVE (Ready(r)' => Ready(r)) /\ (MaybeReady(r)' => MaybeReady(r))
        OBVIOUS
    <2>2. At(r, "ready").name = "ready"
        BY Naming
    <2> QED BY <1>5, <1>6, <2>2 DEF Ready, MaybeReady
<1>8. sweep.cleared \subseteq Roots
    BY Facts DEF SweepRecords
<1>9. SweepOK'
    <2>1. \A r \in sweep.cleared : ~Ready(r)'
        BY <1>7, <1>8 DEF Inv, SweepOK
    <2>2. \A r \in Roots \ (sweep.todo \cup sweep.fail \cup {sweep.root}) :
             /\ r \in sweep.cleared => ~MaybeReady(r)'
             /\ r \notin sweep.keep => \A d \in Dirs : \A q \in maybe'[d] : q.root # r
        BY <1>2, <1>5, <1>6, <1>7 DEF Inv, SweepOK
    <2> QED BY <1>1, <1>2, <1>4, <2>1, <2>2 DEF Inv, SweepOK, Ready, MaybeReady
<1>10. Remnants'
    <2>1. SUFFICES ASSUME sweep.why = "startup", NEW d \in Dirs
          PROVE \/ MayStay(place'[d])
                \/ place'[d].root \in sweep.todo \cup sweep.fail
                \/ /\ place'[d].root = sweep.root
                   /\ [dir |-> d, at |-> place'[d]] \in sweep.left
        BY <1>1, <1>4, SpareConstants DEF Remnants, MayStay
    <2>2. CASE d = d0
        BY <1>5, <1>6, <2>2 DEF MayStay
    <2>3. CASE d # d0
        BY <1>5, <2>1, <2>3 DEF Inv, Remnants, MayStay
    <2> QED BY <2>2, <2>3
<1>11. Evicting(worker.launch) => Evicting(worker.launch)'
    BY <1>1, <1>4, <1>5, <1>6 DEF Evicting, On, Root
<1>12. \A d \in Dirs : Swept(d) /\ maybe'[d] \subseteq maybe[d] \cup {place'[d]} /\ place'[d] \in maybe'[d]
    BY <1>2, <1>5, <1>6, Facts DEF Swept
<1> QED BY <1>1, <1>2, <1>3, <1>4, <1>5, <1>9, <1>10, <1>11, <1>12, Facts, SweepStep DEF Typed

LEMMA SyncInv == ASSUME Inv, sweep_sync PROVE Inv'
<1> USE SpareConstants
<1> DEFINE stays == IF InRoot(sweep.root) # {} THEN sweep.keep \cup {sweep.root} ELSE sweep.keep
           s == [sweep EXCEPT !.root = None, !.keep = stays]
<1>1. /\ UNCHANGED <<place, content, record, lock, helper, shim, desired, running, sup, worker>>
      /\ UNCHANGED <<crashes, faults, lastPolicy, settled>>
      /\ sweep.root # None /\ sweep.left = {} /\ sweep.parked = None /\ maybe' = Flushed(sweep.root)
    BY DEF sweep_sync, policy, observed
<1>2. sweep.why # "none" /\ sweep.root \in Roots
    BY <1>1, Facts DEF Inv, SweepOK
<1>3. sweep' = s
    BY Facts DEF sweep_sync, SweepRecords
<1>4. s \in SweepRecords
    BY <1>2, Facts DEF SweepRecords
<1>5. /\ s.why = sweep.why /\ s.live = sweep.live /\ s.evict = sweep.evict /\ s.root = None
      /\ s.todo = sweep.todo /\ s.left = sweep.left /\ s.parked = sweep.parked
      /\ s.keep = stays /\ s.cleared = sweep.cleared /\ s.fail = sweep.fail
    BY Facts DEF SweepRecords
<1> HIDE DEF s
<1>6. \A d \in Dirs : /\ maybe'[d] \subseteq maybe[d] /\ place[d] \in maybe'[d]
                      /\ \A p \in maybe'[d] : p.root = sweep.root => p = place[d]
    BY <1>1, Facts DEF Flushed
<1>7. maybe' \in [Dirs -> SUBSET Places]
    <2>1. DOMAIN maybe' = Dirs /\ maybe' = [d \in Dirs |-> maybe'[d]]
        BY <1>1 DEF Flushed
    <2> QED BY <1>6, <2>1, Facts
<1>8. \A r \in Roots : (Ready(r)' <=> Ready(r)) /\ (MaybeReady(r)' => MaybeReady(r))
    BY <1>1, <1>6 DEF Ready, MaybeReady
<1>9. MaybeReady(sweep.root) /\ ~Ready(sweep.root) =>
          \A d \in Dirs : At(sweep.root, "ready") \notin maybe'[d]
    BY <1>2, <1>6, Naming DEF Ready
<1>10. sweep.cleared \subseteq Roots
    BY Facts DEF SweepRecords
<1>11. SweepOK'
    <2>1. \A r \in sweep.cleared : ~Ready(r)'
        BY <1>1 DEF Inv, SweepOK, Ready
    <2>2. ASSUME NEW r \in Roots \ (sweep.todo \cup sweep.fail \cup {None})
          PROVE  /\ r \in sweep.cleared => \A d \in Dirs : At(r, "ready") \notin maybe'[d]
                 /\ r \notin stays => \A d \in Dirs : \A q \in maybe'[d] : q.root # r
        <3>1. CASE r = sweep.root
            <4>1. r \in sweep.cleared => ~Ready(r)
                BY DEF Inv, SweepOK
            <4>2. r \in sweep.cleared => \A d \in Dirs : At(r, "ready") \notin maybe'[d]
                BY <1>6, <1>9, <3>1, <4>1 DEF MaybeReady
            <4>3. r \notin stays => \A d \in Dirs : place[d].root # r
                BY <3>1 DEF InRoot
            <4> QED BY <1>6, <3>1, <4>2, <4>3
        <3>2. CASE r # sweep.root
            <4>1. /\ r \in sweep.cleared => ~MaybeReady(r)
                  /\ r \notin sweep.keep => \A d \in Dirs : \A q \in maybe[d] : q.root # r
                BY <1>2, <3>2 DEF Inv, SweepOK
            <4> QED BY <1>6, <4>1 DEF MaybeReady
        <3> QED BY <3>1, <3>2
    <2> HIDE DEF stays
    <2> QED BY <1>1, <1>2, <1>3, <1>5, <2>1, <2>2 DEF Inv, SweepOK, Ready, MaybeReady
<1> HIDE DEF stays
<1>12. Remnants'
    BY <1>1, <1>3, <1>5 DEF Inv, Remnants, MayStay
<1>13. Evicting(worker.launch) => Evicting(worker.launch)'
    BY <1>1, <1>3, <1>5 DEF Evicting, On, Root
<1>14. \A d \in Dirs : Swept(d) /\ maybe'[d] \subseteq maybe[d] \cup {place'[d]} /\ place'[d] \in maybe'[d]
    BY <1>1, <1>6 DEF Swept
<1> QED BY <1>1, <1>2, <1>3, <1>4, <1>5, <1>7, <1>11, <1>12, <1>13, <1>14, Facts, SweepStep DEF Typed

\* The end of a cleanup: the record says what is left, and who asked goes on.
LEMMA RecordInv == ASSUME Inv, sweep_record PROVE Inv'
<1> USE SpareConstants
<1>1. /\ UNCHANGED <<place, maybe, content, helper, shim, desired, running, crashes, lastPolicy>>
      /\ sweep.why # "none" /\ sweep.root = None /\ sweep.todo = {} /\ sweep' = NoSweep
    BY DEF sweep_record, disk, policy, observed, Fault
<1>2. \/ record' = [r \in Roots |-> Kept(r)] /\ UNCHANGED observed
      \/ record' = record /\ Fault
    BY DEF sweep_record
<1>3. \/ /\ sweep.why = "startup" /\ sup' = "serving" /\ lock' = "free" /\ worker' = worker
      \/ /\ sweep.why = "discard" /\ worker' = [worker EXCEPT !.pc = "prepare"] /\ On(worker.launch)
         /\ lock' = lock /\ sup' = sup
      \/ /\ sweep.why \in {"discard", "cleanup"} /\ worker' = [worker EXCEPT !.pc = "consume"]
         /\ lock' = "free" /\ sup' = sup
    <2>1. sweep.why \in {"startup", "discard", "cleanup"}
        BY <1>1, Facts DEF SweepRecords
    <2> QED BY <2>1 DEF sweep_record, AfterSweep
<1>4. /\ worker' \in WorkerRecords /\ worker'.launch = worker.launch
      /\ worker'.pc \in {worker.pc, "prepare", "consume"}
    BY <1>3, Facts DEF WorkerRecords, WorkerPcs
<1>5. faults' \in 0..MaxFaults /\ settled' \in BOOLEAN /\ (settled' => settled)
    BY <1>2, ObservedFacts
<1>5a. ASSUME NEW r \in Roots
       PROVE  /\ Kept(r) \in {record[r], Entry(None), NoEntry}
              /\ r \in sweep.fail => Kept(r) = record[r]
              /\ r \notin sweep.fail /\ r \in sweep.keep =>
                    Kept(r) = IF r \in sweep.cleared THEN Entry(None) ELSE record[r]
    <2>1. CASE r \in sweep.fail
        BY <2>1 DEF Kept
    <2>2. CASE r \notin sweep.fail /\ r \in sweep.keep
        BY <2>2 DEF Kept
    <2>3. CASE r \notin sweep.fail /\ r \notin sweep.keep
        BY <2>3 DEF Kept
    <2> QED BY <2>1, <2>2, <2>3
<1>6. record' \in [Roots -> [known : BOOLEAN, ready : Dirs \cup {None}]]
    <2>1. ASSUME NEW r \in Roots PROVE Kept(r) \in [known : BOOLEAN, ready : Dirs \cup {None}]
        <3>1. Kept(r) \in {record[r], Entry(None), NoEntry}
            BY <1>5a
        <3>2. record[r] \in [known : BOOLEAN, ready : Dirs \cup {None}]
            BY Facts DEF Typed
        <3>3. Entry(None) \in [known : BOOLEAN, ready : Dirs \cup {None}]
            BY DEF Entry
        <3>4. NoEntry \in [known : BOOLEAN, ready : Dirs \cup {None}]
            BY DEF NoEntry
        <3> QED BY <3>1, <3>2, <3>3, <3>4
    <2> QED BY <1>2, <2>1, Facts DEF Typed
<1>7. Typed'
    <2>1. NoSweep \in SweepRecords
        BY DEF NoSweep, SweepRecords
    <2>2. lock' \in {"free", "worker", "sweep", "helper", "visible"} /\ sup' \in {"down", "starting", "serving", "stopping"}
        BY <1>3, Facts DEF Typed
    <2> QED BY <1>1, <1>4, <1>5, <1>6, <2>1, <2>2, Facts DEF Typed
<1>8. \A d \in Dirs : \A p \in maybe[d] \ {Nowhere} :
         /\ p.root \in Roots /\ record'[p.root].known
         /\ p.name = "ready" => record'[p.root].ready = d
    <2>1. SUFFICES ASSUME NEW d \in Dirs, NEW p \in maybe[d] \ {Nowhere}
          PROVE p.root \in Roots /\ record'[p.root].known /\ (p.name = "ready" => record'[p.root].ready = d)
        OBVIOUS
    <2>2. p.root \in Roots /\ record[p.root].known /\ (p.name = "ready" => record[p.root].ready = d)
        BY Facts, Naming DEF Inv, DiskOK, NothingForgotten, ReadyIsRecorded
    <2>3. CASE record' = record \/ p.root \in sweep.fail
        BY <1>2, <1>5a, <2>2, <2>3
    <2>4. CASE p.root \notin sweep.fail /\ record' = [r \in Roots |-> Kept(r)]
        <3>1. /\ p.root \in sweep.cleared => ~MaybeReady(p.root)
              /\ p.root \notin sweep.keep => \A q \in maybe[d] : q.root # p.root
            BY <1>1, <2>2, <2>4 DEF Inv, SweepOK
        <3>2. p.root \in sweep.keep
            BY <3>1
        <3>3. p.name = "ready" => p.root \notin sweep.cleared
            BY <3>1, Facts, Naming DEF MaybeReady
        <3>4. record'[p.root] = IF p.root \in sweep.cleared THEN Entry(None) ELSE record[p.root]
            BY <1>5a, <2>2, <2>4, <3>2
        <3> QED BY <2>2, <3>3, <3>4 DEF Entry
    <2> QED BY <1>2, <2>3, <2>4
<1>9. DiskOK'
    <2>1. NothingForgotten' /\ ReadyIsRecorded'
        BY <1>1, <1>8, Naming DEF NothingForgotten, ReadyIsRecorded
    <2>2. ReadyIsWhole'
        BY <1>1 DEF Inv, DiskOK, ReadyIsWhole
    <2> QED BY <1>1, <2>1, <2>2 DEF Inv, DiskOK
<1>10. ASSUME NEW l \in Launches PROVE ShimOK(l)'
    <2>1. shim[l].pc # "cloning" /\ sweep'.why = "none"
        BY <1>1, SweepingFacts DEF NoSweep
    <2> QED BY <1>1, <2>1 DEF Inv, ShimOK, Root
<1>11. \A d \in Dirs : HelperOK(d)'
    BY <1>1, SweepingFacts DEF HelperOK
<1>12. worker.pc # worker'.pc => worker'.pc \in {"prepare", "consume"} /\ worker.pc \in {"discard", "cleanup"}
    <2>1. \/ worker' = worker
          \/ worker'.pc \in {"prepare", "consume"} /\ sweep.why \in {"discard", "cleanup"}
        BY <1>3, Facts DEF WorkerRecords
    <2> QED BY <2>1 DEF Inv, SweepOK
<1>13. WorkerOK'
    <2>1. \A l : Known(l)' <=> Known(l)
        BY <1>1 DEF Known
    <2>2. lock' = "worker" <=> worker'.pc \in {"discard", "prepare", "mkdir", "cleanup"}
        BY <1>3, Facts DEF Inv, SweepOK, WorkerOK, WorkerRecords
    <2>3. worker'.pc # "idle" => worker.pc # "idle"
        BY <1>12
    <2>4. sup' \in {"down", "starting"} => sup' = sup /\ worker'.pc = worker.pc
        BY <1>3, <1>12 DEF Inv, WorkerOK
    <2> QED BY <1>1, <1>4, <2>1, <2>2, <2>3, <2>4 DEF Inv, WorkerOK
<1>14. BuildOK'
    <2>1. worker'.pc \notin Building \cup {"mkdir"}
        BY <1>1, <1>12, SweepingFacts DEF Building
    <2>2. worker'.pc = "prepare" => On(worker.launch)
        BY <1>1, <1>3, SweepingFacts, Facts DEF WorkerRecords
    <2>3. On(worker.launch)' = On(worker.launch)
        BY <1>1, <1>4 DEF On
    <2> QED BY <2>1, <2>2, <2>3 DEF BuildOK, Building
<1>15. SweepOK'
    <2>1. lock' # "sweep"
        BY <1>3 DEF Inv, SweepOK
    <2>2. worker'.pc \notin {"discard", "cleanup"}
        BY <1>3, Facts DEF Inv, SweepOK, WorkerRecords
    <2> QED BY <1>1, <2>1, <2>2 DEF SweepOK, NoSweep
<1>16. PolicyOK'
    <2>1. \A l : (Good(l)' <=> Good(l)) /\ (\A k : Same(l, k)' <=> Same(l, k))
        BY <1>1 DEF Good, Same, On, Root
    <2>2. sweep.why = "startup" => lastPolicy' = None
        BY <1>1 DEF Inv, SweepOK, WorkerOK
    <2>3. worker.pc = "discard" /\ Evicting(worker.launch) => Good(worker.launch)
        <3>1. SUFFICES ASSUME Evicting(worker.launch), NEW d \in Dirs, place[d].name = "ready"
              PROVE On(worker.launch) /\ place[d].root = Root(worker.launch)
            BY DEF Good
        <3>2. place[d].root \in Roots
            BY <3>1, Facts, Naming
        <3> QED BY <1>1, <3>1, <3>2 DEF Evicting
    <2>4. sweep.why # "startup" => worker.pc \in {"discard", "cleanup"} /\ sup' = sup
        BY <1>3 DEF Inv, SweepOK
    <2>5. worker'.pc # "discard"
        BY <1>3, Facts DEF Inv, SweepOK, WorkerRecords
    <2> QED BY <1>1, <1>4, <1>5, <2>1, <2>2, <2>3, <2>4, <2>5 DEF Inv, PolicyOK, After
<1>17. Remnants'
    BY <1>1 DEF Remnants, NoSweep
<1> QED BY <1>7, <1>9, <1>10, <1>11, <1>13, <1>14, <1>15, <1>16, <1>17 DEF Inv

LEMMA CleanupInv == ASSUME Inv, Cleanup PROVE Inv'
BY ReadingInv, GivenUpInv, ParkInv, RemoveInv, SyncInv, RecordInv DEF Cleanup

\* A step of an attempt outside its cleanups.
LEMMA AttemptStep ==
    ASSUME Inv, sweep.why = "none", sup \notin {"down", "starting"}, UNCHANGED <<shim, sup, lastPolicy, sweep>>,
           Typed', DiskOK', BuildOK', PolicyOK', \A d \in Dirs : HelperOK(d)',
           \A d \in Dirs : place[d].name = "claimed" => place'[d] = place[d] /\ content'[d] = content[d],
           lock = "visible" => lock' = "visible", lock' # "sweep",
           lock' = "worker" <=> worker'.pc \in {"prepare", "mkdir"}, worker'.pc \notin {"discard", "cleanup"},
           \A r \in Roots : record[r].known => record'[r].known,
           worker'.pc # "idle" => Known(worker'.launch), desired' \in {desired, None}
    PROVE  Inv'
<1>1. \A l : Known(l)' <=> Known(l)
    BY DEF Known
<1>2. WorkerOK'
    BY <1>1 DEF Inv, WorkerOK
<1>3. SweepOK'
    <2>1. \A r \in sweep.todo : record'[r].known
        BY Facts DEF Inv, SweepOK
    <2> QED BY <2>1 DEF Inv, SweepOK
<1>4. Remnants'
    BY DEF Remnants
<1>5. ASSUME NEW l \in Launches PROVE ShimOK(l)'
    <2>1. shim[l].pc \in Holds => place'[shim[l].dir] = place[shim[l].dir] /\ content'[shim[l].dir] = content[shim[l].dir]
        <3>1. SUFFICES ASSUME shim[l].pc \in Holds
              PROVE place'[shim[l].dir] = place[shim[l].dir] /\ content'[shim[l].dir] = content[shim[l].dir]
            OBVIOUS
        <3>2. shim[l].dir \in Dirs /\ place[shim[l].dir] = Claim(Root(l), l) /\ Root(l) \in Roots
            BY <3>1 DEF Inv, ShimOK, Holds, Root
        <3>3. place[shim[l].dir].name = "claimed"
            BY <3>2, Naming
        <3> QED BY <3>2, <3>3
    <2> QED BY <2>1 DEF Inv, ShimOK, Root
<1> QED BY <1>2, <1>3, <1>4, <1>5 DEF Inv

\* Where the worker is, nothing sweeps: there is no start, and no cleanup of its own.
LEMMA AttemptFacts ==
    ASSUME Inv, worker.pc \notin {"idle", "discard", "cleanup"} \/ (sup = "serving" /\ worker.pc = "idle")
    PROVE  /\ sweep.why = "none" /\ sup \notin {"down", "starting"} /\ lock # "sweep"
           /\ worker.pc # "idle" => Known(worker.launch) /\ worker.launch \in Launches /\ Root(worker.launch) \in Roots
<1>1. sweep.why \in {"none", "startup", "discard", "cleanup"}
    BY Facts DEF SweepRecords
<1>2. sup \notin {"down", "starting"} /\ sweep.why = "none" /\ lock # "sweep"
    BY <1>1 DEF Inv, WorkerOK, SweepOK
<1> QED BY <1>2 DEF Inv, WorkerOK, Known, ShimOK, Root

\* A step of the worker that leaves the disk and the record alone, and owns no build after it.
LEMMA QuietStep ==
    ASSUME Inv, worker.pc \notin {"idle", "discard", "cleanup"} \/ (sup = "serving" /\ worker.pc = "idle"),
           UNCHANGED <<place, maybe, content, record, shim, sup, sweep, crashes, lastPolicy>>,
           helper' \in [Dirs -> {"none", "waiting", "cloning", "done", "dead"}],
           \A d \in Dirs : HelperOK(d)',
           lock' \in {"free", lock}, lock' # "worker", lock = "visible" => lock' = "visible",
           worker' \in WorkerRecords,
           worker'.pc \notin Building \cup {"prepare", "mkdir", "discard", "cleanup"},
           worker'.pc # "idle" => \/ worker'.launch = worker.launch /\ worker.pc # "idle"
                                  \/ worker'.launch = desired /\ desired # None,
           faults' \in 0..MaxFaults, running' \in BOOLEAN, settled' \in BOOLEAN, settled' => settled,
           desired' \in {desired, None},
           \/ desired' = desired \/ ~settled'
           \/ settled /\ lastPolicy # None /\ sup = "serving" => Good(lastPolicy),
           settled' /\ sup = "serving" /\ desired # None /\ desired = worker'.launch /\ worker'.pc \in After
             => worker'.launch = worker.launch /\ worker.pc \in After
    PROVE  Inv'
<1> USE SpareConstants
<1>1. Typed'
    <2>1. desired' \in Launches \cup {None}
        BY Facts DEF Typed
    <2>2. lock' \in {"free", "worker", "sweep", "helper", "visible"}
        BY Facts DEF Typed
    <2> QED BY <2>1, <2>2, Facts DEF Typed
<1>2. DiskOK'
    BY DEF Inv, DiskOK, NothingForgotten, ReadyIsRecorded, ReadyIsWhole
<1>3. BuildOK'
    BY DEF BuildOK, Building
<1>4. Known(worker'.launch) \/ worker'.pc = "idle"
    BY DEF Inv, WorkerOK
<1>5. PolicyOK'
    <2>1. \A l : (Good(l)' <=> Good(l)) /\ (\A k : Same(l, k)' <=> Same(l, k))
        BY DEF Good, Same, On, Root
    <2>2. worker'.pc \in After => worker'.launch # None
        BY <1>4 DEF After, Known
    <2>3. SUFFICES ASSUME sup = "serving", settled', lastPolicy # None
          PROVE  /\ desired' # None => Same(desired', lastPolicy)
                 /\ desired' = None => Good(lastPolicy)
                 /\ desired' = worker'.launch /\ worker'.pc \in After => Good(worker'.launch)
        BY <2>1 DEF PolicyOK
    <2>4. /\ desired # None => Same(desired, lastPolicy)
          /\ desired = None => Good(lastPolicy)
          /\ desired = worker.launch /\ worker.pc \in After => Good(worker.launch)
        BY <2>3 DEF Inv, PolicyOK
    <2> QED BY <2>2, <2>3, <2>4
<1>6. sweep.why = "none" /\ sup \notin {"down", "starting"} /\ lock # "sweep"
    BY AttemptFacts
<1>7. lock' # "sweep"
    BY <1>6
<1> QED BY <1>1, <1>2, <1>3, <1>4, <1>5, <1>6, <1>7, AttemptStep

LEMMA StepFacts ==
    ASSUME Inv, NEW pc \in WorkerPcs, Step(pc)
    PROVE  /\ worker' \in WorkerRecords /\ worker'.pc = pc /\ worker'.launch = worker.launch
           /\ worker'.dir = worker.dir
BY Facts DEF Step, WorkerRecords

LEMMA ChosenInv == ASSUME Inv, next \/ claim PROVE Inv'
<1> USE SpareConstants
<1>1. /\ UNCHANGED <<place, maybe, content, record, lock, helper, shim, sup, sweep, crashes, faults, lastPolicy>>
      /\ worker.pc \in {"idle", "chosen"} /\ (worker.pc = "idle" => sup = "serving")
    BY DEF next, claim, disk, policy, observed
<1>2. \A d \in Dirs : HelperOK(d)'
    BY <1>1 DEF Inv, HelperOK
<1>3. helper' \in [Dirs -> {"none", "waiting", "cloning", "done", "dead"}] /\ faults' \in 0..MaxFaults
    BY <1>1, Facts DEF Typed
<1>4. lock # "worker"
    BY <1>1 DEF Inv, WorkerOK
<1>5. Idle \in WorkerRecords /\ Idle.pc = "idle" /\ Idle.launch = None
    BY DEF Idle, WorkerRecords, WorkerPcs
<1>6. CASE next
    <2>1. CASE worker' = [Idle EXCEPT !.pc = "chosen", !.launch = desired] /\ UNCHANGED <<policy, settled>>
        <3>1. worker' \in WorkerRecords /\ worker'.pc = "chosen" /\ worker'.launch = desired /\ desired # None
            BY <1>6, <2>1, Facts DEF next, Idle, WorkerRecords, WorkerPcs, Typed
        <3>2. running' \in BOOLEAN /\ desired' = desired /\ settled' \in BOOLEAN /\ settled' = settled
            BY <2>1, Facts DEF policy, Typed
        <3> QED BY <1>1, <1>2, <1>3, <1>4, <3>1, <3>2, QuietStep DEF Building, After
    <2>2. CASE desired' = None /\ settled' = FALSE /\ UNCHANGED <<worker, running>>
        <3>1. worker' \in WorkerRecords /\ worker'.pc = "idle" /\ running' \in BOOLEAN
            BY <1>6, <2>2, Facts DEF next, Typed
        <3> QED BY <1>1, <1>2, <1>3, <1>4, <2>2, <3>1, QuietStep DEF Building
    <2> QED BY <1>6, <2>1, <2>2 DEF next
<1>7. CASE claim
    <2>1. desired' = desired /\ settled' = settled /\ settled' \in BOOLEAN /\ worker.pc = "chosen"
        BY <1>7, Facts DEF claim, observed, Typed
    <2>2. CASE running' = TRUE /\ Step("wait_cache")
        <3>1. worker' \in WorkerRecords /\ worker'.pc = "wait_cache" /\ worker'.launch = worker.launch
            BY <2>2, StepFacts DEF WorkerPcs
        <3> QED BY <1>1, <1>2, <1>3, <1>4, <2>1, <2>2, <3>1, QuietStep DEF Building, After
    <2>3. CASE worker' = Idle /\ UNCHANGED running
        <3>1. running' \in BOOLEAN
            BY <2>3, Facts DEF Typed
        <3> QED BY <1>1, <1>2, <1>3, <1>4, <1>5, <2>1, <2>3, <3>1, QuietStep DEF Building, After
    <2> QED BY <1>7, <2>2, <2>3 DEF claim
<1> QED BY <1>6, <1>7

\* The steps after which an attempt only ends.
LEMMA EndsInv ==
    ASSUME Inv, NEW pc \in {"keep", "consume", "cleanup_lock"},
           worker.pc \notin {"idle", "chosen", "discard", "cleanup"},
           worker' \in WorkerRecords, worker'.pc = pc, worker'.launch = worker.launch,
           UNCHANGED <<disk, record, shim, policy, sup, sweep, crashes, lastPolicy>>,
           helper' \in [Dirs -> {"none", "waiting", "cloning", "done", "dead"}],
           \A d \in Dirs : HelperOK(d)',
           lock' \in {"free", lock}, lock' # "worker", lock = "visible" => lock' = "visible",
           faults' \in 0..MaxFaults, settled' \in BOOLEAN, settled' => settled,
           worker.pc = "wait_cache" => ~Current \/ ~settled'
    PROVE  Inv'
<1>1. UNCHANGED <<place, maybe, content, desired>> /\ running' \in BOOLEAN
    BY Facts DEF disk, policy, Typed
<1>2. worker.pc # "wait_cache" => worker.pc \in After
    BY Facts DEF WorkerPcs, After
<1>3. settled' /\ sup = "serving" /\ desired = worker'.launch => worker.pc \in After
    BY <1>2 DEF Current
<1>4. pc \notin Building \cup {"prepare", "mkdir", "discard", "cleanup", "idle"}
    BY DEF Building
<1> QED BY <1>1, <1>3, <1>4, QuietStep

\* The attempt goes on to its end without touching the disk.
GivesUp ==
    \/ wait_cache /\ Step("consume")
    \/ prepare /\ Step("consume")
    \/ prepare_fails \/ attempt_fails \/ keep_ready
    \/ spawn /\ Step("keep")
    \/ record_ready /\ Step("keep")
    \/ publish /\ Step("keep")
    \/ discard_if_cache_free /\ Step("consume")

LEMMA GivesUpInv == ASSUME Inv, GivesUp PROVE Inv'
<1> USE SpareConstants
<1>1. worker \in WorkerRecords
    BY Facts
<1>2. worker.pc \in {"wait_cache", "prepare", "mkdir", "spawn", "record_ready", "publish", "sync", "keep", "cleanup_lock"}
    BY DEF GivesUp, wait_cache, prepare, prepare_fails, attempt_fails, keep_ready, spawn, record_ready, publish,
           discard_if_cache_free
<1>3. /\ "consume" \in WorkerPcs /\ "keep" \in WorkerPcs
      /\ \A pc, qc \in WorkerPcs : Step(pc) /\ Step(qc) => pc = qc
    BY <1>1 DEF Step, WorkerRecords, WorkerPcs
<1>4. PICK pc \in {"keep", "consume", "cleanup_lock"} :
          worker' \in WorkerRecords /\ worker'.pc = pc /\ worker'.launch = worker.launch
    <2>1. CASE keep_ready
        <3>1. PICK b \in BOOLEAN : worker' = [worker EXCEPT !.pc = "cleanup_lock", !.keep = b]
            <4>1. (/\ sup # "stopping"
                   /\ IF desired = None THEN worker.published
                      ELSE On(desired) /\ Root(desired) = Root(worker.launch)) \in BOOLEAN
                OBVIOUS
            <4> QED BY <2>1, <4>1 DEF keep_ready
        <3> QED BY <1>1, <3>1 DEF WorkerRecords, WorkerPcs
    <2>2. CASE ~keep_ready
        <3>1. Step("consume") \/ Step("keep")
            BY <2>2 DEF GivesUp, prepare_fails, attempt_fails
        <3> QED BY <1>3, <3>1, StepFacts
    <2> QED BY <2>1, <2>2
<1>5. /\ UNCHANGED <<disk, record, shim, policy, sup, sweep, helper, crashes, lastPolicy>>
      /\ lock' = IF worker.pc \in {"prepare", "mkdir"} THEN "free" ELSE lock
      /\ Fault \/ UNCHANGED observed \/ (UNCHANGED <<crashes, faults, lastPolicy>> /\ (settled' = FALSE \/ settled' = settled))
      /\ worker.pc = "wait_cache" => ~Current \/ ~settled'
    <2>1. ~Step("build") /\ ~Step("mkdir") /\ ~Step("discard") /\ ~Step("cleanup") /\ worker'.pc \notin {"publish", "sync"}
        BY <1>1, <1>4 DEF Step, WorkerRecords
    <2>2. worker' = [worker EXCEPT !.pc = "sync"] => worker'.pc = "sync"
        BY <1>1 DEF WorkerRecords
    <2>3. Step("publish") => worker'.pc = "publish"
        BY StepFacts DEF WorkerPcs
    <2>4. CASE (wait_cache /\ Step("consume")) \/ (discard_if_cache_free /\ Step("consume"))
        BY <2>1, <2>4 DEF wait_cache, discard_if_cache_free, Fault, observed
    <2>5. CASE (prepare /\ Step("consume")) \/ prepare_fails
        BY <2>1, <2>5 DEF prepare, prepare_fails, Fault, observed, disk
    <2>6. CASE attempt_fails \/ keep_ready \/ (spawn /\ Step("keep"))
        BY <2>1, <2>6 DEF attempt_fails, keep_ready, spawn, Fault, observed
    <2>7. CASE record_ready /\ Step("keep")
        BY <2>1, <2>3, <2>7 DEF record_ready, observed
    <2>8. CASE publish /\ Step("keep")
        BY <2>1, <2>2, <2>8 DEF publish, observed, disk, policy
    <2> QED BY <2>4, <2>5, <2>6, <2>7, <2>8 DEF GivesUp
<1>6. faults' \in 0..MaxFaults /\ settled' \in BOOLEAN /\ (settled' => settled)
    <2>1. CASE Fault \/ UNCHANGED observed
        BY <2>1, ObservedFacts
    <2>2. CASE UNCHANGED <<crashes, faults, lastPolicy>> /\ settled' = FALSE
        BY <2>2, Facts DEF Typed
    <2>3. CASE UNCHANGED <<crashes, faults, lastPolicy>> /\ settled' = settled
        BY <2>3, Facts DEF Typed
    <2> QED BY <1>5, <2>1, <2>2, <2>3
<1>7. lock = "worker" <=> worker.pc \in {"prepare", "mkdir"}
    BY <1>2 DEF Inv, WorkerOK
<1>8. \A d \in Dirs : HelperOK(d)'
    BY <1>5, <1>7 DEF Inv, HelperOK, disk
<1>9. helper' \in [Dirs -> {"none", "waiting", "cloning", "done", "dead"}]
    BY <1>5, Facts DEF Typed
<1>10. worker.pc \notin {"idle", "chosen", "discard", "cleanup"}
    BY <1>2
<1>11. lock' \in {"free", lock} /\ lock' # "worker" /\ (lock = "visible" => lock' = "visible")
    BY <1>5, <1>7
<1> QED BY <1>4, <1>5, <1>6, <1>8, <1>9, <1>10, <1>11, EndsInv

LEMMA ConsumeInv == ASSUME Inv, consume PROVE Inv'
<1> USE SpareConstants
<1>1. /\ UNCHANGED <<place, maybe, content, record, lock, helper, shim, sup, sweep, running, crashes, faults, lastPolicy,
                     settled>>
      /\ worker.pc = "consume" /\ worker' = Idle
      /\ desired' = IF desired = worker.launch THEN None ELSE desired
    BY DEF consume, disk, observed
<1>2. \A d \in Dirs : HelperOK(d)'
    BY <1>1 DEF Inv, HelperOK
<1>3. /\ helper' \in [Dirs -> {"none", "waiting", "cloning", "done", "dead"}] /\ faults' \in 0..MaxFaults
      /\ running' \in BOOLEAN /\ settled' \in BOOLEAN
    BY <1>1, Facts DEF Typed
<1>4. lock # "worker"
    BY <1>1 DEF Inv, WorkerOK
<1>5. worker' \in WorkerRecords /\ worker'.pc = "idle"
    BY <1>1 DEF Idle, WorkerRecords, WorkerPcs
<1>6. CASE desired # worker.launch
    BY <1>1, <1>2, <1>3, <1>4, <1>5, <1>6, QuietStep DEF Building, After
<1>7. CASE desired = worker.launch
    <2>1. worker.launch \in Launches /\ worker.launch # None
        BY <1>1, AttemptFacts
    <2>2. settled /\ lastPolicy # None /\ sup = "serving" => Good(lastPolicy)
        BY <1>1, <1>7, <2>1 DEF Inv, PolicyOK, After, Same, Good
    <2> QED BY <1>1, <1>2, <1>3, <1>4, <1>5, <1>7, <2>2, QuietStep DEF Building, After
<1> QED BY <1>6, <1>7

\* Flushing a namespace forgets where directories were, never where they are.
LEMMA FlushFacts ==
    ASSUME Inv, NEW r \in Roots
    PROVE  /\ Flushed(r) \in [Dirs -> SUBSET Places]
           /\ \A d \in Dirs : /\ Flushed(r)[d] \subseteq maybe[d] /\ place[d] \in Flushed(r)[d]
                              /\ \A p \in Flushed(r)[d] : p.root = r => p = place[d]
<1>1. \A d \in Dirs : /\ Flushed(r)[d] \subseteq maybe[d] /\ place[d] \in Flushed(r)[d]
                      /\ \A p \in Flushed(r)[d] : p.root = r => p = place[d]
    BY Facts DEF Flushed
<1>2. DOMAIN Flushed(r) = Dirs /\ Flushed(r) = [d \in Dirs |-> Flushed(r)[d]]
    BY DEF Flushed
<1> QED BY <1>1, <1>2, Facts

LEMMA PrepareInv == ASSUME Inv, prepare PROVE Inv'
<1> USE SpareConstants
<1> DEFINE r == Root(worker.launch)
<1>1. CASE Step("consume")
    BY <1>1, GivesUpInv DEF GivesUp
<1>2. CASE ~Step("consume")
    <2>1. /\ UNCHANGED <<place, content, helper, shim, desired, running, sup, sweep, crashes, faults, lastPolicy, settled>>
          /\ worker.pc = "prepare" /\ lock' = lock /\ Step("mkdir") /\ maybe' = Flushed(r)
          /\ record' = [record EXCEPT ![r] = IF @.known THEN @ ELSE Entry(None)]
          /\ ~Ready(r)
        BY <1>2 DEF prepare, policy, observed, Ready
    <2>2. worker' \in WorkerRecords /\ worker'.pc = "mkdir" /\ worker'.launch = worker.launch
        BY <2>1, StepFacts DEF WorkerPcs
    <2>3. /\ sweep.why = "none" /\ sup \notin {"down", "starting"} /\ lock # "sweep"
          /\ Known(worker.launch) /\ worker.launch \in Launches /\ r \in Roots
        BY <2>1, AttemptFacts
    <2>4. lock = "worker" /\ On(worker.launch)
        BY <2>1 DEF Inv, WorkerOK, BuildOK
    <2>5. /\ record' \in [Roots -> [known : BOOLEAN, ready : Dirs \cup {None}]]
          /\ \A q \in Roots : record[q].known => record'[q] = record[q]
          /\ record'[r].known
        <3>1. Entry(None) \in [known : BOOLEAN, ready : Dirs \cup {None}] /\ Entry(None).known
            BY DEF Entry
        <3> QED BY <2>1, <2>3, <3>1, Facts DEF Typed
    <2>6. /\ maybe' \in [Dirs -> SUBSET Places]
          /\ \A d \in Dirs : /\ maybe'[d] \subseteq maybe[d] /\ place[d] \in maybe'[d]
                             /\ \A p \in maybe'[d] : p.root = r => p = place[d]
        BY <2>1, <2>3, FlushFacts
    <2> HIDE DEF r
    <2>7. Typed'
        BY <2>1, <2>2, <2>5, <2>6, Facts DEF Typed
    <2>8. DiskOK'
        <3>1. \A d \in Dirs : \A p \in maybe'[d] : p = Nowhere \/ record'[p.root] = record[p.root]
            BY <2>5, <2>6, Facts, Naming DEF Inv, DiskOK, NothingForgotten
        <3>2. NothingForgotten'
            BY <2>6, <3>1 DEF Inv, DiskOK, NothingForgotten
        <3>3. ReadyIsRecorded'
            BY <2>6, <3>1, Naming DEF Inv, DiskOK, ReadyIsRecorded
        <3> QED BY <2>1, <2>6, <3>2, <3>3 DEF Inv, DiskOK, ReadyIsWhole
    <2>9. BuildOK'
        <3>1. \A d \in Dirs : At(r, "ready") \notin maybe'[d]
            BY <2>3, <2>1, <2>6, Naming DEF Ready
        <3>2. shim'[worker'.launch].root = r /\ shim'[worker'.launch].on
            BY <2>1, <2>2, <2>4 DEF Root, On, r
        <3> QED BY <2>2, <2>5, <3>1, <3>2 DEF BuildOK, Building, MaybeReady, Root, On
    <2>10. PolicyOK'
        BY <2>1, <2>2 DEF Inv, PolicyOK, After, Good, Same, On, Root
    <2>11. \A d \in Dirs : HelperOK(d)'
        BY <2>1 DEF Inv, HelperOK
    <2> QED BY <2>1, <2>2, <2>3, <2>4, <2>5, <2>7, <2>8, <2>9, <2>10, <2>11, AttemptStep
<1> QED BY <1>1, <1>2

LEMMA MkdirInv == ASSUME Inv, NEW d \in Dirs, prepare_mkdir(d) PROVE Inv'
<1> USE SpareConstants
<1> DEFINE r == Root(worker.launch)
           b == At(r, "building")
<1>1. /\ UNCHANGED <<record, helper, shim, desired, running, sup, sweep, crashes, faults, lastPolicy, settled>>
      /\ worker.pc = "mkdir" /\ lock' = "free" /\ helper[d] = "none" /\ maybe[d] = {Nowhere}
      /\ place' = [place EXCEPT ![d] = b] /\ maybe' = [Flushed(r) EXCEPT ![d] = {b}]
      /\ content' = [content EXCEPT ![d] = "empty"]
      /\ worker' = [worker EXCEPT !.pc = "spawn", !.dir = d]
    BY DEF prepare_mkdir, policy, observed
<1>2. worker' \in WorkerRecords /\ worker'.pc = "spawn" /\ worker'.launch = worker.launch /\ worker'.dir = d
    BY <1>1, Facts DEF WorkerRecords, WorkerPcs
<1>3. /\ sweep.why = "none" /\ sup \notin {"down", "starting"} /\ lock # "sweep"
      /\ Known(worker.launch) /\ worker.launch \in Launches /\ r \in Roots
    BY <1>1, AttemptFacts
<1>4. lock = "worker" /\ On(worker.launch) /\ record[r].known
    BY <1>1 DEF Inv, WorkerOK, BuildOK
<1>5. b \in Places /\ b.root = r /\ b.name = "building" /\ b # Nowhere
    BY <1>3, Naming
<1>6. place[d] = Nowhere
    BY <1>1, Facts
<1>7. /\ place' \in [Dirs -> Places] /\ maybe' \in [Dirs -> SUBSET Places]
      /\ content' \in [Dirs -> {"none", "empty", "partial", "whole", "moved"}]
      /\ place'[d] = b /\ maybe'[d] = {b}
      /\ \A e \in Dirs \ {d} : /\ place'[e] = place[e] /\ content'[e] = content[e]
                               /\ maybe'[e] \subseteq maybe[e] /\ place'[e] \in maybe'[e]
    <2>1. Flushed(r) \in [Dirs -> SUBSET Places]
        BY <1>3, FlushFacts
    <2>2. \A e \in Dirs : Flushed(r)[e] \subseteq maybe[e] /\ place[e] \in Flushed(r)[e]
        BY <1>3, FlushFacts
    <2> QED BY <1>1, <1>5, <2>1, <2>2, Facts DEF Typed
<1> HIDE DEF r, b
<1>8. Typed'
    BY <1>1, <1>2, <1>7, Facts DEF Typed
<1>9. DiskOK'
    BY <1>1, <1>4, <1>5, <1>7 DEF Inv, DiskOK, NothingForgotten, ReadyIsRecorded, ReadyIsWhole
<1>10. BuildOK'
    <2>1. ~MaybeReady(r)
        BY <1>1 DEF Inv, BuildOK, r
    <2>2. \A e \in Dirs : At(r, "ready") \notin maybe'[e]
        BY <1>3, <1>5, <1>7, <2>1, Naming DEF MaybeReady
    <2>3. shim'[worker'.launch].root = r /\ shim'[worker'.launch].on
        BY <1>1, <1>2, <1>4 DEF r, Root, On
    <2>4. place'[worker'.dir] = At(r, "building")
        BY <1>2, <1>7 DEF b
    <2> QED BY <1>2, <2>2, <2>3, <2>4 DEF BuildOK, Building, MaybeReady, Root, On
<1>11. PolicyOK'
    <2>1. \A l : Good(l) => Good(l)'
        BY <1>1, <1>5, <1>7 DEF Good, On, Root
    <2> QED BY <1>1, <1>2, <2>1 DEF Inv, PolicyOK, After, Same, On, Root
<1>12. \A e \in Dirs : HelperOK(e)'
    BY <1>1, <1>4 DEF Inv, HelperOK
<1>13. \A e \in Dirs : place[e].name = "claimed" => place'[e] = place[e] /\ content'[e] = content[e]
    BY <1>6, <1>7, Naming
<1> QED BY <1>1, <1>2, <1>3, <1>4, <1>8, <1>9, <1>10, <1>11, <1>12, <1>13, AttemptStep

\* The guard starts the helper, or is reaped.
LEMMA GuardInv == ASSUME Inv, spawn \/ run_guard PROVE Inv'
<1> USE SpareConstants
<1> DEFINE w == worker.dir
           statuses == {"none", "waiting", "cloning", "done", "dead"}
<1>1. CASE spawn /\ Step("keep")
    BY <1>1, GivesUpInv DEF GivesUp
<1>2. CASE run_guard /\ Step("keep")
    <2>1. /\ UNCHANGED <<disk, record, shim, policy, sup, sweep, crashes, faults, lastPolicy, settled>>
          /\ worker.pc = "build" /\ worker'.pc = "keep" /\ worker' \in WorkerRecords /\ worker'.launch = worker.launch
        BY <1>2, StepFacts DEF run_guard, WorkerPcs, observed
    <2>2. helper' = [helper EXCEPT ![w] = "dead"] /\ lock' = IF helper[w] = "cloning" THEN "free" ELSE lock
        <3>1. ~Step("record_ready")
            BY <2>1, StepFacts DEF WorkerPcs
        <3> QED BY <1>2, <3>1 DEF run_guard
    <2>3. w \in Dirs /\ lock # "worker"
        BY <2>1 DEF Inv, BuildOK, WorkerOK, Building
    <2>4. helper' \in [Dirs -> statuses] /\ helper'[w] = "dead" /\ \A e \in Dirs \ {w} : helper'[e] = helper[e]
        BY <2>2, <2>3, Facts DEF Typed
    <2>5. ASSUME NEW d \in Dirs PROVE HelperOK(d)'
        BY <2>1, <2>2, <2>3, <2>4 DEF Inv, HelperOK, disk
    <2>6. lock' \in {"free", lock} /\ lock' # "worker" /\ (lock = "visible" => lock' = "visible")
        BY <2>2, <2>3 DEF Inv, HelperOK
    <2>7. faults' \in 0..MaxFaults /\ settled' \in BOOLEAN /\ settled' = settled
        BY <2>1, Facts DEF Typed
    <2> QED BY <2>1, <2>4, <2>5, <2>6, <2>7, EndsInv
<1>3. CASE (spawn \/ run_guard) /\ ~Step("keep")
    <2>1. /\ UNCHANGED <<place, maybe, content, record, lock, shim, desired, running, sup, sweep, crashes, faults,
                         lastPolicy, settled>>
          /\ \/ /\ worker.pc = "spawn" /\ Step("build") /\ helper' = [helper EXCEPT ![w] = "waiting"]
             \/ worker.pc = "build" /\ Step("record_ready") /\ helper' = helper /\ helper[w] = "done"
        BY <1>3 DEF spawn, run_guard, disk, policy, observed
    <2>2. /\ worker' \in WorkerRecords /\ worker'.launch = worker.launch /\ worker'.dir = w
          /\ \/ /\ worker.pc = "spawn" /\ worker'.pc = "build" /\ helper' = [helper EXCEPT ![w] = "waiting"]
             \/ worker.pc = "build" /\ worker'.pc = "record_ready" /\ helper' = helper /\ helper[w] = "done"
        BY <2>1, StepFacts DEF WorkerPcs
    <2>3. /\ sweep.why = "none" /\ sup \notin {"down", "starting"} /\ lock # "sweep"
          /\ Known(worker.launch) /\ worker.launch \in Launches
        BY <2>2, AttemptFacts
    <2>4. /\ w \in Dirs /\ lock # "worker" /\ ~MaybeReady(Root(worker.launch)) /\ On(worker.launch)
          /\ place[w] = At(Root(worker.launch), "building")
          /\ worker.pc = "build" /\ helper[w] = "done" => content[w] = "whole"
        BY <2>2 DEF Inv, BuildOK, WorkerOK, Building
    <2>5. helper' \in [Dirs -> statuses] /\ \A e \in Dirs : helper'[e] \in {helper[e], "waiting"}
        BY <2>2, <2>4, Facts DEF Typed
    <2>6. worker'.pc = "build" => helper'[w] = "waiting"
        BY <2>2, <2>4, Facts DEF Typed
    <2>7. Typed'
        BY <2>1, <2>2, <2>5, Facts DEF Typed
    <2>8. DiskOK'
        BY <2>1 DEF Inv, DiskOK, NothingForgotten, ReadyIsRecorded, ReadyIsWhole
    <2>9. BuildOK'
        BY <2>1, <2>2, <2>4, <2>6 DEF BuildOK, Building, MaybeReady, Root, On
    <2>10. PolicyOK'
        BY <2>1, <2>2 DEF Inv, PolicyOK, After, Good, Same, On, Root
    <2>11. \A d \in Dirs : HelperOK(d)'
        BY <2>1, <2>5 DEF Inv, HelperOK
    <2> QED BY <2>1, <2>2, <2>3, <2>4, <2>7, <2>8, <2>9, <2>10, <2>11, AttemptStep
<1> QED BY <1>1, <1>2, <1>3

\* The identity is recorded, then the directory renamed into the slot it is recorded for.
LEMMA RecordReadyInv == ASSUME Inv, record_ready PROVE Inv'
<1> USE SpareConstants
<1> DEFINE r == Root(worker.launch)
           w == worker.dir
<1>1. CASE Step("keep")
    BY <1>1, GivesUpInv DEF GivesUp
<1>2. CASE ~Step("keep")
    <2>1. /\ UNCHANGED <<place, maybe, content, lock, helper, shim, desired, running, sup, sweep, crashes, faults,
                         lastPolicy, settled>>
          /\ worker.pc = "record_ready" /\ Step("publish") /\ record[r].known
          /\ record' = [record EXCEPT ![r].ready = w]
        BY <1>2 DEF record_ready, disk, policy, observed
    <2>2. worker' \in WorkerRecords /\ worker'.launch = worker.launch /\ worker'.dir = w /\ worker'.pc = "publish"
        BY <2>1, StepFacts DEF WorkerPcs
    <2>3. /\ sweep.why = "none" /\ sup \notin {"down", "starting"} /\ lock # "sweep"
          /\ Known(worker.launch) /\ worker.launch \in Launches /\ r \in Roots
        BY <2>1, AttemptFacts
    <2>4. /\ w \in Dirs /\ lock # "worker" /\ ~MaybeReady(r) /\ On(worker.launch) /\ place[w] = At(r, "building")
          /\ helper[w] = "done" /\ content[w] = "whole"
        BY <2>1 DEF Inv, BuildOK, WorkerOK, Building
    <2>5. /\ record' \in [Roots -> [known : BOOLEAN, ready : Dirs \cup {None}]]
          /\ \A q \in Roots \ {r} : record'[q] = record[q]
          /\ record'[r].known /\ record'[r].ready = w
        BY <2>1, <2>3, <2>4, Facts DEF Typed
    <2> HIDE DEF r, w
    <2>6. Typed'
        BY <2>1, <2>2, <2>5, Facts DEF Typed
    <2>7. DiskOK'
        <3>1. NothingForgotten'
            BY <2>1, <2>5, Facts, Naming DEF Inv, DiskOK, NothingForgotten
        <3>2. ReadyIsRecorded'
            <4>1. SUFFICES ASSUME NEW d \in Dirs, NEW p \in maybe[d], p.name = "ready"
                  PROVE record'[p.root].ready = d
                BY <2>1 DEF ReadyIsRecorded
            <4>2. p.root \in Roots /\ p = At(p.root, "ready")
                BY <4>1, Facts, Naming
            <4>3. p.root # r
                BY <2>4, <4>1, <4>2 DEF MaybeReady
            <4> QED BY <2>5, <4>1, <4>2, <4>3 DEF Inv, DiskOK, ReadyIsRecorded
        <3> QED BY <2>1, <3>1, <3>2 DEF Inv, DiskOK, ReadyIsWhole
    <2>8. BuildOK'
        <3>1. shim'[worker'.launch].root = r /\ shim'[worker'.launch].on
            BY <2>1, <2>2, <2>4 DEF r, Root, On
        <3> QED BY <2>1, <2>2, <2>4, <2>5, <3>1 DEF BuildOK, Building, MaybeReady, Root, On
    <2>9. PolicyOK'
        BY <2>1, <2>2 DEF Inv, PolicyOK, After, Good, Same, On, Root
    <2>10. \A d \in Dirs : HelperOK(d)'
        BY <2>1 DEF Inv, HelperOK
    <2>11. \A q \in Roots : record[q].known => record'[q].known
        BY <2>5
    <2> QED BY <2>1, <2>2, <2>3, <2>4, <2>6, <2>7, <2>8, <2>9, <2>10, <2>11, AttemptStep
<1> QED BY <1>1, <1>2

LEMMA PublishInv == ASSUME Inv, publish PROVE Inv'
<1> USE SpareConstants
<1> DEFINE r == Root(worker.launch)
           w == worker.dir
           slot == At(r, "ready")
<1>1. CASE Step("keep")
    BY <1>1, GivesUpInv DEF GivesUp
<1>2. CASE ~Step("keep")
    <2>1. /\ UNCHANGED <<content, record, lock, helper, shim, running, sup, sweep, crashes, faults, lastPolicy, settled>>
          /\ worker.pc = "publish" /\ desired = worker.launch /\ desired' = None /\ Move(w, slot)
          /\ worker' = [worker EXCEPT !.pc = "sync"]
        BY <1>2 DEF publish, observed
    <2>2. worker' \in WorkerRecords /\ worker'.launch = worker.launch /\ worker'.pc = "sync"
        BY <2>1, Facts DEF WorkerRecords, WorkerPcs
    <2>3. /\ sweep.why = "none" /\ sup \notin {"down", "starting"} /\ lock # "sweep"
          /\ Known(worker.launch) /\ worker.launch \in Launches /\ r \in Roots
        BY <2>1, AttemptFacts
    <2>4. /\ w \in Dirs /\ lock # "worker" /\ ~MaybeReady(r) /\ On(worker.launch) /\ place[w] = At(r, "building")
          /\ helper[w] = "done" /\ content[w] = "whole" /\ record[r].ready = w
        BY <2>1 DEF Inv, BuildOK, WorkerOK, Building
    <2>5. slot \in Places /\ slot.root = r /\ slot.name = "ready" /\ place[w].name = "building" /\ place[w].root = r
          /\ place[w] # Nowhere
        BY <2>3, <2>4, Naming
    <2>6. /\ place' \in [Dirs -> Places] /\ maybe' \in [Dirs -> SUBSET Places]
          /\ place'[w] = slot /\ maybe'[w] = maybe[w] \cup {slot}
          /\ \A d \in Dirs \ {w} : place'[d] = place[d] /\ maybe'[d] = maybe[d]
        BY <2>1, <2>4, <2>5, Facts DEF Move, Typed
    <2>7. record[r].known
        BY <2>4, <2>5, Facts DEF Inv, DiskOK, NothingForgotten
    <2>8. settled /\ lastPolicy # None /\ sup = "serving" =>
              /\ Same(worker.launch, lastPolicy)
              /\ \A d \in Dirs : place[d].name = "ready" => On(worker.launch) /\ place[d].root = r
        BY <2>1, <2>3 DEF Inv, PolicyOK, After, Good
    <2> HIDE DEF r, w, slot
    <2>9. Typed'
        BY <2>1, <2>2, <2>6, Facts DEF Typed
    <2>10. DiskOK'
        <3>1. NothingForgotten'
            BY <2>1, <2>5, <2>6, <2>7 DEF Inv, DiskOK, NothingForgotten
        <3>2. ReadyIsRecorded'
            BY <2>1, <2>4, <2>5, <2>6 DEF Inv, DiskOK, ReadyIsRecorded
        <3>3. ReadyIsWhole'
            BY <2>1, <2>4, <2>6 DEF Inv, DiskOK, ReadyIsWhole
        <3>4. \A d \in Dirs : place'[d] \in maybe'[d]
            BY <2>6, Facts
        <3> QED BY <3>1, <3>2, <3>3, <3>4 DEF DiskOK
    <2>11. BuildOK'
        BY <2>2 DEF BuildOK, Building
    <2>12. PolicyOK'
        <3>1. SUFFICES ASSUME sup = "serving", settled, lastPolicy # None
              PROVE  \A d \in Dirs : place'[d].name = "ready" =>
                        shim[lastPolicy].on /\ place'[d].root = shim[lastPolicy].root
            BY <2>1, <2>2, <2>3 DEF PolicyOK, Good, On, Root
        <3>2. shim[lastPolicy].on /\ shim[lastPolicy].root = r
            BY <2>4, <2>8, <3>1 DEF Same, On, Root, r
        <3> QED BY <2>5, <2>6, <2>8, <3>1, <3>2
    <2>13. \A d \in Dirs : HelperOK(d)'
        BY <2>1, <2>4, <2>6 DEF Inv, HelperOK
    <2>14. \A d \in Dirs : place[d].name = "claimed" => place'[d] = place[d] /\ content'[d] = content[d]
        BY <2>1, <2>5, <2>6
    <2> QED BY <2>1, <2>2, <2>3, <2>4, <2>9, <2>10, <2>11, <2>12, <2>13, <2>14, AttemptStep
<1> QED BY <1>1, <1>2

LEMMA SyncPublishedInv == ASSUME Inv, sync_published PROVE Inv'
<1> USE SpareConstants
<1> DEFINE r == Root(worker.launch)
<1>1. /\ UNCHANGED <<place, content, record, lock, helper, shim, desired, running, sup, sweep, crashes, faults,
                     lastPolicy, settled>>
      /\ worker.pc = "sync" /\ maybe' = Flushed(r) /\ worker' = [worker EXCEPT !.pc = "keep", !.published = TRUE]
    BY DEF sync_published, policy, observed
<1>2. worker' \in WorkerRecords /\ worker'.launch = worker.launch /\ worker'.pc = "keep"
    BY <1>1, Facts DEF WorkerRecords, WorkerPcs
<1>3. /\ sweep.why = "none" /\ sup \notin {"down", "starting"} /\ lock # "sweep"
      /\ Known(worker.launch) /\ worker.launch \in Launches /\ r \in Roots
    BY <1>1, AttemptFacts
<1>4. lock # "worker"
    BY <1>1 DEF Inv, WorkerOK
<1>5. /\ maybe' \in [Dirs -> SUBSET Places]
      /\ \A d \in Dirs : maybe'[d] \subseteq maybe[d] /\ place[d] \in maybe'[d]
    BY <1>1, <1>3, FlushFacts
<1>6. Typed'
    BY <1>1, <1>2, <1>5, Facts DEF Typed
<1>7. DiskOK'
    BY <1>1, <1>5 DEF Inv, DiskOK, NothingForgotten, ReadyIsRecorded, ReadyIsWhole
<1>8. BuildOK'
    BY <1>2 DEF BuildOK, Building
<1>9. PolicyOK'
    BY <1>1, <1>2 DEF Inv, PolicyOK, After, Good, Same, On, Root
<1>10. \A d \in Dirs : HelperOK(d)'
    BY <1>1 DEF Inv, HelperOK
<1> QED BY <1>1, <1>2, <1>3, <1>4, <1>6, <1>7, <1>8, <1>9, <1>10, AttemptStep

\* A cleanup begins, with every recorded root to do.
LEMMA BeginSweep ==
    ASSUME Inv, NEW why \in {"startup", "discard", "cleanup"}, NEW live \in SUBSET Launches,
           NEW evict \in SUBSET Roots, sweep' = SweepOf(why, live, evict),
           lock = "free", sweep.why = "none", Surviving \subseteq live,
           UNCHANGED <<place, maybe, content, record, helper, shim, desired, running, sup>>,
           UNCHANGED <<crashes, faults, lastPolicy, settled>>,
           \/ why = "startup" /\ sup = "starting" /\ lock' = "sweep" /\ worker' = worker
           \/ /\ why \in {"discard", "cleanup"} /\ live = Launches /\ lock' = "worker" /\ Step(why)
              /\ worker.pc \notin {"idle", "discard", "cleanup"}
              /\ why = "cleanup" => worker.pc = "cleanup_lock"
              /\ why = "discard" => evict = Roots \ {r \in Roots : On(worker.launch) /\ r = Root(worker.launch)}
    PROVE  Inv'
<1> USE SpareConstants
<1> DEFINE known == {r \in Roots : record[r].known}
<1>1. /\ sweep' \in SweepRecords /\ sweep'.why = why /\ sweep'.live = live /\ sweep'.evict = evict
      /\ sweep'.root = None /\ sweep'.todo = known /\ sweep'.left = {} /\ sweep'.parked = None
      /\ sweep'.keep = {} /\ sweep'.cleared = {} /\ sweep'.fail = {}
    BY DEF SweepOf, NoSweep, SweepRecords
<1>2. \A d \in Dirs : \A p \in maybe[d] : p.root \in Roots => p.root \in known
    BY Naming DEF Inv, DiskOK, NothingForgotten
<1>3. \A d \in Dirs : place[d].name \notin {"gone"} => place[d].root \in known
    BY <1>2, Facts, Naming
<1> HIDE DEF known
<1>4. \/ why = "startup" /\ worker' = worker /\ worker.pc = "idle"
      \/ /\ why \in {"discard", "cleanup"} /\ worker'.pc = why /\ worker'.launch = worker.launch
         /\ sup \notin {"down", "starting"} /\ Known(worker.launch)
    <2>1. why = "startup" => worker.pc = "idle"
        BY DEF Inv, WorkerOK
    <2> QED BY <2>1, AttemptFacts, StepFacts DEF WorkerPcs
<1>5. worker' \in WorkerRecords
    BY StepFacts, Facts DEF WorkerPcs
<1>6. Typed'
    BY <1>1, <1>5, Facts DEF Typed
<1>7. DiskOK'
    BY DEF Inv, DiskOK, NothingForgotten, ReadyIsRecorded, ReadyIsWhole
<1>8. WorkerOK'
    <2>1. \A l : Known(l)' <=> Known(l)
        BY DEF Known
    <2>2. lock' = "worker" <=> worker'.pc \in {"discard", "prepare", "mkdir", "cleanup"}
        BY <1>4
    <2> QED BY <1>4, <2>1, <2>2 DEF Inv, WorkerOK
<1>9. BuildOK'
    BY <1>4 DEF BuildOK, Building
<1>10. SweepOK'
    <2>1. \A r \in known : record'[r].known
        BY DEF known
    <2>2. \A r \in Roots \ known : \A d \in Dirs : \A p \in maybe'[d] : p.root # r
        BY <1>2
    <2> QED BY <1>1, <1>4, <2>1, <2>2 DEF SweepOK
<1>11. PolicyOK'
    <2>1. \A l : (Good(l)' <=> Good(l)) /\ (\A k : Same(l, k)' <=> Same(l, k))
        BY DEF Good, Same, On, Root
    <2>2. why = "discard" => Evicting(worker.launch)'
        <3>1. SUFFICES ASSUME why = "discard", NEW d \in Dirs, place[d].name = "ready",
                              ~(On(worker.launch) /\ place[d].root = Root(worker.launch))
              PROVE place[d].root \in evict /\ place[d].root \in known
            BY <1>1, <1>4 DEF Evicting, On, Root
        <3>2. place[d].root \in Roots
            BY <3>1, Facts, Naming
        <3> QED BY <1>3, <3>1, <3>2
    <2>3. why = "startup" => lastPolicy = None
        BY DEF Inv, WorkerOK
    <2>4. why = "cleanup" => worker.pc \in After
        BY DEF After
    <2> QED BY <1>4, <2>1, <2>2, <2>3, <2>4 DEF Inv, PolicyOK, After
<1>12. Remnants'
    BY <1>1, <1>3 DEF Remnants, MayStay
<1>13. ASSUME NEW l \in Launches PROVE ShimOK(l)'
    <2>1. lock' # "visible" /\ lock # "visible"
        OBVIOUS
    <2>2. shim[l].pc \in Waiting => l \in sweep'.live
        BY <1>1 DEF Surviving
    <2> QED BY <2>1, <2>2 DEF Inv, ShimOK, Root
<1>14. \A d \in Dirs : HelperOK(d)'
    BY DEF Inv, HelperOK
<1> QED BY <1>6, <1>7, <1>8, <1>9, <1>10, <1>11, <1>12, <1>13, <1>14 DEF Inv

LEMMA AskForLockInv == ASSUME Inv, wait_cache \/ discard_if_cache_free PROVE Inv'
<1>1. CASE Step("consume")
    BY <1>1, GivesUpInv DEF GivesUp
<1>2. CASE ~Step("consume")
    <2> DEFINE wanted == Roots \ {r \in Roots : On(worker.launch) /\ r = Root(worker.launch)}
               unkept == Roots \ {r \in Roots : worker.keep /\ r = Root(worker.launch)}
    <2>1. /\ lock = "free" /\ lock' = "worker" /\ worker.pc \in {"wait_cache", "cleanup_lock"}
          /\ UNCHANGED <<place, maybe, content, record, helper, shim, desired, running, sup>>
          /\ UNCHANGED <<crashes, faults, lastPolicy, settled>>
          /\ \/ Step("discard") /\ sweep' = SweepOf("discard", Launches, wanted)
             \/ worker.pc = "cleanup_lock" /\ Step("cleanup") /\ sweep' = SweepOf("cleanup", Launches, unkept)
        BY <1>2 DEF wait_cache, discard_if_cache_free, disk, policy
    <2>2. sweep.why = "none"
        BY <2>1, AttemptFacts
    <2>3. Surviving \subseteq Launches /\ Launches \in SUBSET Launches
        BY DEF Surviving
    <2>4. CASE Step("discard") /\ sweep' = SweepOf("discard", Launches, wanted)
        <3>1. wanted \in SUBSET Roots
            OBVIOUS
        <3> QED BY <2>1, <2>2, <2>3, <2>4, <3>1, BeginSweep
    <2>5. CASE worker.pc = "cleanup_lock" /\ Step("cleanup") /\ sweep' = SweepOf("cleanup", Launches, unkept)
        <3>1. unkept \in SUBSET Roots
            OBVIOUS
        <3> HIDE DEF wanted, unkept
        <3> QED BY <2>1, <2>2, <2>3, <2>5, <3>1, BeginSweep
    <2> QED BY <2>1, <2>4, <2>5
<1> QED BY <1>1, <1>2

LEMMA AttemptInv == ASSUME Inv, Attempt PROVE Inv'
<1>1. CASE prepare_fails \/ attempt_fails \/ keep_ready
    BY <1>1, GivesUpInv DEF GivesUp
<1> QED BY <1>1, ChosenInv, AskForLockInv, PrepareInv, MkdirInv, GuardInv, RecordReadyInv, PublishInv,
           SyncPublishedInv, ConsumeInv DEF Attempt

LEMMA StartupInv == ASSUME Inv, startup_sweep PROVE Inv'
<1> USE SpareConstants
<1>1. /\ UNCHANGED <<place, maybe, content, record, helper, shim, desired, running, worker>>
      /\ UNCHANGED <<crashes, faults, lastPolicy, settled>>
      /\ sup = "starting" /\ sweep.why = "none"
    BY DEF startup_sweep, disk, policy, observed
<1>2. CASE lock = "free"
    <2>1. PICK live \in {Surviving, Launches}, evict \in {{}, Roots} :
               sweep' = SweepOf("startup", live, evict) /\ lock' = "sweep" /\ sup' = sup
        BY <1>2 DEF startup_sweep
    <2>2. live \in SUBSET Launches /\ Surviving \subseteq live /\ evict \in SUBSET Roots
        BY DEF Surviving
    <2> QED BY <1>1, <1>2, <2>1, <2>2, BeginSweep
<1>3. CASE lock # "free"
    <2>1. sup' = "serving" /\ UNCHANGED <<lock, sweep>>
        BY <1>3 DEF startup_sweep
    <2>2. worker.pc = "idle" /\ desired = None /\ lastPolicy = None
        BY <1>1 DEF Inv, WorkerOK
    <2>3. Typed'
        BY <1>1, <2>1, Facts DEF Typed
    <2>4. DiskOK'
        BY <1>1 DEF Inv, DiskOK, NothingForgotten, ReadyIsRecorded, ReadyIsWhole
    <2>5. WorkerOK' /\ BuildOK' /\ PolicyOK'
        BY <1>1, <2>1, <2>2 DEF Inv, WorkerOK, BuildOK, Building, PolicyOK
    <2>6. SweepOK' /\ Remnants'
        BY <1>1, <2>1 DEF Inv, SweepOK, Ready, MaybeReady, Remnants
    <2>7. \A l \in Launches : ShimOK(l)'
        BY <1>1, <2>1 DEF Inv, ShimOK, Root
    <2>8. \A d \in Dirs : HelperOK(d)'
        BY <1>1, <2>1 DEF Inv, HelperOK
    <2> QED BY <2>3, <2>4, <2>5, <2>6, <2>7, <2>8 DEF Inv
<1> QED BY <1>2, <1>3

\* A start, or the beginning of an orderly stop.
LEMMA StartStopInv == ASSUME Inv, start \/ stop PROVE Inv'
<1> USE SpareConstants
<1>1. /\ UNCHANGED <<place, maybe, content, record, lock, helper, shim, running, worker, sweep>>
      /\ UNCHANGED <<faults, lastPolicy>>
      /\ \/ sup = "down" /\ sup' = "starting" /\ UNCHANGED <<desired, crashes, settled>>
         \/ /\ sup = "serving" /\ sup' = "stopping" /\ desired' = None /\ settled' = FALSE
            /\ crashes < MaxCrashes /\ crashes' = crashes + 1
    BY DEF start, stop, disk, policy, observed
<1>2. Typed'
    <2>1. crashes' \in 0..MaxCrashes /\ faults' \in 0..MaxFaults
        BY <1>1, Facts DEF Typed
    <2>2. settled' \in BOOLEAN /\ running' \in BOOLEAN
        BY <1>1, Facts DEF Typed
    <2>3. sup' \in {"down", "starting", "serving", "stopping"} /\ desired' \in Launches \cup {None}
        BY <1>1, Facts DEF Typed
    <2> QED BY <1>1, <2>1, <2>2, <2>3, Facts DEF Typed
<1>3. DiskOK'
    BY <1>1 DEF Inv, DiskOK, NothingForgotten, ReadyIsRecorded, ReadyIsWhole
<1>4. WorkerOK'
    BY <1>1 DEF Inv, WorkerOK, Known
<1>5. BuildOK'
    BY <1>1 DEF Inv, BuildOK, Building, MaybeReady, Root, On
<1>6. SweepOK'
    BY <1>1 DEF Inv, SweepOK, Ready, MaybeReady
<1>7. PolicyOK' /\ Remnants'
    BY <1>1 DEF Inv, PolicyOK, Remnants, MayStay
<1>8. \A l \in Launches : ShimOK(l)'
    BY <1>1 DEF Inv, ShimOK, Root
<1>9. \A d \in Dirs : HelperOK(d)'
    BY <1>1 DEF Inv, HelperOK
<1> QED BY <1>2, <1>3, <1>4, <1>5, <1>6, <1>7, <1>8, <1>9 DEF Inv

\* What is left of a supervisor that is gone: the disk, shims and helpers.
LEMMA GoneStep ==
    ASSUME Inv, Gone, UNCHANGED <<record, faults>>, crashes' \in 0..MaxCrashes,
           place' \in [Dirs -> Places], maybe' \in [Dirs -> SUBSET Places],
           content' \in [Dirs -> {"none", "empty", "partial", "whole", "moved"}],
           \A d \in Dirs : place'[d] \in maybe'[d] /\ maybe'[d] \subseteq maybe[d],
           ReadyIsWhole', lock' \in {"free", "helper", "visible"},
           helper' \in [Dirs -> {"none", "waiting", "cloning", "done", "dead"}],
           \A d \in Dirs : HelperOK(d)',
           shim' \in [Launches -> ShimRecords], \A l \in Launches : ~shim'[l].owes /\ ShimOK(l)'
    PROVE  Inv'
<1>1. /\ worker' = Idle /\ sweep' = NoSweep /\ Idle \in WorkerRecords /\ NoSweep \in SweepRecords
      /\ sup' = "down" /\ desired' = None /\ running' = FALSE /\ lastPolicy' = None /\ settled' = TRUE
    BY DEF Gone, Idle, WorkerRecords, WorkerPcs, NoSweep, SweepRecords
<1>2. Typed'
    BY <1>1, Facts DEF Typed
<1>3. DiskOK'
    BY DEF Inv, DiskOK, NothingForgotten, ReadyIsRecorded
<1>4. WorkerOK' /\ BuildOK' /\ PolicyOK'
    BY <1>1 DEF WorkerOK, BuildOK, PolicyOK, Building, Idle
<1>5. SweepOK' /\ Remnants'
    BY <1>1 DEF SweepOK, Remnants, NoSweep, Idle
<1> QED BY <1>2, <1>3, <1>4, <1>5 DEF Inv

LEMMA EndsSupervisorInv == ASSUME Inv, supervisor_ends PROVE Inv'
<1> USE SpareConstants
<1>1. /\ UNCHANGED <<place, maybe, content, record, helper, faults>> /\ Gone
      /\ lock' = IF lock \in {"worker", "sweep"} THEN "free" ELSE lock
      /\ shim' = [l \in Launches |-> [shim[l] EXCEPT !.owes = FALSE]]
    BY DEF supervisor_ends, disk
<1>2. crashes' \in 0..MaxCrashes
    BY Facts DEF supervisor_ends, Typed
<1>3. ASSUME NEW l \in Launches
      PROVE  /\ shim'[l] \in ShimRecords /\ shim'[l].owes = FALSE /\ shim'[l].pc = shim[l].pc
             /\ shim'[l].root = shim[l].root /\ shim'[l].dir = shim[l].dir /\ shim'[l].dest = shim[l].dest
    BY <1>1, Facts DEF ShimRecords
<1>4. shim' \in [Launches -> ShimRecords]
    BY <1>1, <1>3
<1>5. ASSUME NEW l \in Launches PROVE ShimOK(l)'
    <2>1. sweep'.why = "none"
        BY <1>1 DEF Gone, NoSweep
    <2>2. ShimOK(l) /\ \A k \in Launches : shim'[k].pc = shim[k].pc
        BY <1>3 DEF Inv
    <2>3. (lock = "visible" => lock' = "visible") /\ UNCHANGED <<place, content>>
        BY <1>1
    <2> QED BY <1>3, <2>1, <2>2, <2>3 DEF ShimOK, Root
<1>6. \A d \in Dirs : HelperOK(d)'
    BY <1>1 DEF Inv, HelperOK
<1>7. ReadyIsWhole'
    BY <1>1 DEF Inv, DiskOK, ReadyIsWhole
<1>8. lock' \in {"free", "helper", "visible"}
    BY <1>1, Facts DEF Typed
<1>9. \A d \in Dirs : place'[d] \in maybe'[d] /\ maybe'[d] \subseteq maybe[d]
    BY <1>1, Facts
<1> QED BY <1>1, <1>2, <1>3, <1>4, <1>5, <1>6, <1>7, <1>8, <1>9, Facts, GoneStep DEF Typed

LEMMA PowerCutInv == ASSUME Inv, power_cut PROVE Inv'
<1> USE SpareConstants
<1>1. /\ UNCHANGED <<record, faults>> /\ Gone /\ lock' = "free"
      /\ place' \in [Dirs -> Places] /\ \A d \in Dirs : place'[d] \in maybe[d]
      /\ maybe' = [d \in Dirs |-> {place'[d]}]
      /\ content' = [d \in Dirs |-> CASE place'[d] = place[d] -> content[d]
                                      [] place'[d] = Nowhere -> "none"
                                      [] place'[d].name = "ready" -> "whole"
                                      [] OTHER -> "partial"]
      /\ helper' = [d \in Dirs |-> IF helper[d] = "none" THEN "none" ELSE "dead"]
      /\ shim' = [l \in Launches |-> [shim[l] EXCEPT !.owes = FALSE, !.pc = IF @ = "new" THEN "new" ELSE "dead"]]
    BY DEF power_cut
<1>2. crashes' \in 0..MaxCrashes
    <2>1. crashes \in 0..MaxCrashes /\ crashes < MaxCrashes /\ crashes' = crashes + 1
        BY Facts DEF power_cut, Typed
    <2> QED BY <2>1
<1>3. ASSUME NEW l \in Launches
      PROVE  /\ shim'[l] \in ShimRecords /\ shim'[l].owes = FALSE
             /\ shim'[l].pc = IF shim[l].pc = "new" THEN "new" ELSE "dead"
             /\ shim'[l].root = shim[l].root /\ shim'[l].dest = shim[l].dest
    <2> DEFINE pc == IF shim[l].pc = "new" THEN "new" ELSE "dead"
               x == [shim[l] EXCEPT !.owes = FALSE, !.pc = pc]
    <2>1. shim'[l] = x
        BY <1>1
    <2>2. pc \in ShimPcs
        BY DEF ShimPcs
    <2> HIDE DEF pc
    <2>3. x \in ShimRecords /\ x.owes = FALSE /\ x.pc = pc /\ x.root = shim[l].root /\ x.dest = shim[l].dest
        BY <2>2, Facts DEF ShimRecords
    <2> QED BY <2>1, <2>3 DEF pc
<1>4. shim' \in [Launches -> ShimRecords]
    <2>1. DOMAIN shim' = Launches /\ shim' = [l \in Launches |-> shim'[l]]
        BY <1>1
    <2> QED BY <1>3, <2>1
<1>5. ASSUME NEW l \in Launches PROVE ShimOK(l)'
    <2>1. sweep'.why = "none"
        BY <1>1 DEF Gone, NoSweep
    <2> QED BY <1>3, <2>1 DEF Inv, ShimOK, Root, Holds
<1>6. \A d \in Dirs : HelperOK(d)'
    BY <1>1 DEF HelperOK
<1>7. ASSUME NEW d \in Dirs
      PROVE  /\ content'[d] \in {"none", "empty", "partial", "whole", "moved"}
             /\ place'[d].name = "ready" => content'[d] = "whole"
    <2>1. CASE place'[d] = place[d]
        <3>1. place'[d].name = "ready" => content[d] = "whole" /\ place[d] # Nowhere
            BY <2>1, Naming DEF Inv, DiskOK, ReadyIsWhole
        <3> QED BY <1>1, <2>1, <3>1, Facts DEF Typed
    <2>2. CASE place'[d] # place[d]
        <3>1. content'[d] = CASE place'[d] = place[d] -> content[d]
                              [] place'[d] = Nowhere -> "none"
                              [] place'[d].name = "ready" -> "whole"
                              [] OTHER -> "partial"
            BY <1>1
        <3>2. CASE place'[d] = Nowhere
            BY <2>2, <3>1, <3>2, Naming
        <3>3. CASE place'[d] # Nowhere /\ place'[d].name = "ready"
            BY <2>2, <3>1, <3>3
        <3>4. CASE place'[d] # Nowhere /\ place'[d].name # "ready"
            BY <2>2, <3>1, <3>4
        <3> QED BY <3>2, <3>3, <3>4
    <2> QED BY <2>1, <2>2
<1>8. content' \in [Dirs -> {"none", "empty", "partial", "whole", "moved"}] /\ ReadyIsWhole'
    BY <1>1, <1>7 DEF ReadyIsWhole
<1>9. maybe' \in [Dirs -> SUBSET Places] /\ \A d \in Dirs : place'[d] \in maybe'[d] /\ maybe'[d] \subseteq maybe[d]
    BY <1>1
<1>10. helper' \in [Dirs -> {"none", "waiting", "cloning", "done", "dead"}]
    BY <1>1
<1> QED BY <1>1, <1>2, <1>3, <1>4, <1>5, <1>6, <1>8, <1>9, <1>10, GoneStep

LEMMA NextInv == Inv /\ [Next]_vars => Inv'
<1> SUFFICES ASSUME Inv, [Next]_vars PROVE Inv'
    OBVIOUS
<1>1. CASE Next
    BY <1>1, LaunchInv, HelperInv, CleanupInv, AttemptInv, StartupInv, StartStopInv, EndsSupervisorInv, PowerCutInv
       DEF Next
<1>2. CASE UNCHANGED vars
    BY <1>2 DEF vars, Inv, Typed, DiskOK, NothingForgotten, ReadyIsRecorded, ReadyIsWhole, WorkerOK, Known, BuildOK,
       MaybeReady, Ready, SweepOK, PolicyOK, Same, Good, Evicting, Remnants, MayStay, ShimOK, HelperOK, Root, On
<1> QED BY <1>1, <1>2

THEOREM InvHolds == Spec => []Inv
BY InitInv, NextInv, PTL DEF Spec

\* What is on disk, what the record says of it and what living shims and helpers
\* hold agree, whatever crashes, power cuts and failing calls there are.
THEOREM SparesAreConsistent == Spec => []Consistent
BY InvHolds, InvFacts, PTL

\* When nothing is owed and nothing failed, a ready spare is where the newest
\* create of this supervisor wanted one, whichever attempt was under way.
THEOREM PolicyIsHeld == Spec => []PolicyHolds
BY InvHolds, InvFacts, PTL

\* A start that could do its sweep leaves of what a predecessor made only ready
\* spares and claims that may be in use, however that predecessor ended.
THEOREM StartsRecover == Spec => StartupRecovers
<1> DEFINE A == sweep.why = "startup" /\ sweep.fail = {} /\ sup' = "serving" /\ faults' = faults =>
                   \A d \in Dirs : place'[d].name \in {"gone", "ready"}
                                   \/ (place'[d].name = "claimed" /\ place'[d].by \in sweep.live)
<1>1. Inv /\ [Next]_vars => [A]_vars
    <2> SUFFICES ASSUME Inv, Next, sweep.why = "startup", sweep.fail = {}, sup' = "serving", NEW d \in Dirs
                 PROVE  \/ place'[d].name \in {"gone", "ready"}
                        \/ place'[d].name = "claimed" /\ place'[d].by \in sweep.live
        OBVIOUS
    <2>1. sup = "starting" /\ worker.pc = "idle"
        BY DEF Inv, SweepOK, WorkerOK
    <2>2. sweep_record
        <3>1. ~UNCHANGED sup
            BY <2>1
        <3>2. ~(\E l \in Launches : Launch(l)) /\ ~(\E e \in Dirs : Helper(e))
            BY <3>1 DEF Launch, Helper, create, register, shim_claim, shim_declines, shim_fetch, shim_move_git,
               shim_move_fails, shim_move_rest, shim_rest_fails, shim_clone, shim_cloned, shim_dies, helper_clone,
               helper_cloned, helper_dies
        <3>3. ~Attempt
            BY <3>1 DEF Attempt, next, claim, wait_cache, prepare, prepare_fails, spawn, run_guard, prepare_mkdir,
               record_ready, publish, sync_published, attempt_fails, keep_ready, discard_if_cache_free, consume
        <3>4. ~start /\ ~stop /\ ~supervisor_ends /\ ~power_cut /\ ~startup_sweep
            BY <2>1 DEF start, stop, supervisor_ends, power_cut, Gone, startup_sweep
        <3>5. Cleanup
            BY <3>2, <3>3, <3>4 DEF Next
        <3> QED BY <3>1, <3>5 DEF Cleanup, sweep_list, sweep_leaves, discard_park, sweep_stops, discard_remove,
                sweep_fails, sweep_sync
    <2>3. place' = place /\ sweep.root = None /\ sweep.todo = {}
        BY <2>2 DEF sweep_record, disk
    <2>4. MayStay(place[d]) \/ place[d].root = None
        BY <2>3 DEF Inv, Remnants
    <2>5. place[d].root = None => place[d].name = "gone"
        BY Facts, Naming, SpareConstants
    <2> QED BY <2>3, <2>4, <2>5 DEF MayStay
<1> QED BY <1>1, InvHolds, PTL DEF Spec, StartupRecovers
===============================================================================
