---------------------------- MODULE SpareCheckouts ----------------------------
(***************************************************************************)
(* The spare checkouts of one repository: spare_checkouts.rs (the record,  *)
(* publication and recovery), service/spare_builder.rs (the supervisor's   *)
(* one worker and its policy), spare_build.rs (the clone helper under its  *)
(* guard), spare_take.rs (a launch shim that takes a spare instead of      *)
(* cloning) and the sweep of repo_cache.rs at a supervisor's start.        *)
(*                                                                         *)
(* A directory keeps its identity wherever it is renamed to; `place` is    *)
(* the name it has.  A rename or mkdir is on disk only once its namespace  *)
(* directory is flushed: `maybe` holds every place a power cut may leave a *)
(* directory at, its present one included.  The record is written          *)
(* atomically and flushed.  Shims take no lock and read no record; helpers *)
(* and visible clones share the cache lock with the sweeps.                *)
(*                                                                         *)
(* Only the program's own directories are in a namespace, and reading a    *)
(* namespace sees each of them under one name.  What a power cut does to   *)
(* the files inside a checkout is left out.                                *)
(***************************************************************************)
EXTENDS Naturals, FiniteSets

CONSTANTS
    Roots,          \* checkout roots: the namespace is below one
    Dirs,           \* the directories that may be made
    Launches,       \* creates of a session, each with its launch shim
    None,
    MaxCrashes,     \* bound: supervisor crashes and power cuts
    MaxFaults       \* bound: failing system calls

ASSUME SpareConstants ==
    /\ MaxCrashes \in Nat /\ MaxFaults \in Nat
    /\ None \notin Roots \cup Dirs \cup Launches

VARIABLES
    place, maybe, content,  \* of each directory
    record,         \* of each root: no entry, or the identity of its ready spare
    lock,           \* the holder of the cache lock
    helper,         \* the clone helper of each directory being built
    shim,           \* each launch: its shim, what its create asked, what it holds
    desired,        \* the attempt owed: the launch whose create registered it
    running,        \* has the worker claimed it
    sup,            \* the supervisor
    worker,         \* its worker
    sweep,          \* a cleanup under way
    crashes, faults,
    lastPolicy,     \* observed: what the last create of this supervisor's life asked
    settled         \* observed: since it asked, nothing failed or was given up

vars == <<place, maybe, content, record, lock, helper, shim, desired, running,
          sup, worker, sweep, crashes, faults, lastPolicy, settled>>
disk == <<place, maybe, content>>
policy == <<desired, running>>
observed == <<crashes, faults, lastPolicy, settled>>

Nowhere == [root |-> None, name |-> "gone", by |-> None]
At(r, n) == [root |-> r, name |-> n, by |-> None]
Claim(r, l) == [root |-> r, name |-> "claimed", by |-> l]
Places == {Nowhere} \cup {At(r, n) : r \in Roots, n \in {"building", "ready", "trash"}}
                    \cup {Claim(r, l) : r \in Roots, l \in Launches}
NoEntry == [known |-> FALSE, ready |-> None]
Entry(d) == [known |-> TRUE, ready |-> d]
NoSweep == [why |-> "none", live |-> {}, evict |-> {}, root |-> None, todo |-> {}, left |-> {},
            parked |-> None, keep |-> {}, cleared |-> {}, fail |-> {}]
Idle == [pc |-> "idle", launch |-> None, dir |-> None, published |-> FALSE, keep |-> FALSE]
Waiting == {"claim", "claimed", "fetched", "moving", "clone", "cloning"}

TypeOK ==
    /\ place \in [Dirs -> Places] /\ maybe \in [Dirs -> SUBSET Places]
    /\ content \in [Dirs -> {"none", "empty", "partial", "whole", "moved"}]
    /\ record \in [Roots -> [known : BOOLEAN, ready : Dirs \cup {None}]]
    /\ lock \in {"free", "worker", "sweep", "helper", "visible"}
    /\ helper \in [Dirs -> {"none", "waiting", "cloning", "done", "dead"}]
    /\ shim \in [Launches ->
         [pc : Waiting \cup {"new", "taken", "cloned", "failed", "dead"}, root : Roots \cup {None},
          on : BOOLEAN, owes : BOOLEAN, dir : Dirs \cup {None}, dest : {"empty", "partial", "whole"}]]
    /\ desired \in Launches \cup {None} /\ running \in BOOLEAN
    /\ sup \in {"down", "starting", "serving", "stopping"}
    /\ worker \in [pc : {"idle", "chosen", "wait_cache", "discard", "prepare", "mkdir", "spawn", "build",
                         "record_ready", "publish", "sync", "keep", "cleanup_lock", "cleanup", "consume"},
                   launch : Launches \cup {None}, dir : Dirs \cup {None},
                   published : BOOLEAN, keep : BOOLEAN]
    /\ sweep \in [why : {"none", "startup", "discard", "cleanup"}, live : SUBSET Launches,
                  evict : SUBSET Roots, root : Roots \cup {None}, todo : SUBSET Roots,
                  left : SUBSET [dir : Dirs, at : Places], parked : Dirs \cup {None},
                  keep : SUBSET Roots, cleared : SUBSET Roots, fail : SUBSET Roots]
    /\ crashes \in 0..MaxCrashes /\ faults \in 0..MaxFaults
    /\ lastPolicy \in Launches \cup {None} /\ settled \in BOOLEAN

Init ==
    /\ place = [d \in Dirs |-> Nowhere] /\ maybe = [d \in Dirs |-> {Nowhere}]
    /\ content = [d \in Dirs |-> "none"]
    /\ record = [r \in Roots |-> NoEntry]
    /\ lock = "free"
    /\ helper = [d \in Dirs |-> "none"]
    /\ shim = [l \in Launches |-> [pc |-> "new", root |-> None, on |-> FALSE, owes |-> FALSE,
                                   dir |-> None, dest |-> "empty"]]
    /\ desired = None /\ running = FALSE
    /\ sup = "starting" /\ worker = Idle /\ sweep = NoSweep
    /\ crashes \in 0..MaxCrashes /\ faults \in 0..MaxFaults
    /\ lastPolicy = None /\ settled = TRUE

-----------------------------------------------------------------------------
(* The file system *)

\* The directories with a name below root r.
InRoot(r) == {d \in Dirs : place[d].root = r}

\* rename(2), mkdir(2) or rmdir(2): seen at once, on disk some time later.
Move(d, p) ==
    /\ place' = [place EXCEPT ![d] = p]
    /\ maybe' = [maybe EXCEPT ![d] = @ \cup {p}]

\* fsync of the namespace of root r: what is there is on disk, and what left it is not.
Flushed(r) ==
    [d \in Dirs |-> IF place[d].root = r THEN {place[d]}
                    ELSE {p \in maybe[d] : p.root # r} \cup {place[d]}]

\* A system call fails; `settled` is for what the policy promises when none does.
Fault ==
    /\ faults < MaxFaults /\ faults' = faults + 1
    /\ settled' = FALSE
    /\ UNCHANGED <<crashes, lastPolicy>>

-----------------------------------------------------------------------------
(* A create and its launch shim *)

\* The frozen policy of the create that launch l belongs to.
On(l) == shim[l].on
Root(l) == shim[l].root
Goto(l, pc) == shim' = [shim EXCEPT ![l].pc = pc]

\* A create of the repository launches its shim.
create(l, r, on) ==
    /\ sup = "serving" /\ shim[l].pc = "new"
    /\ shim' = [shim EXCEPT ![l] = [@ EXCEPT !.pc = "claim", !.root = r, !.on = on, !.owes = TRUE]]
    /\ UNCHANGED <<disk, record, lock, helper, policy, sup, worker, sweep, observed>>

\* Once launched, the create registers its policy.
register(l) ==
    /\ sup = "serving" /\ shim[l].owes
    /\ shim' = [shim EXCEPT ![l].owes = FALSE]
    /\ IF desired # None /\ running /\ Root(desired) = Root(l) /\ On(desired) = On(l)
       THEN UNCHANGED <<policy, settled>>
       ELSE desired' = l /\ running' = FALSE /\ settled' = TRUE
    /\ lastPolicy' = l
    /\ UNCHANGED <<disk, record, lock, helper, sup, worker, sweep, crashes, faults>>

\* The shim claims the ready spare by renaming it.
shim_claim(l, d) ==
    /\ shim[l].pc = "claim" /\ On(l) /\ place[d] = At(Root(l), "ready")
    /\ Move(d, Claim(Root(l), l))
    /\ shim' = [shim EXCEPT ![l].pc = "claimed", ![l].dir = d]
    /\ UNCHANGED <<content, record, lock, helper, policy, sup, worker, sweep, observed>>

\* Whatever it is not certain of before the first move, it clones instead.
shim_declines(l) ==
    /\ shim[l].pc \in {"claim", "claimed", "fetched"}
    /\ Goto(l, "clone")
    /\ UNCHANGED <<disk, record, lock, helper, policy, sup, worker, sweep, observed>>

\* An ordinary clone that fetches; a failed fetch is no reason to clone.
shim_fetch(l) ==
    /\ shim[l].pc = "claimed" /\ content[shim[l].dir] = "whole"
    /\ \E pc \in {"fetched", "failed"} : Goto(l, pc)
    /\ UNCHANGED <<disk, record, lock, helper, policy, sup, worker, sweep, observed>>

\* .git moves into the empty destination: the boundary.
shim_move_git(l) ==
    /\ shim[l].pc = "fetched" /\ shim[l].dest = "empty"
    /\ content' = [content EXCEPT ![shim[l].dir] = "moved"]
    /\ shim' = [shim EXCEPT ![l].pc = "moving", ![l].dest = "partial"]
    /\ UNCHANGED <<place, maybe, record, lock, helper, policy, sup, worker, sweep, observed>>

\* The first rename reports an error, after or without its effect.  Only a
\* destination that is still empty may be cloned into.
shim_move_fails(l) ==
    /\ shim[l].pc = "fetched" /\ Fault
    /\ \/ Goto(l, "clone") /\ UNCHANGED content
       \/ /\ content' = [content EXCEPT ![shim[l].dir] = "moved"]
          /\ shim' = [shim EXCEPT ![l].pc = "failed", ![l].dest = "partial"]
    /\ UNCHANGED <<place, maybe, record, lock, helper, policy, sup, worker, sweep>>

\* The other entries follow, and the emptied claim is removed.
shim_move_rest(l) ==
    /\ shim[l].pc = "moving"
    /\ Move(shim[l].dir, Nowhere)
    /\ shim' = [shim EXCEPT ![l].pc = "taken", ![l].dest = "whole"]
    /\ UNCHANGED <<content, record, lock, helper, policy, sup, worker, sweep, observed>>

\* After a partial move nothing is taken back.
shim_rest_fails(l) ==
    /\ shim[l].pc = "moving" /\ Fault
    /\ Goto(l, "failed")
    /\ UNCHANGED <<disk, record, lock, helper, policy, sup, worker, sweep>>

\* The visible clone, under the cache lock and without a time limit.
shim_clone(l) ==
    /\ shim[l].pc = "clone" /\ lock = "free"
    /\ lock' = "visible" /\ Goto(l, "cloning")
    /\ UNCHANGED <<disk, record, helper, policy, sup, worker, sweep, observed>>

shim_cloned(l) ==
    /\ shim[l].pc = "cloning"
    /\ lock' = "free"
    /\ \/ shim' = [shim EXCEPT ![l].pc = "cloned", ![l].dest = "whole"]
       \/ shim' = [shim EXCEPT ![l].pc = "failed", ![l].dest = "partial"]
    /\ UNCHANGED <<disk, record, helper, policy, sup, worker, sweep, observed>>

\* A Stop, or a kill, of the launch.
shim_dies(l) ==
    /\ shim[l].pc \in Waiting
    /\ Goto(l, "dead")
    /\ lock' = IF shim[l].pc = "cloning" THEN "free" ELSE lock
    /\ UNCHANGED <<disk, record, helper, policy, sup, worker, sweep, observed>>

-----------------------------------------------------------------------------
(* The clone helper and its guard *)

\* Once it has the cache lock, the helper clones only into the very directory
\* it was made for.
helper_clone(d) ==
    /\ helper[d] = "waiting" /\ lock = "free"
    /\ \/ /\ place[d].name = "building"
          /\ helper' = [helper EXCEPT ![d] = "cloning"] /\ lock' = "helper"
          /\ content' = [content EXCEPT ![d] = "partial"]
       \/ /\ place[d].name # "building"
          /\ helper' = [helper EXCEPT ![d] = "dead"] /\ UNCHANGED <<lock, content>>
    /\ UNCHANGED <<place, maybe, record, shim, policy, sup, worker, sweep, observed>>

helper_cloned(d) ==
    /\ helper[d] = "cloning"
    /\ helper' = [helper EXCEPT ![d] = "done"] /\ lock' = "free"
    /\ content' = [content EXCEPT ![d] = "whole"]
    /\ UNCHANGED <<place, maybe, record, shim, policy, sup, worker, sweep, observed>>

\* The clone fails, the deadline passes or the supervisor's end of the tether
\* closes: the guard kills its whole group.
helper_dies(d) ==
    /\ helper[d] \in {"waiting", "cloning"}
    /\ helper' = [helper EXCEPT ![d] = "dead"]
    /\ lock' = IF helper[d] = "cloning" THEN "free" ELSE lock
    /\ UNCHANGED <<disk, record, shim, policy, sup, worker, sweep, observed>>

-----------------------------------------------------------------------------
(* Cleanup, under the cache lock: sweep_locations *)

\* Begin one: evict(r) says whether a ready spare goes, `live` which launches'
\* claims stay.  Without a record there is nothing to do.
SweepOf(why, live, evict) ==
    [NoSweep EXCEPT !.why = why, !.live = live, !.evict = evict,
                    !.todo = {r \in Roots : record[r].known}]

\* Mutant: what an earlier cleanup parked is not seen.
sweep_list_no_trash(r) ==
    /\ sweep.why # "none" /\ sweep.root = None /\ r \in sweep.todo
    /\ sweep' = [sweep EXCEPT !.root = r, !.todo = @ \ {r},
                              !.left = {[dir |-> d, at |-> place[d]] : d \in {e \in InRoot(r) : place[e].name # "trash"}}]
    /\ UNCHANGED <<disk, record, lock, helper, shim, policy, sup, worker, observed>>

\* Names are read once; what happens to one later is found out on opening it.
sweep_list(r) ==
    /\ sweep.why # "none" /\ sweep.root = None /\ r \in sweep.todo
    /\ sweep' = [sweep EXCEPT !.root = r, !.todo = @ \ {r},
                              !.left = {[dir |-> d, at |-> place[d]] : d \in InRoot(r)}]
    /\ UNCHANGED <<disk, record, lock, helper, shim, policy, sup, worker, observed>>

\* The next name, while no directory is parked for removal.
Next_name(e) == sweep.root # None /\ sweep.parked = None /\ e \in sweep.left

\* Is the ready spare the one the record names?
Recorded(d, r) == record[r].ready = d

\* Stay: a protected claim, and a verified ready spare that is not evicted.
sweep_leaves(e) ==
    /\ Next_name(e)
    /\ \/ e.at.name = "claimed" /\ e.at.by \in sweep.live
       \/ /\ e.at.name = "ready" /\ sweep.root \notin sweep.evict
          /\ place[e.dir] = e.at /\ Recorded(e.dir, sweep.root)
    /\ sweep' = [sweep EXCEPT !.left = @ \ {e}]
    /\ UNCHANGED <<disk, record, lock, helper, shim, policy, sup, worker, observed>>

Removable(e) ==
    CASE e.at.name = "ready" -> sweep.root \in sweep.evict /\ Recorded(e.dir, sweep.root)
      [] e.at.name = "claimed" -> e.at.by \notin sweep.live
      [] OTHER -> TRUE

\* Open, verify, and rename to a trash name.
discard_park(e) ==
    /\ Next_name(e) /\ Removable(e) /\ place[e.dir] = e.at
    /\ Move(e.dir, At(sweep.root, "trash"))
    /\ sweep' = [sweep EXCEPT !.left = @ \ {e}, !.parked = e.dir,
                              !.cleared = IF e.at.name = "ready" THEN @ \cup {sweep.root} ELSE @]
    /\ UNCHANGED <<content, record, lock, helper, shim, policy, sup, worker, observed>>

\* Remove the parked tree.
discard_remove ==
    /\ sweep.parked # None
    /\ Move(sweep.parked, Nowhere)
    /\ content' = [content EXCEPT ![sweep.parked] = "none"]
    /\ sweep' = [sweep EXCEPT !.parked = None]
    /\ UNCHANGED <<record, lock, helper, shim, policy, sup, worker, observed>>

\* Done with this root: its ORIGINAL entry stays.
Failed(r) == sweep' = [sweep EXCEPT !.root = None, !.left = {}, !.parked = None, !.fail = @ \cup {r}]

\* A name that is gone, or a ready spare no record names, ends this root's cleanup.
sweep_stops(e) ==
    /\ Next_name(e)
    /\ ~(e.at.name = "claimed" /\ e.at.by \in sweep.live)
    /\ place[e.dir] # e.at \/ (e.at.name = "ready" /\ ~Recorded(e.dir, sweep.root))
    /\ Failed(sweep.root) /\ settled' = FALSE
    /\ UNCHANGED <<disk, record, lock, helper, shim, policy, sup, worker, crashes, faults, lastPolicy>>

\* Opening, renaming, listing, removing or flushing fails; a tree may be left in part.
sweep_fails ==
    /\ sweep.root # None /\ Fault
    /\ \/ UNCHANGED content
       \/ sweep.parked # None /\ content' = [content EXCEPT ![sweep.parked] = "partial"]
    /\ Failed(sweep.root)
    /\ UNCHANGED <<place, maybe, record, lock, helper, shim, policy, sup, worker>>

\* Look again, then flush the namespace before anything is forgotten.
sweep_sync ==
    /\ sweep.root # None /\ sweep.left = {} /\ sweep.parked = None
    /\ maybe' = Flushed(sweep.root)
    /\ sweep' = [sweep EXCEPT !.root = None,
                              !.keep = IF InRoot(sweep.root) # {} THEN @ \cup {sweep.root} ELSE @]
    /\ UNCHANGED <<place, content, record, lock, helper, shim, policy, sup, worker, observed>>

\* What the record says after the cleanup.
Kept(r) ==
    CASE r \in sweep.fail -> record[r]
      [] r \in sweep.keep \ sweep.fail -> IF r \in sweep.cleared THEN Entry(None) ELSE record[r]
      [] OTHER -> NoEntry

\* Who called goes on: the start of the supervisor, or one step of an attempt.
AfterSweep(ok) ==
    CASE sweep.why = "startup" -> sup' = "serving" /\ lock' = "free" /\ UNCHANGED worker
      [] sweep.why = "discard" ->
            /\ IF ok /\ On(worker.launch)
               THEN worker' = [worker EXCEPT !.pc = "prepare"] /\ UNCHANGED lock
               ELSE worker' = [worker EXCEPT !.pc = "consume"] /\ lock' = "free"
            /\ UNCHANGED sup
      [] sweep.why = "cleanup" -> worker' = [worker EXCEPT !.pc = "consume"] /\ lock' = "free" /\ UNCHANGED sup

\* Progress of every root is written, then a failure of any reported.
sweep_record ==
    /\ sweep.why # "none" /\ sweep.root = None /\ sweep.todo = {}
    /\ \/ record' = [r \in Roots |-> Kept(r)] /\ AfterSweep(sweep.fail = {}) /\ UNCHANGED observed
       \/ Fault /\ AfterSweep(FALSE) /\ UNCHANGED record
    /\ sweep' = NoSweep
    /\ UNCHANGED <<disk, helper, shim, policy>>

-----------------------------------------------------------------------------
(* The worker: one attempt *)

Current == desired = worker.launch /\ sup # "stopping"
Step(pc) == worker' = [worker EXCEPT !.pc = pc]

\* Has the visible clone of launch l been run?  Its durable preparation state says.
clone_finished(l) == shim[l].pc \in {"taken", "cloned"} \/ shim[l].pc = "failed"

\* The attempt owed, once its gate is open; it is given up if its preparation
\* failed earlier or cannot be read.
next ==
    /\ sup = "serving" /\ worker.pc = "idle" /\ desired # None /\ ~running
    /\ \/ /\ ~On(desired) \/ clone_finished(desired)
          /\ worker' = [Idle EXCEPT !.pc = "chosen", !.launch = desired]
          /\ UNCHANGED <<policy, settled>>
       \/ /\ On(desired) /\ shim[desired].pc \in {"taken", "cloned", "failed", "dead"}
          /\ desired' = None /\ settled' = FALSE
          /\ UNCHANGED <<worker, running>>
    /\ UNCHANGED <<disk, record, lock, helper, shim, sup, sweep, crashes, faults, lastPolicy>>

claim ==
    /\ worker.pc = "chosen"
    /\ IF desired = worker.launch /\ ~running
       THEN running' = TRUE /\ Step("wait_cache")
       ELSE worker' = Idle /\ UNCHANGED running
    /\ UNCHANGED <<disk, record, lock, helper, shim, desired, sup, sweep, observed>>

\* Mutant: no deadline.
wait_cache_forever ==
    /\ worker.pc = "wait_cache"
    /\ \/ ~Current /\ Step("consume") /\ UNCHANGED <<lock, sweep, settled>>
       \/ /\ Current /\ lock = "free"
          /\ lock' = "worker" /\ Step("discard")
          /\ sweep' = SweepOf("discard", Launches, Roots \ {r \in Roots : On(worker.launch) /\ r = Root(worker.launch)})
          /\ UNCHANGED settled
    /\ UNCHANGED <<disk, record, helper, shim, policy, sup, crashes, faults, lastPolicy>>

\* Probe the cache lock until it is free, the policy changes or the deadline passes.
wait_cache ==
    /\ worker.pc = "wait_cache"
    /\ \/ ~Current /\ Step("consume") /\ UNCHANGED <<lock, sweep, settled>>
       \/ /\ Current /\ lock = "free"
          /\ lock' = "worker" /\ Step("discard")
          /\ sweep' = SweepOf("discard", Launches, Roots \ {r \in Roots : On(worker.launch) /\ r = Root(worker.launch)})
          /\ UNCHANGED settled
       \/ Current /\ lock # "free" /\ Step("consume") /\ settled' = FALSE /\ UNCHANGED <<lock, sweep>>
    /\ UNCHANGED <<disk, record, helper, shim, policy, sup, crashes, faults, lastPolicy>>

\* An occupied slot starts nothing.  Otherwise the namespace is flushed, then
\* recorded, before a directory is made in it.
prepare ==
    LET r == Root(worker.launch) IN
    /\ worker.pc = "prepare"
    /\ IF \E d \in Dirs : place[d] = At(r, "ready")
       THEN Step("consume") /\ lock' = "free" /\ UNCHANGED <<maybe, record>>
       ELSE /\ maybe' = Flushed(r)
            /\ record' = [record EXCEPT ![r] = IF @.known THEN @ ELSE Entry(None)]
            /\ Step("mkdir") /\ UNCHANGED lock
    /\ UNCHANGED <<place, content, helper, shim, policy, sup, sweep, observed>>

\* Make a fresh directory to build in, flush it, and let the cache lock go.
prepare_mkdir(d) ==
    /\ worker.pc = "mkdir" /\ content[d] = "none" /\ maybe[d] = {Nowhere} /\ helper[d] = "none"
    /\ place' = [place EXCEPT ![d] = At(Root(worker.launch), "building")]
    /\ maybe' = [Flushed(Root(worker.launch)) EXCEPT ![d] = {At(Root(worker.launch), "building")}]
    /\ content' = [content EXCEPT ![d] = "empty"]
    /\ worker' = [worker EXCEPT !.pc = "spawn", !.dir = d] /\ lock' = "free"
    /\ UNCHANGED <<record, helper, shim, policy, sup, sweep, observed>>

\* Preparing fails: the attempt ends, and what was made is left to the next.
prepare_fails ==
    /\ worker.pc \in {"prepare", "mkdir"} /\ Fault
    /\ Step("consume") /\ lock' = "free"
    /\ UNCHANGED <<disk, record, helper, shim, policy, sup, sweep>>

\* Start the guard, which runs the helper; not if the policy has changed.
spawn ==
    /\ worker.pc = "spawn"
    /\ \/ ~Current /\ Step("keep") /\ UNCHANGED <<helper, settled>>
       \/ Current /\ helper' = [helper EXCEPT ![worker.dir] = "waiting"] /\ Step("build") /\ UNCHANGED settled
    /\ UNCHANGED <<disk, record, lock, shim, policy, sup, sweep, crashes, faults, lastPolicy>>

\* The guard is reaped: with the helper's receipt, or killed for the deadline or
\* a new policy.
run_guard ==
    /\ worker.pc = "build"
    /\ \/ /\ helper[worker.dir] = "done" /\ Step("record_ready")
          /\ UNCHANGED <<helper, lock>>
       \/ /\ helper' = [helper EXCEPT ![worker.dir] = "dead"]
          /\ lock' = IF helper[worker.dir] = "cloning" THEN "free" ELSE lock
          /\ Step("keep")
    /\ UNCHANGED <<disk, record, shim, policy, sup, sweep, observed>>

\* The identity of the directory is recorded before it can be the ready spare.
record_ready ==
    /\ worker.pc = "record_ready"
    /\ LET r == Root(worker.launch) IN
       IF place[worker.dir] = At(r, "building") /\ record[r].known
       THEN record' = [record EXCEPT ![r].ready = worker.dir] /\ Step("publish")
       ELSE Step("keep") /\ UNCHANGED record
    /\ UNCHANGED <<disk, lock, helper, shim, policy, sup, sweep, observed>>

\* The policy's gate: only the attempt that is still owed renames, and is done
\* with its rename.
publish ==
    /\ worker.pc = "publish"
    /\ LET slot == At(Root(worker.launch), "ready") IN
       IF desired = worker.launch /\ \A d \in Dirs : place[d] # slot
       THEN /\ Move(worker.dir, slot) /\ desired' = None
            /\ worker' = [worker EXCEPT !.pc = "sync"]
       ELSE Step("keep") /\ UNCHANGED <<place, maybe, desired>>
    /\ UNCHANGED <<content, record, lock, helper, shim, running, sup, sweep, observed>>

sync_published ==
    /\ worker.pc = "sync"
    /\ maybe' = Flushed(Root(worker.launch))
    /\ worker' = [worker EXCEPT !.pc = "keep", !.published = TRUE]
    /\ UNCHANGED <<place, content, record, lock, helper, shim, policy, sup, sweep, observed>>

\* A failure anywhere in the build or the publication: what is published is not kept.
attempt_fails ==
    /\ worker.pc \in {"spawn", "record_ready", "publish", "sync"} /\ Fault
    /\ Step("keep")
    /\ UNCHANGED <<disk, record, lock, helper, shim, policy, sup, sweep>>

\* Does the ready spare stay?  As the newest policy says; with none owed, if it
\* was published.
keep_ready ==
    /\ worker.pc = "keep"
    /\ worker' = [worker EXCEPT !.pc = "cleanup_lock",
         !.keep = /\ sup # "stopping"
                  /\ IF desired = None THEN worker.published
                     ELSE On(desired) /\ Root(desired) = Root(worker.launch)]
    /\ UNCHANGED <<disk, record, lock, helper, shim, policy, sup, sweep, observed>>

\* One try at the cache lock: if it is taken, everything is left as it is.
discard_if_cache_free ==
    /\ worker.pc = "cleanup_lock"
    /\ IF lock = "free"
       THEN /\ lock' = "worker" /\ Step("cleanup")
            /\ sweep' = SweepOf("cleanup", Launches, Roots \ {r \in Roots : worker.keep /\ r = Root(worker.launch)})
            /\ UNCHANGED settled
       ELSE Step("consume") /\ settled' = FALSE /\ UNCHANGED <<lock, sweep>>
    /\ UNCHANGED <<disk, record, helper, shim, policy, sup, crashes, faults, lastPolicy>>

\* Mutant: whatever is owed is done with.
consume_any ==
    /\ worker.pc = "consume"
    /\ desired' = None
    /\ worker' = Idle
    /\ UNCHANGED <<disk, record, lock, helper, shim, running, sup, sweep, observed>>
\* The attempt is no longer owed; a newer one stays.
consume ==
    /\ worker.pc = "consume"
    /\ desired' = IF desired = worker.launch THEN None ELSE desired
    /\ worker' = Idle
    /\ UNCHANGED <<disk, record, lock, helper, shim, running, sup, sweep, observed>>

-----------------------------------------------------------------------------
(* The supervisor's start and end *)

\* Launches whose shim may still take or hold a claim: its terminal is alive
\* and its preparation has not got past the clone.
Surviving == {l \in Launches : shim[l].pc \in Waiting}

\* Mutant: only claims seen now are protected.
startup_sweep_claims ==
    /\ sup = "starting" /\ sweep.why = "none"
    /\ IF lock = "free"
       THEN /\ lock' = "sweep" /\ UNCHANGED sup
            /\ \E live \in {{l \in Surviving : shim[l].dir # None}}, evict \in {{}, Roots} :
                 sweep' = SweepOf("startup", live, evict)
       ELSE sup' = "serving" /\ UNCHANGED <<lock, sweep>>
    /\ UNCHANGED <<disk, record, helper, shim, policy, worker, observed>>

\* At start: see which shims survive, then sweep, unless the cache is in use.
\* Ready spares go when the cache was unused for long.
startup_sweep ==
    /\ sup = "starting" /\ sweep.why = "none"
    /\ IF lock = "free"
       THEN /\ lock' = "sweep" /\ UNCHANGED sup
            /\ \E live \in {Surviving, Launches}, evict \in {{}, Roots} : sweep' = SweepOf("startup", live, evict)
       ELSE sup' = "serving" /\ UNCHANGED <<lock, sweep>>
    /\ UNCHANGED <<disk, record, helper, shim, policy, worker, observed>>

start ==
    /\ sup = "down" /\ sup' = "starting"
    /\ UNCHANGED <<disk, record, lock, helper, shim, policy, worker, sweep, observed>>

\* The supervisor's memory and the locks it held are gone.
Gone ==
    /\ sup' = "down" /\ worker' = Idle /\ sweep' = NoSweep
    /\ desired' = None /\ running' = FALSE
    /\ lastPolicy' = None /\ settled' = TRUE

\* An orderly stop takes back what is owed before the worker is done.
stop ==
    /\ sup = "serving" /\ crashes < MaxCrashes /\ crashes' = crashes + 1
    /\ sup' = "stopping" /\ desired' = None /\ settled' = FALSE
    /\ UNCHANGED <<disk, record, lock, helper, shim, running, worker, sweep, faults, lastPolicy>>

\* The supervisor ends: after a stop, or killed at any step.  Shims go on, and
\* a helper does until its guard sees the end of the tether.
supervisor_ends ==
    /\ sup # "down"
    /\ \/ sup = "stopping" /\ UNCHANGED crashes
       \/ sup # "stopping" /\ crashes < MaxCrashes /\ crashes' = crashes + 1
    /\ Gone
    /\ lock' = IF lock \in {"worker", "sweep"} THEN "free" ELSE lock
    /\ shim' = [l \in Launches |-> [shim[l] EXCEPT !.owes = FALSE]]
    /\ UNCHANGED <<disk, record, helper, faults>>

\* The power is cut.  A directory is found where it was at some time since its
\* namespace was last flushed; what was done to its files after it left that
\* name is undone with the rename.
power_cut ==
    /\ crashes < MaxCrashes /\ crashes' = crashes + 1
    /\ place' \in [Dirs -> Places] /\ \A d \in Dirs : place'[d] \in maybe[d]
    /\ \A d, e \in Dirs : d # e /\ place'[d].name = "ready" => place'[d] # place'[e]
    /\ maybe' = [d \in Dirs |-> {place'[d]}]
    /\ content' = [d \in Dirs |-> CASE place'[d] = place[d] -> content[d]
                                    [] place'[d] = Nowhere -> "none"
                                    [] place'[d].name = "ready" -> "whole"
                                    [] OTHER -> "partial"]
    /\ Gone /\ lock' = "free"
    /\ helper' = [d \in Dirs |-> IF helper[d] = "none" THEN "none" ELSE "dead"]
    /\ shim' = [l \in Launches |-> [shim[l] EXCEPT !.owes = FALSE,
                                      !.pc = IF @ = "new" THEN "new" ELSE "dead"]]
    /\ UNCHANGED <<record, faults>>

-----------------------------------------------------------------------------
Entries == [dir : Dirs, at : Places]

Launch(l) ==
    \/ \E r \in Roots, on \in BOOLEAN : create(l, r, on)
    \/ register(l)
    \/ \E d \in Dirs : shim_claim(l, d)
    \/ shim_declines(l) \/ shim_fetch(l) \/ shim_move_git(l) \/ shim_move_fails(l)
    \/ shim_move_rest(l) \/ shim_rest_fails(l) \/ shim_clone(l) \/ shim_cloned(l) \/ shim_dies(l)

Helper(d) == helper_clone(d) \/ helper_cloned(d) \/ helper_dies(d)

Cleanup ==
    \/ \E r \in Roots : sweep_list(r)
    \/ \E e \in sweep.left : sweep_leaves(e) \/ discard_park(e) \/ sweep_stops(e)
    \/ discard_remove \/ sweep_fails \/ sweep_sync \/ sweep_record

Attempt ==
    \/ next \/ claim \/ wait_cache \/ prepare \/ prepare_fails \/ spawn \/ run_guard
    \/ \E d \in Dirs : prepare_mkdir(d)
    \/ record_ready \/ publish \/ sync_published \/ attempt_fails
    \/ keep_ready \/ discard_if_cache_free \/ consume

Next ==
    \/ \E l \in Launches : Launch(l)
    \/ \E d \in Dirs : Helper(d)
    \/ Cleanup \/ Attempt
    \/ startup_sweep \/ start \/ stop \/ supervisor_ends \/ power_cut

Spec == Init /\ [][Next]_vars

\* The worker and its cleanup go on; the ticker wakes it.  Shims and helpers may
\* take for ever: a clone may wait for a password.
Fairness == WF_vars(Cleanup) /\ WF_vars(Attempt)

-----------------------------------------------------------------------------
(* Properties *)

\* Whatever is below a root, or may be found there after a power cut, is in a
\* namespace the record names, so that a later start can clean it up.
NothingForgotten ==
    \A d \in Dirs : \A p \in maybe[d] \ {Nowhere} : record[p.root].known

\* The directory in a ready slot, now or after a power cut, is the one whose
\* identity the record holds: cleanup would retain any other for ever.
ReadyIsRecorded ==
    \A d \in Dirs : \A p \in maybe[d] : p.name = "ready" => record[p.root].ready = d

\* A shim that claims a ready spare finds a finished clone, never one that is
\* still written or half removed.
ReadyIsWhole ==
    \A d \in Dirs : place[d].name = "ready" => content[d] = "whole"

\* The spare a living shim has claimed stays its own until it is moved, whatever
\* cleanup runs, at run time or at the start of a new supervisor.
LiveClaimKept ==
    \A l \in Launches : shim[l].pc \in {"claimed", "fetched", "moving"} =>
        /\ place[shim[l].dir] = Claim(Root(l), l)
        /\ content[shim[l].dir] \in {"whole", "moved"}

\* A launch never clones over what it moved.
CloneIntoEmpty ==
    \A l \in Launches : shim[l].pc \in {"clone", "cloning"} => shim[l].dest = "empty"

\* A helper writes only to a directory that is still being built: one that
\* outlived its supervisor brings nothing back that a new one removed.
HelperOwnsTarget ==
    \A d \in Dirs : helper[d] = "cloning" => place[d].name = "building" /\ lock = "helper"

\* What is on disk, what the record says of it and what living shims and
\* helpers hold agree, through crashes and power cuts at any step.
Consistent ==
    /\ TypeOK /\ NothingForgotten /\ ReadyIsRecorded /\ ReadyIsWhole
    /\ LiveClaimKept /\ CloneIntoEmpty /\ HelperOwnsTarget

\* When nothing is owed and nothing failed, a ready spare is where the newest
\* create of this supervisor wanted one: turning spares off, or changing the
\* root, while an attempt runs is not lost.
PolicyHolds ==
    sup = "serving" /\ worker.pc = "idle" /\ desired = None /\ lastPolicy # None /\ settled
       /\ ~shim[lastPolicy].owes
    => \A d \in Dirs : place[d].name = "ready" => On(lastPolicy) /\ place[d].root = Root(lastPolicy)

\* A start that could do its sweep leaves of what a predecessor made only ready
\* spares and claims that may be in use.
StartupRecovers ==
    [][sweep.why = "startup" /\ sweep.fail = {} /\ sup' = "serving" /\ faults' = faults =>
         \A d \in Dirs : place'[d].name \in {"gone", "ready"}
                         \/ (place'[d].name = "claimed" /\ place'[d].by \in sweep.live)]_vars

\* An attempt ends, though a visible clone may hold the cache for ever, and a
\* create whose clone is done does not stay owed.
AttemptsSettle ==
    /\ (worker.pc # "idle") ~> (worker.pc = "idle")
    /\ \A l \in Launches : (desired = l /\ clone_finished(l)) ~> (desired # l)
===============================================================================
