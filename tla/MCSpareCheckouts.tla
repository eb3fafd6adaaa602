--------------------------- MODULE MCSpareCheckouts ---------------------------
(***************************************************************************)
(* Two creates and two directories in scenarios chosen at the start: kills *)
(* and power cuts below one root; one of them and a failing call; and two  *)
(* roots between which the policy moves. Launches and directories are      *)
(* taken in order, which is what symmetry would do and lets the liveness   *)
(* property be checked.                                                    *)
(***************************************************************************)
EXTENDS SpareCheckouts

CONSTANTS r1, d1, d2, l1, l2

VARIABLE scenario

Scenarios ==
    { [roots |-> {r1},  crashes |-> MaxCrashes - 2, faults |-> MaxFaults],
      [roots |-> {r1},  crashes |-> MaxCrashes - 1, faults |-> MaxFaults - 1],
      [roots |-> Roots, crashes |-> MaxCrashes,     faults |-> MaxFaults] }

MCInit ==
    /\ Init
    /\ scenario \in Scenarios /\ crashes = scenario.crashes /\ faults = scenario.faults

Pristine(d) == content[d] = "none" /\ maybe[d] = {Nowhere} /\ helper[d] = "none"

InOrder ==
    /\ shim'[l2].pc # "new" => shim[l1].pc # "new"
    /\ worker.pc = "mkdir" /\ worker'.dir = d2 => ~Pristine(d1)

Within == \A l \in Launches : shim[l].root \in scenario.roots \cup {None}

MCNext == Next /\ UNCHANGED scenario /\ InOrder /\ Within'

\* None of the fair steps begins a launch, and a directory is always left to take.
MCFairSpec == MCInit /\ [][MCNext]_<<vars, scenario>> /\ Fairness
===============================================================================
