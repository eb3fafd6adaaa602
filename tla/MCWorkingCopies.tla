--------------------------- MODULE MCWorkingCopies ---------------------------
(***************************************************************************)
(* Two sessions and two checkouts in three scenarios, chosen at the start: *)
(* a user who changes the directories, with a failing call and a crash; a  *)
(* file system without creation times; and calls that fail and crashes,    *)
(* the user keeping out of it. Identifiers are taken in order, which is    *)
(* what symmetry would do and lets the liveness property be checked.       *)
(***************************************************************************)
EXTENDS WorkingCopies

CONSTANTS s1, s2, w1, w2, r1

VARIABLE scenario

Leaving(f, a, c) == [faults |-> MaxFaults - f, acts |-> MaxActs - a, crashes |-> MaxCrashes - c]

Scenarios ==
    { [births |-> TRUE,  spent |-> Leaving(1, 2, 1)],
      [births |-> FALSE, spent |-> Leaving(0, 2, 1)],
      [births |-> TRUE,  spent |-> Leaving(2, 0, 2)] }

MCInit ==
    /\ Init /\ root = r1
    /\ scenario \in Scenarios /\ births = scenario.births /\ spent = scenario.spent

InOrder ==
    /\ sess[s2].st # "new" => sess[s1].st # "new"
    /\ sess[s1].origin # w2
    /\ sess[s2].origin = w2 => sess[s1].origin = w1

MCNext == Next /\ UNCHANGED scenario /\ InOrder'

\* None of the fair steps begins a session, so the order takes none of them away.
MCFairSpec == MCInit /\ [][MCNext]_<<vars, births, scenario>> /\ Fairness
=============================================================================
