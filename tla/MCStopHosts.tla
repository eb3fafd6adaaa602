----------------------------- MODULE MCStopHosts -----------------------------
(***************************************************************************)
(* One socket, its host at p1 and up to two other processes: each caller   *)
(* on either system, in scenarios chosen at the start, with a fault and    *)
(* two or three processes.                                                 *)
(***************************************************************************)
EXTENDS StopHosts

CONSTANT p1

VARIABLE scenario

Scenario(who, refuses, n) == [caller |-> who, fullRefuses |-> refuses, starts |-> n]

Scenarios == { Scenario("stop", TRUE, 3), Scenario("scan", TRUE, 3), Scenario("stop", FALSE, 2),
               Scenario("scan", FALSE, 2), Scenario("supervisor", FALSE, 2),
               Scenario("supervisor", TRUE, 2) }

MCInit ==
    /\ StopInit /\ table[p1] # Nobody /\ table[p1].serves
    /\ scenario \in Scenarios /\ starts <= scenario.starts
    /\ caller = scenario.caller /\ fullRefuses = scenario.fullRefuses

MCNext == StopNext /\ UNCHANGED scenario /\ starts' <= scenario.starts

(* None of the fair steps starts a process. *)
MCFairSpec == MCInit /\ [][MCNext]_<<stopVars, caller, fullRefuses, scenario>> /\ Fairness
==============================================================================
