----------------------------- MODULE MCHostActor -----------------------------
(****************************************************************************)
(* One registered host in three scenarios, chosen at the start: operations  *)
(* against refreshes, a retry and a lost connection; retargets, reinstalls  *)
(* and adoptions; and a host without an identity, served from memory.       *)
(****************************************************************************)
EXTENDS HostActor

VARIABLE scenario

Scenario(known_id, ops, kinds, faultsLeft, nMoves, nRetries) ==
  [identified |-> known_id, ops |-> ops, kinds |-> kinds, faults |-> MaxFaults - faultsLeft,
   moves |-> nMoves, retries |-> nRetries]

Scenarios ==
  { Scenario(TRUE, 2, {"create", "touch", "delete"}, 1, 0, 1),
    Scenario(TRUE, 1, {"create"}, 0, 2, 0),
    Scenario(FALSE, 1, {"create", "delete"}, 1, 1, 1) }

\* What has happened so far is of the scenario.
Within ==
  /\ identified = scenario.identified
  /\ LET begun == {o \in Ops : op[o].pc # "idle"}
     IN Cardinality(begun) <= scenario.ops /\ \A o \in begun : op[o].kind \in scenario.kinds
  /\ moves <= scenario.moves /\ retries <= scenario.retries

MCInit == Init /\ scenario \in Scenarios /\ faults = scenario.faults /\ Within

MCNext == Next /\ UNCHANGED scenario /\ Within'

\* None of the fair steps begins an operation, a move or a retry, so the
\* scenario takes none of them away.
MCFairSpec == MCInit /\ [][MCNext]_<<vars, identified, scenario>> /\ Fairness
=============================================================================
