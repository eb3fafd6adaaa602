------------------------------ MODULE MCTunnels ------------------------------
(***************************************************************************)
(* Two installations that report one session id between them, in scenarios *)
(* chosen at the start: consent, closes and the shutdown; agents, accepted *)
(* sockets, reinstalls and adoptions; deletes against opens; a delete with *)
(* a reconnect, or a dropped refresh whose write lands late, and a failure,*)
(* of the cache's write among others. Requests, sockets and listeners are  *)
(* taken in order, which is what symmetry would do and lets the liveness   *)
(* property be checked.                                                    *)
(***************************************************************************)
EXTENDS Tunnels, TLC

CONSTANTS a, b, s, t, q1, q2, q3, r1, r2, l1, l2

\* The reinstalled machine reports s again; t is only on the first.
MCHosted == a :> {s, t} @@ b :> {s}

VARIABLE scenario

Scenario(kinds, requests, relays, sessions, nMoves, faultsLeft) ==
  [kinds |-> kinds, requests |-> requests, relays |-> relays, sessions |-> sessions,
   moves |-> MaxMoves - nMoves, faults |-> MaxFaults - faultsLeft]

Scenarios ==
  { Scenario({"open", "enable", "disable", "close", "shutdown"}, {q1, q2, q3}, {r1}, {s}, 0, 1),
    Scenario({"open", "agent"}, {q1, q2}, {r1}, {s}, 2, 0),
    Scenario({"open", "agent"}, {q1, q2}, {r1}, {s, t}, 1, 0),
    Scenario({"open", "delete"}, {q1, q2, q3}, {r1}, {s}, 0, 0),
    Scenario({"open", "delete"}, {q1, q2}, {r1, r2}, {s}, 0, 1),
    Scenario({"open", "delete"}, {q1, q2}, {r1}, {s}, 1, 1) }

Started(x) == task[x].pc # "idle"

Within ==
  /\ \A x \in Tasks : Started(x) =>
       /\ x \in scenario.requests \cup scenario.relays
       /\ task[x].s \in scenario.sessions
       /\ x \in Requests => task[x].kind \in scenario.kinds
  /\ Started(q2) => Started(q1)
  /\ Started(q3) => Started(q2)
  /\ Started(r2) => Started(r1)
  /\ lst[l2].pc # "none" => lst[l1].pc # "none"

MCInit ==
  /\ Init /\ at = a
  /\ scenario \in Scenarios /\ moves = scenario.moves /\ faults = scenario.faults

MCNext == Next /\ UNCHANGED scenario /\ Within'

\* None of the fair steps starts a request or accepts a socket, and a listener
\* that is free is left to bind.
MCFairSpec == MCInit /\ [][MCNext]_<<vars, scenario>> /\ Fairness
=============================================================================
