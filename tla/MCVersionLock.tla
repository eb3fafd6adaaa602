---------------------------- MODULE MCVersionLock ----------------------------
(***************************************************************************)
(* A supervisor with one window, over three versions of which the second   *)
(* is installed and the third may be damaged, in two scenarios chosen at   *)
(* the start: a forwarded command against an install that prunes, and an   *)
(* uninstall against an install.                                           *)
(***************************************************************************)
EXTENDS VersionLock

VARIABLE scenario

Scenarios == {Commands, Uninstallers}

MCInit == LockInit /\ scenario \in Scenarios /\ (scenario = Uninstallers => damaged = {})

Within == \A p \in Commands \cup Uninstallers : pc[p] # "idle" => p \in scenario

MCNext == LockNext /\ UNCHANGED scenario /\ Within'

(* None of the fair steps starts a command or an uninstall. *)
MCFairSpec == MCInit /\ [][MCNext]_<<all_vars, scenario>> /\ LockFairness
==============================================================================
