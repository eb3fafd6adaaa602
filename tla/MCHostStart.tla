----------------------------- MODULE MCHostStart -----------------------------
(* Starts that race for one path, one of them with SIGTERM blocked. *)
EXTENDS HostStart
=============================================================================
