----------------------------- MODULE MCHostInput -----------------------------
(* Two callers: a viewer that pastes in two pieces and types behind it, and  *)
(* another that pastes at the same time, each through its own sequence.      *)
EXTENDS HostInput

CONSTANTS viewer, prompt

Key == [pieces |-> 1, bracketed |-> FALSE]
Bracketed(n) == [pieces |-> n, bracketed |-> TRUE]

Mixed == [c \in Callers |-> IF c = viewer THEN <<Bracketed(2), Key>> ELSE <<Bracketed(1)>>]
==============================================================================
