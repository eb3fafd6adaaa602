--------------------------- MODULE MCTerminalHost ---------------------------
(***************************************************************************)
(* Small instances of a terminal host in one run: a scenario, chosen at    *)
(* the start, says which connections are made, which frames they send, how *)
(* many, how much the child prints, and what else may happen.              *)
(***************************************************************************)
EXTENDS TerminalHost, TLC

VARIABLE scenario

Scenario(own, frames, sends, prints, faults) ==
    [own |-> own, frames |-> frames, sends |-> sends, prints |-> prints, faults |-> faults]

Scenarios ==
    { \* A client whose replies, input and Shutdown hold one another back.
      Scenario(1, {"Hello", "Info", "Input", "Shutdown"}, 3, 0, {"exit"}),
      \* A client that follows the output to the exit, and one whose child leaves
      \* the terminal to another process: it reads on, or there is more than the
      \* drain takes.
      Scenario(1, {"Hello", "Read"}, 2, 2, {"exit"}),
      Scenario(1, {"Hello", "Read"}, 2, 1, {"exit", "let_go"}),
      Scenario(1, {"Hello"}, 1, 2, {"exit", "let_go"}),
      \* A client that breaks the protocol or resizes, and SIGTERM.
      Scenario(1, {"Hello", "Malformed", "Resize"}, 2, 0, {"sigterm", "half_close"}),
      \* Two connections that take over from each other.
      Scenario(2, {"Hello", "HelloTakeOver", "Shutdown"}, 2, 0, {}),
      \* Connections that say no Hello, a stranger's, and no descriptors.
      Scenario(1, {"NotHello", "HelloZero"}, 1, 0, {"descriptors", "foreign"}) }

\* What has happened so far is of the scenario.
Within ==
    /\ LET made == {c \in Conns : status[c] # "none"}
       IN  /\ Cardinality(made \ Foreign) <= scenario.own
           /\ made \cap Foreign # {} => "foreign" \in scenario.faults
    /\ \A c \in Conns :
           /\ Range(sent[c]) \subseteq scenario.frames /\ Len(sent[c]) <= scenario.sends
           /\ peer[c] = "half" => "half_close" \in scenario.faults
    /\ Chunks <= scenario.prints
    /\ child # "running" => "exit" \in scenario.faults
    /\ (child = "running" => "child" \in slave) \/ "let_go" \in scenario.faults
    /\ "other" \in slave => "let_go" \in scenario.faults
    /\ sigterm => "sigterm" \in scenario.faults
    /\ descriptors \/ "descriptors" \in scenario.faults

MCInit == Init /\ scenario \in Scenarios /\ Within

MCNext == Next /\ UNCHANGED scenario /\ Within'

MCSpec == MCInit /\ [][MCNext]_<<vars, scenario>>

\* The host tells connections of its own user apart only by their order.
SameUser == Permutations(Conns \ Foreign)
=============================================================================
