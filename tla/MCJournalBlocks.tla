--------------------------- MODULE MCJournalBlocks ---------------------------
(* Blocks of two bytes, filled one, two or more at a time: four bytes that  *)
(* each took a block of their own would waste as much as two blocks.  The   *)
(* cap holds two bytes and one resize, so a block is cut, spans a resize,   *)
(* and is dropped whole.  No operation compares sizes, so each resize has a *)
(* size of its own, by which it is told from the others.                    *)
EXTENDS JournalBlocks

CONSTANTS Small, Large, Wide

MCSizes == {Small, Large, Wide}

Within == \A i \in DOMAIN history : history[i].size = <<Large, Wide>>[i]

MCSpec == Init /\ [][Next /\ Within']_vars /\ WF_vars(next)
=============================================================================
