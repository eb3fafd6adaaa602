---------------------------- MODULE MCHostReplay ----------------------------
(* A program that asks inside and outside a synchronized update, which it    *)
(* closes or leaves open, over two supervisors and a lost connection.        *)
EXTENDS HostReplay

CONSTANTS Small, Large

MCSizes == {Small, Large}

Three == {<<"open", "query", "close">>, <<"query", "open", "query">>}

\* A resize changes the size.
ToLarge == \A i \in 1 .. Len(resizeLog) : resizeLog[i].size = Large
=============================================================================
