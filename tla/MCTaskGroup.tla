---------------------------- MODULE MCTaskGroup ----------------------------
(* Small instances of TaskGroup for TLC. *)
EXTENDS TaskGroup
MCTwo == {1, 2}
MCOne == {1}
MCBoth == {TRUE, FALSE}
============================================================================
