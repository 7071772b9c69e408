---------------------------- MODULE MCDispatch ----------------------------
(* Small instances of Dispatch for TLC. *)
EXTENDS Dispatch
R(f, t, k, g) == [from |-> f, to |-> t, kind |-> k, graph |-> g]

\* A graph executes: the parent starts modules (jobs for anybody), modules
\* make more; pinned modules, deletions of pinned objects and questions
\* go to the parent.
MCGraph == { R(1, 0, "work", TRUE), R(2, 0, "work", TRUE), R(2, 1, "work", TRUE),
             R(3, 1, "work", TRUE), R(2, 1, "delete", TRUE), R(3, 1, "call", TRUE) }

\* Between graphs as well: input handlers on child 1 send the parent commands
\* or ask it for an answer; the parent calls a function on every child.
MCAll == { R(1, 0, "work", TRUE), R(3, 1, "call", TRUE), R(1, 3, "call", TRUE),
           R(2, 1, "call", FALSE), R(2, 1, "work", FALSE) }
===========================================================================
