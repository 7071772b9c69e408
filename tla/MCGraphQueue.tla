----------------------------- MODULE MCGraphQueue -----------------------------
(* Small instances of GraphQueue for TLC. *)
EXTENDS GraphQueue
===============================================================================
