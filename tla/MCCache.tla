------------------------------- MODULE MCCache -------------------------------
(* Small instances of Cache for TLC. *)
EXTENDS Cache
MCSymmetry == Permutations(Procs) \cup Permutations(Keys) \cup Permutations(Elements)
              \cup Permutations(Gvars)
===============================================================================
