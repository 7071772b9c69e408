---------------------------- MODULE MCRunQueue ----------------------------
(* Small instances of RunQueue for TLC. *)
EXTENDS RunQueue

T(g, j, h, r) == [gid |-> g, JID |-> j, highpri |-> h, repeat |-> r]

MCProcs == {1, 2}
MCGids  == {0, 1}
MCBlocksSymmetry == Permutations(Blocks)

\* A task of group 1 with two repetitions, a pair of tasks of group 1, a
\* RunOn job for processor 2, the deletion of an asynchronous group by
\* processor 1.
MCBatches == { <<T(1, 0, FALSE, 2)>>,
               <<T(1, 0, FALSE, 1), T(1, 0, FALSE, 2)>>,
               <<T(0, 2, TRUE, 1)>>,
               <<T(0, 1, FALSE, 1)>> }
===========================================================================
