---------------------------- MODULE MCJobQueue ----------------------------
(* A small instance of JobQueue for TLC. *)
EXTENDS JobQueue
T(g, j, h, r) == [gid |-> g, JID |-> j, highpri |-> h, repeat |-> r]
MCBatches == { <<T(1, 0, FALSE, 2)>>,
               <<T(1, 0, FALSE, 1), T(2, 0, FALSE, 3)>>,
               <<T(0, 2, TRUE, 1)>>,
               <<T(1, 1, FALSE, 1)>> }
===========================================================================
