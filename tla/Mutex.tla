-------------------------------- MODULE Mutex --------------------------------
(***************************************************************************)
(* What DXlock, DXtry_lock and DXunlock promise (include/dx/advanced.h): a *)
(* lock that is unlocked is locked by the caller; one that is locked has   *)
(* the caller wait until it is unlocked.                                   *)
(***************************************************************************)
CONSTANTS Procs, Locks, Nobody

VARIABLE owner

Init == owner = [l \in Locks |-> Nobody]

Acquire(p, l) ==
  /\ owner[l] = Nobody
  /\ owner' = [owner EXCEPT ![l] = p]

Release(p, l) ==
  /\ owner[l] = p
  /\ owner' = [owner EXCEPT ![l] = Nobody]

Next == \E p \in Procs, l \in Locks : Acquire(p, l) \/ Release(p, l)

Spec == Init /\ [][Next]_owner
==============================================================================
