-------------------------------- MODULE DXLock --------------------------------
(***************************************************************************)
(* libdx/lock.c (the Linux version, for several processors) on top of      *)
(* libdx/plock.c.  A DX lock is a count knt of those who hold or want it   *)
(* and, while somebody has to wait, the number of a semaphore.  All locks  *)
(* are guarded by one semaphore, locklock.  Who finds a lock taken gives   *)
(* up locklock and sleeps on the lock's semaphore; who unlocks signals it, *)
(* and whoever wakes up last gives the semaphore back, so that it may      *)
(* serve another lock next.                                                *)
(*                                                                         *)
(* The guard inside plock.c (_locklock) is taken and released within one   *)
(* step and left out.  Processes call the functions in pairs, as the       *)
(* callers in the executive mean to: DXunlock follows a DXlock, or a       *)
(* DXtry_lock that was successful.                                         *)
(***************************************************************************)
EXTENDS Integers, FiniteSets

CONSTANTS Procs,    \* processes
          Locks,    \* DX locks
          Sems,     \* numbers of the semaphores that PLockAllocateWait hands out
          Nobody,   \* no process
          NoLock    \* no lock

ASSUME DXLockAssumption ==
  /\ IsFiniteSet(Procs) /\ Nobody \notin Procs
  /\ NoLock \notin Locks
  /\ Sems \subseteq Nat

VARIABLES
  pc,        \* where each process is
  lk,        \* the lock it wants or has
  ws,        \* the semaphore it sleeps on
  locklock,  \* value of the semaphore that guards knt and wait
  knt,       \* [Locks -> holder and waiters]
  wait,      \* [Locks -> semaphore, or -1]
  sem        \* values of the semaphores

vars == <<pc, lk, ws, locklock, knt, wait, sem>>

Init ==
  /\ pc = [p \in Procs |-> "idle"]
  /\ lk = [p \in Procs |-> NoLock]
  /\ ws = [p \in Procs |-> -1]
  /\ locklock = 1
  /\ knt = [l \in Locks |-> 0]
  /\ wait = [l \in Locks |-> -1]
  /\ sem = [w \in Sems |-> 0]

\* DXlock, DXunlock and DXtry_lock are called; each begins with
\* PLockLock (locklock).
Call(p) ==
  /\ \/ /\ pc[p] = "idle"
        /\ \E l \in Locks, f \in {"lock", "try"} :
             /\ lk' = [lk EXCEPT ![p] = l]
             /\ pc' = [pc EXCEPT ![p] = f]
     \/ /\ pc[p] = "held"
        /\ pc' = [pc EXCEPT ![p] = "unlock"]
        /\ UNCHANGED lk
  /\ UNCHANGED <<ws, locklock, knt, wait, sem>>

\* PLockLock (locklock): wait for the semaphore.
PLockLock(p, from, to) ==
  /\ pc[p] = from /\ locklock = 1
  /\ locklock' = 0
  /\ pc' = [pc EXCEPT ![p] = to]
  /\ UNCHANGED <<lk, ws, knt, wait, sem>>

\* The semaphores in use.  The others are on the free list of plock.c or
\* beyond its end.
InUse == {wait[l] : l \in Locks} \ {-1}

\* MUTANT of Woken: nobody gives the semaphore back.
WokenNever(n) == n = 0

\* Whoever is alone with a lock needs no semaphore.
Woken(n) == n = 1

\* The end of DXlock: give the semaphore back if nobody else is there,
\* leave locklock.
Got(p, n) ==
  /\ wait' = IF Woken(n) THEN [wait EXCEPT ![lk[p]] = -1] ELSE wait
  /\ locklock' = 1
  /\ pc' = [pc EXCEPT ![p] = "held"]

\* DXlock with locklock: the lock was free, ...
CountFree(p) ==
  /\ pc[p] = "count" /\ knt[lk[p]] = 0
  /\ knt' = [knt EXCEPT ![lk[p]] = 1]
  /\ Got(p, 1)
  /\ UNCHANGED <<lk, ws, sem>>

\* MUTANT of CountTaken: a semaphore comes back with its old value.
CountTakenStale(p) ==
  /\ pc[p] = "count" /\ knt[lk[p]] > 0
  /\ knt' = [knt EXCEPT ![lk[p]] = @ + 1]
  /\ \/ /\ wait[lk[p]] = -1
        /\ \E w \in Sems \ InUse :
             /\ wait' = [wait EXCEPT ![lk[p]] = w]
             /\ sem' = [sem EXCEPT ![w] = 1]
     \/ wait[lk[p]] # -1 /\ UNCHANGED <<wait, sem>>
  /\ ws' = [ws EXCEPT ![p] = wait'[lk[p]]]
  /\ locklock' = 1
  /\ pc' = [pc EXCEPT ![p] = "asleep"]
  /\ UNCHANGED lk

\* MUTANT of CountTaken: DXlock polls instead of waiting in line.
CountTakenPolls(p) ==
  /\ pc[p] = "count" /\ knt[lk[p]] > 0
  /\ locklock' = 1
  /\ pc' = [pc EXCEPT ![p] = "lock"]
  /\ UNCHANGED <<lk, ws, knt, wait, sem>>

\* ... or it was taken: PLockAllocateWait gets a semaphore and sets it to zero
\* unless one is there, PLockWait gives up locklock.
CountTaken(p) ==
  /\ pc[p] = "count" /\ knt[lk[p]] > 0
  /\ knt' = [knt EXCEPT ![lk[p]] = @ + 1]
  /\ \/ /\ wait[lk[p]] = -1
        /\ \E w \in Sems \ InUse :
             /\ wait' = [wait EXCEPT ![lk[p]] = w]
             /\ sem' = [sem EXCEPT ![w] = 0]
     \/ wait[lk[p]] # -1 /\ UNCHANGED <<wait, sem>>
  /\ ws' = [ws EXCEPT ![p] = wait'[lk[p]]]
  /\ locklock' = 1
  /\ pc' = [pc EXCEPT ![p] = "asleep"]
  /\ UNCHANGED lk

\* MUTANT of Sleep: an interrupted wait counts as a wake-up.
SleepInterrupted(p) ==
  /\ pc[p] = "asleep"
  /\ sem' = [sem EXCEPT ![ws[p]] = @ - 1]
  /\ ws' = [ws EXCEPT ![p] = -1]
  /\ pc' = [pc EXCEPT ![p] = "relock"]
  /\ UNCHANGED <<lk, locklock, knt, wait>>

\* MUTANT of Sleep: a wake-up that takes nothing from the semaphore.
SleepFree(p) ==
  /\ pc[p] = "asleep" /\ sem[ws[p]] > 0
  /\ ws' = [ws EXCEPT ![p] = -1]
  /\ pc' = [pc EXCEPT ![p] = "relock"]
  /\ UNCHANGED <<lk, locklock, knt, wait, sem>>

\* PLockWait sleeps on the semaphore, then wants locklock again.
Sleep(p) ==
  /\ pc[p] = "asleep" /\ sem[ws[p]] > 0
  /\ sem' = [sem EXCEPT ![ws[p]] = @ - 1]
  /\ ws' = [ws EXCEPT ![p] = -1]
  /\ pc' = [pc EXCEPT ![p] = "relock"]
  /\ UNCHANGED <<lk, locklock, knt, wait>>

Wake(p) ==
  /\ pc[p] = "woken"
  /\ Got(p, knt[lk[p]])
  /\ UNCHANGED <<lk, ws, knt, sem>>

\* DXunlock with locklock: signal the semaphore if others are interested.  When
\* nobody holds the lock it is an internal error, and locklock stays taken.
Drop(p) ==
  /\ pc[p] = "drop"
  /\ IF knt[lk[p]] = 0
     THEN pc' = [pc EXCEPT ![p] = "error"] /\ UNCHANGED <<lk, locklock, knt, sem>>
     ELSE /\ knt' = [knt EXCEPT ![lk[p]] = @ - 1]
          /\ sem' = IF knt[lk[p]] > 1 THEN [sem EXCEPT ![wait[lk[p]]] = @ + 1] ELSE sem
          /\ locklock' = 1
          /\ pc' = [pc EXCEPT ![p] = "idle"] /\ lk' = [lk EXCEPT ![p] = NoLock]
  /\ UNCHANGED <<ws, wait>>

\* MUTANT of Try: a lock taken by DXtry_lock is not counted.
TryUncounted(p) ==
  /\ pc[p] = "trying"
  /\ \/ knt[lk[p]] = 0 /\ pc' = [pc EXCEPT ![p] = "held"] /\ UNCHANGED lk
     \/ knt[lk[p]] > 0 /\ pc' = [pc EXCEPT ![p] = "idle"] /\ lk' = [lk EXCEPT ![p] = NoLock]
  /\ locklock' = 1
  /\ UNCHANGED <<ws, knt, wait, sem>>

\* DXtry_lock with locklock.
Try(p) ==
  /\ pc[p] = "trying"
  /\ IF knt[lk[p]] = 0
     THEN /\ knt' = [knt EXCEPT ![lk[p]] = 1]
          /\ pc' = [pc EXCEPT ![p] = "held"] /\ UNCHANGED lk
     ELSE /\ pc' = [pc EXCEPT ![p] = "idle"] /\ lk' = [lk EXCEPT ![p] = NoLock]
          /\ UNCHANGED knt
  /\ locklock' = 1
  /\ UNCHANGED <<ws, wait, sem>>

Enter(p) ==
  \/ PLockLock(p, "lock", "count")
  \/ PLockLock(p, "try", "trying")
  \/ PLockLock(p, "unlock", "drop")
  \/ PLockLock(p, "relock", "woken")

Inside(p) == CountFree(p) \/ CountTaken(p) \/ Wake(p) \/ Drop(p) \/ Try(p)

Next == \E p \in Procs : Call(p) \/ Enter(p) \/ Inside(p) \/ Sleep(p)

Spec == Init /\ [][Next]_vars

Unlocks(p) == pc[p] = "held" /\ Call(p)

\* Processes run; semaphores wake their sleepers in order; who has a lock
\* unlocks it at some time.
FairSpec ==
  /\ Spec
  /\ \A p \in Procs : /\ WF_vars(Inside(p)) /\ WF_vars(Unlocks(p))
                      /\ SF_vars(Enter(p)) /\ SF_vars(Sleep(p))
-----------------------------------------------------------------------------
(* Properties.                                                             *)

PCs == {"idle", "lock", "count", "asleep", "relock", "woken", "held", "unlock", "drop",
        "try", "trying", "error"}

\* Every variable has its type.
TypeOK ==
  /\ pc \in [Procs -> PCs] /\ lk \in [Procs -> Locks \cup {NoLock}]
  /\ ws \in [Procs -> Sems \cup {-1}]
  /\ locklock \in {0, 1}
  /\ knt \in [Locks -> Nat]
  /\ wait \in [Locks -> Sems \cup {-1}]
  /\ sem \in [Sems -> Nat]

\* Those who hold lock l: a sleeper has it as soon as its semaphore lets it go.
Owning == {"relock", "woken", "held", "unlock", "drop"}
Owners(l) == {p \in Procs : lk[p] = l /\ pc[p] \in Owning}

\* Those who are counted by knt: owners and sleepers.
Interested(l) == {p \in Procs : lk[p] = l /\ pc[p] \in Owning \cup {"asleep"}}

\* No two processes hold a lock (or have been woken up for it).
MutualExclusion == \A l \in Locks : \A p, q \in Owners(l) : p = q

\* knt counts the holder and the waiters exactly, although it is raised and
\* lowered in calls of different processes: otherwise DXunlock would signal
\* nobody, or somebody who is not there.
KntExact == \A l \in Locks : knt[l] = Cardinality(Interested(l))

\* One token per wanted lock: it is held, or one signal is pending; no signal
\* of an earlier use is left in a semaphore.
OneToken ==
  \A l \in Locks : Interested(l) # {} =>
    /\ Owners(l) # {} /\ wait[l] # -1 => sem[wait[l]] = 0
    /\ Owners(l) = {} => wait[l] # -1 /\ sem[wait[l]] = 1

\* A lock has a semaphore only as long as somebody sleeps on it or has just been
\* woken: the pool of plock.c serves any number of locks, and DXdestroy_lock
\* never meets a free lock with a semaphore (lock.c:862).
SemaphoreNeeded ==
  \A l \in Locks : wait[l] # -1 =>
    \E p \in Procs : lk[p] = l /\ pc[p] \in {"asleep", "relock", "woken"}

\* The internal error "Unlocking an unlocked lock?" does not occur.
NoUnlockError == \A p \in Procs : pc[p] # "error"

\* Every DXlock returns.
LockReturns == \A p \in Procs : pc[p] = "lock" ~> pc[p] = "held"

\* The holder of each lock.
Owner == [l \in Locks |-> IF Owners(l) = {} THEN Nobody ELSE CHOOSE p \in Owners(l) : TRUE]

M == INSTANCE Mutex WITH owner <- Owner

\* lock.c implements the lock of advanced.h: whatever is done with the counts
\* and the semaphores, a lock passes from nobody to one process and back.
ImplementsMutex == M!Spec
==============================================================================
