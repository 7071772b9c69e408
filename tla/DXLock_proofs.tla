---------------------------- MODULE DXLock_proofs ----------------------------
(***************************************************************************)
(* Proofs about DXLock, for any finite set of processes, any locks and any *)
(* pool of semaphores: the locks are mutual exclusion locks, the counts    *)
(* are exact and no signal is lost or left over.                           *)
(***************************************************************************)
EXTENDS DXLock, FiniteSetTheorems, TLAPS

(* Where a process works with locklock.                                    *)
InsidePCs == {"count", "woken", "drop", "trying"}

(* locklock is taken by whoever works with it, and by nobody else.         *)
Guarded ==
  /\ \A p \in Procs : pc[p] \in InsidePCs => locklock = 0
  /\ \A p, q \in Procs : pc[p] \in InsidePCs /\ pc[q] \in InsidePCs => p = q

(* Only a process at rest has no lock in mind.                             *)
LockKnown == \A p \in Procs : pc[p] # "idle" => lk[p] \in Locks

(* A sleeper sleeps on the semaphore of its lock.                          *)
SleepersInLine ==
  \A p \in Procs : pc[p] = "asleep" => ws[p] = wait[lk[p]] /\ wait[lk[p]] # -1

(* No semaphore serves two locks.                                          *)
SemaphoresApart ==
  \A l, m \in Locks : wait[l] # -1 /\ wait[l] = wait[m] => l = m

(* The inductive invariant.                                                *)
IInv ==
  /\ TypeOK /\ NoUnlockError /\ Guarded /\ LockKnown
  /\ MutualExclusion /\ KntExact
  /\ OneToken /\ SemaphoreNeeded /\ SleepersInLine /\ SemaphoresApart

(* There are finitely many interested processes, so that they can be counted. *)
LEMMA InterestedIsFinite ==
  \A l \in Locks : IsFiniteSet(Interested(l)) /\ Cardinality(Interested(l)) \in Nat
<1>1. \A l \in Locks : Interested(l) \in SUBSET Procs
  BY DEF Interested
<1> QED BY <1>1, FS_Subset, FS_CardinalityType, DXLockAssumption

(* What knt says about those who are interested in a lock.                 *)
LEMMA KntMeans ==
  ASSUME IInv, NEW l \in Locks
  PROVE  /\ knt[l] = 0 <=> Interested(l) = {}
         /\ \A p \in Interested(l) : knt[l] = 1 <=> Interested(l) = {p}
<1>1. IsFiniteSet(Interested(l)) /\ knt[l] = Cardinality(Interested(l))
  BY InterestedIsFinite DEF IInv, KntExact
<1>2. knt[l] = 0 <=> Interested(l) = {}
  BY <1>1, FS_EmptySet
<1>3. ASSUME NEW p \in Interested(l)
      PROVE  knt[l] = 1 <=> Interested(l) = {p}
  BY <1>1, FS_Singleton
<1> QED BY <1>2, <1>3

(* At the beginning nobody wants a lock.                                   *)
LEMMA InitIInv == Init => IInv
<1> SUFFICES ASSUME Init PROVE IInv
  OBVIOUS
<1>1. \A l \in Locks : Interested(l) = {} /\ Owners(l) = {}
  BY DEF Init, Interested, Owners, Owning
<1>2. TypeOK
  BY DEF Init, TypeOK, PCs
<1>3. KntExact
  BY <1>1, FS_EmptySet DEF Init, KntExact
<1>4. MutualExclusion /\ OneToken
  BY <1>1 DEF MutualExclusion, OneToken
<1>5. NoUnlockError /\ Guarded /\ LockKnown /\ SemaphoreNeeded /\ SleepersInLine /\ SemaphoresApart
  BY DEF Init, NoUnlockError, Guarded, InsidePCs, LockKnown, SemaphoreNeeded,
         SleepersInLine, SemaphoresApart
<1> QED BY <1>2, <1>3, <1>4, <1>5 DEF IInv

(* KntExact after one process has joined, or left, those interested in l.  *)
LEMMA KntAfter ==
  ASSUME IInv, NEW l \in Locks, NEW p \in Procs,
         \A m \in Locks \ {l} : Interested(m)' = Interested(m),
         \/ knt' = knt /\ Interested(l)' = Interested(l)
         \/ /\ p \notin Interested(l) /\ Interested(l)' = Interested(l) \cup {p}
            /\ knt' = [knt EXCEPT ![l] = @ + 1]
         \/ /\ p \in Interested(l) /\ Interested(l)' = Interested(l) \ {p}
            /\ knt' = [knt EXCEPT ![l] = @ - 1]
  PROVE  KntExact' /\ knt' \in [Locks -> Nat]
<1>1. knt \in [Locks -> Nat] /\ \A m \in Locks : knt[m] = Cardinality(Interested(m))
  BY DEF IInv, TypeOK, KntExact
<1>2. IsFiniteSet(Interested(l)) /\ Cardinality(Interested(l)) \in Nat
  BY InterestedIsFinite
<1>3. \A m \in Locks \ {l} : knt'[m] = Cardinality(Interested(m)')
  BY <1>1
<1>4. knt'[l] = Cardinality(Interested(l)') /\ knt'[l] \in Nat
  <2>1. CASE knt' = knt /\ Interested(l)' = Interested(l)
    BY <1>1, <2>1
  <2>2. CASE /\ p \notin Interested(l) /\ Interested(l)' = Interested(l) \cup {p}
             /\ knt' = [knt EXCEPT ![l] = @ + 1]
    <3>1. Cardinality(Interested(l) \cup {p}) = Cardinality(Interested(l)) + 1
      BY <1>2, <2>2, FS_AddElement
    <3> QED BY <1>1, <1>2, <2>2, <3>1
  <2>3. CASE /\ p \in Interested(l) /\ Interested(l)' = Interested(l) \ {p}
             /\ knt' = [knt EXCEPT ![l] = @ - 1]
    <3>1. Cardinality(Interested(l) \ {p}) = Cardinality(Interested(l)) - 1
      BY <1>2, <2>3, FS_RemoveElement
    <3>2. Cardinality(Interested(l)) # 0
      BY <1>2, <2>3, FS_EmptySet
    <3> QED BY <1>1, <1>2, <2>3, <3>1, <3>2
  <2> QED BY <2>1, <2>2, <2>3
<1>5. knt' \in [Locks -> Nat]
  BY <1>1, <1>4
<1> QED BY <1>3, <1>4, <1>5 DEF KntExact

(* A call changes nothing but where its process is.                        *)
LEMMA CallIInv == ASSUME IInv, NEW p \in Procs, Call(p) PROVE IInv'
<1> USE DEF IInv, TypeOK
<1>1. \A l \in Locks : Interested(l)' = Interested(l) /\ Owners(l)' = Owners(l)
  BY DEF Call, Interested, Owners, Owning
<1>2. TypeOK' /\ NoUnlockError'
  BY DEF Call, PCs, NoUnlockError
<1>3. Guarded' /\ LockKnown'
  BY DEF Call, Guarded, InsidePCs, LockKnown
<1>4. MutualExclusion' /\ OneToken'
  BY <1>1 DEF MutualExclusion, OneToken, Call
<1>5. KntExact'
  BY <1>1 DEF KntExact, Call
<1>6. SemaphoreNeeded'
  BY DEF Call, SemaphoreNeeded
<1>7. SleepersInLine' /\ SemaphoresApart'
  BY DEF Call, SleepersInLine, SemaphoresApart
<1> QED BY <1>2, <1>3, <1>4, <1>5, <1>6, <1>7

(* Nor does taking locklock.                                               *)
LEMMA EnterIInv == ASSUME IInv, NEW p \in Procs, Enter(p) PROVE IInv'
<1> USE DEF IInv, TypeOK
<1>1. PICK from \in {"lock", "try", "unlock", "relock"}, to \in InsidePCs :
        /\ PLockLock(p, from, to)
        /\ from \in {"unlock", "relock"} <=> to \in {"drop", "woken"}
        /\ from = "relock" => to = "woken"
  BY DEF Enter, InsidePCs
<1>2. \A l \in Locks : Interested(l)' = Interested(l) /\ Owners(l)' = Owners(l)
  BY <1>1 DEF PLockLock, Interested, Owners, Owning, InsidePCs
<1>3. TypeOK' /\ NoUnlockError'
  BY <1>1 DEF PLockLock, PCs, NoUnlockError, InsidePCs
<1>4. Guarded' /\ LockKnown'
  BY <1>1 DEF PLockLock, Guarded, InsidePCs, LockKnown
<1>5. MutualExclusion' /\ OneToken'
  BY <1>1, <1>2 DEF MutualExclusion, OneToken, PLockLock
<1>6. KntExact'
  BY <1>1, <1>2 DEF KntExact, PLockLock
<1>7. SemaphoreNeeded'
  BY <1>1 DEF PLockLock, SemaphoreNeeded
<1>8. SleepersInLine' /\ SemaphoresApart'
  BY <1>1 DEF PLockLock, SleepersInLine, SemaphoresApart, InsidePCs
<1> QED BY <1>3, <1>4, <1>5, <1>6, <1>7, <1>8

(* A process gets a lock that is free: CountFree and the success of Try.   *)
LEMMA TakeIInv ==
  ASSUME IInv, NEW p \in Procs, knt[lk[p]] = 0,
         CountFree(p) \/ Try(p)
  PROVE  IInv'
<1> USE DEF IInv, TypeOK
<1>k. PICK l \in Locks : l = lk[p]
  BY DEF CountFree, Try, LockKnown
<1>0. pc[p] \in {"count", "trying"} /\ l \in Locks
  BY <1>k DEF CountFree, Try, LockKnown
<1>1. Interested(l) = {} /\ p \notin Interested(l)
  BY <1>k, <1>0, KntMeans
<1>2. wait[l] = -1
  BY <1>k, <1>0, <1>1 DEF SemaphoreNeeded, Interested, Owning
<1>3. /\ pc' = [pc EXCEPT ![p] = "held"]
      /\ lk' = lk /\ ws' = ws /\ sem' = sem /\ locklock' = 1
      /\ wait' = wait
      /\ knt' = [knt EXCEPT ![l] = @ + 1]
  <2>1. CASE CountFree(p)
    BY <1>k, <1>0, <1>2, <2>1 DEF CountFree, Got, Woken
  <2>2. CASE Try(p)
    BY <1>k, <1>0, <2>2 DEF Try
  <2> QED BY <2>1, <2>2
<1>4. /\ Interested(l)' = Interested(l) \cup {p}
      /\ Owners(l)' = {p}
      /\ \A m \in Locks \ {l} : Interested(m)' = Interested(m) /\ Owners(m)' = Owners(m)
  BY <1>k, <1>0, <1>1, <1>3 DEF Interested, Owners, Owning
<1>5. KntExact' /\ knt' \in [Locks -> Nat]
  <2> HIDE DEF IInv
  <2> QED BY <1>k, <1>0, <1>1, <1>3, <1>4, KntAfter
<1>6. TypeOK' /\ NoUnlockError' /\ LockKnown'
  BY <1>k, <1>0, <1>3, <1>5 DEF PCs, NoUnlockError, LockKnown
<1>7. Guarded'
  BY <1>k, <1>0, <1>3 DEF Guarded, InsidePCs
<1>8. MutualExclusion'
  BY <1>k, <1>4 DEF MutualExclusion
<1>9. OneToken'
  BY <1>k, <1>0, <1>2, <1>3, <1>4 DEF OneToken
<1>10. SemaphoreNeeded'
  BY <1>k, <1>0, <1>2, <1>3 DEF SemaphoreNeeded
<1>11. SleepersInLine' /\ SemaphoresApart'
  BY <1>k, <1>0, <1>3 DEF SleepersInLine, SemaphoresApart
<1> QED BY <1>k, <1>5, <1>6, <1>7, <1>8, <1>9, <1>10, <1>11

(* DXtry_lock of a taken lock leaves everything as it was.                 *)
LEMMA TryFailsIInv ==
  ASSUME IInv, NEW p \in Procs, knt[lk[p]] # 0, Try(p)
  PROVE  IInv'
<1> USE DEF IInv, TypeOK
<1>1. /\ pc[p] = "trying" /\ pc' = [pc EXCEPT ![p] = "idle"]
      /\ lk' = [lk EXCEPT ![p] = NoLock] /\ locklock' = 1
      /\ UNCHANGED <<knt, ws, wait, sem>>
  BY DEF Try
<1>2. \A l \in Locks : Interested(l)' = Interested(l) /\ Owners(l)' = Owners(l)
  BY <1>1, DXLockAssumption DEF Interested, Owners, Owning
<1>3. TypeOK' /\ NoUnlockError' /\ LockKnown'
  BY <1>1 DEF PCs, NoUnlockError, LockKnown
<1>4. Guarded'
  BY <1>1 DEF Guarded, InsidePCs
<1>5. MutualExclusion' /\ OneToken' /\ KntExact'
  BY <1>1, <1>2 DEF MutualExclusion, OneToken, KntExact
<1>6. SemaphoreNeeded'
  BY <1>1 DEF SemaphoreNeeded
<1>7. SleepersInLine' /\ SemaphoresApart'
  BY <1>1 DEF SleepersInLine, SemaphoresApart
<1> QED BY <1>3, <1>4, <1>5, <1>6, <1>7

(* A process gets in line: it brings the semaphore when it is the first.   *)
LEMMA CountTakenIInv ==
  ASSUME IInv, NEW p \in Procs, CountTaken(p)
  PROVE  IInv'
<1> USE DEF IInv, TypeOK
<1>k. PICK l \in Locks : l = lk[p]
  BY DEF CountTaken, LockKnown
<1>0. pc[p] = "count" /\ l \in Locks /\ -1 \notin Sems
  BY <1>k, DXLockAssumption DEF CountTaken, LockKnown
<1>1. Interested(l) # {} /\ p \notin Interested(l)
  BY <1>k, <1>0, KntMeans DEF CountTaken, Interested, Owning
<1>2. /\ pc' = [pc EXCEPT ![p] = "asleep"]
      /\ lk' = lk /\ locklock' = 1
      /\ knt' = [knt EXCEPT ![l] = @ + 1]
      /\ ws' = [ws EXCEPT ![p] = wait'[l]]
  BY <1>k DEF CountTaken
<1>3. /\ wait'[l] # -1
      /\ \/ wait' = wait /\ sem' = sem
         \/ /\ wait[l] = -1
            /\ \E w \in Sems \ InUse :
                 wait' = [wait EXCEPT ![l] = w] /\ sem' = [sem EXCEPT ![w] = 0]
  BY <1>k, <1>0 DEF CountTaken
<1>4. /\ Interested(l)' = Interested(l) \cup {p}
      /\ Owners(l)' = Owners(l)
      /\ \A m \in Locks \ {l} : Interested(m)' = Interested(m) /\ Owners(m)' = Owners(m)
  BY <1>k, <1>0, <1>1, <1>2 DEF Interested, Owners, Owning
<1>5. KntExact' /\ knt' \in [Locks -> Nat]
  <2> HIDE DEF IInv
  <2> QED BY <1>k, <1>0, <1>1, <1>2, <1>4, KntAfter
<1>6. wait' \in [Locks -> Sems \cup {-1}] /\ sem' \in [Sems -> Nat]
  BY <1>k, <1>3
<1>7. TypeOK' /\ NoUnlockError' /\ LockKnown'
  BY <1>k, <1>0, <1>2, <1>5, <1>6 DEF PCs, NoUnlockError, LockKnown
<1>8. Guarded'
  BY <1>k, <1>0, <1>2 DEF Guarded, InsidePCs
<1>9. MutualExclusion'
  BY <1>k, <1>0, <1>4 DEF MutualExclusion
<1>10. SemaphoresApart' /\ \A m \in Locks \ {l} : wait'[m] = wait[m]
  BY <1>k, <1>0, <1>3 DEF SemaphoresApart, InUse
<1>11. OneToken'
  <2> SUFFICES ASSUME NEW m \in Locks, Interested(m)' # {}
               PROVE  /\ Owners(m)' # {} /\ wait'[m] # -1 => sem'[wait'[m]] = 0
                      /\ Owners(m)' = {} => wait'[m] # -1 /\ sem'[wait'[m]] = 1
    BY DEF OneToken
  <2>0. Interested(m) # {} /\ Owners(m)' = Owners(m)
    BY <1>k, <1>1, <1>4
  <2>1. CASE wait' = wait /\ sem' = sem
    BY <2>0, <2>1 DEF OneToken
  <2>2. ASSUME wait[l] = -1, NEW w \in Sems \ InUse,
               wait' = [wait EXCEPT ![l] = w], sem' = [sem EXCEPT ![w] = 0]
        PROVE  /\ Owners(m)' # {} /\ wait'[m] # -1 => sem'[wait'[m]] = 0
               /\ Owners(m)' = {} => wait'[m] # -1 /\ sem'[wait'[m]] = 1
    <3>1. CASE m = l
      <4>1. Owners(l) # {}
        BY <1>k, <1>0, <1>1, <2>2 DEF OneToken
      <4>2. wait'[l] = w /\ sem'[w] = 0
        BY <1>k, <1>0, <2>2
      <4> QED BY <2>0, <3>1, <4>1, <4>2
    <3>2. CASE m # l
      <4>1. wait'[m] = wait[m] /\ (wait[m] # -1 => sem'[wait[m]] = sem[wait[m]])
        BY <2>2, <3>2 DEF InUse
      <4> QED BY <2>0, <4>1 DEF OneToken
    <3> QED BY <3>1, <3>2
  <2> QED BY <1>k, <1>3, <2>1, <2>2
<1>12. SemaphoreNeeded'
  BY <1>k, <1>0, <1>2, <1>10 DEF SemaphoreNeeded
<1>13. SleepersInLine'
  <2>1. \A q \in Procs : pc[q] = "asleep" => wait'[lk[q]] = wait[lk[q]]
    BY <1>k, <1>0, <1>3, <1>10 DEF SleepersInLine, LockKnown
  <2> QED BY <1>k, <1>0, <1>2, <1>3, <2>1 DEF SleepersInLine
<1> QED BY <1>k, <1>5, <1>7, <1>8, <1>9, <1>10, <1>11, <1>12, <1>13

(* The signal passes the lock to one sleeper.                              *)
LEMMA SleepIInv ==
  ASSUME IInv, NEW p \in Procs, Sleep(p)
  PROVE  IInv'
<1> USE DEF IInv, TypeOK
<1>k. PICK l \in Locks, w \in Sems \cup {-1} : l = lk[p] /\ w = ws[p]
  BY DEF Sleep, LockKnown
<1>0. /\ pc[p] = "asleep" /\ l \in Locks /\ -1 \notin Sems
      /\ w = wait[l] /\ w \in Sems
  BY <1>k, DXLockAssumption DEF Sleep, LockKnown, SleepersInLine
<1>1. p \in Interested(l)
  BY <1>k, <1>0 DEF Interested
<1>2. /\ pc' = [pc EXCEPT ![p] = "relock"] /\ ws' = [ws EXCEPT ![p] = -1]
      /\ sem[w] > 0 /\ sem' = [sem EXCEPT ![w] = @ - 1]
      /\ lk' = lk /\ locklock' = locklock /\ knt' = knt /\ wait' = wait
  BY <1>k DEF Sleep
<1>3. Owners(l) = {} /\ sem[w] = 1
  BY <1>k, <1>0, <1>1, <1>2 DEF OneToken
<1>4. /\ Owners(l)' = {p}
      /\ \A m \in Locks : Interested(m)' = Interested(m)
      /\ \A m \in Locks \ {l} : Owners(m)' = Owners(m)
  BY <1>k, <1>0, <1>2, <1>3 DEF Interested, Owners, Owning
<1>5. KntExact'
  BY <1>k, <1>2, <1>4 DEF KntExact
<1>6. sem'[w] = 0 /\ sem' \in [Sems -> Nat]
  BY <1>k, <1>0, <1>2, <1>3
<1>7. TypeOK' /\ NoUnlockError' /\ LockKnown'
  BY <1>k, <1>0, <1>2, <1>6 DEF PCs, NoUnlockError, LockKnown
<1>8. Guarded'
  BY <1>k, <1>0, <1>2 DEF Guarded, InsidePCs
<1>9. MutualExclusion'
  BY <1>k, <1>4 DEF MutualExclusion
<1>10. OneToken'
  <2> SUFFICES ASSUME NEW m \in Locks, Interested(m)' # {}
               PROVE  /\ Owners(m)' # {} /\ wait'[m] # -1 => sem'[wait'[m]] = 0
                      /\ Owners(m)' = {} => wait'[m] # -1 /\ sem'[wait'[m]] = 1
    BY DEF OneToken
  <2>1. CASE m = l
    BY <1>k, <1>0, <1>2, <1>4, <1>6, <2>1
  <2>2. CASE m # l
    <3>1. wait[m] # -1 => wait[m] # w
      BY <1>k, <1>0, <2>2 DEF SemaphoresApart
    <3>2. wait[m] # -1 => sem'[wait[m]] = sem[wait[m]]
      BY <1>k, <1>2, <3>1
    <3> QED BY <1>k, <1>2, <1>4, <2>2, <3>2 DEF OneToken
  <2> QED BY <2>1, <2>2
<1>11. SemaphoreNeeded'
  BY <1>k, <1>0, <1>2 DEF SemaphoreNeeded
<1>12. SleepersInLine' /\ SemaphoresApart'
  BY <1>k, <1>0, <1>2 DEF SleepersInLine, SemaphoresApart
<1> QED BY <1>k, <1>5, <1>7, <1>8, <1>9, <1>10, <1>11, <1>12

(* The new holder gives the semaphore back when nobody else is in line.    *)
LEMMA WakeIInv ==
  ASSUME IInv, NEW p \in Procs, Wake(p)
  PROVE  IInv'
<1> USE DEF IInv, TypeOK
<1>k. PICK l \in Locks : l = lk[p]
  BY DEF Wake, LockKnown
<1>0. pc[p] = "woken" /\ l \in Locks /\ -1 \notin Sems
  BY <1>k, DXLockAssumption DEF Wake, LockKnown
<1>1. p \in Interested(l) /\ p \in Owners(l)
  BY <1>k, <1>0 DEF Interested, Owners, Owning
<1>2. /\ pc' = [pc EXCEPT ![p] = "held"] /\ locklock' = 1
      /\ wait' = IF knt[l] = 1 THEN [wait EXCEPT ![l] = -1] ELSE wait
      /\ UNCHANGED <<lk, ws, knt, sem>>
  BY <1>k DEF Wake, Got, Woken
<1>3. \A m \in Locks : Interested(m)' = Interested(m) /\ Owners(m)' = Owners(m)
  BY <1>k, <1>0, <1>2 DEF Interested, Owners, Owning
<1>4. TypeOK' /\ NoUnlockError' /\ LockKnown'
  BY <1>k, <1>0, <1>2 DEF PCs, NoUnlockError, LockKnown
<1>5. Guarded'
  BY <1>k, <1>0, <1>2 DEF Guarded, InsidePCs
<1>6. MutualExclusion' /\ KntExact'
  BY <1>k, <1>2, <1>3 DEF MutualExclusion, KntExact
<1>7. OneToken'
  BY <1>k, <1>0, <1>1, <1>2, <1>3 DEF OneToken
<1>8. \A m \in Locks : wait'[m] # -1 => wait'[m] = wait[m] /\ (m = l => knt[l] # 1)
  BY <1>k, <1>0, <1>2
<1>9. SemaphoresApart'
  BY <1>k, <1>8 DEF SemaphoresApart
<1>10. knt[l] # 1 => \E q \in Procs \ {p} : lk[q] = l /\ pc[q] = "asleep"
  <2>1. knt[l] # 1 => \E q \in Interested(l) : q # p
    BY <1>k, <1>0, <1>1, KntMeans
  <2>2. \A q \in Interested(l) : q # p => q \notin Owners(l)
    BY <1>k, <1>0, <1>1 DEF MutualExclusion
  <2> QED BY <2>1, <2>2 DEF Interested, Owners, Owning
<1>11. SemaphoreNeeded'
  BY <1>k, <1>0, <1>2, <1>8, <1>10 DEF SemaphoreNeeded
<1>12. SleepersInLine'
  <2>1. knt[l] = 1 => \A q \in Procs : pc[q] = "asleep" => lk[q] # l
    BY <1>k, <1>0, <1>1, KntMeans DEF Interested
  <2> QED BY <1>k, <1>0, <1>2, <2>1 DEF SleepersInLine, LockKnown
<1> QED BY <1>k, <1>4, <1>5, <1>6, <1>7, <1>9, <1>11, <1>12

(* DXunlock signals once if somebody is in line; the error does not occur. *)
LEMMA DropIInv ==
  ASSUME IInv, NEW p \in Procs, Drop(p)
  PROVE  IInv'
<1> USE DEF IInv, TypeOK
<1>k. PICK l \in Locks : l = lk[p]
  BY DEF Drop, LockKnown
<1>0. pc[p] = "drop" /\ l \in Locks /\ -1 \notin Sems
  BY <1>k, DXLockAssumption DEF Drop, LockKnown
<1>1. p \in Interested(l) /\ p \in Owners(l)
  BY <1>k, <1>0 DEF Interested, Owners, Owning
<1>2. /\ pc' = [pc EXCEPT ![p] = "idle"] /\ lk' = [lk EXCEPT ![p] = NoLock]
      /\ locklock' = 1 /\ knt' = [knt EXCEPT ![l] = @ - 1]
      /\ sem' = IF knt[l] > 1 THEN [sem EXCEPT ![wait[l]] = @ + 1] ELSE sem
      /\ UNCHANGED <<ws, wait>>
  BY <1>k, <1>0, <1>1, KntMeans DEF Drop
<1>3. /\ Interested(l)' = Interested(l) \ {p} /\ Owners(l)' = {}
      /\ \A m \in Locks \ {l} : Interested(m)' = Interested(m) /\ Owners(m)' = Owners(m)
  <2>1. Owners(l) = {p}
    BY <1>k, <1>0, <1>1 DEF MutualExclusion
  <2> QED BY <1>k, <1>0, <1>2, <2>1, DXLockAssumption DEF Interested, Owners, Owning
<1>4. KntExact' /\ knt' \in [Locks -> Nat]
  <2> HIDE DEF IInv
  <2> QED BY <1>k, <1>0, <1>1, <1>2, <1>3, KntAfter
<1>5. knt[l] > 1 => wait[l] \in Sems /\ sem[wait[l]] = 0
  <2>1. knt[l] # 1 => \E q \in Interested(l) : q # p
    BY <1>k, <1>0, <1>1, KntMeans
  <2>2. \A q \in Interested(l) : q # p => q \notin Owners(l)
    BY <1>k, <1>0, <1>1 DEF MutualExclusion
  <2>3. knt[l] # 1 => wait[l] # -1
    BY <2>1, <2>2 DEF Interested, Owners, Owning, SleepersInLine
  <2> QED BY <1>k, <1>0, <1>1, <2>3 DEF OneToken
<1>6. sem' \in [Sems -> Nat] /\ (knt[l] > 1 => sem'[wait[l]] = 1)
  BY <1>k, <1>2, <1>5
<1>7. TypeOK' /\ NoUnlockError' /\ LockKnown'
  BY <1>k, <1>0, <1>2, <1>4, <1>6 DEF PCs, NoUnlockError, LockKnown
<1>8. Guarded'
  BY <1>k, <1>0, <1>2 DEF Guarded, InsidePCs
<1>9. MutualExclusion'
  BY <1>k, <1>3 DEF MutualExclusion
<1>10. OneToken'
  <2> SUFFICES ASSUME NEW m \in Locks, Interested(m)' # {}
               PROVE  /\ Owners(m)' # {} /\ wait'[m] # -1 => sem'[wait'[m]] = 0
                      /\ Owners(m)' = {} => wait'[m] # -1 /\ sem'[wait'[m]] = 1
    BY DEF OneToken
  <2>1. CASE m = l
    <3>1. knt[l] # 0 /\ knt[l] # 1
      BY <1>k, <1>0, <1>1, <1>3, <2>1, KntMeans
    <3>2. knt[l] > 1
      BY <1>k, <1>0, <3>1
    <3> QED BY <1>k, <1>2, <1>3, <1>5, <1>6, <2>1, <3>2, <1>0
  <2>2. CASE m # l
    <3>1. wait[m] # -1 /\ knt[l] > 1 => wait[m] # wait[l]
      BY <1>k, <1>0, <2>2 DEF SemaphoresApart
    <3>2. wait[m] # -1 => sem'[wait[m]] = sem[wait[m]]
      BY <1>k, <1>2, <1>5, <3>1
    <3> QED BY <1>k, <1>2, <1>3, <2>2, <3>2 DEF OneToken
  <2> QED BY <2>1, <2>2
<1>11. SemaphoreNeeded'
  BY <1>k, <1>0, <1>2 DEF SemaphoreNeeded
<1>12. SleepersInLine' /\ SemaphoresApart'
  BY <1>k, <1>0, <1>2 DEF SleepersInLine, SemaphoresApart
<1> QED BY <1>k, <1>4, <1>7, <1>8, <1>9, <1>10, <1>11, <1>12

(* Stuttering.                                                             *)
LEMMA StutterIInv == ASSUME IInv, UNCHANGED vars PROVE IInv'
<1>1. UNCHANGED <<pc, lk, ws, locklock, knt, wait, sem>>
  BY DEF vars
<1>2. \A l \in Locks : Interested(l)' = Interested(l) /\ Owners(l)' = Owners(l)
  BY <1>1 DEF Interested, Owners
<1>3. KntExact' /\ OneToken' /\ MutualExclusion'
  BY <1>1, <1>2 DEF IInv, KntExact, OneToken, MutualExclusion
<1>4. TypeOK' /\ NoUnlockError' /\ Guarded' /\ LockKnown'
  BY <1>1 DEF IInv, TypeOK, NoUnlockError, Guarded, LockKnown
<1>5. SemaphoreNeeded' /\ SleepersInLine' /\ SemaphoresApart'
  BY <1>1 DEF IInv, SemaphoreNeeded, SleepersInLine, SemaphoresApart
<1> QED BY <1>3, <1>4, <1>5 DEF IInv

(* All steps.                                                              *)
LEMMA NextIInv == ASSUME IInv, Next PROVE IInv'
<1>1. PICK p \in Procs : Call(p) \/ Enter(p) \/ Inside(p) \/ Sleep(p)
  BY DEF Next
<1>2. CASE Call(p)
  BY <1>2, CallIInv
<1>3. CASE Enter(p)
  BY <1>3, EnterIInv
<1>4. CASE Inside(p)
  <2>1. CASE CountFree(p)
    BY <2>1, TakeIInv DEF CountFree
  <2>2. CASE CountTaken(p)
    BY <2>2, CountTakenIInv
  <2>3. CASE Wake(p)
    BY <2>3, WakeIInv
  <2>4. CASE Drop(p)
    BY <2>4, DropIInv
  <2>5. CASE Try(p)
    BY <2>5, TakeIInv, TryFailsIInv
  <2> QED BY <1>4, <2>1, <2>2, <2>3, <2>4, <2>5 DEF Inside
<1>5. CASE Sleep(p)
  BY <1>5, SleepIInv
<1> QED BY <1>1, <1>2, <1>3, <1>4, <1>5

(* How a step changes who holds which lock.                                *)
LEMMA OwnersStep ==
  ASSUME IInv, [Next]_vars
  PROVE  \/ \A l \in Locks : Owners(l)' = Owners(l)
         \/ \E p \in Procs, l \in Locks :
              /\ \A m \in Locks \ {l} : Owners(m)' = Owners(m)
              /\ \/ Owners(l) = {} /\ Owners(l)' = {p}
                 \/ Owners(l) = {p} /\ Owners(l)' = {}
<1> DEFINE Same == \A l \in Locks : Owners(l)' = Owners(l)
           Taken(p, l) == /\ \A m \in Locks \ {l} : Owners(m)' = Owners(m)
                          /\ Owners(l) = {} /\ Owners(l)' = {p}
           Left(p, l) == /\ \A m \in Locks \ {l} : Owners(m)' = Owners(m)
                         /\ Owners(l) = {p} /\ Owners(l)' = {}
<1> USE DEF IInv, TypeOK
<1>1. CASE UNCHANGED vars
  BY <1>1 DEF vars, Owners
<1>2. ASSUME NEW p \in Procs, Call(p) PROVE Same
  BY <1>2 DEF Call, Owners, Owning
<1>3. ASSUME NEW p \in Procs, Enter(p) PROVE Same
  BY <1>3 DEF Enter, PLockLock, Owners, Owning
<1>4. ASSUME NEW p \in Procs, CountFree(p) PROVE \E l \in Locks : Taken(p, l)
  <2>1. PICK l \in Locks : l = lk[p] /\ pc[p] = "count" /\ knt[l] = 0
    BY <1>4 DEF CountFree, LockKnown
  <2>2. Owners(l) = {}
    BY <2>1, KntMeans DEF Interested, Owners
  <2>3. pc' = [pc EXCEPT ![p] = "held"] /\ lk' = lk
    BY <1>4 DEF CountFree, Got
  <2>4. Taken(p, l)
    BY <2>1, <2>2, <2>3 DEF Owners, Owning
  <2> QED BY <2>4
<1>5. ASSUME NEW p \in Procs, CountTaken(p) PROVE Same
  <2>1. pc[p] = "count" /\ pc' = [pc EXCEPT ![p] = "asleep"] /\ lk' = lk
    BY <1>5 DEF CountTaken
  <2> QED BY <2>1 DEF Owners, Owning
<1>6. ASSUME NEW p \in Procs, Sleep(p) PROVE \E l \in Locks : Taken(p, l)
  <2>1. PICK l \in Locks : /\ l = lk[p] /\ pc[p] = "asleep" /\ ws[p] = wait[l]
                           /\ sem[wait[l]] > 0
    BY <1>6 DEF Sleep, LockKnown, SleepersInLine
  <2>2. p \in Interested(l)
    BY <2>1 DEF Interested
  <2>3. Owners(l) = {}
    BY <2>1, <2>2 DEF OneToken, SleepersInLine
  <2>4. pc' = [pc EXCEPT ![p] = "relock"] /\ lk' = lk
    BY <1>6 DEF Sleep
  <2>5. Taken(p, l)
    BY <2>1, <2>3, <2>4 DEF Owners, Owning
  <2> QED BY <2>5
<1>7. ASSUME NEW p \in Procs, Wake(p) PROVE Same
  <2>1. pc[p] = "woken" /\ pc' = [pc EXCEPT ![p] = "held"] /\ lk' = lk
    BY <1>7 DEF Wake, Got
  <2> QED BY <2>1 DEF Owners, Owning
<1>8. ASSUME NEW p \in Procs, Drop(p) PROVE \E l \in Locks : Left(p, l)
  <2>1. PICK l \in Locks : l = lk[p] /\ pc[p] = "drop"
    BY <1>8 DEF Drop, LockKnown
  <2>2. p \in Interested(l) /\ Owners(l) = {p}
    BY <2>1 DEF Interested, Owners, Owning, MutualExclusion
  <2>3. pc' = [pc EXCEPT ![p] = "idle"] /\ lk' = [lk EXCEPT ![p] = NoLock]
    BY <1>8, <2>1, <2>2, KntMeans DEF Drop
  <2>4. Left(p, l)
    BY <2>1, <2>2, <2>3, DXLockAssumption DEF Owners, Owning
  <2> QED BY <2>4
<1>9. ASSUME NEW p \in Procs, Try(p) PROVE Same \/ \E l \in Locks : Taken(p, l)
  <2>1. PICK l \in Locks : l = lk[p] /\ pc[p] = "trying"
    BY <1>9 DEF Try, LockKnown
  <2>2. CASE knt[l] = 0
    <3>1. Owners(l) = {}
      BY <2>2, KntMeans DEF Interested, Owners
    <3>2. pc' = [pc EXCEPT ![p] = "held"] /\ lk' = lk
      BY <1>9, <2>1, <2>2 DEF Try
    <3>3. Taken(p, l)
      BY <2>1, <3>1, <3>2 DEF Owners, Owning
    <3> QED BY <3>3
  <2>3. CASE knt[l] # 0
    <3>1. pc' = [pc EXCEPT ![p] = "idle"] /\ lk' = [lk EXCEPT ![p] = NoLock]
      BY <1>9, <2>1, <2>3 DEF Try
    <3> QED BY <2>1, <3>1, DXLockAssumption DEF Owners, Owning
  <2> QED BY <2>2, <2>3
<1>10. ASSUME NEW p \in Procs, Call(p) \/ Enter(p) \/ Inside(p) \/ Sleep(p)
       PROVE  Same \/ \E l \in Locks : Taken(p, l) \/ Left(p, l)
  <2> HIDE DEF Same, Taken, Left, IInv
  <2> QED BY <1>2, <1>3, <1>4, <1>5, <1>6, <1>7, <1>8, <1>9, <1>10 DEF Inside
<1> QED BY <1>1, <1>10 DEF Next

(* What the refinement mapping says of a lock.                             *)
LEMMA OwnerIs ==
  ASSUME MutualExclusion
  PROVE  \A l \in Locks : /\ Owners(l) = {} => Owner[l] = Nobody
                          /\ \A p \in Owners(l) : Owner[l] = p
BY DEF MutualExclusion, Owner

(* A step of lock.c is a step of the abstract lock, or none.               *)
LEMMA StepRefines ==
  ASSUME IInv, IInv', [Next]_vars
  PROVE  [M!Next]_Owner
<1>1. MutualExclusion /\ MutualExclusion'
  BY DEF IInv
<1>2. \A l \in Locks : /\ Owners(l) = {} => Owner[l] = Nobody
                       /\ \A p \in Owners(l) : Owner[l] = p
  BY <1>1, OwnerIs
<1>3. \A l \in Locks : /\ Owners(l)' = {} => Owner'[l] = Nobody
                       /\ \A p \in Owners(l)' : Owner'[l] = p
  BY <1>1 DEF MutualExclusion, Owner
<1>4. Owner = [l \in Locks |-> Owner[l]] /\ Owner' = [l \in Locks |-> Owner'[l]]
  BY DEF Owner
<1>0. \A m \in Locks : Owners(m)' = Owners(m) => Owner'[m] = Owner[m]
  <2> SUFFICES ASSUME NEW m \in Locks, Owners(m)' = Owners(m) PROVE Owner'[m] = Owner[m]
    OBVIOUS
  <2>1. CASE Owners(m) = {}
    BY <1>2, <1>3, <2>1
  <2>2. ASSUME NEW p \in Owners(m) PROVE Owner'[m] = Owner[m]
    BY <1>2, <1>3
  <2> QED BY <2>1, <2>2
<1>5. CASE \A l \in Locks : Owners(l)' = Owners(l)
  <2>1. \A l \in Locks : Owner'[l] = Owner[l]
    BY <1>5, <1>0
  <2> QED BY <1>4, <2>1
<1>6. ASSUME NEW p \in Procs, NEW l \in Locks,
             \A m \in Locks \ {l} : Owners(m)' = Owners(m),
             \/ Owners(l) = {} /\ Owners(l)' = {p}
             \/ Owners(l) = {p} /\ Owners(l)' = {}
      PROVE  M!Next
  <2>1. \A m \in Locks \ {l} : Owner'[m] = Owner[m]
    BY <1>6, <1>0
  <2>2. CASE Owners(l) = {} /\ Owners(l)' = {p}
    <3>1. Owner[l] = Nobody /\ Owner'[l] = p
      BY <1>2, <1>3, <2>2
    <3>2. Owner' = [Owner EXCEPT ![l] = p]
      BY <1>4, <2>1, <3>1
    <3> QED BY <3>1, <3>2 DEF M!Next, M!Acquire
  <2>3. CASE Owners(l) = {p} /\ Owners(l)' = {}
    <3>1. Owner[l] = p /\ Owner'[l] = Nobody
      BY <1>2, <1>3, <2>3
    <3>2. Owner' = [Owner EXCEPT ![l] = Nobody]
      BY <1>4, <2>1, <3>1
    <3> QED BY <3>1, <3>2 DEF M!Next, M!Release
  <2> QED BY <1>6, <2>2, <2>3
<1> QED BY <1>5, <1>6, OwnersStep

(* The induction.                                                          *)
THEOREM Invariant == Spec => []IInv
<1>1. Init => IInv
  BY InitIInv
<1>2. IInv /\ [Next]_vars => IInv'
  BY NextIInv, StutterIInv
<1> QED BY <1>1, <1>2, PTL DEF Spec

(* Every variable always has its type.                                     *)
THEOREM TypeCorrect == Spec => []TypeOK
<1>1. IInv => TypeOK
  BY DEF IInv
<1> QED BY <1>1, Invariant, PTL

(* No two processes hold a lock, for any number of processes and locks and *)
(* any pool of semaphores.                                                 *)
THEOREM LocksExclude == Spec => []MutualExclusion
<1>1. IInv => MutualExclusion
  BY DEF IInv
<1> QED BY <1>1, Invariant, PTL

(* knt is exact: DXunlock signals if and only if somebody sleeps.          *)
THEOREM CountsExact == Spec => []KntExact
<1>1. IInv => KntExact
  BY DEF IInv
<1> QED BY <1>1, Invariant, PTL

(* No signal is lost, doubled or left over when a semaphore changes locks. *)
THEOREM SignalsExact == Spec => []OneToken
<1>1. IInv => OneToken
  BY DEF IInv
<1> QED BY <1>1, Invariant, PTL

(* A lock nobody waits for keeps no semaphore.                             *)
THEOREM SemaphoresReturned == Spec => []SemaphoreNeeded
<1>1. IInv => SemaphoreNeeded
  BY DEF IInv
<1> QED BY <1>1, Invariant, PTL

(* Callers that pair their calls never meet the internal error of DXunlock, *)
(* which would leave locklock taken.                                       *)
THEOREM NoInternalError == Spec => []NoUnlockError
<1>1. IInv => NoUnlockError
  BY DEF IInv
<1> QED BY <1>1, Invariant, PTL

(* lock.c implements the lock of advanced.h.                               *)
THEOREM LockRefinesMutex == Spec => ImplementsMutex
<1>1. Init => M!Init
  BY DEF Init, M!Init, Owner, Owners, Owning
<1>2. IInv /\ IInv' /\ [Next]_vars => [M!Next]_Owner
  BY StepRefines
<1> QED BY <1>1, <1>2, Invariant, PTL DEF Spec, M!Spec, ImplementsMutex
==============================================================================
