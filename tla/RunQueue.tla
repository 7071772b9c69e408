------------------------------ MODULE RunQueue ------------------------------
(***************************************************************************)
(* dpexec/rq.c: the shared run queue, a doubly linked list of job blocks   *)
(* with a free list, one lock and a count that callers also read without   *)
(* the lock.  A step is a stretch of code between two points where another *)
(* processor can see or change what it works on: an unlocked read of count *)
(* or free, the acquisition of RQlock, and, inside Dequeue's critical      *)
(* section, the early write of count (rq.c:362) that unlocked readers see. *)
(* The notification after an insertion (rq.c:175-186, 323-325) does not    *)
(* touch the queue's own state; Dispatch.tla models it.                    *)
(***************************************************************************)
EXTENDS Integers, Sequences, FiniteSets, SequencesExt

CONSTANTS Procs, Gids, Batches, MaxJobs,   \* as in JobQueue
          Blocks,                          \* the blocks DXAllocate can return
          NoProc, Null                     \* lock not held, NULL pointer

\* A job as its caller describes it (JID 0: any processor may run it).
Templates == [gid : Gids, JID : Procs \cup {0}, highpri : BOOLEAN, repeat : Nat \ {0}]

ASSUME RunQueueAssumption ==
  /\ NoProc \notin Procs /\ Null \notin Blocks /\ IsFiniteSet(Blocks)
  /\ 0 \in Gids /\ MaxJobs \in Nat
  /\ \A b \in Batches :
       /\ b \in Seq(Templates) /\ Len(b) > 0
       /\ \A i \in DOMAIN b : b[i].highpri = b[1].highpri

VARIABLES
  count, free, head, tail,   \* _EXRQ
  blk,                       \* contents of the _EXRQJob blocks
  heap,                      \* blocks not allocated yet
  lock,                      \* holder of RQlock
  pc,                        \* where each processor is in rq.c
  batch,                     \* jobs the processor is enqueuing
  chain,                     \* blocks it has prepared for them, in queue order
  gidOf,                     \* argument of Dequeue
  issued,                    \* jobs whose enqueuing has started (bounded by MaxJobs)
  log, ran                   \* history, as in JobQueue

rq   == <<count, free, head, tail, blk, heap>>
args == <<batch, chain, gidOf, issued>>
hist == <<log, ran>>
vars == <<count, free, head, tail, blk, heap, lock, pc, batch, chain, gidOf, issued, log, ran>>

Ptr == Blocks \cup {Null}
\* malloc'ed storage before it is filled in: no list walk may reach it.
Garbage == [next |-> Null, prev |-> Null, gid |-> 0, JID |-> 0, highpri |-> FALSE,
            repeat |-> 0, id |-> 0]

Init ==
  /\ count = 0 /\ free = Null /\ head = Null /\ tail = Null
  /\ blk = [b \in Blocks |-> Garbage] /\ heap = Blocks
  /\ lock = NoProc
  /\ pc = [p \in Procs |-> "idle"]
  /\ batch = [p \in Procs |-> << >>] /\ chain = [p \in Procs |-> << >>]
  /\ gidOf = [p \in Procs |-> 0]
  /\ issued = 0 /\ log = << >> /\ ran = {}

-----------------------------------------------------------------------------
(* The linked lists.                                                       *)

\* The blocks reached from start when the blocks contain f.  A cycle shows as a
\* sequence that is longer than there are blocks.
Walk(f, start) ==
  LET w[n \in 0..Cardinality(Blocks)] ==
        IF n = 0 THEN IF start = Null THEN << >> ELSE <<start>>
        ELSE LET s == w[n - 1]
             IN  IF s = << >> \/ f[Last(s)].next = Null THEN s
                 ELSE Append(s, f[Last(s)].next)
  IN  w[Cardinality(Blocks)]

Queue == Walk(blk, head)

\* The blocks of chain c filled with the jobs b and linked to each other.
Filled(c, b) ==
  [k \in Blocks |->
     IF k \in Range(c)
     THEN LET i == CHOOSE j \in DOMAIN c : c[j] = k
          IN  [gid |-> b[i].gid, JID |-> b[i].JID, highpri |-> b[i].highpri,
               repeat |-> b[i].repeat, id |-> Len(log) + i,
               next |-> IF i < Len(c) THEN c[i + 1] ELSE Null,
               prev |-> IF i > 1 THEN c[i - 1] ELSE Null]
     ELSE blk[k]]

\* MUTANT of Splice: high priority batches go to the tail like all others.
SpliceAtTail(c, b) ==
  LET new == Filled(c, b)
  IN  IF head = Null
      THEN head' = c[1] /\ tail' = Last(c) /\ blk' = new
      ELSE /\ head' = head /\ tail' = Last(c)
           /\ blk' = [new EXCEPT ![c[1]].prev = tail, ![tail].next = c[1]]

\* Splice the chain c of jobs b in: in front when they are high priority.
Splice(c, b) ==
  LET first == c[1]
      last  == c[Len(c)]
      new   == Filled(c, b)
  IN  IF head = Null
      THEN /\ head' = first /\ tail' = last /\ blk' = new
      ELSE IF b[1].highpri
      THEN /\ head' = first /\ tail' = tail
           /\ blk' = [new EXCEPT ![last].next = head, ![head].prev = last]
      ELSE /\ head' = head /\ tail' = last
           /\ blk' = [new EXCEPT ![first].prev = tail, ![tail].next = first]

\* MUTANT of Unlink: the block behind k keeps k as its prev.
UnlinkForward(k) ==
  LET p == blk[k].prev
      n == blk[k].next
  IN  /\ head' = IF p = Null THEN n ELSE head
      /\ tail' = IF n = Null THEN p ELSE tail
      /\ blk'  = [b \in Blocks |->
                    CASE b = k -> [blk[k] EXCEPT !.next = free]
                      [] b = p -> [blk[p] EXCEPT !.next = n]
                      [] OTHER -> blk[b]]
      /\ free' = k

\* MUTANT of Unlink: k goes on the free list with the next it had in the queue.
UnlinkStaleNext(k) ==
  LET p == blk[k].prev
      n == blk[k].next
  IN  /\ head' = IF p = Null THEN n ELSE head
      /\ tail' = IF n = Null THEN p ELSE tail
      /\ blk'  = [b \in Blocks |->
                    CASE b = k -> blk[k]
                      [] b = p -> [blk[p] EXCEPT !.next = n]
                      [] b = n -> [blk[n] EXCEPT !.prev = p]
                      [] OTHER -> blk[b]]
      /\ free' = k

\* Take block k out of the queue and put it on the free list.
Unlink(k) ==
  LET p == blk[k].prev
      n == blk[k].next
  IN  /\ head' = IF p = Null THEN n ELSE head
      /\ tail' = IF n = Null THEN p ELSE tail
      /\ blk'  = [b \in Blocks |->
                    CASE b = k -> [blk[k] EXCEPT !.next = free]
                      [] b = p -> [blk[p] EXCEPT !.next = n]
                      [] b = n -> [blk[n] EXCEPT !.prev = p]
                      [] OTHER -> blk[b]]
      /\ free' = k

\* The search loop of Dequeue.
MayRun(k, p, gid) ==
  /\ gid = 0 \/ blk[k].gid = gid \/ blk[k].highpri
  /\ blk[k].JID \in {0, p}

Runnable(p, gid) == {i \in DOMAIN Queue : MayRun(Queue[i], p, gid)}

-----------------------------------------------------------------------------
(* _dxf_ExRQEnqueue and _dxf_ExRQEnqueueMany.  The first keeps the lock    *)
(* from taking a free block to linking it; the second gathers n blocks,    *)
(* fills them without the lock and takes it again to splice them in.       *)

Allocate(n) == {c \in [1..n -> heap] : IsInjective(c)}

\* MUTANT of Repeats: jobs are counted, not their repetitions.
JobsOf(b) == Len(b)

Repeats(b) == Cardinality(UNION {{i} \X (1..b[i].repeat) : i \in DOMAIN b})

\* The critical section that ends an insertion: link, count, unlock.
Insert(p, c, b) ==
  /\ Splice(c, b)
  /\ count' = count + Repeats(b)
  /\ log' = log \o b
  /\ pc' = [pc EXCEPT ![p] = "idle"]
  /\ batch' = [batch EXCEPT ![p] = << >>]
  /\ chain' = [chain EXCEPT ![p] = << >>]

\* Enter: the unlocked look at rq->free decides where the block comes from.
Enqueue(p, b) ==
  /\ pc[p] = "idle" /\ Len(b) = 1 /\ issued < MaxJobs
  /\ issued' = issued + 1
  /\ batch' = [batch EXCEPT ![p] = b]
  /\ IF free # Null
     THEN /\ pc' = [pc EXCEPT ![p] = "take"]
          /\ UNCHANGED <<chain, heap>>
     ELSE \E c \in Allocate(1) :
            /\ chain' = [chain EXCEPT ![p] = c]
            /\ heap' = heap \ Range(c)
            /\ pc' = [pc EXCEPT ![p] = "insert"]
  /\ UNCHANGED <<count, free, head, tail, blk, lock, gidOf, hist>>

\* MUTANT of EnqueueTake: the unlocked look at free is trusted.
EnqueueTakeBlind(p) ==
  /\ pc[p] = "take" /\ lock = NoProc
  /\ free' = IF free = Null THEN Null ELSE blk[free].next
  /\ chain' = [chain EXCEPT ![p] = <<free>>]
  /\ pc' = [pc EXCEPT ![p] = "insert"]
  /\ UNCHANGED <<count, head, tail, blk, heap, lock, batch, gidOf, issued, hist>>

\* Lock, look at free again: link the block taken, or drop the lock and
\* allocate because somebody else got the last one.
EnqueueTake(p) ==
  /\ pc[p] = "take" /\ lock = NoProc
  /\ IF free # Null
     THEN /\ free' = blk[free].next
          /\ Insert(p, <<free>>, batch[p])
          /\ UNCHANGED heap
     ELSE \E c \in Allocate(1) :
            /\ chain' = [chain EXCEPT ![p] = c]
            /\ heap' = heap \ Range(c)
            /\ pc' = [pc EXCEPT ![p] = "insert"]
            /\ UNCHANGED <<count, free, head, tail, blk, batch, log>>
  /\ UNCHANGED <<lock, gidOf, issued, ran>>

EnqueueMany(p, b) ==
  /\ pc[p] = "idle" /\ issued + Len(b) <= MaxJobs
  /\ issued' = issued + Len(b)
  /\ batch' = [batch EXCEPT ![p] = b]
  /\ IF free # Null
     THEN /\ pc' = [pc EXCEPT ![p] = "takeMany"]
          /\ UNCHANGED <<chain, heap>>
     ELSE \E c \in Allocate(Len(b)) :
            /\ chain' = [chain EXCEPT ![p] = c]
            /\ heap' = heap \ Range(c)
            /\ pc' = [pc EXCEPT ![p] = "insert"]
  /\ UNCHANGED <<count, free, head, tail, blk, lock, gidOf, hist>>

\* Take up to n free blocks under the lock, allocate the others without it.
\* Every block gathered goes in front of those before it.
EnqueueManyTake(p) ==
  LET n     == Len(batch[p])
      avail == Walk(blk, free)
      m     == IF n < Len(avail) THEN n ELSE Len(avail)
      taken == SubSeq(avail, 1, m)
  IN  /\ pc[p] = "takeMany" /\ lock = NoProc
      /\ free' = IF m < Len(avail) THEN avail[m + 1] ELSE Null
      /\ \E c \in Allocate(n - m) :
           /\ chain' = [chain EXCEPT ![p] = c \o Reverse(taken)]
           /\ heap' = heap \ Range(c)
      /\ pc' = [pc EXCEPT ![p] = "insert"]
      /\ UNCHANGED <<count, head, tail, blk, lock, batch, gidOf, issued, hist>>

EnqueueInsert(p) ==
  /\ pc[p] = "insert" /\ lock = NoProc
  /\ Insert(p, chain[p], batch[p])
  /\ UNCHANGED <<free, heap, lock, gidOf, issued, ran>>

-----------------------------------------------------------------------------
(* _dxf_ExRQDequeue.  FALSE is an answer that changes nothing.             *)

\* The unlocked test of count.
Dequeue(p, gid) ==
  /\ pc[p] = "idle"
  /\ IF count <= 0
     THEN UNCHANGED <<pc, gidOf>>
     ELSE /\ pc' = [pc EXCEPT ![p] = "deq"]
          /\ gidOf' = [gidOf EXCEPT ![p] = gid]
  /\ UNCHANGED <<rq, lock, batch, chain, issued, hist>>

\* MUTANT of DequeueLock: the unlocked test of count is trusted.
DequeueLockBlind(p) ==
  /\ pc[p] = "deq" /\ lock = NoProc
  /\ pc' = [pc EXCEPT ![p] = "find"]
  /\ count' = count - 1
  /\ lock' = p
  /\ UNCHANGED <<free, head, tail, blk, heap, args, hist>>

\* Lock and test again; from here to the unlock count is one too low.
DequeueLock(p) ==
  /\ pc[p] = "deq" /\ lock = NoProc
  /\ IF count <= 0
     THEN /\ pc' = [pc EXCEPT ![p] = "idle"]
          /\ UNCHANGED <<count, lock>>
     ELSE /\ pc' = [pc EXCEPT ![p] = "find"]
          /\ count' = count - 1
          /\ lock' = p
  /\ UNCHANGED <<free, head, tail, blk, heap, args, hist>>

\* Hand out a repetition of the first job p may run, or put count right.
DequeueFind(p) ==
  /\ pc[p] = "find"
  /\ LET found == Runnable(p, gidOf[p])
         k     == Queue[Min(found)]
     IN  IF found = {}
         THEN /\ count' = count + 1
              /\ UNCHANGED <<free, head, tail, blk, ran>>
         ELSE /\ ran' = ran \cup {<<blk[k].id, blk[k].repeat - 1, p>>}
              /\ IF blk[k].repeat = 1
                 THEN Unlink(k)
                 ELSE /\ blk' = [blk EXCEPT ![k].repeat = @ - 1]
                      /\ UNCHANGED <<free, head, tail>>
              /\ UNCHANGED count
  /\ lock' = NoProc
  /\ pc' = [pc EXCEPT ![p] = "idle"]
  /\ UNCHANGED <<heap, args, log>>

-----------------------------------------------------------------------------
ProcNext(p) ==
  \/ \E b \in Batches : Enqueue(p, b) \/ EnqueueMany(p, b)
  \/ EnqueueTake(p) \/ EnqueueManyTake(p) \/ EnqueueInsert(p)
  \/ \E gid \in Gids : Dequeue(p, gid)
  \/ DequeueLock(p) \/ DequeueFind(p)

Next == \E p \in Procs : ProcNext(p)

Spec == Init /\ [][Next]_vars

-----------------------------------------------------------------------------
Job(k) == [gid |-> blk[k].gid, JID |-> blk[k].JID, highpri |-> blk[k].highpri,
           repeat |-> blk[k].repeat, id |-> blk[k].id]

(* Types of the queue's fields, the blocks and each processor's locals.    *)
TypeOK ==
  /\ count \in Int /\ {free, head, tail} \subseteq Ptr
  /\ blk \in [Blocks -> [next : Ptr, prev : Ptr, gid : Gids, JID : Procs \cup {0},
                         highpri : BOOLEAN, repeat : Nat, id : Nat]]
  /\ heap \subseteq Blocks
  /\ lock \in Procs \cup {NoProc}
  /\ pc \in [Procs -> {"idle", "take", "takeMany", "insert", "deq", "find"}]
  /\ batch \in [Procs -> Batches \cup {<< >>}] /\ chain \in [Procs -> Seq(Blocks)]
  /\ gidOf \in [Procs -> Gids]
  /\ issued \in 0..MaxJobs /\ log \in Seq(Templates)

(* The doubly linked list of rq.c stays one: no block twice, every prev    *)
(* the inverse of next, head and tail its two ends, nothing empty in it.   *)
ListWellFormed ==
  /\ IsInjective(Queue)
  /\ \A i \in DOMAIN Queue :
       /\ blk[Queue[i]].prev = IF i = 1 THEN Null ELSE Queue[i - 1]
       /\ blk[Queue[i]].repeat > 0
  /\ tail = IF Queue = << >> THEN Null ELSE Last(Queue)

(* count is the number of repetitions in the queue, less the one that a    *)
(* processor inside Dequeue's critical section has claimed already.        *)
CountExact ==
  count = Cardinality(UNION {{k} \X (1..blk[k].repeat) : k \in Range(Queue)})
          - Cardinality({p \in Procs : pc[p] = "find"})

(* Every block is in one place: not allocated, on the free list, in the    *)
(* queue or being prepared by one processor.  None leaks, none is reused   *)
(* while somebody still holds it (the unlocked look at rq->free races).    *)
BlocksOwnedOnce ==
  \A k \in Blocks :
    LET In(s) == Cardinality({i \in DOMAIN s : s[i] = k})
        held  == UNION {{p} \X {i \in DOMAIN chain[p] : chain[p][i] = k} : p \in Procs}
    IN  (IF k \in heap THEN 1 ELSE 0) + In(Walk(blk, free)) + In(Queue) + Cardinality(held) = 1

(* The internal error #8320 of Dequeue (count says there is a job, the     *)
(* list is empty) cannot happen.                                           *)
NoEmptyWithCount == \A p \in Procs : pc[p] = "find" => head # Null

(* rq.c implements the abstract queue: an insertion takes effect when it   *)
(* links its blocks, a dequeue when it updates the list.                   *)
JQ == INSTANCE JobQueue WITH jobs <- [i \in DOMAIN Queue |-> Job(Queue[i])]

ImplementsJobQueue == JQ!JQSpec
=============================================================================
