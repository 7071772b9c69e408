-------------------------------- MODULE Memory --------------------------------
(***************************************************************************)
(* libdx/memory.c: the arena of large blocks that all processors allocate  *)
(* from.  Blocks tile the arena; each knows its neighbours, a bit says     *)
(* whether it is on a free list, and freed blocks are merged with their    *)
(* neighbours.  Free lists and the pool (the unused end of the arena) have *)
(* a lock each; the links between neighbours have none and belong to the   *)
(* owner of the block.                                                     *)
(*                                                                         *)
(* Addresses and sizes count the smallest block (MINBLOCK), so that each   *)
(* free list holds the blocks of one size, as the lists of sizes below     *)
(* 2*G do.  A locked section is one step, except that the two loads of the *)
(* re-check in mergeprev and mergenext are two.  The block at address 0 is *)
(* allocated first and kept.  The arena grows contiguously (expand).       *)
(*                                                                         *)
(* Those two loads can take in a block that is on no list, or on a list    *)
(* whose lock is another's: the code goes on, writes links that are not    *)
(* its own, and swallows pieces that others may own.  torn tells, and what *)
(* happens from then on is left out.  The properties say what memory.c     *)
(* keeps as long as no merge has torn a list.                              *)
(***************************************************************************)
EXTENDS Integers, FiniteSets, SequencesExt

CONSTANTS Procs,      \* processors
          InitSize,   \* size of the arena
          MaxSize,    \* size up to which expand lets it grow
          MaxUser     \* bound: the largest block that is asked for

ASSUME MemoryAssumption ==
  /\ InitSize \in Nat /\ MaxSize \in Nat /\ 0 < InitSize /\ InitSize <= MaxSize
  /\ MaxUser \in Nat /\ MaxUser <= MaxSize

VARIABLES
  next_block,  \* [addresses -> address of the next block, Null for the pool]
  prev_block,  \* [addresses -> address of the previous block]
  free_bit,    \* [addresses -> low bit of next_block]
  lists,       \* [sizes -> free list]
  pool, size,  \* address of the pool, size of the arena
  lock,        \* [lists -> who holds the free list over more than one step]
  used,        \* [addresses -> size of the user's block there, or 0]
  pc,          \* where each processor is
  b,           \* its block
  x,           \* the neighbour it looks at, or the block split off
  n,           \* the size it wants
  i,           \* the free list it looks at
  r,           \* the block that DXReAllocate is about to return
  torn         \* history: a merge has taken a block off a list it had not locked

links == <<next_block, prev_block, free_bit>>
hand == <<b, x, n, i, r>>
vars == <<links, lists, pool, size, lock, used, pc, hand, torn>>

Null == -1
Addresses == 0 .. MaxSize
Sizes == 1 .. MaxSize

\* The list that flist finds for the "size" of a block without a next one, the
\* distance from it to NULL: a list above those that blocks are on.  (Where
\* addresses have 64 bits it is beyond the end of the arena's array of lists.)
NullList == MaxSize + 1
Locks == Sizes \cup {NullList}

Init ==
  /\ next_block = [a \in Addresses |-> IF a = 0 THEN 1 ELSE Null]
  /\ prev_block = [a \in Addresses |-> IF a = 1 THEN 0 ELSE Null]
  /\ free_bit = [a \in Addresses |-> FALSE]
  /\ lists = [s \in Sizes |-> <<>>]
  /\ pool = 1 /\ size = InitSize
  /\ lock = [s \in Locks |-> Null]
  /\ used = [a \in Addresses |-> 0]
  /\ pc = [p \in Procs |-> "idle"]
  /\ b = [p \in Procs |-> Null] /\ x = [p \in Procs |-> Null]
  /\ n = [p \in Procs |-> 0] /\ i = [p \in Procs |-> 0]
  /\ r = [p \in Procs |-> Null]
  /\ torn = FALSE

\* SIZE of a block nobody else may change.
SizeOf(a) == next_block[a] - a

Go(p, where) == pc' = [pc EXCEPT ![p] = where]

Done(p) == /\ Go(p, "idle")
           /\ b' = [b EXCEPT ![p] = Null] /\ x' = [x EXCEPT ![p] = Null]
           /\ n' = [n EXCEPT ![p] = 0] /\ i' = [i EXCEPT ![p] = 0]
           /\ r' = [r EXCEPT ![p] = Null]

\* The free bits after a block of m at a has gone to a user, who may write what
\* looks like a free bit anywhere in it.
Junk(f, a, m) ==
  {[c \in Addresses |-> IF a < c /\ c < a + m THEN junk ELSE f[c]] : junk \in BOOLEAN}

\* The end of amalloc with block a; the old block of DXReAllocate is freed next.
Return(p, a, f) ==
  /\ free_bit' \in Junk([f EXCEPT ![a] = FALSE], a, n[p])
  /\ used' = [used EXCEPT ![a] = n[p]]
  /\ IF b[p] = Null
     THEN Done(p)
     ELSE /\ Go(p, "free")
          /\ x' = [x EXCEPT ![p] = Null] /\ n' = [n EXCEPT ![p] = 0] /\ i' = [i EXCEPT ![p] = 0]
          /\ r' = [r EXCEPT ![p] = a]
          /\ UNCHANGED b

\* A user's block that is not in a call.
InUse(a) == used[a] > 0 /\ \A p \in Procs : a \notin {b[p], r[p]}

-----------------------------------------------------------------------------
(* amalloc                                                                 *)

\* DXAllocate.
Amalloc(p, m) ==
  /\ pc[p] = "idle"
  /\ n' = [n EXCEPT ![p] = m]
  /\ Go(p, "first")
  /\ UNCHANGED <<links, lists, pool, size, lock, used, b, x, i, r>>

\* getfree from the list where any block is sure to fit.
GetFirst(p) ==
  /\ pc[p] = "first" /\ lock[n[p]] = Null
  /\ IF lists[n[p]] = <<>>
     THEN /\ Go(p, "search") /\ i' = [i EXCEPT ![p] = n[p] + 1]
          /\ UNCHANGED <<lists, free_bit, used, b, x, n, r>>
     ELSE /\ lists' = [lists EXCEPT ![n[p]] = Tail(@)]
          /\ Return(p, Head(lists[n[p]]), free_bit)
  /\ UNCHANGED <<next_block, prev_block, pool, size, lock>>

\* The search of the other lists, without their locks.
Search(p) ==
  /\ pc[p] = "search"
  /\ IF i[p] > MaxSize THEN Go(p, "pool") /\ UNCHANGED i
     ELSE IF lists[i[p]] = <<>> THEN i' = [i EXCEPT ![p] = @ + 1] /\ UNCHANGED pc
     ELSE Go(p, "take") /\ UNCHANGED i
  /\ UNCHANGED <<links, lists, pool, size, lock, used, b, x, n, r>>

\* MUTANT of GetFree: the block taken keeps its free bit.
GetFreeBitKept(p) ==
  /\ pc[p] = "take" /\ lock[i[p]] = Null
  /\ IF lists[i[p]] = <<>>
     THEN /\ Go(p, "search") /\ i' = [i EXCEPT ![p] = @ + 1]
          /\ UNCHANGED <<lists, x>>
     ELSE /\ x' = [x EXCEPT ![p] = Head(lists[i[p]])]
          /\ lists' = [lists EXCEPT ![i[p]] = Tail(@)]
          /\ Go(p, "split") /\ UNCHANGED i
  /\ UNCHANGED <<links, pool, size, lock, used, b, n, r>>

\* getfree from a list that had a block.
GetFree(p) ==
  /\ pc[p] = "take" /\ lock[i[p]] = Null
  /\ IF lists[i[p]] = <<>>
     THEN /\ Go(p, "search") /\ i' = [i EXCEPT ![p] = @ + 1]
          /\ UNCHANGED <<lists, free_bit, x>>
     ELSE /\ x' = [x EXCEPT ![p] = Head(lists[i[p]])]
          /\ lists' = [lists EXCEPT ![i[p]] = Tail(@)]
          /\ free_bit' = [free_bit EXCEPT ![Head(lists[i[p]])] = FALSE]
          /\ Go(p, "split") /\ UNCHANGED i
  /\ UNCHANGED <<next_block, prev_block, pool, size, lock, used, b, n, r>>

\* split block a after m: the piece nf is complete before the others see it.
SplitAt(a, m) ==
  LET nf == a + m IN
    /\ next_block' = [next_block EXCEPT ![nf] = next_block[a], ![a] = nf]
    /\ prev_block' = [prev_block EXCEPT ![nf] = a]

Split(p) ==
  /\ pc[p] = "split"
  /\ SplitAt(x[p], n[p])
  /\ free_bit' = [free_bit EXCEPT ![x[p] + n[p]] = FALSE]
  /\ Go(p, "splitlink")
  /\ UNCHANGED <<lists, pool, size, lock, used, hand>>

\* MUTANT of SplitLink: the block after the piece is not told.
SplitLinkSkipped(p) ==
  /\ pc[p] = "splitlink"
  /\ Go(p, "splitfree")
  /\ UNCHANGED <<links, lists, pool, size, lock, used, hand>>

\* Then the block after the piece learns of it, ...
SplitLink(p) ==
  /\ pc[p] = "splitlink"
  /\ LET nf == x[p] + n[p] IN prev_block' = [prev_block EXCEPT ![next_block[nf]] = nf]
  /\ Go(p, "splitfree")
  /\ UNCHANGED <<next_block, free_bit, lists, pool, size, lock, used, hand>>

\* ... and insfree puts it on its list.
SplitFree(p) ==
  LET nf == x[p] + n[p] IN
    /\ pc[p] = "splitfree" /\ lock[SizeOf(nf)] = Null
    /\ lists' = [lists EXCEPT ![SizeOf(nf)] = <<nf>> \o @]
    /\ Return(p, x[p], [free_bit EXCEPT ![nf] = TRUE])
    /\ UNCHANGED <<next_block, prev_block, pool, size, lock>>

\* MUTANT of GetPool: expand knows no limit.
GetPoolUnlimited(p) ==
  /\ pc[p] = "pool"
  /\ pool' = pool + n[p] /\ size' = size + n[p]
  /\ next_block' = [next_block EXCEPT ![pool] = pool']
  /\ prev_block' = [c \in Addresses |-> IF c = pool' THEN pool ELSE prev_block[c]]
  /\ Return(p, pool, free_bit)
  /\ UNCHANGED <<lists, lock>>

\* getpool: chop a block off the pool, after expand when it is too small.
GetPool(p) ==
  /\ pc[p] = "pool"
  /\ IF pool + n[p] > MaxSize
     THEN Done(p) /\ UNCHANGED <<links, pool, size, used>>
     ELSE /\ size' = IF pool + n[p] > size THEN pool + n[p] ELSE size
          /\ pool' = pool + n[p]
          /\ next_block' = [next_block EXCEPT ![pool] = pool', ![pool'] = Null]
          /\ prev_block' = [prev_block EXCEPT ![pool'] = pool]
          /\ Return(p, pool, [free_bit EXCEPT ![pool'] = FALSE])
  /\ UNCHANGED <<lists, lock>>

-----------------------------------------------------------------------------
(* afree                                                                   *)

\* DXFree.
Free(p, a) ==
  /\ pc[p] = "idle" /\ InUse(a)
  /\ b' = [b EXCEPT ![p] = a]
  /\ Go(p, "free")
  /\ UNCHANGED <<links, lists, pool, size, lock, used, x, n, i, r>>

\* CHECK: the next block must know this one.
Afree(p) ==
  /\ pc[p] = "free"
  /\ used' = [used EXCEPT ![b[p]] = 0]
  /\ Go(p, IF prev_block[next_block[b[p]]] = b[p] THEN "prev" ELSE "corrupt")
  /\ UNCHANGED <<links, lists, pool, size, lock, hand>>

\* mergeprev: the quick check before locking.
MergePrev(p) ==
  /\ pc[p] = "prev"
  /\ IF free_bit[prev_block[b[p]]]
     THEN x' = [x EXCEPT ![p] = prev_block[b[p]]] /\ Go(p, "prevlock")
     ELSE Go(p, "mergepool") /\ UNCHANGED x
  /\ UNCHANGED <<links, lists, pool, size, lock, used, b, n, i, r>>

\* Its re-check: first that the previous block is still the same, ...
MergePrevLock(p) ==
  LET l == b[p] - x[p] IN
    /\ pc[p] = "prevlock" /\ lock[l] = Null
    /\ IF prev_block[b[p]] = x[p]
       THEN lock' = [lock EXCEPT ![l] = p] /\ i' = [i EXCEPT ![p] = l] /\ Go(p, "prevcheck")
       ELSE Go(p, "mergepool") /\ UNCHANGED <<lock, i>>
    /\ UNCHANGED <<links, lists, pool, size, used, b, x, n, r>>

\* MUTANT of Unlock: the list stays locked.
UnlockNever(p) == UNCHANGED lock

\* Leave the list.
Unlock(p) == lock' = [lock EXCEPT ![i[p]] = Null]

\* A block is unlinked from the list it is on, whichever that is.
Unlisted(a) == [s \in Sizes |-> RemoveFirst(lists[s], a)]

\* Whether the list that p has locked is the one its neighbour is on.
LockedRight(p) == i[p] \in Sizes /\ Contains(lists[i[p]], x[p])

\* MUTANT of MergePrevDo: the free bit is not looked at again.
MergePrevDoTrusting(p) ==
  /\ pc[p] = "prevcheck"
  /\ lists' = Unlisted(x[p])
  /\ next_block' = [next_block EXCEPT ![x[p]] = next_block[b[p]]]
  /\ free_bit' = [free_bit EXCEPT ![x[p]] = FALSE]
  /\ prev_block' = [prev_block EXCEPT ![next_block[b[p]]] = x[p]]
  /\ b' = [b EXCEPT ![p] = x[p]]
  /\ torn' = (free_bit[x[p]] /\ ~LockedRight(p))
  /\ Go(p, "mergepool")
  /\ Unlock(p)
  /\ UNCHANGED <<x, n, i, r, pool, size, used>>

\* ... then that it is free.  It is taken off its list and swallows this one, and
\* what lies between the two, if it has been split in the meantime.
MergePrevDo(p) ==
  /\ pc[p] = "prevcheck"
  /\ IF ~free_bit[x[p]]
     THEN UNCHANGED <<links, lists, b, torn>>
     ELSE /\ lists' = Unlisted(x[p])
          /\ next_block' = [next_block EXCEPT ![x[p]] = next_block[b[p]]]
          /\ free_bit' = [free_bit EXCEPT ![x[p]] = FALSE]
          /\ prev_block' = [prev_block EXCEPT ![next_block[b[p]]] = x[p]]
          /\ b' = [b EXCEPT ![p] = x[p]]
          /\ torn' = ~LockedRight(p)
  /\ Go(p, "mergepool")
  /\ Unlock(p)
  /\ UNCHANGED <<x, n, i, r, pool, size, used>>

\* mergepool.
MergePool(p) ==
  /\ pc[p] = "mergepool"
  /\ IF next_block[b[p]] = pool
     THEN /\ pool' = b[p]
          /\ next_block' = [next_block EXCEPT ![b[p]] = Null]
          /\ Done(p)
     ELSE Go(p, "next") /\ UNCHANGED <<pool, next_block, hand>>
  /\ UNCHANGED <<prev_block, free_bit, lists, size, lock, used>>

\* mergenext is called by afree, or by arealloc, which then looks again.
AfterNext(p) == Go(p, IF n[p] > 0 THEN "grow" ELSE "insert")

\* mergenext: the next block and its size are read before locking.  The next
\* block may have become the pool by now, which has no next one.
MergeNext(p) ==
  /\ pc[p] = "next"
  /\ LET nb == next_block[b[p]]
         nn == next_block[nb] IN
       /\ x' = [x EXCEPT ![p] = nb]
       /\ i' = [i EXCEPT ![p] = IF nn = Null THEN NullList ELSE nn - nb]
  /\ Go(p, "nextlock")
  /\ UNCHANGED <<links, lists, pool, size, lock, used, b, n, r>>

\* The block after the next one, as it was read.
Nn(p) == IF i[p] = NullList THEN Null ELSE x[p] + i[p]

\* Its re-check: first that the size is still the same, ...
MergeNextLock(p) ==
  /\ pc[p] = "nextlock" /\ lock[i[p]] = Null
  /\ IF next_block[x[p]] = Nn(p)
     THEN lock' = [lock EXCEPT ![i[p]] = p] /\ Go(p, "nextcheck")
     ELSE AfterNext(p) /\ UNCHANGED lock
  /\ UNCHANGED <<links, lists, pool, size, used, hand>>

\* The back links after the block after the next one, if any, has learnt of b.
ToldNext(p) == [a \in Addresses |-> IF a = Nn(p) THEN b[p] ELSE prev_block[a]]

\* MUTANT of MergeNextDo: the free bit is not looked at again.
MergeNextDoTrusting(p) ==
  /\ pc[p] = "nextcheck"
  /\ lists' = Unlisted(x[p])
  /\ prev_block' = ToldNext(p)
  /\ next_block' = [next_block EXCEPT ![b[p]] = Nn(p)]
  /\ torn' = (free_bit[x[p]] /\ ~LockedRight(p))
  /\ AfterNext(p)
  /\ Unlock(p)
  /\ UNCHANGED <<free_bit, hand, pool, size, used>>

\* ... then that it is free.  It is taken off its list and swallowed, up to where
\* it ended when its size was read.
MergeNextDo(p) ==
  /\ pc[p] = "nextcheck"
  /\ IF ~free_bit[x[p]]
     THEN UNCHANGED <<next_block, prev_block, lists, torn>>
     ELSE /\ lists' = Unlisted(x[p])
          /\ prev_block' = ToldNext(p)
          /\ next_block' = [next_block EXCEPT ![b[p]] = Nn(p)]
          /\ torn' = ~LockedRight(p)
  /\ AfterNext(p)
  /\ Unlock(p)
  /\ UNCHANGED <<free_bit, hand, pool, size, used>>

\* insfree at the end of afree.
Insert(p) ==
  /\ pc[p] = "insert" /\ lock[SizeOf(b[p])] = Null
  /\ lists' = [lists EXCEPT ![SizeOf(b[p])] = <<b[p]>> \o @]
  /\ free_bit' = [free_bit EXCEPT ![b[p]] = TRUE]
  /\ Done(p)
  /\ UNCHANGED <<next_block, prev_block, pool, size, lock, used>>

-----------------------------------------------------------------------------
(* arealloc                                                                *)

\* DXReAllocate, with the CHECK of afree.
Arealloc(p, a, m) ==
  /\ pc[p] = "idle" /\ InUse(a)
  /\ b' = [b EXCEPT ![p] = a] /\ n' = [n EXCEPT ![p] = m]
  /\ Go(p, IF prev_block[next_block[a]] = a THEN "grow" ELSE "corrupt")
  /\ UNCHANGED <<links, lists, pool, size, lock, used, x, i, r>>

\* Keep the block when it is big enough, splitting off what is too much.
Keep(p) ==
  /\ pc[p] = "grow" /\ n[p] <= SizeOf(b[p])
  /\ used' = [used EXCEPT ![b[p]] = n[p]]
  /\ LET rest == b[p] + n[p] IN
       IF n[p] = SizeOf(b[p])
       THEN /\ free_bit' \in Junk(free_bit, b[p], n[p])
            /\ Done(p) /\ UNCHANGED <<next_block, prev_block>>
       ELSE /\ SplitAt(b[p], n[p])
            /\ free_bit' \in Junk([free_bit EXCEPT ![rest] = FALSE], b[p], n[p])
            /\ b' = [b EXCEPT ![p] = rest] /\ r' = [r EXCEPT ![p] = b[p]] /\ n' = [n EXCEPT ![p] = 0]
            /\ Go(p, "keeplink") /\ UNCHANGED <<x, i>>
  /\ UNCHANGED <<lists, pool, size, lock>>

\* The piece is merged with what comes after it, as in afree.
KeepLink(p) ==
  /\ pc[p] = "keeplink"
  /\ prev_block' = [prev_block EXCEPT ![next_block[b[p]]] = b[p]]
  /\ Go(p, "mergepool")
  /\ UNCHANGED <<next_block, free_bit, lists, pool, size, lock, used, hand>>

\* Try the next block if it seems free and large enough, or else allocate,
\* copy and free.
Grow(p) ==
  /\ pc[p] = "grow" /\ n[p] > SizeOf(b[p])
  /\ LET nb == next_block[b[p]] IN
       Go(p, IF free_bit[nb] /\ SizeOf(b[p]) + SizeOf(nb) >= n[p] THEN "next" ELSE "first")
  /\ UNCHANGED <<links, lists, pool, size, lock, used, hand>>

-----------------------------------------------------------------------------
Call(p) ==
  /\ ~torn /\ UNCHANGED torn
  /\ \/ \E m \in 1 .. MaxUser : Amalloc(p, m)
     \/ \E a \in Addresses : Free(p, a) \/ \E m \in 1 .. MaxUser : Arealloc(p, a, m)

Work(p) ==
  /\ ~torn
  /\ \/ MergePrevDo(p) \/ MergeNextDo(p)
     \/ /\ \/ GetFirst(p) \/ Search(p) \/ GetFree(p) \/ Split(p) \/ SplitLink(p) \/ SplitFree(p)
           \/ GetPool(p)
           \/ Afree(p) \/ MergePrev(p) \/ MergePrevLock(p) \/ MergePool(p)
           \/ MergeNext(p) \/ MergeNextLock(p) \/ Insert(p)
           \/ Keep(p) \/ KeepLink(p) \/ Grow(p)
        /\ UNCHANGED torn

Next == \E p \in Procs : Call(p) \/ Work(p)

Spec == Init /\ [][Next]_vars

\* Processors run, and a lock that is free again and again is got.
FairSpec == Spec /\ \A p \in Procs : SF_vars(Work(p))
-----------------------------------------------------------------------------
(* Properties.                                                             *)

Places == {"idle", "first", "search", "take", "split", "splitlink", "splitfree", "pool",
           "free", "prev", "prevlock", "prevcheck", "mergepool", "next", "nextlock",
           "nextcheck", "insert", "grow", "keeplink", "corrupt"}

\* The types of what the code keeps.
Typed ==
  /\ next_block \in [Addresses -> Addresses \cup {Null}]
  /\ prev_block \in [Addresses -> Addresses \cup {Null}]
  /\ free_bit \in [Addresses -> BOOLEAN]
  /\ lists \in [Sizes -> Seq(Addresses)]
  /\ pool \in Addresses /\ size \in Addresses
  /\ lock \in [Locks -> Procs \cup {Null}]
  /\ used \in [Addresses -> 0 .. MaxSize]
  /\ pc \in [Procs -> Places]
  /\ b \in [Procs -> Addresses \cup {Null}] /\ x \in [Procs -> Addresses \cup {Null}]
  /\ n \in [Procs -> 0 .. MaxUser] /\ i \in [Procs -> 0 .. MaxSize + 1]
  /\ r \in [Procs -> Addresses \cup {Null}]

\* Every variable has its type.
TypeOK == Typed /\ torn \in BOOLEAN

\* The blocks a processor has taken off a list, off the pool or from a user.
InHand(p) ==
  CASE pc[p] = "split" -> {x[p]}
    [] pc[p] \in {"splitlink", "splitfree"} -> {x[p], x[p] + n[p]}
    [] OTHER -> {}

Freed(p) ==
  IF b[p] # Null /\ used[b[p]] = 0 THEN {b[p]} ELSE {}

FreeBlocks == UNION {ToSet(lists[s]) : s \in Sizes}
Used == {a \in Addresses : used[a] > 0}
Blocks == {0} \cup Used \cup FreeBlocks \cup UNION {InHand(p) \cup Freed(p) : p \in Procs}

\* As long as no merge has torn a list: every unit of the arena belongs to
\* exactly one block (a user's, a free one, one that a processor works on) or to
\* the pool.  None is lost, none has two owners, whatever splits and merges go on
\* next to it.
EveryUnitOnce ==
  torn \/ /\ \A a \in 0 .. pool - 1 : Cardinality({c \in Blocks : c <= a /\ a < next_block[c]}) = 1
          /\ \A c \in Blocks : c < next_block[c] /\ next_block[c] <= pool
          /\ \A a \in Used : used[a] <= SizeOf(a)

\* As long as no merge has torn a list: the free bit of a block tells whether it is
\* on a free list, and the list is the one for its size.  (Not so for what is no
\* block any more, in which a processor that has lost the race looks for the bit.)
FreeBitTrue ==
  torn \/ /\ \A c \in Blocks : free_bit[c] <=> c \in FreeBlocks
          /\ \A s \in Sizes : /\ \A c \in ToSet(lists[s]) : SizeOf(c) = s
                              /\ IsInjective(lists[s])

\* As long as no merge has torn a list, the check of afree and arealloc for
\* corruption (error #12140) does not fail.
NoCorruption == torn \/ \A p \in Procs : pc[p] # "corrupt"

\* A block is taken off a free list only by the holder of that list's lock:
\* locking the list the block should be on guarantees that "its ownership will
\* not change" (memory.c:611).  It does not hold: see torn.
TakenUnderItsLock == ~torn

\* As long as no merge has torn a list, memory.c implements the heap of memory.h:
\* each step is one of the heap's or changes nothing of it.  What is handed out
\* after a list has been torn may overlap another user's block.
Units == 0 .. MaxSize - 1
UserBlocks == [a \in Units |-> used[a]]
H == INSTANCE Heap WITH used <- UserBlocks
ImplementsHeap == H!Init /\ [][torn \/ H!Next]_UserBlocks

\* A processor that tries to grow its block in place.
Growing(p) == n[p] > 0 /\ pc[p] \in {"grow", "next", "nextlock", "nextcheck"}

\* Every call returns, unless a merge tears a list.  Growing a block is
\* tried again as long as the block after it looks free: others that take and
\* free that one in turn can keep a processor at it for ever, but not one that
\* is alone.
CallsReturn ==
  \A p \in Procs :
    /\ (pc[p] # "idle" /\ ~Growing(p)) ~> (pc[p] = "idle" \/ torn)
    /\ Growing(p) ~> (~Growing(p) \/ torn \/ \E q \in Procs \ {p} : pc[q] # "idle")
===============================================================================
