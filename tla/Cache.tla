-------------------------------- MODULE Cache --------------------------------
(***************************************************************************)
(* The object cache of the executive: cache.c on top of the sorted         *)
(* dictionary of d.c, with the memory reclaim of swap.c that throws        *)
(* entries away when an allocation fails, and the reference counts of the  *)
(* gvars (exobject.h) that the entries hold.                               *)
(*                                                                         *)
(* A section under the dictionary's lock is one step; only a flush holds   *)
(* it over several.  The reclaim walks the aging list without that lock,   *)
(* and an insertion that replaced an object moves its element in the list  *)
(* after the unlock: the element may be anywhere by then, and the move is  *)
(* a row of pointer writes that others' edits of the list may overlap.     *)
(* mislinked tells that this has happened.  From then on the links between *)
(* the elements may be anything: the list is not described any more, and   *)
(* the reclaim may find any element next, or none.  Elements are blocks    *)
(* that are recycled through the dictionary's free list, given back to the *)
(* allocator when that is compacted, and allocated again.                  *)
(*                                                                         *)
(* The lock is one that takes no harm when it is unlocked while it is      *)
(* free, as swap.c does at the end of a reclaim (on Linux it does: see     *)
(* DXLock), and that this unlock hits a flush's lock is modelled but not   *)
(* that it hits somebody's section of one step.  What happens after an     *)
(* element has been freed that is in use, or may be, is left out: astray   *)
(* tells.                                                                  *)
(***************************************************************************)
EXTENDS Integers, FiniteSets, SequencesExt

CONSTANTS Procs,     \* processors
          Keys,      \* cache tags
          Elements,  \* addresses of dictionary elements
          Gvars,     \* addresses of gvars
          None       \* NULL

ASSUME CacheAssumption ==
  /\ None \notin Procs \cup Keys \cup Elements \cup Gvars
  /\ IsFiniteSet(Procs) /\ IsFiniteSet(Elements)

VARIABLES
  table,       \* elements in the hash table
  key, obj,    \* [Elements -> key and gvar]
  free,        \* free list of elements
  heap,        \* elements that belong to the allocator
  aging,       \* the sort list, oldest first, unless mislinked
  mislinked,   \* two edits of the sort list have overlapped
  iterItem,    \* next element of the reclaim's walk
  refs,        \* [Gvars -> reference count]
  live,        \* gvars that exist
  permanent,   \* gvars whose cost is CACHE_PERMANENT
  dlock,       \* who holds the dictionary's lock over more than one step
  rec_sem,     \* who holds the lock of the reclaim
  astray,      \* an element has been freed that is in use, or may be
  pc, back,    \* where each processor is, and where its reclaim returns to
  k, g, e,     \* key, gvar and element it works with
  vk, vg,      \* its reclaim's victim
  second       \* its reclaim walks the list a second time

dict == <<table, key, obj, free, heap, aging, mislinked>>
counts == <<refs, live, permanent>>
locks == <<dlock, rec_sem>>
hand == <<k, g, e>>
victim == <<vk, vg, second>>
vars == <<dict, iterItem, counts, locks, astray, pc, back, hand, victim>>

Init ==
  /\ table = {} /\ free = <<>> /\ heap = Elements /\ aging = <<>> /\ mislinked = FALSE
  /\ iterItem = None
  /\ key = [a \in Elements |-> None] /\ obj = [a \in Elements |-> None]
  /\ refs = [v \in Gvars |-> 0] /\ live = {} /\ permanent = {}
  /\ dlock = None /\ rec_sem = None /\ astray = FALSE
  /\ pc = [p \in Procs |-> "idle"] /\ back = [p \in Procs |-> "idle"]
  /\ k = [p \in Procs |-> None] /\ g = [p \in Procs |-> None] /\ e = [p \in Procs |-> None]
  /\ vk = [p \in Procs |-> None] /\ vg = [p \in Procs |-> None]
  /\ second = [p \in Procs |-> FALSE]

Go(p, where) == pc' = [pc EXCEPT ![p] = where]

\* The call is over.
Done(p) == /\ Go(p, "idle")
           /\ k' = [k EXCEPT ![p] = None] /\ g' = [g EXCEPT ![p] = None]
           /\ e' = [e EXCEPT ![p] = None]

\* The element with key w, if any.
Entry(w) == {a \in table : key[a] = w}

\* The sort list when element a has been made the newest.
MakeNewest(a) == Append(RemoveFirst(aging, a), a)

\* Somebody else is in the middle of moving an element without the lock.
Moving(p) == \E q \in Procs \ {p} : pc[q] = "move"

\* Processor p's edit makes list s of the sort list.  Somebody else may be moving
\* an element, or begin to in the middle of it.
Relink(p, s) ==
  \E begun \in BOOLEAN :
    /\ begun => \E q \in Procs \ {p} : pc[q] = "late"
    /\ mislinked' = (mislinked \/ (s # aging /\ (begun \/ Moving(p))))
    /\ aging' = IF mislinked' THEN <<>> ELSE s

\* ExDelete: the last reference takes the gvar with it.
ExDelete(v) ==
  /\ refs' = [refs EXCEPT ![v] = @ - 1]
  /\ live' = IF refs[v] = 1 THEN live \ {v} ELSE live
  /\ permanent' = IF refs[v] = 1 THEN permanent \ {v} ELSE permanent

\* The element leaves the table, for the free list; its key is freed.
Unlink(p, a) ==
  /\ table' = table \ {a}
  /\ free' = <<a>> \o free
  /\ key' = [key EXCEPT ![a] = None]
  /\ Relink(p, RemoveFirst(aging, a))
  /\ UNCHANGED <<obj, heap>>

-----------------------------------------------------------------------------
(* DXSetCacheEntry and _dxf_ExDictionaryInsert.                            *)

\* A new gvar, referenced for the table before it is there.
SetCacheEntry(p, w, v, keep) ==
  /\ pc[p] = "idle" /\ v \notin live
  /\ live' = live \cup {v} /\ refs' = [refs EXCEPT ![v] = 1]
  /\ permanent' = IF keep THEN permanent \cup {v} ELSE permanent
  /\ k' = [k EXCEPT ![p] = w] /\ g' = [g EXCEPT ![p] = v]
  /\ Go(p, "search")
  /\ UNCHANGED <<dict, iterItem, locks, astray, back, e, victim>>

\* The object of an element is replaced; the old one is deleted later.
Replace(p, a) ==
  /\ obj' = [obj EXCEPT ![a] = g[p]]
  /\ g' = [g EXCEPT ![p] = obj[a]]
  /\ Relink(p, MakeNewest(a))

\* An element is there for the new entry.
Take(p, a) == e' = [e EXCEPT ![p] = a] /\ Go(p, "fill")

\* The first search: replace the object, or get an element from the free list,
\* or unlock and allocate one.
InsertSearch(p) ==
  /\ pc[p] = "search" /\ dlock = None
  /\ \/ \E a \in Entry(k[p]) :
          /\ Replace(p, a)
          /\ e' = [e EXCEPT ![p] = a]
          /\ Go(p, "replaced")
          /\ UNCHANGED <<table, key, free, heap, k>>
     \/ /\ Entry(k[p]) = {} /\ free # <<>>
        /\ Take(p, Head(free)) /\ free' = Tail(free)
        /\ UNCHANGED <<table, key, obj, heap, aging, mislinked, k, g>>
     \/ /\ Entry(k[p]) = {} /\ free = <<>>
        /\ Go(p, "alloc")
        /\ UNCHANGED <<dict, hand>>
  /\ UNCHANGED <<iterItem, counts, locks, astray, back, victim>>

InsertAllocate(p) ==
  /\ pc[p] = "alloc"
  /\ \E a \in heap : Take(p, a) /\ heap' = heap \ {a}
  /\ UNCHANGED <<table, key, obj, free, aging, mislinked, k, g>>
  /\ UNCHANGED <<iterItem, counts, locks, astray, back, victim>>

\* The key is copied, which allocates as well, and the element filled in.
InsertFill(p) ==
  /\ pc[p] = "fill"
  /\ key' = [key EXCEPT ![e[p]] = k[p]] /\ obj' = [obj EXCEPT ![e[p]] = g[p]]
  /\ Go(p, "link")
  /\ UNCHANGED <<table, free, heap, aging, mislinked, hand>>
  /\ UNCHANGED <<iterItem, counts, locks, astray, back, victim>>

\* MUTANT of InsertLink: the search is not redone.
InsertLinkBlind(p) ==
  /\ pc[p] = "link" /\ dlock = None
  /\ table' = table \cup {e[p]}
  /\ Relink(p, MakeNewest(e[p]))
  /\ Done(p)
  /\ UNCHANGED <<key, obj, free, heap>>
  /\ UNCHANGED <<iterItem, counts, locks, astray, back, victim>>

\* MUTANT of InsertLink: the spare element is forgotten.
InsertLinkSpareLost(p) ==
  /\ pc[p] = "link" /\ dlock = None
  /\ \/ \E a \in Entry(k[p]) :
          /\ Replace(p, a)
          /\ e' = [e EXCEPT ![p] = None]
          /\ Go(p, "drop")
          /\ UNCHANGED <<table, key, free, heap, k>>
     \/ /\ Entry(k[p]) = {}
        /\ table' = table \cup {e[p]}
        /\ Relink(p, MakeNewest(e[p]))
        /\ Done(p)
        /\ UNCHANGED <<key, obj, free, heap>>
  /\ UNCHANGED <<iterItem, counts, locks, astray, back, victim>>

\* The search is redone: somebody may have put the same key in, and then the
\* element goes to the free list.
InsertLink(p) ==
  /\ pc[p] = "link" /\ dlock = None
  /\ \/ \E a \in Entry(k[p]) :
          /\ Replace(p, a)
          /\ free' = <<e[p]>> \o free
          /\ key' = [key EXCEPT ![e[p]] = None]
          /\ e' = [e EXCEPT ![p] = None]
          /\ Go(p, "drop")
          /\ UNCHANGED <<table, heap, k>>
     \/ /\ Entry(k[p]) = {}
        /\ table' = table \cup {e[p]}
        /\ Relink(p, MakeNewest(e[p]))
        /\ Done(p)
        /\ UNCHANGED <<key, obj, free, heap>>
  /\ UNCHANGED <<iterItem, counts, locks, astray, back, victim>>

\* MUTANT of Drop: an object that was replaced is not deleted.
DropForgets(p) ==
  /\ pc[p] \in {"drop", "replaced", "have"}
  /\ IF pc[p] = "replaced"
     THEN Go(p, "late") /\ g' = [g EXCEPT ![p] = None] /\ UNCHANGED <<k, e, counts>>
     ELSE Done(p) /\ ExDelete(g[p])
  /\ UNCHANGED <<dict, iterItem, locks, astray, back, victim>>

\* ExDelete outside the lock: of an object that was replaced or deleted, or
\* that DXGetCacheEntry has done with.
Drop(p) ==
  /\ pc[p] \in {"drop", "replaced", "have"}
  /\ ExDelete(g[p])
  /\ IF pc[p] = "replaced"
     THEN Go(p, "late") /\ g' = [g EXCEPT ![p] = None] /\ UNCHANGED <<k, e>>
     ELSE Done(p)
  /\ UNCHANGED <<dict, iterItem, locks, astray, back, victim>>

\* The element is to be made the newest, without the lock: that is all when it is,
\* or else its move begins, ...
LateNewest(p) ==
  /\ pc[p] = "late"
  /\ \/ /\ e[p] \in heap
        /\ astray' = TRUE /\ Done(p) /\ UNCHANGED <<aging, mislinked>>
     \/ /\ e[p] \notin heap /\ (mislinked \/ MakeNewest(e[p]) = aging)
        /\ Done(p) /\ UNCHANGED <<aging, mislinked, astray>>
     \/ /\ e[p] \notin heap /\ (mislinked \/ MakeNewest(e[p]) # aging)
        /\ Go(p, "move") /\ UNCHANGED <<hand, astray>>
        /\ mislinked' = (mislinked \/ Moving(p))
        /\ aging' = IF mislinked' THEN <<>> ELSE aging
  /\ UNCHANGED <<table, key, obj, free, heap, iterItem, counts, locks, back, victim>>

\* ... and ends.
LateMoved(p) ==
  /\ pc[p] = "move"
  /\ Relink(p, MakeNewest(e[p]))
  /\ Done(p)
  /\ UNCHANGED <<table, key, obj, free, heap, iterItem, counts, locks, astray, back, victim>>

-----------------------------------------------------------------------------
(* Look up and delete.                                                     *)

\* MUTANT of GetCacheEntry: the object is returned without a reference.
GetCacheEntryUnreferenced(p, w) ==
  /\ pc[p] = "idle" /\ dlock = None
  /\ \E a \in Entry(w) : /\ g' = [g EXCEPT ![p] = obj[a]]
                         /\ Relink(p, MakeNewest(a))
  /\ Go(p, "have")
  /\ UNCHANGED <<table, key, obj, free, heap, iterItem, counts, locks, astray, back, k, e, victim>>

\* DXGetCacheEntry: the object is referenced under the dictionary's lock.
GetCacheEntry(p, w) ==
  /\ pc[p] = "idle" /\ dlock = None
  /\ \E a \in Entry(w) : /\ refs' = [refs EXCEPT ![obj[a]] = @ + 1]
                         /\ g' = [g EXCEPT ![p] = obj[a]]
                         /\ Relink(p, MakeNewest(a))
  /\ Go(p, "have")
  /\ UNCHANGED <<table, key, obj, free, heap, iterItem, live, permanent, locks, astray, back, k, e, victim>>

\* DXSetCacheEntry (NULL), _dxf_ExCacheDelete.
DeleteCacheEntry(p, w) ==
  /\ pc[p] = "idle" /\ dlock = None
  /\ \E a \in Entry(w) : Unlink(p, a) /\ g' = [g EXCEPT ![p] = obj[a]]
  /\ Go(p, "drop")
  /\ UNCHANGED <<iterItem, counts, locks, astray, back, k, e, victim>>

-----------------------------------------------------------------------------
(* _dxf_ExReclaimMemory, called by an allocation that fails.               *)

ReclaimMemory(p) ==
  /\ pc[p] \in {"idle", "alloc", "fill"}
  /\ back' = [back EXCEPT ![p] = pc[p]]
  /\ Go(p, "disable")
  /\ UNCHANGED <<dict, iterItem, counts, locks, astray, hand, victim>>

\* _dxf_ExReclaimDisable: when somebody else reclaims wait until he is done and
\* hope that there is memory now.
ReclaimDisable(p) ==
  /\ \/ /\ pc[p] = "disable" /\ rec_sem = None
        /\ rec_sem' = p /\ Go(p, "walk") /\ UNCHANGED back
     \/ /\ pc[p] = "disable" /\ rec_sem # None
        /\ Go(p, "wait") /\ UNCHANGED <<rec_sem, back>>
     \/ /\ pc[p] = "wait" /\ rec_sem = None
        /\ Go(p, back[p]) /\ back' = [back EXCEPT ![p] = "idle"] /\ UNCHANGED rec_sem
  /\ UNCHANGED <<dict, iterItem, counts, dlock, astray, hand, victim>>

\* What one who looks at the sort list without the lock may see of it: an element
\* that is being moved is still in its old place, or in the new one.
Seen == {aging} \cup {MakeNewest(e[q]) : q \in {r \in Procs : pc[r] = "move"}}

\* Where links lead that edits have made wrong.
Anywhere == (Elements \ heap) \cup {None}

BeginIterateSorted(p) ==
  /\ pc[p] = "walk"
  /\ IF mislinked
     THEN iterItem' \in Anywhere
     ELSE \E s \in Seen : iterItem' = IF s = <<>> THEN None ELSE Head(s)
  /\ Go(p, "next")
  /\ UNCHANGED <<dict, counts, locks, astray, back, hand, victim>>

\* The element after a in sort list s.
Newer(s, a) ==
  IF ~Contains(s, a) \/ Last(s) = a THEN None ELSE s[1 + CHOOSE i \in DOMAIN s : s[i] = a]

\* The keys that an element seems to have: the key of one that is neither in the
\* table nor being filled has been freed, and its bytes may be anything.
KeysSeen(a) ==
  IF a \in table \/ \E p \in Procs : e[p] = a /\ pc[p] = "link"
  THEN {key[a]} ELSE Keys \cup {None}

\* The next victim, read without the dictionary's lock; permanent ones are spared.
IterateSorted(p) ==
  /\ pc[p] = "next" /\ iterItem # None
  /\ IF mislinked THEN iterItem' \in Anywhere ELSE \E s \in Seen : iterItem' = Newer(s, iterItem)
  /\ IF obj[iterItem] \in permanent
     THEN UNCHANGED <<vk, pc>>
     ELSE \E w \in KeysSeen(iterItem) : vk' = [vk EXCEPT ![p] = w] /\ Go(p, "evict")
  /\ UNCHANGED <<dict, counts, locks, astray, back, hand, vg, second>>

\* _dxf_ExDictionaryDelete of the victim's key, ...
Evict(p) ==
  /\ pc[p] = "evict" /\ dlock = None
  /\ \/ /\ Entry(vk[p]) = {} /\ Go(p, "next") /\ UNCHANGED <<dict, vg>>
     \/ \E a \in Entry(vk[p]) : /\ Unlink(p, a) /\ vg' = [vg EXCEPT ![p] = obj[a]]
                                /\ Go(p, "evicted")
  /\ vk' = [vk EXCEPT ![p] = None]
  /\ UNCHANGED <<iterItem, counts, locks, astray, back, hand, second>>

\* ... and of its object; there may be memory enough now.
EvictDrop(p) ==
  /\ pc[p] = "evicted"
  /\ ExDelete(vg[p])
  /\ vg' = [vg EXCEPT ![p] = None]
  /\ Go(p, "next") \/ Go(p, "end")
  /\ UNCHANGED <<dict, iterItem, locks, astray, back, hand, vk, second>>

\* Somebody uses element a, or may, although it is free.
StillUsed(a) ==
  mislinked \/ Contains(aging, a) \/ \E q \in Procs : pc[q] = "move" /\ e[q] = a

\* The end of the list.  The first time the free elements are given back to the
\* allocator, and when that was not enough the list is walked again.
DictionaryCompact(p) ==
  /\ pc[p] = "next" /\ iterItem = None
  /\ IF second[p]
     THEN Go(p, "end") /\ UNCHANGED <<obj, free, heap, astray, second>>
     ELSE /\ dlock = None
          /\ free' = <<>> /\ heap' = heap \cup ToSet(free)
          /\ obj' = [a \in Elements |-> IF Contains(free, a) THEN None ELSE obj[a]]
          /\ astray' = (astray \/ \E a \in ToSet(free) : StillUsed(a))
          /\ \/ Go(p, "end") /\ UNCHANGED second
             \/ free # <<>> /\ Go(p, "walk") /\ second' = [second EXCEPT ![p] = TRUE]
  /\ UNCHANGED <<table, key, aging, mislinked, iterItem, counts, locks, back, hand, vk, vg>>

\* _dxf_ExDictionaryEndIterate, _dxf_ExReclaimEnable; the allocation is tried again.
ReclaimEnable(p) ==
  /\ pc[p] = "end"
  /\ rec_sem' = None /\ dlock' = None
  /\ second' = [second EXCEPT ![p] = FALSE]
  /\ Go(p, back[p]) /\ back' = [back EXCEPT ![p] = "idle"]
  /\ UNCHANGED <<dict, iterItem, counts, astray, hand, vk, vg>>

-----------------------------------------------------------------------------
(* _dxf_ExCacheFlush.                                                      *)

CacheFlush(p, all) ==
  /\ pc[p] = "idle" /\ rec_sem = None
  /\ rec_sem' = p
  /\ Go(p, IF all THEN "flushall" ELSE "flush")
  /\ UNCHANGED <<dict, iterItem, counts, dlock, astray, back, hand, victim>>

BeginIterate(p) ==
  /\ pc[p] \in {"flush", "flushall"} /\ dlock = None
  /\ dlock' = p
  /\ UNCHANGED <<dict, iterItem, counts, rec_sem, astray, pc, back, hand, victim>>

\* What a flush removes.
Flushed(p) == {a \in table : pc[p] = "flushall" \/ obj[a] \notin permanent}

DeleteNoLock(p) ==
  /\ pc[p] \in {"flush", "flushall"} /\ dlock = p
  /\ \E a \in Flushed(p) : Unlink(p, a) /\ ExDelete(obj[a])
  /\ UNCHANGED <<iterItem, locks, astray, pc, back, hand, victim>>

EndIterate(p) ==
  /\ pc[p] \in {"flush", "flushall"} /\ dlock = p /\ Flushed(p) = {}
  /\ dlock' = None /\ rec_sem' = None
  /\ Go(p, "idle")
  /\ UNCHANGED <<dict, iterItem, counts, astray, back, hand, victim>>

-----------------------------------------------------------------------------
Step(p) ==
  \/ \E w \in Keys : \/ \E v \in Gvars, keep \in BOOLEAN : SetCacheEntry(p, w, v, keep)
                     \/ GetCacheEntry(p, w) \/ DeleteCacheEntry(p, w)
  \/ InsertSearch(p) \/ InsertAllocate(p) \/ InsertFill(p) \/ InsertLink(p) \/ Drop(p)
  \/ LateNewest(p) \/ LateMoved(p)
  \/ ReclaimMemory(p) \/ ReclaimDisable(p) \/ BeginIterateSorted(p) \/ IterateSorted(p)
  \/ Evict(p) \/ EvictDrop(p) \/ DictionaryCompact(p) \/ ReclaimEnable(p)
  \/ \E all \in BOOLEAN : CacheFlush(p, all)
  \/ BeginIterate(p) \/ DeleteNoLock(p) \/ EndIterate(p)

Next == \E p \in Procs : ~astray /\ Step(p)

Spec == Init /\ [][Next]_vars
-----------------------------------------------------------------------------
(* Properties: what holds until astray.                                    *)

Places == {"idle", "search", "alloc", "fill", "link", "drop", "replaced", "late", "move", "have",
           "disable", "wait", "walk", "next", "evict", "evicted", "end", "flush", "flushall"}

\* Every variable has its type.
TypeOK ==
  /\ table \subseteq Elements /\ heap \subseteq Elements
  /\ key \in [Elements -> Keys \cup {None}] /\ obj \in [Elements -> Gvars \cup {None}]
  /\ free \in Seq(Elements) /\ aging \in Seq(Elements) /\ mislinked \in BOOLEAN
  /\ iterItem \in Elements \cup {None}
  /\ refs \in [Gvars -> Nat] /\ live \subseteq Gvars /\ permanent \subseteq live
  /\ dlock \in Procs \cup {None} /\ rec_sem \in Procs \cup {None} /\ astray \in BOOLEAN
  /\ pc \in [Procs -> Places] /\ back \in [Procs -> {"idle", "alloc", "fill"}]
  /\ k \in [Procs -> Keys \cup {None}] /\ g \in [Procs -> Gvars \cup {None}]
  /\ e \in [Procs -> Elements \cup {None}]
  /\ vk \in [Procs -> Keys \cup {None}] /\ vg \in [Procs -> Gvars \cup {None}]
  /\ second \in [Procs -> BOOLEAN]

\* Who refers to gvar v.
Holders(v) == {p \in Procs : g[p] = v}
Reclaimers(v) == {p \in Procs : vg[p] = v}
Entries(v) == {a \in table : obj[a] = v}

\* A gvar's count is the number of entries and processors that refer to it, and
\* it exists as long as there is one: nobody who found an object in the cache
\* loses it to a reclaim, a flush or a replacement, and none is kept for ever.
RefsExact ==
  \A v \in Gvars :
    /\ refs[v] = Cardinality(Entries(v)) + Cardinality(Holders(v)) + Cardinality(Reclaimers(v))
    /\ v \in live <=> refs[v] > 0

\* Two insertions of one key at a time leave one entry: the second search sees
\* what came in while the dictionary was unlocked.
OneEntryPerKey == \A a, c \in table : key[a] = key[c] => a = c

\* Element blocks are neither lost nor in two places, whatever becomes of the
\* aging list; and until an unlocked move has overlapped another edit every entry
\* is in that list once: the reclaim can find it.  (Elements that are no entries
\* may be in the list as well: LateMoved.)
ElementsInOnePlace ==
  /\ \A a \in Elements :
       Cardinality({p \in Procs : e[p] = a /\ pc[p] \notin {"replaced", "late", "move"}})
       + Cardinality({i \in DOMAIN free : free[i] = a})
       + (IF a \in table THEN 1 ELSE 0) + (IF a \in heap THEN 1 ELSE 0) = 1
  /\ mislinked \/ (IsInjective(aging) /\ table \subseteq ToSet(aging))

\* An entry that was inserted with CACHE_PERMANENT is not removed from the cache
\* by a reclaim ("insure that the entry is not removed from the cache until the
\* application exits", cache.c:239).
PermanentStays ==
  [][\A p \in Procs : Evict(p) => \A a \in table \ table' : obj[a] \notin permanent]_vars
===============================================================================
