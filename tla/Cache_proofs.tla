---------------------------- MODULE Cache_proofs ----------------------------
(***************************************************************************)
(* Proofs about Cache, for any processors, keys, elements and gvars.       *)
(***************************************************************************)
EXTENDS Cache, FiniteSetTheorems, SequenceTheorems, TLAPS

-----------------------------------------------------------------------------
(* Sequences without repetition: the aging list and the free list.         *)

(* Taking the i-th element out of an injective sequence leaves an          *)
(* injective sequence of the others.                                       *)
LEMMA RemoveAtSet ==
  ASSUME NEW S, NEW s \in Seq(S), IsInjective(s), NEW i \in 1..Len(s)
  PROVE  /\ RemoveAt(s, i) \in Seq(S)
         /\ IsInjective(RemoveAt(s, i))
         /\ ToSet(RemoveAt(s, i)) = ToSet(s) \ {s[i]}
<1> DEFINE l == SubSeq(s, 1, i - 1)
           r == SubSeq(s, i + 1, Len(s))
           t == RemoveAt(s, i)
<1>1. Len(s) \in Nat /\ DOMAIN s = 1..Len(s) /\ \A j \in 1..Len(s) : s[j] \in S
  BY LenProperties, ElementOfSeq
<1>2. l \in Seq(S) /\ Len(l) = i - 1 /\ \A j \in 1..(i - 1) : l[j] = s[j]
  <2>1. \A j \in 1..(i - 1) : s[j] \in S
    BY <1>1
  <2> QED BY <1>1, <2>1, SubSeqProperties
<1>3. r \in Seq(S) /\ Len(r) = Len(s) - i /\ \A j \in 1..(Len(s) - i) : r[j] = s[i + j]
  <2>1. \A j \in (i + 1)..Len(s) : s[j] \in S
    BY <1>1
  <2>2. /\ r \in Seq(S)
        /\ Len(r) = IF i + 1 <= Len(s) THEN Len(s) - (i + 1) + 1 ELSE 0
        /\ \A j \in 1..(Len(s) - (i + 1) + 1) : r[j] = s[(i + 1) + j - 1]
    BY <1>1, <2>1, SubSeqProperties
  <2> HIDE DEF l, r, t
  <2>3. ASSUME NEW j \in 1..(Len(s) - i) PROVE r[j] = s[i + j]
    <3>1. j \in 1..(Len(s) - (i + 1) + 1) /\ (i + 1) + j - 1 = i + j
      BY <1>1
    <3>2. r[j] = s[(i + 1) + j - 1]
      BY <2>2, <3>1
    <3> QED BY <3>1, <3>2
  <2>4. Len(r) = Len(s) - i
    <3>1. i \in Nat /\ Len(s) \in Nat /\ i <= Len(s)
      BY <1>1
    <3>2. Len(r) = IF i + 1 <= Len(s) THEN Len(s) - (i + 1) + 1 ELSE 0
      BY <2>2
    <3> QED BY <3>1, <3>2
  <2> QED BY <2>2, <2>3, <2>4
<1>4. t = l \o r
  BY DEF RemoveAt
<1> HIDE DEF l, r, t
<1>5. /\ t \in Seq(S) /\ Len(t) = Len(s) - 1
      /\ \A j \in 1..(Len(l) + Len(r)) : t[j] = IF j <= Len(l) THEN l[j] ELSE r[j - Len(l)]
  <2>1. /\ l \o r \in Seq(S) /\ Len(l \o r) = Len(l) + Len(r)
        /\ \A j \in 1..(Len(l) + Len(r)) : (l \o r)[j] = IF j <= Len(l) THEN l[j] ELSE r[j - Len(l)]
    BY <1>2, <1>3, ConcatProperties
  <2> QED BY <1>1, <1>2, <1>3, <1>4, <2>1
<1>6. DOMAIN t = 1..(Len(s) - 1)
  BY <1>5, LenProperties
<1>7. ASSUME NEW j \in DOMAIN t PROVE t[j] = s[IF j < i THEN j ELSE j + 1]
  <2>1. CASE j < i
    <3>1. j \in 1..(i - 1) /\ j \in 1..(Len(l) + Len(r)) /\ j <= Len(l)
      BY <1>1, <1>2, <1>3, <1>6, <2>1
    <3> QED BY <1>2, <1>5, <2>1, <3>1
  <2>2. CASE j >= i
    <3>1. t[j] = r[j - (i - 1)]
      BY <1>1, <1>2, <1>3, <1>5, <1>6, <2>2
    <3>2. j - (i - 1) \in 1..(Len(s) - i) /\ i + (j - (i - 1)) = j + 1
      BY <1>1, <1>6, <2>2
    <3> QED BY <1>1, <1>3, <1>6, <2>2, <3>1, <3>2
  <2> QED BY <1>1, <1>6, <2>1, <2>2
<1>8. IsInjective(t)
  <2> SUFFICES ASSUME NEW j \in DOMAIN t, NEW m \in DOMAIN t, t[j] = t[m] PROVE j = m
    BY DEF IsInjective
  <2>1. (IF j < i THEN j ELSE j + 1) = (IF m < i THEN m ELSE m + 1)
    <3>1. /\ (IF j < i THEN j ELSE j + 1) \in DOMAIN s
          /\ (IF m < i THEN m ELSE m + 1) \in DOMAIN s
      BY <1>1, <1>6
    <3> QED BY <1>7, <3>1 DEF IsInjective
  <2> QED BY <1>1, <1>6, <2>1
<1>9. ToSet(t) = ToSet(s) \ {s[i]}
  <2>1. ASSUME NEW j \in DOMAIN t PROVE t[j] \in ToSet(s) \ {s[i]}
    <3>1. /\ (IF j < i THEN j ELSE j + 1) \in DOMAIN s
          /\ (IF j < i THEN j ELSE j + 1) # i
      BY <1>1, <1>6
    <3> QED BY <1>1, <1>7, <3>1 DEF ToSet, IsInjective
  <2>2. ASSUME NEW j \in DOMAIN s, j # i PROVE \E m \in DOMAIN t : t[m] = s[j]
    <3>1. CASE j < i
      BY <1>1, <1>6, <1>7, <3>1
    <3>2. CASE j > i
      <4>1. j - 1 \in DOMAIN t /\ ~(j - 1 < i) /\ (j - 1) + 1 = j
        BY <1>1, <1>6, <3>2
      <4> QED BY <1>7, <4>1
    <3> QED BY <1>1, <2>2, <3>1, <3>2
  <2> QED BY <2>1, <2>2 DEF ToSet
<1> QED BY <1>5, <1>8, <1>9 DEF t

(* So does taking an element out wherever it is, if it is there at all.    *)
LEMMA RemoveFirstSet ==
  ASSUME NEW S, NEW s \in Seq(S), IsInjective(s), NEW a
  PROVE  /\ RemoveFirst(s, a) \in Seq(S)
         /\ IsInjective(RemoveFirst(s, a))
         /\ ToSet(RemoveFirst(s, a)) = ToSet(s) \ {a}
<1>1. Len(s) \in Nat /\ DOMAIN s = 1..Len(s)
  BY LenProperties
<1>2. CASE \E i \in 1..Len(s) : s[i] = a
  <2>1. PICK i \in 1..Len(s) : s[i] = a
    BY <1>2
  <2>2. {j \in 1..Len(s) : s[j] = a} = {i}
    BY <1>1, <2>1 DEF IsInjective
  <2>3. Min({i}) = i
    BY <1>1 DEF Min
  <2>4. SelectInSeq(s, LAMBDA v : v = a) = i
    BY <2>2, <2>3 DEF SelectInSeq
  <2>5. RemoveFirst(s, a) = RemoveAt(s, i)
    BY <1>2, <2>4 DEF RemoveFirst
  <2> QED BY <2>1, <2>5, RemoveAtSet
<1>3. CASE ~ \E i \in 1..Len(s) : s[i] = a
  <2>1. RemoveFirst(s, a) = s
    BY <1>3 DEF RemoveFirst
  <2> QED BY <1>1, <1>3, <2>1 DEF ToSet
<1> QED BY <1>2, <1>3

(* Appending a new element keeps a sequence injective.                     *)
LEMMA AppendSet ==
  ASSUME NEW S, NEW s \in Seq(S), IsInjective(s), NEW a \in S, a \notin ToSet(s)
  PROVE  /\ Append(s, a) \in Seq(S)
         /\ IsInjective(Append(s, a))
         /\ ToSet(Append(s, a)) = ToSet(s) \cup {a}
<1>1. Len(s) \in Nat /\ DOMAIN s = 1..Len(s)
  BY LenProperties
<1>2. /\ Append(s, a) \in Seq(S) /\ DOMAIN Append(s, a) = 1..(Len(s) + 1)
      /\ \A i \in 1..Len(s) : Append(s, a)[i] = s[i]
      /\ Append(s, a)[Len(s) + 1] = a
  BY <1>1
<1>3. IsInjective(Append(s, a))
  BY <1>1, <1>2 DEF IsInjective, ToSet
<1>4. ToSet(Append(s, a)) = ToSet(s) \cup {a}
  <2>1. \A i \in 1..(Len(s) + 1) : i \in 1..Len(s) \/ i = Len(s) + 1
    BY <1>1
  <2>2. (1..Len(s)) \cup {Len(s) + 1} \subseteq 1..(Len(s) + 1)
    BY <1>1
  <2> QED BY <1>1, <1>2, <2>1, <2>2 DEF ToSet
<1> QED BY <1>2, <1>3, <1>4

(* So does putting one in front.                                           *)
LEMMA ConsSet ==
  ASSUME NEW S, NEW s \in Seq(S), IsInjective(s), NEW a \in S, a \notin ToSet(s)
  PROVE  /\ <<a>> \o s \in Seq(S)
         /\ IsInjective(<<a>> \o s)
         /\ ToSet(<<a>> \o s) = ToSet(s) \cup {a}
<1> DEFINE t == <<a>> \o s
<1>1. Len(s) \in Nat /\ DOMAIN s = 1..Len(s)
  BY LenProperties
<1>2. <<a>> \in Seq(S) /\ Len(<<a>>) = 1 /\ <<a>>[1] = a
  OBVIOUS
<1>3. /\ t \in Seq(S) /\ Len(t) = 1 + Len(s)
      /\ \A i \in 1..(1 + Len(s)) : t[i] = IF i <= 1 THEN <<a>>[i] ELSE s[i - 1]
  BY <1>2, ConcatProperties
<1> HIDE DEF t
<1>4. DOMAIN t = 1..(1 + Len(s))
  BY <1>3, LenProperties
<1>5. t[1] = a /\ \A i \in 2..(1 + Len(s)) : i - 1 \in DOMAIN s /\ t[i] = s[i - 1]
  BY <1>1, <1>2, <1>3
<1>6. \A i \in DOMAIN t : i = 1 \/ i \in 2..(1 + Len(s))
  BY <1>1, <1>4
<1>7. IsInjective(t)
  <2> SUFFICES ASSUME NEW i \in DOMAIN t, NEW j \in DOMAIN t, t[i] = t[j] PROVE i = j
    BY DEF IsInjective
  <2>1. CASE i = 1 \/ j = 1
    BY <1>5, <1>6, <2>1 DEF ToSet
  <2>2. CASE i # 1 /\ j # 1
    <3>1. i - 1 = j - 1
      BY <1>5, <1>6, <2>2 DEF IsInjective
    <3> QED BY <1>4, <3>1
  <2> QED BY <2>1, <2>2
<1>8. ToSet(t) = ToSet(s) \cup {a}
  <2>1. ToSet(t) \subseteq ToSet(s) \cup {a}
    BY <1>5, <1>6 DEF ToSet
  <2>2. a \in ToSet(t)
    BY <1>1, <1>4, <1>5 DEF ToSet
  <2>3. ASSUME NEW i \in DOMAIN s PROVE s[i] \in ToSet(t)
    <3>1. i + 1 \in 2..(1 + Len(s)) /\ (i + 1) - 1 = i /\ i + 1 \in DOMAIN t
      BY <1>1, <1>4
    <3> QED BY <1>5, <3>1 DEF ToSet
  <2> QED BY <2>1, <2>2, <2>3 DEF ToSet
<1> QED BY <1>3, <1>7, <1>8 DEF t

(* Taking the first one off keeps it injective as well.                    *)
LEMMA TailSet ==
  ASSUME NEW S, NEW s \in Seq(S), IsInjective(s), s # <<>>
  PROVE  /\ Head(s) \in S /\ Head(s) \in ToSet(s)
         /\ Tail(s) \in Seq(S)
         /\ IsInjective(Tail(s))
         /\ ToSet(Tail(s)) = ToSet(s) \ {Head(s)}
<1>1. Len(s) \in Nat \ {0} /\ DOMAIN s = 1..Len(s)
  BY EmptySeq, LenProperties
<1>2. /\ Head(s) = s[1] /\ Head(s) \in S /\ Tail(s) \in Seq(S)
      /\ Len(Tail(s)) = Len(s) - 1
      /\ \A i \in 1..(Len(s) - 1) : Tail(s)[i] = s[i + 1]
  BY HeadTailProperties
<1>3. DOMAIN Tail(s) = 1..(Len(s) - 1)
  BY <1>2, LenProperties
<1>4. \A i \in DOMAIN Tail(s) : i + 1 \in DOMAIN s /\ i + 1 # 1 /\ Tail(s)[i] = s[i + 1]
  BY <1>1, <1>2, <1>3
<1>5. IsInjective(Tail(s))
  <2> SUFFICES ASSUME NEW i \in DOMAIN Tail(s), NEW j \in DOMAIN Tail(s), Tail(s)[i] = Tail(s)[j]
               PROVE  i = j
    BY DEF IsInjective
  <2>1. i + 1 = j + 1
    BY <1>4 DEF IsInjective
  <2> QED BY <1>3, <2>1
<1>6. ToSet(Tail(s)) = ToSet(s) \ {Head(s)}
  <2>1. ASSUME NEW i \in DOMAIN Tail(s) PROVE Tail(s)[i] \in ToSet(s) \ {Head(s)}
    <3>1. s[i + 1] # s[1]
      BY <1>1, <1>4 DEF IsInjective
    <3> QED BY <1>2, <1>4, <3>1 DEF ToSet
  <2>2. ASSUME NEW i \in DOMAIN s, s[i] # Head(s) PROVE \E j \in DOMAIN Tail(s) : Tail(s)[j] = s[i]
    <3>1. i - 1 \in DOMAIN Tail(s) /\ (i - 1) + 1 = i
      BY <1>1, <1>2, <1>3, <2>2
    <3> QED BY <1>4, <3>1
  <2> QED BY <2>1, <2>2 DEF ToSet
<1>7. Head(s) \in ToSet(s)
  BY <1>1, <1>2 DEF ToSet
<1> QED BY <1>2, <1>5, <1>6, <1>7

-----------------------------------------------------------------------------
(* Counting.                                                               *)

\* The elements of D that f maps to v.
Fiber(D, f, v) == {q \in D : f[q] = v}

(* A finite set has finitely many of them, ...                             *)
LEMMA FiberFinite ==
  ASSUME NEW D, IsFiniteSet(D), NEW f, NEW v
  PROVE  /\ IsFiniteSet(Fiber(D, f, v)) /\ Cardinality(Fiber(D, f, v)) \in Nat
         /\ Cardinality(Fiber(D, f, v)) = 0 <=> \A q \in D : f[q] # v
<1>1. Fiber(D, f, v) \in SUBSET D
  BY DEF Fiber
<1>2. IsFiniteSet(Fiber(D, f, v))
  BY <1>1, FS_Subset
<1>3. Cardinality(Fiber(D, f, v)) = 0 <=> Fiber(D, f, v) = {}
  BY <1>2, FS_EmptySet
<1>4. Fiber(D, f, v) = {} <=> \A q \in D : f[q] # v
  BY DEF Fiber
<1> QED BY <1>2, <1>3, <1>4, FS_CardinalityType

(* ... and one more when it gains an element, ...                          *)
LEMMA FiberAdded ==
  ASSUME NEW D, IsFiniteSet(D), NEW f, NEW b, b \notin D, NEW v
  PROVE  Cardinality(Fiber(D \cup {b}, f, v))
           = Cardinality(Fiber(D, f, v)) + (IF f[b] = v THEN 1 ELSE 0)
<1>1. IsFiniteSet(Fiber(D, f, v)) /\ Cardinality(Fiber(D, f, v)) \in Nat
  BY FiberFinite
<1>2. CASE f[b] = v
  <2>1. Fiber(D \cup {b}, f, v) = Fiber(D, f, v) \cup {b} /\ b \notin Fiber(D, f, v)
    BY <1>2 DEF Fiber
  <2>2. Cardinality(Fiber(D, f, v) \cup {b}) = Cardinality(Fiber(D, f, v)) + 1
    BY <1>1, <2>1, FS_AddElement
  <2> QED BY <1>2, <2>1, <2>2
<1>3. CASE f[b] # v
  <2>1. Fiber(D \cup {b}, f, v) = Fiber(D, f, v)
    BY <1>3 DEF Fiber
  <2> QED BY <1>1, <1>3, <2>1
<1> QED BY <1>2, <1>3

(* ... one less when it loses one, ...                                     *)
LEMMA FiberRemoved ==
  ASSUME NEW D, IsFiniteSet(D), NEW f, NEW b \in D, NEW v
  PROVE  Cardinality(Fiber(D, f, v))
           = Cardinality(Fiber(D \ {b}, f, v)) + (IF f[b] = v THEN 1 ELSE 0)
<1>1. IsFiniteSet(D \ {b}) /\ b \notin D \ {b} /\ D = (D \ {b}) \cup {b}
  BY FS_RemoveElement
<1> QED BY <1>1, FiberAdded

(* ... and one less and one more when the function changes in one place.   *)
LEMMA FiberChanged ==
  ASSUME NEW D, IsFiniteSet(D), NEW f, NEW h, NEW b \in D, NEW v,
         Fiber(D \ {b}, h, v) = Fiber(D \ {b}, f, v)
  PROVE  /\ (h[b] = v <=> f[b] = v) => Cardinality(Fiber(D, h, v)) = Cardinality(Fiber(D, f, v))
         /\ h[b] = v /\ f[b] # v => Cardinality(Fiber(D, h, v)) = Cardinality(Fiber(D, f, v)) + 1
         /\ h[b] # v /\ f[b] = v => Cardinality(Fiber(D, h, v)) + 1 = Cardinality(Fiber(D, f, v))
<1>1. IsFiniteSet(D \ {b})
  BY FS_RemoveElement
<1>2. Cardinality(Fiber(D, f, v)) = Cardinality(Fiber(D \ {b}, f, v)) + (IF f[b] = v THEN 1 ELSE 0)
  BY FiberRemoved
<1>3. Cardinality(Fiber(D, h, v)) = Cardinality(Fiber(D \ {b}, h, v)) + (IF h[b] = v THEN 1 ELSE 0)
  BY FiberRemoved
<1>4. Cardinality(Fiber(D \ {b}, f, v)) \in Nat
  BY <1>1, FiberFinite
<1> QED BY <1>2, <1>3, <1>4

-----------------------------------------------------------------------------
(* The inductive invariant.                                                *)

\* Where a processor that reclaims is.
Reclaiming == {"disable", "wait", "walk", "next", "evict", "evicted", "end"}

\* Where a processor is in its insertion, look-up or deletion, also while an
\* allocation in there reclaims.
At(p) == IF pc[p] \in Reclaiming THEN back[p] ELSE pc[p]

\* A processor has exactly what its place says, and what it is about to link is
\* filled in.
ControlOf(p) ==
  /\ pc[p] \notin Reclaiming => back[p] = "idle"
  /\ At(p) \in {"search", "alloc", "fill", "link"} => k[p] \in Keys
  /\ g[p] # None <=> At(p) \in {"search", "alloc", "fill", "link", "drop", "replaced", "have"}
  /\ e[p] # None <=> At(p) \in {"fill", "link", "replaced", "late", "move"}
  /\ vg[p] # None <=> pc[p] = "evicted"
  /\ pc[p] = "link" => key[e[p]] = k[p] /\ obj[e[p]] = g[p]

Control == \A p \in Procs : ControlOf(p)

\* Every entry has a key and an object.
Entered == \A a \in table : key[a] \in Keys /\ obj[a] \in Gvars

\* The element that only processor p knows.
Hand(p) == IF pc[p] \in {"replaced", "late", "move"} THEN None ELSE e[p]

\* An element is an entry, the allocator's, free or in one processor's hands.
InOnePlace ==
  /\ IsInjective(free)
  /\ table \cap heap = {} /\ ToSet(free) \cap (table \cup heap) = {}
  /\ \A p \in Procs : Hand(p) \notin table \cup heap \cup ToSet(free)
  /\ \A p, q \in Procs : Hand(p) = Hand(q) /\ Hand(p) # None => p = q
  /\ \A a \in Elements : a \in table \cup heap \cup ToSet(free) \/ \E p \in Procs : Hand(p) = a

\* The aging list has every entry, until it is mislinked, and nothing twice.
Aged == IsInjective(aging) /\ (mislinked \/ table \subseteq ToSet(aging))

IInv == TypeOK /\ Control /\ Entered /\ InOnePlace /\ Aged /\ OneEntryPerKey /\ RefsExact

(* An empty cache satisfies it.                                            *)
LEMMA InitIInv == Init => IInv
<1> SUFFICES ASSUME Init PROVE IInv
  OBVIOUS
<1>a. TypeOK
  <2>1. free \in Seq(Elements) /\ aging \in Seq(Elements) /\ refs \in [Gvars -> Nat]
    BY EmptySeq DEF Init
  <2>2. pc \in [Procs -> Places] /\ back \in [Procs -> {"idle", "alloc", "fill"}]
    BY DEF Init, Places
  <2>3. /\ key \in [Elements -> Keys \cup {None}] /\ obj \in [Elements -> Gvars \cup {None}]
        /\ k \in [Procs -> Keys \cup {None}] /\ g \in [Procs -> Gvars \cup {None}]
        /\ e \in [Procs -> Elements \cup {None}]
        /\ vk \in [Procs -> Keys \cup {None}] /\ vg \in [Procs -> Gvars \cup {None}]
        /\ second \in [Procs -> BOOLEAN]
    BY DEF Init
  <2> QED BY <2>1, <2>2, <2>3 DEF Init, TypeOK
<1>b. Control
  BY CacheAssumption DEF Init, Control, ControlOf, At, Reclaiming
<1>1. Entered /\ OneEntryPerKey
  BY DEF Init, Entered, OneEntryPerKey
<1>2. InOnePlace /\ Aged
  BY CacheAssumption DEF Init, InOnePlace, Aged, Hand, IsInjective, ToSet
<1>3. RefsExact
  <2> SUFFICES ASSUME NEW v \in Gvars
               PROVE  /\ refs[v] = Cardinality(Entries(v)) + Cardinality(Holders(v)) + Cardinality(Reclaimers(v))
                      /\ v \in live <=> refs[v] > 0
    BY DEF RefsExact
  <2>1. Entries(v) = {} /\ Holders(v) = {} /\ Reclaimers(v) = {}
    BY CacheAssumption DEF Init, Entries, Holders, Reclaimers
  <2> QED BY <2>1, FS_EmptySet DEF Init
<1> QED BY <1>a, <1>b, <1>1, <1>2, <1>3 DEF IInv

(* The three counts of a gvar, as fibers of finite sets.                   *)
LEMMA Counts ==
  ASSUME TypeOK, NEW v
  PROVE  /\ IsFiniteSet(Procs) /\ IsFiniteSet(table)
         /\ Entries(v) = Fiber(table, obj, v) /\ Cardinality(Entries(v)) \in Nat
         /\ Holders(v) = Fiber(Procs, g, v) /\ Cardinality(Holders(v)) \in Nat
         /\ Reclaimers(v) = Fiber(Procs, vg, v) /\ Cardinality(Reclaimers(v)) \in Nat
<1>1. IsFiniteSet(Procs) /\ IsFiniteSet(table)
  BY CacheAssumption, FS_Subset DEF TypeOK
<1>2. /\ Entries(v) = Fiber(table, obj, v)
      /\ Holders(v) = Fiber(Procs, g, v)
      /\ Reclaimers(v) = Fiber(Procs, vg, v)
  BY DEF Entries, Holders, Reclaimers, Fiber
<1> QED BY <1>1, <1>2, FiberFinite

(* A gvar that an entry, a processor or a reclaim refers to is there and   *)
(* has a reference to lose.                                                *)
LEMMA HeldIsLive ==
  ASSUME TypeOK, RefsExact, NEW v \in Gvars,
         \/ \E q \in Procs : g[q] = v
         \/ \E q \in Procs : vg[q] = v
         \/ \E a \in table : obj[a] = v
  PROVE  refs[v] \in Nat /\ refs[v] >= 1 /\ v \in live
<1>1. \/ Cardinality(Entries(v)) # 0
      \/ Cardinality(Holders(v)) # 0
      \/ Cardinality(Reclaimers(v)) # 0
  BY Counts, FiberFinite
<1>2. /\ refs[v] = Cardinality(Entries(v)) + Cardinality(Holders(v)) + Cardinality(Reclaimers(v))
      /\ v \in live <=> refs[v] > 0
  BY DEF RefsExact
<1>3. /\ Cardinality(Entries(v)) \in Nat /\ Cardinality(Holders(v)) \in Nat
      /\ Cardinality(Reclaimers(v)) \in Nat
  BY Counts
<1> QED BY <1>1, <1>2, <1>3

(* An element made the newest: the list gains it if it was not there.      *)
LEMMA NewestAging ==
  ASSUME TypeOK, Aged, NEW a \in Elements
  PROVE  /\ MakeNewest(a) \in Seq(Elements)
         /\ IsInjective(MakeNewest(a))
         /\ ToSet(MakeNewest(a)) = ToSet(aging) \cup {a}
<1> DEFINE r == RemoveFirst(aging, a)
<1>1. r \in Seq(Elements) /\ IsInjective(r) /\ ToSet(r) = ToSet(aging) \ {a}
  BY RemoveFirstSet DEF TypeOK, Aged
<1>2. MakeNewest(a) = Append(r, a)
  BY DEF MakeNewest
<1> HIDE DEF r
<1> QED BY <1>1, <1>2, AppendSet

(* An edit makes the list what it is to be, or mislinks it.                *)
LEMMA Relinked ==
  ASSUME TypeOK, NEW p, NEW s \in Seq(Elements), IsInjective(s), Relink(p, s)
  PROVE  /\ aging' \in Seq(Elements) /\ IsInjective(aging') /\ mislinked' \in BOOLEAN
         /\ mislinked' \/ (aging' = s /\ ~mislinked)
<1>1. /\ mislinked' \in BOOLEAN
      /\ mislinked => mislinked'
      /\ aging' = IF mislinked' THEN <<>> ELSE s
  BY DEF Relink, TypeOK
<1>2. <<>> \in Seq(Elements) /\ IsInjective(<<>>)
  BY EmptySeq DEF IsInjective
<1> QED BY <1>1, <1>2

(* So it is when an element is made the newest.                            *)
LEMMA MadeNewest ==
  ASSUME TypeOK, Aged, NEW p, NEW a \in Elements, Relink(p, MakeNewest(a))
  PROVE  /\ aging' \in Seq(Elements) /\ IsInjective(aging') /\ mislinked' \in BOOLEAN
         /\ mislinked' \/ (ToSet(aging') = ToSet(aging) \cup {a} /\ ~mislinked)
BY NewestAging, Relinked

(* An entry removed goes to the free list, and leaves the aging list.      *)
LEMMA Unlinked ==
  ASSUME TypeOK, Aged, InOnePlace, NEW p, NEW a \in table, Unlink(p, a)
  PROVE  /\ a \in Elements /\ table' = table \ {a} /\ heap' = heap /\ obj' = obj
         /\ key' = [key EXCEPT ![a] = None] /\ key' \in [Elements -> Keys \cup {None}]
         /\ free' \in Seq(Elements) /\ IsInjective(free') /\ ToSet(free') = ToSet(free) \cup {a}
         /\ aging' \in Seq(Elements) /\ IsInjective(aging') /\ mislinked' \in BOOLEAN
         /\ mislinked' \/ (ToSet(aging') = ToSet(aging) \ {a} /\ ~mislinked)
<1>1. a \in Elements /\ a \notin ToSet(free)
  BY DEF TypeOK, InOnePlace
<1>2. free' \in Seq(Elements) /\ IsInjective(free') /\ ToSet(free') = ToSet(free) \cup {a}
  BY <1>1, ConsSet DEF Unlink, TypeOK, InOnePlace
<1>3. /\ RemoveFirst(aging, a) \in Seq(Elements) /\ IsInjective(RemoveFirst(aging, a))
      /\ ToSet(RemoveFirst(aging, a)) = ToSet(aging) \ {a}
  BY RemoveFirstSet DEF TypeOK, Aged
<1>4. /\ aging' \in Seq(Elements) /\ IsInjective(aging') /\ mislinked' \in BOOLEAN
      /\ mislinked' \/ (ToSet(aging') = ToSet(aging) \ {a} /\ ~mislinked)
  BY <1>3, Relinked DEF Unlink
<1> QED BY <1>1, <1>2, <1>4 DEF Unlink, TypeOK

(* A reference given back keeps the counts natural numbers, and what is    *)
(* permanent is there.                                                     *)
LEMMA Deleted ==
  ASSUME TypeOK, RefsExact, NEW v \in Gvars, ExDelete(v), refs[v] >= 1
  PROVE  refs' \in [Gvars -> Nat] /\ live' \subseteq Gvars /\ permanent' \subseteq live'
BY DEF ExDelete, TypeOK

(* The element after another one in a list of elements is an element.      *)
LEMMA NewerType ==
  ASSUME NEW s \in Seq(Elements), NEW a
  PROVE  Newer(s, a) \in Elements \cup {None}
<1>1. /\ Len(s) \in Nat /\ DOMAIN s = 1..Len(s)
      /\ \A i \in 1..Len(s) : s[i] \in Elements
  BY LenProperties, ElementOfSeq
<1>2. CASE Contains(s, a) /\ Last(s) # a
  <2> DEFINE i == CHOOSE i \in DOMAIN s : s[i] = a
  <2>1. i \in DOMAIN s /\ s[i] = a
    BY <1>1, <1>2 DEF Contains
  <2> HIDE DEF i
  <2>2. 1 + i \in 1..Len(s)
    BY <1>1, <1>2, <2>1 DEF Last
  <2> QED BY <1>1, <1>2, <2>2 DEF Newer, i
<1>3. CASE ~(Contains(s, a) /\ Last(s) # a)
  BY <1>3 DEF Newer
<1> QED BY <1>2, <1>3

(* What is seen of the aging list without the lock is a list of elements.  *)
LEMMA SeenType ==
  ASSUME TypeOK, Aged, Control, NEW s \in Seen
  PROVE  s \in Seq(Elements)
<1>1. CASE s = aging
  BY <1>1 DEF TypeOK
<1>2. ASSUME NEW q \in Procs, pc[q] = "move", s = MakeNewest(e[q])
      PROVE  s \in Seq(Elements)
  <2>1. e[q] \in Elements
    BY <1>2 DEF Control, ControlOf, At, Reclaiming, TypeOK
  <2> QED BY <1>2, <2>1, NewestAging
<1> QED BY <1>1, <1>2 DEF Seen

(* A step keeps the types.                                                 *)
LEMMA TypeStep ==
  ASSUME IInv, NEW p \in Procs, Step(p)
  PROVE  TypeOK'
<1> USE DEF IInv
<1>1. ASSUME NEW w \in Keys, NEW v \in Gvars, NEW keep \in BOOLEAN, SetCacheEntry(p, w, v, keep)
      PROVE  TypeOK'
  BY <1>1 DEF SetCacheEntry, TypeOK, vars, dict, counts, locks, hand, victim, Go, Places
<1>2. ASSUME NEW w \in Keys, GetCacheEntry(p, w)
      PROVE  TypeOK'
  <2>1. PICK a \in table : /\ refs' = [refs EXCEPT ![obj[a]] = @ + 1] /\ g' = [g EXCEPT ![p] = obj[a]]
                           /\ Relink(p, MakeNewest(a))
    BY <1>2 DEF GetCacheEntry, Entry
  <2>2. a \in Elements /\ obj[a] \in Gvars
    BY DEF Entered, TypeOK
  <2>3. aging' \in Seq(Elements) /\ mislinked' \in BOOLEAN
    BY <2>1, <2>2, MadeNewest
  <2>4. /\ refs' \in [Gvars -> Nat] /\ g' \in [Procs -> Gvars \cup {None}] /\ pc' \in [Procs -> Places]
    BY <1>2, <2>1, <2>2 DEF GetCacheEntry, TypeOK, Go, Places
  <2> QED BY <1>2, <2>3, <2>4 DEF GetCacheEntry, TypeOK, locks, victim
<1>3. ASSUME NEW w \in Keys, DeleteCacheEntry(p, w)
      PROVE  TypeOK'
  <2>1. PICK a \in table : Unlink(p, a) /\ g' = [g EXCEPT ![p] = obj[a]]
    BY <1>3 DEF DeleteCacheEntry, Entry
  <2>2. /\ table' \subseteq Elements /\ heap' \subseteq Elements /\ obj' = obj
        /\ key' \in [Elements -> Keys \cup {None}]
        /\ free' \in Seq(Elements) /\ aging' \in Seq(Elements) /\ mislinked' \in BOOLEAN
    BY <2>1, Unlinked DEF TypeOK
  <2>3. g' \in [Procs -> Gvars \cup {None}] /\ pc' \in [Procs -> Places]
    BY <1>3, <2>1 DEF DeleteCacheEntry, TypeOK, Go, Places
  <2> QED BY <1>3, <2>2, <2>3 DEF DeleteCacheEntry, TypeOK, counts, locks, victim
<1>4. ASSUME InsertSearch(p)
      PROVE  TypeOK'
  <2>1. k[p] \in Keys
    BY <1>4 DEF InsertSearch, Control, ControlOf, At, Reclaiming
  <2>2. ASSUME NEW a \in Entry(k[p]), Replace(p, a), e' = [e EXCEPT ![p] = a], Go(p, "replaced"),
               UNCHANGED <<table, key, free, heap, k>>
        PROVE  TypeOK'
    <3>1. a \in table /\ a \in Elements
      BY DEF Entry, TypeOK
    <3>2. /\ obj' \in [Elements -> Gvars \cup {None}] /\ g' \in [Procs -> Gvars \cup {None}]
          /\ aging' \in Seq(Elements) /\ mislinked' \in BOOLEAN
      BY <2>2, <3>1, MadeNewest DEF Replace, TypeOK
    <3>3. e' \in [Procs -> Elements \cup {None}] /\ pc' \in [Procs -> Places]
      BY <2>2, <3>1 DEF Go, TypeOK, Places
    <3> QED BY <1>4, <2>2, <3>2, <3>3 DEF InsertSearch, TypeOK, counts, locks, victim
  <2>3. ASSUME free # <<>>, Take(p, Head(free)), free' = Tail(free),
               UNCHANGED <<table, key, obj, heap, aging, mislinked, k, g>>
        PROVE  TypeOK'
    <3>1. Head(free) \in Elements /\ free' \in Seq(Elements)
      BY <2>3, TailSet DEF TypeOK, InOnePlace
    <3>2. e' \in [Procs -> Elements \cup {None}] /\ pc' \in [Procs -> Places]
      BY <2>3, <3>1 DEF Take, Go, TypeOK, Places
    <3> QED BY <1>4, <2>3, <3>1, <3>2 DEF InsertSearch, TypeOK, counts, locks, victim
  <2>4. ASSUME Go(p, "alloc"), UNCHANGED <<dict, hand>>
        PROVE  TypeOK'
    <3>1. pc' \in [Procs -> Places]
      BY <2>4 DEF Go, TypeOK, Places
    <3> QED BY <1>4, <2>4, <3>1 DEF InsertSearch, TypeOK, dict, hand, counts, locks, victim
  <2> QED BY <1>4, <2>2, <2>3, <2>4 DEF InsertSearch
<1>5. ASSUME InsertAllocate(p)
      PROVE  TypeOK'
  BY <1>5 DEF InsertAllocate, TypeOK, vars, dict, counts, locks, hand, victim, Go, Places, Take
<1>6. ASSUME InsertFill(p)
      PROVE  TypeOK'
  BY <1>6 DEF InsertFill, TypeOK, vars, dict, counts, locks, hand, victim, Go, Places
<1>7. ASSUME InsertLink(p)
      PROVE  TypeOK'
  <2>1. e[p] \in Elements /\ e[p] \notin ToSet(free) /\ Hand(p) = e[p]
    BY <1>7 DEF InsertLink, Control, ControlOf, At, Reclaiming, InOnePlace, Hand, TypeOK
  <2>2. ASSUME NEW a \in Entry(k[p]), Replace(p, a), free' = <<e[p]>> \o free,
               key' = [key EXCEPT ![e[p]] = None], e' = [e EXCEPT ![p] = None], Go(p, "drop"),
               UNCHANGED <<table, heap, k>>
        PROVE  TypeOK'
    <3>1. a \in table /\ a \in Elements
      BY DEF Entry, TypeOK
    <3>2. /\ obj' \in [Elements -> Gvars \cup {None}] /\ g' \in [Procs -> Gvars \cup {None}]
          /\ aging' \in Seq(Elements) /\ mislinked' \in BOOLEAN
      BY <2>2, <3>1, MadeNewest DEF Replace, TypeOK
    <3>3. free' \in Seq(Elements)
      BY <2>1, <2>2, ConsSet DEF TypeOK, InOnePlace
    <3>4. /\ e' \in [Procs -> Elements \cup {None}] /\ pc' \in [Procs -> Places]
          /\ key' \in [Elements -> Keys \cup {None}]
      BY <2>2, <3>1 DEF Go, TypeOK, Places
    <3> QED BY <1>7, <2>2, <3>2, <3>3, <3>4 DEF InsertLink, TypeOK, counts, locks, victim
  <2>3. ASSUME table' = table \cup {e[p]}, Relink(p, MakeNewest(e[p])), Done(p),
               UNCHANGED <<key, obj, free, heap>>
        PROVE  TypeOK'
    <3>1. aging' \in Seq(Elements) /\ mislinked' \in BOOLEAN /\ table' \subseteq Elements
      BY <2>1, <2>3, MadeNewest DEF TypeOK
    <3>2. /\ pc' \in [Procs -> Places] /\ k' \in [Procs -> Keys \cup {None}]
          /\ g' \in [Procs -> Gvars \cup {None}] /\ e' \in [Procs -> Elements \cup {None}]
      BY <2>3 DEF Done, Go, TypeOK, Places
    <3> QED BY <1>7, <2>3, <3>1, <3>2 DEF InsertLink, TypeOK, counts, locks, victim
  <2> QED BY <1>7, <2>2, <2>3 DEF InsertLink
<1>8. ASSUME Drop(p)
      PROVE  TypeOK'
  <2>1. g[p] \in Gvars /\ ExDelete(g[p])
    BY <1>8 DEF Drop, Control, ControlOf, At, Reclaiming, TypeOK
  <2>2. refs' \in [Gvars -> Nat] /\ live' \subseteq Gvars /\ permanent' \subseteq live'
    BY <2>1, HeldIsLive, Deleted
  <2>3. /\ pc' \in [Procs -> Places] /\ k' \in [Procs -> Keys \cup {None}]
        /\ g' \in [Procs -> Gvars \cup {None}] /\ e' \in [Procs -> Elements \cup {None}]
    BY <1>8 DEF Drop, Done, Go, TypeOK, Places
  <2> QED BY <1>8, <2>2, <2>3 DEF Drop, TypeOK, dict, locks, victim
<1>9. ASSUME LateNewest(p)
      PROVE  TypeOK'
  <2>1. aging' \in Seq(Elements) /\ mislinked' \in BOOLEAN /\ astray' \in BOOLEAN
    BY <1>9, EmptySeq DEF LateNewest, TypeOK
  <2>2. /\ pc' \in [Procs -> Places] /\ k' \in [Procs -> Keys \cup {None}]
        /\ g' \in [Procs -> Gvars \cup {None}] /\ e' \in [Procs -> Elements \cup {None}]
    BY <1>9 DEF LateNewest, Done, Go, TypeOK, Places, hand
  <2> QED BY <1>9, <2>1, <2>2 DEF LateNewest, TypeOK, counts, locks, victim
<1>22. ASSUME LateMoved(p)
       PROVE  TypeOK'
  <2>1. e[p] \in Elements
    BY <1>22 DEF LateMoved, Control, ControlOf, At, Reclaiming, TypeOK
  <2>2. aging' \in Seq(Elements) /\ mislinked' \in BOOLEAN
    BY <1>22, <2>1, MadeNewest DEF LateMoved
  <2>3. /\ pc' \in [Procs -> Places] /\ k' \in [Procs -> Keys \cup {None}]
        /\ g' \in [Procs -> Gvars \cup {None}] /\ e' \in [Procs -> Elements \cup {None}]
    BY <1>22 DEF LateMoved, Done, Go, TypeOK, Places
  <2> QED BY <1>22, <2>2, <2>3 DEF LateMoved, TypeOK, counts, locks, victim
<1>10. ASSUME ReclaimMemory(p)
      PROVE  TypeOK'
  BY <1>10 DEF ReclaimMemory, TypeOK, vars, dict, counts, locks, hand, victim, Go, Places
<1>11. ASSUME ReclaimDisable(p)
      PROVE  TypeOK'
  <2>1. back[p] \in Places
    BY DEF TypeOK, Places
  <2>2. pc' \in [Procs -> Places]
    BY <1>11, <2>1 DEF ReclaimDisable, Go, TypeOK, Places
  <2>3. rec_sem' \in Procs \cup {None} /\ back' \in [Procs -> {"idle", "alloc", "fill"}]
    BY <1>11 DEF ReclaimDisable, TypeOK
  <2> QED BY <1>11, <2>2, <2>3 DEF ReclaimDisable, TypeOK, dict, counts, hand, victim
<1>12. ASSUME BeginIterateSorted(p)
      PROVE  TypeOK'
  <2>1. iterItem' \in Elements \cup {None}
    <3>1. ASSUME NEW s \in Seen PROVE (IF s = <<>> THEN None ELSE Head(s)) \in Elements \cup {None}
      BY SeenType, HeadTailProperties
    <3> QED BY <1>12, <3>1 DEF BeginIterateSorted, Anywhere
  <2>2. pc' \in [Procs -> Places]
    BY <1>12 DEF BeginIterateSorted, Go, TypeOK, Places
  <2> QED BY <1>12, <2>1, <2>2 DEF BeginIterateSorted, TypeOK, dict, counts, locks, hand, victim
<1>13. ASSUME IterateSorted(p)
      PROVE  TypeOK'
  <2>1. iterItem \in Elements
    BY <1>13 DEF IterateSorted, TypeOK
  <2>2. iterItem' \in Elements \cup {None}
    BY <1>13, <2>1, NewerType, SeenType DEF IterateSorted, Anywhere
  <2>3. KeysSeen(iterItem) \subseteq Keys \cup {None}
    BY <2>1 DEF KeysSeen, TypeOK
  <2>4. vk' \in [Procs -> Keys \cup {None}] /\ pc' \in [Procs -> Places]
    <3>1. CASE UNCHANGED <<vk, pc>>
      BY <3>1 DEF TypeOK
    <3>2. ASSUME NEW w \in KeysSeen(iterItem), vk' = [vk EXCEPT ![p] = w], Go(p, "evict")
          PROVE  vk' \in [Procs -> Keys \cup {None}] /\ pc' \in [Procs -> Places]
      BY <2>3, <3>2 DEF Go, TypeOK, Places
    <3> QED BY <1>13, <3>1, <3>2 DEF IterateSorted
  <2> QED BY <1>13, <2>2, <2>4 DEF IterateSorted, TypeOK, dict, counts, locks, hand
<1>14. ASSUME Evict(p)
      PROVE  TypeOK'
  <2>1. vk' \in [Procs -> Keys \cup {None}]
    BY <1>14 DEF Evict, TypeOK
  <2>2. CASE Go(p, "next") /\ UNCHANGED <<dict, vg>>
    <3>1. pc' \in [Procs -> Places]
      BY <2>2 DEF Go, TypeOK, Places
    <3> QED BY <1>14, <2>1, <2>2, <3>1 DEF Evict, TypeOK, dict, counts, locks, hand
  <2>3. ASSUME NEW a \in Entry(vk[p]), Unlink(p, a), vg' = [vg EXCEPT ![p] = obj[a]], Go(p, "evicted")
        PROVE  TypeOK'
    <3>1. a \in table /\ a \in Elements
      BY DEF Entry, TypeOK
    <3>2. /\ table' \subseteq Elements /\ heap' \subseteq Elements /\ obj' = obj
          /\ key' \in [Elements -> Keys \cup {None}]
          /\ free' \in Seq(Elements) /\ aging' \in Seq(Elements) /\ mislinked' \in BOOLEAN
      BY <2>3, <3>1, Unlinked DEF TypeOK
    <3>3. pc' \in [Procs -> Places] /\ vg' \in [Procs -> Gvars \cup {None}]
      BY <2>3, <3>1 DEF Go, TypeOK, Places
    <3> QED BY <1>14, <2>1, <3>2, <3>3 DEF Evict, TypeOK, counts, locks, hand
  <2> QED BY <1>14, <2>2, <2>3 DEF Evict
<1>15. ASSUME EvictDrop(p)
      PROVE  TypeOK'
  <2>1. vg[p] \in Gvars /\ ExDelete(vg[p])
    BY <1>15 DEF EvictDrop, Control, ControlOf, TypeOK
  <2>2. refs' \in [Gvars -> Nat] /\ live' \subseteq Gvars /\ permanent' \subseteq live'
    BY <2>1, HeldIsLive, Deleted
  <2>3. pc' \in [Procs -> Places] /\ vg' \in [Procs -> Gvars \cup {None}]
    BY <1>15 DEF EvictDrop, Go, TypeOK, Places
  <2> QED BY <1>15, <2>2, <2>3 DEF EvictDrop, TypeOK, dict, locks, hand
<1>16. ASSUME DictionaryCompact(p)
      PROVE  TypeOK'
  <2>1. pc' \in [Procs -> Places] /\ second' \in [Procs -> BOOLEAN]
    BY <1>16 DEF DictionaryCompact, Go, TypeOK, Places
  <2>2. ToSet(free) \subseteq Elements
    BY ElementOfSeq, LenProperties DEF TypeOK, ToSet
  <2>3. /\ free' \in Seq(Elements) /\ heap' \subseteq Elements
        /\ obj' \in [Elements -> Gvars \cup {None}] /\ astray' \in BOOLEAN
    BY <1>16, <2>2, EmptySeq DEF DictionaryCompact, TypeOK
  <2> QED BY <1>16, <2>1, <2>3 DEF DictionaryCompact, TypeOK, counts, locks, hand
<1>17. ASSUME ReclaimEnable(p)
      PROVE  TypeOK'
  BY <1>17 DEF ReclaimEnable, TypeOK, vars, dict, counts, locks, hand, victim, Go, Places
<1>18. ASSUME NEW all \in BOOLEAN, CacheFlush(p, all)
      PROVE  TypeOK'
  BY <1>18 DEF CacheFlush, TypeOK, vars, dict, counts, locks, hand, victim, Go, Places
<1>19. ASSUME BeginIterate(p)
      PROVE  TypeOK'
  BY <1>19 DEF BeginIterate, TypeOK, vars, dict, counts, locks, hand, victim, Go, Places
<1>20. ASSUME DeleteNoLock(p)
      PROVE  TypeOK'
  <2>1. PICK a \in table : Unlink(p, a) /\ ExDelete(obj[a])
    BY <1>20 DEF DeleteNoLock, Flushed
  <2>2. obj[a] \in Gvars
    BY DEF Entered
  <2>3. refs' \in [Gvars -> Nat] /\ live' \subseteq Gvars /\ permanent' \subseteq live'
    BY <2>1, <2>2, HeldIsLive, Deleted
  <2>4. /\ table' \subseteq Elements /\ heap' \subseteq Elements /\ obj' = obj
        /\ key' \in [Elements -> Keys \cup {None}]
        /\ free' \in Seq(Elements) /\ aging' \in Seq(Elements) /\ mislinked' \in BOOLEAN
    BY <2>1, Unlinked DEF TypeOK
  <2> QED BY <1>20, <2>3, <2>4 DEF DeleteNoLock, TypeOK, locks, hand, victim
<1>21. ASSUME EndIterate(p)
      PROVE  TypeOK'
  BY <1>21 DEF EndIterate, TypeOK, vars, dict, counts, locks, hand, victim, Go, Places
<1> QED BY <1>1, <1>2, <1>3, <1>4, <1>5, <1>6, <1>7, <1>8, <1>9, <1>10, <1>11, <1>12, <1>13, <1>14, <1>15, <1>16, <1>17, <1>18, <1>19, <1>20, <1>21, <1>22 DEF Step

\* Nothing that concerns q's place changes.
Same(q) == /\ pc'[q] = pc[q] /\ back'[q] = back[q]
           /\ k'[q] = k[q] /\ g'[q] = g[q] /\ e'[q] = e[q] /\ vg'[q] = vg[q]

(* What a processor's place says goes on holding as long as nobody touches *)
(* the element it is about to link.                                        *)
LEMMA SameControl ==
  ASSUME NEW q \in Procs, ControlOf(q), Same(q),
         pc[q] = "link" => key'[e[q]] = key[e[q]] /\ obj'[e[q]] = obj[e[q]]
  PROVE  ControlOf(q)'
BY DEF ControlOf, Same, At

(* A step leaves every processor with what its place says.                 *)
LEMMA ControlStep ==
  ASSUME IInv, NEW p \in Procs, Step(p)
  PROVE  Control'
<1> USE DEF IInv
<1> SUFFICES ASSUME NEW q \in Procs PROVE ControlOf(q)'
  BY DEF Control
<1>q. ControlOf(q) /\ ControlOf(p)
  BY DEF Control
<1>l. pc[q] = "link" => /\ e[q] \in Elements /\ e[q] \notin table \cup heap /\ ~Contains(free, e[q])
                        /\ q # p => e[p] # e[q] \/ Hand(p) # e[p]
  <2> SUFFICES ASSUME pc[q] = "link"
               PROVE  /\ e[q] \in Elements /\ e[q] \notin table \cup heap /\ ~Contains(free, e[q])
                      /\ q # p => e[p] # e[q] \/ Hand(p) # e[p]
    OBVIOUS
  <2>1. Hand(q) = e[q]
    BY DEF Hand
  <2>2. e[q] \in Elements /\ e[q] # None
    BY <1>q, CacheAssumption DEF ControlOf, At, Reclaiming, TypeOK
  <2>3. e[q] \notin table \cup heap \cup ToSet(free) /\ (q # p => Hand(p) # e[q])
    BY <2>1, <2>2 DEF InOnePlace
  <2>4. ~Contains(free, e[q])
    BY <2>3, LenProperties DEF Contains, ToSet, TypeOK
  <2> QED BY <2>2, <2>3, <2>4
<1>c. CacheAssumption
  BY CacheAssumption
<1>1. ASSUME NEW w \in Keys, NEW v \in Gvars, NEW keep \in BOOLEAN, SetCacheEntry(p, w, v, keep)
      PROVE  ControlOf(q)'
  <2>1. CASE q # p
    <3>1. Same(q)
      BY <1>1, <2>1 DEF SetCacheEntry, Same, Go, TypeOK, dict, counts, locks, hand, victim
    <3>2. pc[q] = "link" => key'[e[q]] = key[e[q]] /\ obj'[e[q]] = obj[e[q]]
      BY <1>1, <2>1 DEF SetCacheEntry, TypeOK, dict
    <3> QED BY <1>q, <3>1, <3>2, SameControl
  <2>2. CASE q = p
    BY <1>1, <1>q, <1>c, <2>2 DEF SetCacheEntry, CacheAssumption, ControlOf, At, Reclaiming, Go, TypeOK, dict, counts, locks, hand, victim
  <2> QED BY <2>1, <2>2
<1>2. ASSUME NEW w \in Keys, GetCacheEntry(p, w)
      PROVE  ControlOf(q)'
  <2>1. CASE q # p
    <3>1. Same(q)
      BY <1>2, <2>1 DEF GetCacheEntry, Same, Go, TypeOK, dict, counts, locks, hand, victim, Entry, Entered
    <3>2. pc[q] = "link" => key'[e[q]] = key[e[q]] /\ obj'[e[q]] = obj[e[q]]
      BY <1>2, <2>1 DEF GetCacheEntry, TypeOK, dict, Entry, Entered
    <3> QED BY <1>q, <3>1, <3>2, SameControl
  <2>2. CASE q = p
    BY <1>2, <1>q, <1>c, <2>2 DEF GetCacheEntry, CacheAssumption, ControlOf, At, Reclaiming, Go, TypeOK, dict, counts, locks, hand, victim, Entry, Entered
  <2> QED BY <2>1, <2>2
<1>3. ASSUME NEW w \in Keys, DeleteCacheEntry(p, w)
      PROVE  ControlOf(q)'
  <2>1. CASE q # p
    <3>1. Same(q)
      BY <1>3, <2>1 DEF DeleteCacheEntry, Same, Go, TypeOK, dict, counts, locks, hand, victim, Entry, Unlink, Entered
    <3>2. pc[q] = "link" => key'[e[q]] = key[e[q]] /\ obj'[e[q]] = obj[e[q]]
      BY <1>3, <2>1, <1>l, <1>q DEF DeleteCacheEntry, TypeOK, dict, Entry, Unlink, Entered
    <3> QED BY <1>q, <3>1, <3>2, SameControl
  <2>2. CASE q = p
    BY <1>3, <1>q, <1>c, <2>2 DEF DeleteCacheEntry, CacheAssumption, ControlOf, At, Reclaiming, Go, TypeOK, dict, counts, locks, hand, victim, Entry, Unlink, Entered
  <2> QED BY <2>1, <2>2
<1>4. ASSUME InsertSearch(p)
      PROVE  ControlOf(q)'
  <2>1. CASE q # p
    <3>1. Same(q)
      BY <1>4, <2>1 DEF InsertSearch, Same, Go, TypeOK, dict, counts, locks, hand, victim, Replace, Take, Entry, Entered
    <3>2. pc[q] = "link" => key'[e[q]] = key[e[q]] /\ obj'[e[q]] = obj[e[q]]
      BY <1>4, <2>1, <1>l, <1>q DEF InsertSearch, TypeOK, dict, Replace, Take, Entry, Entered
    <3> QED BY <1>q, <3>1, <3>2, SameControl
  <2>2. CASE q = p
    BY <1>4, <1>q, <1>c, <2>2 DEF InsertSearch, CacheAssumption, ControlOf, At, Reclaiming, Go, TypeOK, dict, counts, locks, hand, victim, Replace, Take, Entry, Entered
  <2> QED BY <2>1, <2>2
<1>5. ASSUME InsertAllocate(p)
      PROVE  ControlOf(q)'
  <2>1. CASE q # p
    <3>1. Same(q)
      BY <1>5, <2>1 DEF InsertAllocate, Same, Go, TypeOK, dict, counts, locks, hand, victim, Take
    <3>2. pc[q] = "link" => key'[e[q]] = key[e[q]] /\ obj'[e[q]] = obj[e[q]]
      BY <1>5, <2>1 DEF InsertAllocate, TypeOK, dict, Take
    <3> QED BY <1>q, <3>1, <3>2, SameControl
  <2>2. CASE q = p
    BY <1>5, <1>q, <1>c, <2>2 DEF InsertAllocate, CacheAssumption, ControlOf, At, Reclaiming, Go, TypeOK, dict, counts, locks, hand, victim, Take
  <2> QED BY <2>1, <2>2
<1>6. ASSUME InsertFill(p)
      PROVE  ControlOf(q)'
  <2>1. CASE q # p
    <3>1. Same(q)
      BY <1>6, <2>1 DEF InsertFill, Same, Go, TypeOK, dict, counts, locks, hand, victim
    <3>2. pc[q] = "link" => key'[e[q]] = key[e[q]] /\ obj'[e[q]] = obj[e[q]]
      BY <1>6, <2>1, <1>l, <1>q DEF InsertFill, TypeOK, dict, ControlOf, At, Reclaiming, Hand
    <3> QED BY <1>q, <3>1, <3>2, SameControl
  <2>2. CASE q = p
    BY <1>6, <1>q, <1>c, <2>2 DEF InsertFill, CacheAssumption, ControlOf, At, Reclaiming, Go, TypeOK, dict, counts, locks, hand, victim
  <2> QED BY <2>1, <2>2
<1>7. ASSUME InsertLink(p)
      PROVE  ControlOf(q)'
  <2>1. CASE q # p
    <3>1. Same(q)
      BY <1>7, <2>1 DEF InsertLink, Same, Go, TypeOK, dict, counts, locks, hand, victim, Replace, Done, Entry, Entered
    <3>2. pc[q] = "link" => key'[e[q]] = key[e[q]] /\ obj'[e[q]] = obj[e[q]]
      BY <1>7, <2>1, <1>l, <1>q DEF InsertLink, TypeOK, dict, Replace, Done, Entry, Entered, ControlOf, At, Reclaiming, Hand
    <3> QED BY <1>q, <3>1, <3>2, SameControl
  <2>2. CASE q = p
    BY <1>7, <1>q, <1>c, <2>2 DEF InsertLink, CacheAssumption, ControlOf, At, Reclaiming, Go, TypeOK, dict, counts, locks, hand, victim, Replace, Done, Entry, Entered
  <2> QED BY <2>1, <2>2
<1>8. ASSUME Drop(p)
      PROVE  ControlOf(q)'
  <2>1. CASE q # p
    <3>1. Same(q)
      BY <1>8, <2>1 DEF Drop, Same, Go, TypeOK, dict, counts, locks, hand, victim, Done
    <3>2. pc[q] = "link" => key'[e[q]] = key[e[q]] /\ obj'[e[q]] = obj[e[q]]
      BY <1>8, <2>1 DEF Drop, TypeOK, dict, Done
    <3> QED BY <1>q, <3>1, <3>2, SameControl
  <2>2. CASE q = p
    BY <1>8, <1>q, <1>c, <2>2 DEF Drop, CacheAssumption, ControlOf, At, Reclaiming, Go, TypeOK, dict, counts, locks, hand, victim, Done
  <2> QED BY <2>1, <2>2
<1>9. ASSUME LateNewest(p)
      PROVE  ControlOf(q)'
  <2>1. CASE q # p
    <3>1. Same(q)
      BY <1>9, <2>1 DEF LateNewest, Same, Go, TypeOK, dict, counts, locks, hand, victim, Done
    <3>2. pc[q] = "link" => key'[e[q]] = key[e[q]] /\ obj'[e[q]] = obj[e[q]]
      BY <1>9, <2>1 DEF LateNewest, TypeOK, dict, Done
    <3> QED BY <1>q, <3>1, <3>2, SameControl
  <2>2. CASE q = p
    BY <1>9, <1>q, <1>c, <2>2 DEF LateNewest, CacheAssumption, ControlOf, At, Reclaiming, Go, TypeOK, dict, counts, locks, hand, victim, Done
  <2> QED BY <2>1, <2>2
<1>22. ASSUME LateMoved(p)
       PROVE  ControlOf(q)'
  <2>1. CASE q # p
    <3>1. Same(q)
      BY <1>22, <2>1 DEF LateMoved, Same, Go, TypeOK, dict, counts, locks, hand, victim, Done
    <3>2. pc[q] = "link" => key'[e[q]] = key[e[q]] /\ obj'[e[q]] = obj[e[q]]
      BY <1>22, <2>1 DEF LateMoved, TypeOK, dict, Done
    <3> QED BY <1>q, <3>1, <3>2, SameControl
  <2>2. CASE q = p
    BY <1>22, <1>q, <1>c, <2>2 DEF LateMoved, CacheAssumption, ControlOf, At, Reclaiming, Go, TypeOK, dict, counts, locks, hand, victim, Done
  <2> QED BY <2>1, <2>2
<1>10. ASSUME ReclaimMemory(p)
      PROVE  ControlOf(q)'
  <2>1. CASE q # p
    <3>1. Same(q)
      BY <1>10, <2>1 DEF ReclaimMemory, Same, Go, TypeOK, dict, counts, locks, hand, victim
    <3>2. pc[q] = "link" => key'[e[q]] = key[e[q]] /\ obj'[e[q]] = obj[e[q]]
      BY <1>10, <2>1 DEF ReclaimMemory, TypeOK, dict
    <3> QED BY <1>q, <3>1, <3>2, SameControl
  <2>2. CASE q = p
    BY <1>10, <1>q, <1>c, <2>2 DEF ReclaimMemory, CacheAssumption, ControlOf, At, Reclaiming, Go, TypeOK, dict, counts, locks, hand, victim
  <2> QED BY <2>1, <2>2
<1>11. ASSUME ReclaimDisable(p)
      PROVE  ControlOf(q)'
  <2>1. CASE q # p
    <3>1. Same(q)
      BY <1>11, <2>1 DEF ReclaimDisable, Same, Go, TypeOK, dict, counts, locks, hand, victim
    <3>2. pc[q] = "link" => key'[e[q]] = key[e[q]] /\ obj'[e[q]] = obj[e[q]]
      BY <1>11, <2>1 DEF ReclaimDisable, TypeOK, dict
    <3> QED BY <1>q, <3>1, <3>2, SameControl
  <2>2. CASE q = p
    BY <1>11, <1>q, <1>c, <2>2 DEF ReclaimDisable, CacheAssumption, ControlOf, At, Reclaiming, Go, TypeOK, dict, counts, locks, hand, victim
  <2> QED BY <2>1, <2>2
<1>12. ASSUME BeginIterateSorted(p)
      PROVE  ControlOf(q)'
  <2>1. CASE q # p
    <3>1. Same(q)
      BY <1>12, <2>1 DEF BeginIterateSorted, Same, Go, TypeOK, dict, counts, locks, hand, victim
    <3>2. pc[q] = "link" => key'[e[q]] = key[e[q]] /\ obj'[e[q]] = obj[e[q]]
      BY <1>12, <2>1 DEF BeginIterateSorted, TypeOK, dict
    <3> QED BY <1>q, <3>1, <3>2, SameControl
  <2>2. CASE q = p
    BY <1>12, <1>q, <1>c, <2>2 DEF BeginIterateSorted, CacheAssumption, ControlOf, At, Reclaiming, Go, TypeOK, dict, counts, locks, hand, victim
  <2> QED BY <2>1, <2>2
<1>13. ASSUME IterateSorted(p)
      PROVE  ControlOf(q)'
  <2>1. CASE q # p
    <3>1. Same(q)
      BY <1>13, <2>1 DEF IterateSorted, Same, Go, TypeOK, dict, counts, locks, hand, victim
    <3>2. pc[q] = "link" => key'[e[q]] = key[e[q]] /\ obj'[e[q]] = obj[e[q]]
      BY <1>13, <2>1 DEF IterateSorted, TypeOK, dict
    <3> QED BY <1>q, <3>1, <3>2, SameControl
  <2>2. CASE q = p
    BY <1>13, <1>q, <1>c, <2>2 DEF IterateSorted, CacheAssumption, ControlOf, At, Reclaiming, Go, TypeOK, dict, counts, locks, hand, victim
  <2> QED BY <2>1, <2>2
<1>14. ASSUME Evict(p)
      PROVE  ControlOf(q)'
  <2>1. CASE q # p
    <3>1. Same(q)
      BY <1>14, <2>1 DEF Evict, Same, Go, TypeOK, dict, counts, locks, hand, victim, Entry, Unlink, Entered
    <3>2. pc[q] = "link" => key'[e[q]] = key[e[q]] /\ obj'[e[q]] = obj[e[q]]
      BY <1>14, <2>1, <1>l, <1>q DEF Evict, TypeOK, dict, Entry, Unlink, Entered
    <3> QED BY <1>q, <3>1, <3>2, SameControl
  <2>2. CASE q = p
    <3>1. CASE Go(p, "next") /\ UNCHANGED vg
      BY <1>14, <1>q, <1>c, <2>2, <3>1 DEF Evict, ControlOf, At, Reclaiming, Go, TypeOK, hand
    <3>2. ASSUME NEW a \in table, vg' = [vg EXCEPT ![p] = obj[a]], Go(p, "evicted")
          PROVE  ControlOf(q)'
      BY <1>14, <1>q, <1>c, <2>2, <3>2 DEF Evict, ControlOf, At, Reclaiming, Go, TypeOK, hand, Entered, CacheAssumption
    <3> QED BY <1>14, <3>1, <3>2 DEF Evict, Entry
  <2> QED BY <2>1, <2>2
<1>15. ASSUME EvictDrop(p)
      PROVE  ControlOf(q)'
  <2>1. CASE q # p
    <3>1. Same(q)
      BY <1>15, <2>1 DEF EvictDrop, Same, Go, TypeOK, dict, counts, locks, hand, victim
    <3>2. pc[q] = "link" => key'[e[q]] = key[e[q]] /\ obj'[e[q]] = obj[e[q]]
      BY <1>15, <2>1 DEF EvictDrop, TypeOK, dict
    <3> QED BY <1>q, <3>1, <3>2, SameControl
  <2>2. CASE q = p
    BY <1>15, <1>q, <1>c, <2>2 DEF EvictDrop, CacheAssumption, ControlOf, At, Reclaiming, Go, TypeOK, dict, counts, locks, hand, victim
  <2> QED BY <2>1, <2>2
<1>16. ASSUME DictionaryCompact(p)
      PROVE  ControlOf(q)'
  <2>1. CASE q # p
    <3>1. Same(q)
      BY <1>16, <2>1 DEF DictionaryCompact, Same, Go, TypeOK, dict, counts, locks, hand, victim
    <3>2. pc[q] = "link" => key'[e[q]] = key[e[q]] /\ obj'[e[q]] = obj[e[q]]
      BY <1>16, <2>1, <1>l, <1>q DEF DictionaryCompact, TypeOK, dict
    <3> QED BY <1>q, <3>1, <3>2, SameControl
  <2>2. CASE q = p
    BY <1>16, <1>q, <1>c, <2>2 DEF DictionaryCompact, CacheAssumption, ControlOf, At, Reclaiming, Go, TypeOK, dict, counts, locks, hand, victim
  <2> QED BY <2>1, <2>2
<1>17. ASSUME ReclaimEnable(p)
      PROVE  ControlOf(q)'
  <2>1. CASE q # p
    <3>1. Same(q)
      BY <1>17, <2>1 DEF ReclaimEnable, Same, Go, TypeOK, dict, counts, locks, hand, victim
    <3>2. pc[q] = "link" => key'[e[q]] = key[e[q]] /\ obj'[e[q]] = obj[e[q]]
      BY <1>17, <2>1 DEF ReclaimEnable, TypeOK, dict
    <3> QED BY <1>q, <3>1, <3>2, SameControl
  <2>2. CASE q = p
    BY <1>17, <1>q, <1>c, <2>2 DEF ReclaimEnable, CacheAssumption, ControlOf, At, Reclaiming, Go, TypeOK, dict, counts, locks, hand, victim
  <2> QED BY <2>1, <2>2
<1>18. ASSUME NEW all \in BOOLEAN, CacheFlush(p, all)
      PROVE  ControlOf(q)'
  <2>1. CASE q # p
    <3>1. Same(q)
      BY <1>18, <2>1 DEF CacheFlush, Same, Go, TypeOK, dict, counts, locks, hand, victim
    <3>2. pc[q] = "link" => key'[e[q]] = key[e[q]] /\ obj'[e[q]] = obj[e[q]]
      BY <1>18, <2>1 DEF CacheFlush, TypeOK, dict
    <3> QED BY <1>q, <3>1, <3>2, SameControl
  <2>2. CASE q = p
    BY <1>18, <1>q, <1>c, <2>2 DEF CacheFlush, CacheAssumption, ControlOf, At, Reclaiming, Go, TypeOK, dict, counts, locks, hand, victim
  <2> QED BY <2>1, <2>2
<1>19. ASSUME BeginIterate(p)
      PROVE  ControlOf(q)'
  <2>1. CASE q # p
    <3>1. Same(q)
      BY <1>19, <2>1 DEF BeginIterate, Same, Go, TypeOK, dict, counts, locks, hand, victim
    <3>2. pc[q] = "link" => key'[e[q]] = key[e[q]] /\ obj'[e[q]] = obj[e[q]]
      BY <1>19, <2>1 DEF BeginIterate, TypeOK, dict
    <3> QED BY <1>q, <3>1, <3>2, SameControl
  <2>2. CASE q = p
    BY <1>19, <1>q, <1>c, <2>2 DEF BeginIterate, CacheAssumption, ControlOf, At, Reclaiming, Go, TypeOK, dict, counts, locks, hand, victim
  <2> QED BY <2>1, <2>2
<1>20. ASSUME DeleteNoLock(p)
      PROVE  ControlOf(q)'
  <2>1. CASE q # p
    <3>1. Same(q)
      BY <1>20, <2>1 DEF DeleteNoLock, Same, Go, TypeOK, dict, counts, locks, hand, victim, Unlink, Flushed
    <3>2. pc[q] = "link" => key'[e[q]] = key[e[q]] /\ obj'[e[q]] = obj[e[q]]
      BY <1>20, <2>1, <1>l, <1>q DEF DeleteNoLock, TypeOK, dict, Unlink, Flushed
    <3> QED BY <1>q, <3>1, <3>2, SameControl
  <2>2. CASE q = p
    BY <1>20, <1>q, <1>c, <2>2 DEF DeleteNoLock, CacheAssumption, ControlOf, At, Reclaiming, Go, TypeOK, dict, counts, locks, hand, victim, Unlink, Flushed
  <2> QED BY <2>1, <2>2
<1>21. ASSUME EndIterate(p)
      PROVE  ControlOf(q)'
  <2>1. CASE q # p
    <3>1. Same(q)
      BY <1>21, <2>1 DEF EndIterate, Same, Go, TypeOK, dict, counts, locks, hand, victim
    <3>2. pc[q] = "link" => key'[e[q]] = key[e[q]] /\ obj'[e[q]] = obj[e[q]]
      BY <1>21, <2>1 DEF EndIterate, TypeOK, dict
    <3> QED BY <1>q, <3>1, <3>2, SameControl
  <2>2. CASE q = p
    BY <1>21, <1>q, <1>c, <2>2 DEF EndIterate, CacheAssumption, ControlOf, At, Reclaiming, Go, TypeOK, dict, counts, locks, hand, victim
  <2> QED BY <2>1, <2>2
<1> QED BY <1>1, <1>2, <1>3, <1>4, <1>5, <1>6, <1>7, <1>8, <1>9, <1>10, <1>11, <1>12, <1>13, <1>14, <1>15, <1>16, <1>17, <1>18, <1>19, <1>20, <1>21, <1>22 DEF Step

(* When no element moves, every element still is in one place.             *)
LEMMA SamePlaces ==
  ASSUME InOnePlace, UNCHANGED <<table, free, heap>>, \A q \in Procs : Hand(q)' = Hand(q)
  PROVE  InOnePlace'
BY DEF InOnePlace

\* The elements that are an entry, the allocator's or free.
Stored == table \cup heap \cup ToSet(free)

(* When a processor takes an element or puts one back, every element still *)
(* is in one place.                                                        *)
LEMMA HandMoves ==
  ASSUME InOnePlace, NEW p \in Procs, NEW x, x # None,
         IsInjective(free'), table' \cap heap' = {}, ToSet(free') \cap (table' \cup heap') = {},
         \A q \in Procs \ {p} : Hand(q)' = Hand(q),
         \/ x \in Stored /\ Stored' = Stored \ {x} /\ Hand(p) = None /\ Hand(p)' = x
         \/ Stored' = Stored \cup {x} /\ Hand(p) = x /\ Hand(p)' = None /\ None \notin Stored
  PROVE  InOnePlace'
<1>1. \A q \in Procs : Hand(q)' \notin Stored'
  BY DEF InOnePlace, Stored
<1>2. \A q, r \in Procs : Hand(q)' = Hand(r)' /\ Hand(q)' # None => q = r
  BY DEF InOnePlace, Stored
<1>3. \A a \in Elements : a \in Stored' \/ \E q \in Procs : Hand(q)' = a
  <2> SUFFICES ASSUME NEW a \in Elements, a \notin Stored'
               PROVE  \E q \in Procs : Hand(q)' = a
    OBVIOUS
  <2>1. a \in Stored \/ \E q \in Procs : Hand(q) = a
    BY DEF InOnePlace, Stored
  <2>2. a # None
    BY CacheAssumption
  <2> QED BY <2>1, <2>2
<1> QED BY <1>1, <1>2, <1>3 DEF InOnePlace, Stored

(* When keys and objects change outside the table only, the entries are    *)
(* the ones there were.                                                    *)
LEMMA SameEntries ==
  ASSUME Entered, OneEntryPerKey, table' \subseteq table,
         \A a \in table' : key'[a] = key[a] /\ obj'[a] = obj[a]
  PROVE  Entered' /\ OneEntryPerKey'
BY DEF Entered, OneEntryPerKey

(* What an unlinking does to entries and places.                           *)
LEMMA UnlinkPlaces ==
  ASSUME IInv, NEW p, NEW a \in table, Unlink(p, a), \A q \in Procs : Hand(q)' = Hand(q)
  PROVE  Entered' /\ InOnePlace' /\ Aged' /\ OneEntryPerKey'
<1>1. /\ a \in Elements /\ table' = table \ {a} /\ heap' = heap /\ obj' = obj
      /\ key' = [key EXCEPT ![a] = None]
      /\ IsInjective(free') /\ ToSet(free') = ToSet(free) \cup {a}
      /\ IsInjective(aging') /\ (mislinked' \/ (ToSet(aging') = ToSet(aging) \ {a} /\ ~mislinked))
  BY Unlinked DEF IInv
<1>2. \A b \in table' : key'[b] = key[b] /\ obj'[b] = obj[b]
  BY <1>1 DEF IInv, TypeOK
<1>3. Entered' /\ OneEntryPerKey'
  BY <1>1, <1>2, SameEntries DEF IInv
<1>4. InOnePlace'
  BY <1>1 DEF IInv, InOnePlace
<1>5. Aged'
  BY <1>1 DEF IInv, Aged
<1> QED BY <1>3, <1>4, <1>5

(* A replaced object leaves the entry with its key, made the newest.       *)
LEMMA ReplacePlaces ==
  ASSUME IInv, NEW p \in Procs, g[p] \in Gvars, NEW a \in table, Replace(p, a), table' = table,
         \A b \in table : key'[b] = key[b]
  PROVE  Entered' /\ Aged' /\ OneEntryPerKey'
<1>1. a \in Elements /\ obj' = [obj EXCEPT ![a] = g[p]] /\ Relink(p, MakeNewest(a))
  BY DEF IInv, TypeOK, Replace
<1>2. IsInjective(aging') /\ (mislinked' \/ (ToSet(aging') = ToSet(aging) \cup {a} /\ ~mislinked))
  BY <1>1, MadeNewest DEF IInv
<1>3. Aged'
  BY <1>2 DEF IInv, Aged
<1>4. Entered' /\ OneEntryPerKey'
  BY <1>1 DEF IInv, TypeOK, Entered, OneEntryPerKey
<1> QED BY <1>3, <1>4

(* A step leaves every element in one place and one entry for a key.       *)
LEMMA PlaceStep ==
  ASSUME IInv, NEW p \in Procs, Step(p)
  PROVE  Entered' /\ InOnePlace' /\ Aged' /\ OneEntryPerKey'
<1> DEFINE Goal == Entered /\ InOnePlace /\ Aged /\ OneEntryPerKey
<1> USE DEF IInv
<1> SUFFICES Goal'
  OBVIOUS
<1>c. ControlOf(p) /\ CacheAssumption
  BY CacheAssumption DEF Control
<1>1. ASSUME ReclaimMemory(p)
      PROVE  Goal'
  <2>1. UNCHANGED dict
    BY <1>1 DEF ReclaimMemory
  <2>2. \A q \in Procs : Hand(q)' = Hand(q)
    BY <1>1, <1>c DEF ReclaimMemory, Hand, ControlOf, At, Reclaiming, Go, TypeOK, dict, counts, locks, hand, victim
  <2> QED BY <2>1, <2>2, SamePlaces, SameEntries DEF dict, Aged
<1>2. ASSUME ReclaimDisable(p)
      PROVE  Goal'
  <2>1. UNCHANGED dict
    BY <1>2 DEF ReclaimDisable
  <2>2. \A q \in Procs : Hand(q)' = Hand(q)
    BY <1>2, <1>c DEF ReclaimDisable, Hand, ControlOf, At, Reclaiming, Go, TypeOK, dict, counts, locks, hand, victim
  <2> QED BY <2>1, <2>2, SamePlaces, SameEntries DEF dict, Aged
<1>3. ASSUME BeginIterateSorted(p)
      PROVE  Goal'
  <2>1. UNCHANGED dict
    BY <1>3 DEF BeginIterateSorted
  <2>2. \A q \in Procs : Hand(q)' = Hand(q)
    BY <1>3, <1>c DEF BeginIterateSorted, Hand, ControlOf, At, Reclaiming, Go, TypeOK, dict, counts, locks, hand, victim
  <2> QED BY <2>1, <2>2, SamePlaces, SameEntries DEF dict, Aged
<1>4. ASSUME IterateSorted(p)
      PROVE  Goal'
  <2>1. UNCHANGED dict
    BY <1>4 DEF IterateSorted
  <2>2. \A q \in Procs : Hand(q)' = Hand(q)
    BY <1>4, <1>c DEF IterateSorted, Hand, ControlOf, At, Reclaiming, Go, TypeOK, dict, counts, locks, hand, victim
  <2> QED BY <2>1, <2>2, SamePlaces, SameEntries DEF dict, Aged
<1>5. ASSUME EvictDrop(p)
      PROVE  Goal'
  <2>1. UNCHANGED dict
    BY <1>5 DEF EvictDrop
  <2>2. \A q \in Procs : Hand(q)' = Hand(q)
    BY <1>5, <1>c DEF EvictDrop, Hand, ControlOf, At, Reclaiming, Go, TypeOK, dict, counts, locks, hand, victim
  <2> QED BY <2>1, <2>2, SamePlaces, SameEntries DEF dict, Aged
<1>6. ASSUME ReclaimEnable(p)
      PROVE  Goal'
  <2>1. UNCHANGED dict
    BY <1>6 DEF ReclaimEnable
  <2>2. \A q \in Procs : Hand(q)' = Hand(q)
    BY <1>6, <1>c DEF ReclaimEnable, Hand, ControlOf, At, Reclaiming, Go, TypeOK, dict, counts, locks, hand, victim
  <2> QED BY <2>1, <2>2, SamePlaces, SameEntries DEF dict, Aged
<1>7. ASSUME NEW all \in BOOLEAN, CacheFlush(p, all)
      PROVE  Goal'
  <2>1. UNCHANGED dict
    BY <1>7 DEF CacheFlush
  <2>2. \A q \in Procs : Hand(q)' = Hand(q)
    BY <1>7, <1>c DEF CacheFlush, Hand, ControlOf, At, Reclaiming, Go, TypeOK, dict, counts, locks, hand, victim
  <2> QED BY <2>1, <2>2, SamePlaces, SameEntries DEF dict, Aged
<1>8. ASSUME BeginIterate(p)
      PROVE  Goal'
  <2>1. UNCHANGED dict
    BY <1>8 DEF BeginIterate
  <2>2. \A q \in Procs : Hand(q)' = Hand(q)
    BY <1>8, <1>c DEF BeginIterate, Hand, ControlOf, At, Reclaiming, Go, TypeOK, dict, counts, locks, hand, victim
  <2> QED BY <2>1, <2>2, SamePlaces, SameEntries DEF dict, Aged
<1>9. ASSUME EndIterate(p)
      PROVE  Goal'
  <2>1. UNCHANGED dict
    BY <1>9 DEF EndIterate
  <2>2. \A q \in Procs : Hand(q)' = Hand(q)
    BY <1>9, <1>c DEF EndIterate, Hand, ControlOf, At, Reclaiming, Go, TypeOK, dict, counts, locks, hand, victim
  <2> QED BY <2>1, <2>2, SamePlaces, SameEntries DEF dict, Aged
<1>10. ASSUME NEW w \in Keys, NEW v \in Gvars, NEW keep \in BOOLEAN, SetCacheEntry(p, w, v, keep)
      PROVE  Goal'
  <2>1. UNCHANGED dict
    BY <1>10 DEF SetCacheEntry
  <2>2. \A q \in Procs : Hand(q)' = Hand(q)
    BY <1>10, <1>c DEF SetCacheEntry, Hand, ControlOf, At, Reclaiming, Go, TypeOK, dict, counts, locks, hand, victim
  <2> QED BY <2>1, <2>2, SamePlaces, SameEntries DEF dict, Aged
<1>11. ASSUME Drop(p)
      PROVE  Goal'
  <2>1. UNCHANGED dict
    BY <1>11 DEF Drop
  <2>2. \A q \in Procs : Hand(q)' = Hand(q)
    BY <1>11, <1>c DEF Drop, Hand, ControlOf, At, Reclaiming, Go, TypeOK, dict, counts, locks, hand, victim, Done
  <2> QED BY <2>1, <2>2, SamePlaces, SameEntries DEF dict, Aged
<1>12. ASSUME LateNewest(p)
      PROVE  Goal'
  <2>1. UNCHANGED <<table, key, obj, free, heap>>
    BY <1>12 DEF LateNewest
  <2>2. \A q \in Procs : Hand(q)' = Hand(q)
    BY <1>12, <1>c DEF LateNewest, Hand, Go, TypeOK, hand, Done
  <2>3. Aged'
    BY <1>12, <2>1 DEF LateNewest, Aged, TypeOK, IsInjective
  <2> QED BY <2>1, <2>2, <2>3, SamePlaces, SameEntries
<1>22. ASSUME LateMoved(p)
       PROVE  Goal'
  <2>1. UNCHANGED <<table, key, obj, free, heap>>
    BY <1>22 DEF LateMoved
  <2>2. \A q \in Procs : Hand(q)' = Hand(q)
    BY <1>22, <1>c DEF LateMoved, Hand, Go, TypeOK, Done
  <2>3. e[p] \in Elements
    BY <1>22, <1>c DEF LateMoved, ControlOf, At, Reclaiming, TypeOK
  <2>4. Aged'
    BY <1>22, <2>1, <2>3, MadeNewest DEF LateMoved, Aged
  <2> QED BY <2>1, <2>2, <2>4, SamePlaces, SameEntries
<1>13. ASSUME InsertFill(p)
      PROVE  Goal'
  <2>1. UNCHANGED <<table, free, heap, aging, mislinked>>
    BY <1>13 DEF InsertFill
  <2>2. \A q \in Procs : Hand(q)' = Hand(q)
    BY <1>13, <1>c DEF InsertFill, Hand, Go, TypeOK, dict, counts, locks, hand, victim
  <2>3. e[p] \notin table
    BY <1>13, <1>c DEF InsertFill, Hand, InOnePlace
  <2>4. \A a \in table : key'[a] = key[a] /\ obj'[a] = obj[a]
    BY <1>13, <2>3 DEF InsertFill, TypeOK
  <2> QED BY <2>1, <2>2, <2>4, SamePlaces, SameEntries DEF Aged
<1>14. ASSUME InsertAllocate(p)
      PROVE  Goal'
  <2>1. PICK a \in heap : Take(p, a) /\ heap' = heap \ {a}
    BY <1>14 DEF InsertAllocate
  <2>2. UNCHANGED <<table, key, obj, free, aging, mislinked>>
    BY <1>14 DEF InsertAllocate
  <2>3. Hand(p) = None /\ Hand(p)' = a /\ \A q \in Procs \ {p} : Hand(q)' = Hand(q)
    BY <1>14, <1>c, <2>1 DEF InsertAllocate, Take, Hand, ControlOf, At, Reclaiming, Go, TypeOK, dict, counts, locks, hand, victim
  <2>4. a \in Elements /\ a # None /\ a \notin table /\ a \notin ToSet(free)
    BY <1>c DEF InOnePlace, TypeOK, CacheAssumption
  <2>5. /\ IsInjective(free') /\ table' \cap heap' = {} /\ ToSet(free') \cap (table' \cup heap') = {}
        /\ a \in Stored /\ Stored' = Stored \ {a}
    BY <2>1, <2>2, <2>4 DEF InOnePlace, Stored
  <2>6. InOnePlace'
    BY <2>3, <2>4, <2>5, HandMoves
  <2> QED BY <2>2, <2>6, SameEntries DEF Aged
<1>15. ASSUME InsertSearch(p)
      PROVE  Goal'
  <2>h. Hand(p) = None /\ g[p] \in Gvars
    BY <1>15, <1>c DEF InsertSearch, Hand, ControlOf, At, Reclaiming, TypeOK
  <2>1. ASSUME NEW a \in Entry(k[p]), Replace(p, a), e' = [e EXCEPT ![p] = a], Go(p, "replaced"),
               UNCHANGED <<table, key, free, heap, k>>
        PROVE  Goal'
    <3>1. \A q \in Procs : Hand(q)' = Hand(q)
      BY <2>h, <2>1 DEF Hand, Go, TypeOK
    <3>2. InOnePlace'
      BY <2>1, <3>1, SamePlaces
    <3> QED BY <2>h, <2>1, <3>2, ReplacePlaces DEF Entry
  <2>2. ASSUME free # <<>>, Take(p, Head(free)), free' = Tail(free),
               UNCHANGED <<table, key, obj, heap, aging, mislinked, k, g>>
        PROVE  Goal'
    <3>1. /\ Head(free) \in Elements /\ Head(free) \in ToSet(free)
          /\ IsInjective(free') /\ ToSet(free') = ToSet(free) \ {Head(free)}
      BY <2>2, TailSet DEF TypeOK, InOnePlace
    <3>2. Hand(p)' = Head(free) /\ \A q \in Procs \ {p} : Hand(q)' = Hand(q)
      BY <2>2 DEF Take, Go, Hand, TypeOK
    <3>3. InOnePlace'
      BY <1>c, <2>h, <2>2, <3>1, <3>2 DEF InOnePlace, CacheAssumption
    <3> QED BY <2>2, <3>3, SameEntries DEF Aged
  <2>3. ASSUME Go(p, "alloc"), UNCHANGED <<dict, hand>>
        PROVE  Goal'
    <3>1. \A q \in Procs : Hand(q)' = Hand(q)
      <4>1. pc[p] = "search"
        BY <1>15 DEF InsertSearch
      <4> QED BY <2>3, <4>1 DEF Hand, Go, TypeOK, hand
    <3> QED BY <2>3, <3>1, SamePlaces, SameEntries DEF dict, Aged
  <2> QED BY <1>15, <2>1, <2>2, <2>3 DEF InsertSearch
<1>16. ASSUME InsertLink(p)
      PROVE  Goal'
  <2>h. /\ Hand(p) = e[p] /\ e[p] \in Elements /\ g[p] \in Gvars /\ k[p] \in Keys
        /\ key[e[p]] = k[p] /\ obj[e[p]] = g[p]
        /\ e[p] \notin table \cup heap \cup ToSet(free)
    BY <1>16, <1>c DEF InsertLink, Hand, ControlOf, At, Reclaiming, TypeOK, InOnePlace
  <2>1. ASSUME NEW a \in Entry(k[p]), Replace(p, a), free' = <<e[p]>> \o free,
               key' = [key EXCEPT ![e[p]] = None], e' = [e EXCEPT ![p] = None], Go(p, "drop"),
               UNCHANGED <<table, heap, k>>
        PROVE  Goal'
    <3>1. IsInjective(free') /\ ToSet(free') = ToSet(free) \cup {e[p]}
      BY <2>h, <2>1, ConsSet DEF TypeOK, InOnePlace
    <3>2. Hand(p)' = None /\ \A q \in Procs \ {p} : Hand(q)' = Hand(q)
      BY <2>1 DEF Hand, Go, TypeOK
    <3>5. /\ table' \cap heap' = {} /\ ToSet(free') \cap (table' \cup heap') = {}
          /\ Stored' = Stored \cup {e[p]}
      BY <2>h, <2>1, <3>1 DEF InOnePlace, Stored
    <3>6. None \notin Stored /\ e[p] # None
      BY <1>c, <2>h, ElementOfSeq, LenProperties DEF Stored, TypeOK, CacheAssumption, ToSet
    <3>3. InOnePlace'
      BY <2>h, <3>1, <3>2, <3>5, <3>6, HandMoves
    <3>4. \A b \in table : key'[b] = key[b]
      BY <2>h, <2>1 DEF TypeOK
    <3> QED BY <2>h, <2>1, <3>3, <3>4, ReplacePlaces DEF Entry
  <2>2. ASSUME Entry(k[p]) = {}, table' = table \cup {e[p]}, Relink(p, MakeNewest(e[p])), Done(p),
               UNCHANGED <<key, obj, free, heap>>
        PROVE  Goal'
    <3>1. Aged'
      BY <2>h, <2>2, MadeNewest DEF Aged
    <3>2. Entered' /\ OneEntryPerKey'
      BY <2>h, <2>2 DEF Entered, OneEntryPerKey, Entry
    <3>3. Hand(p)' = None /\ \A q \in Procs \ {p} : Hand(q)' = Hand(q)
      BY <2>2 DEF Hand, Done, Go, TypeOK
    <3>5. /\ IsInjective(free') /\ table' \cap heap' = {} /\ ToSet(free') \cap (table' \cup heap') = {}
          /\ Stored' = Stored \cup {e[p]}
      BY <2>h, <2>2 DEF InOnePlace, Stored
    <3>6. None \notin Stored /\ e[p] # None
      BY <1>c, <2>h, ElementOfSeq, LenProperties DEF Stored, TypeOK, CacheAssumption, ToSet
    <3>4. InOnePlace'
      BY <2>h, <3>3, <3>5, <3>6, HandMoves
    <3> QED BY <3>1, <3>2, <3>4
  <2> QED BY <1>16, <2>1, <2>2 DEF InsertLink
<1>17. ASSUME NEW w \in Keys, DeleteCacheEntry(p, w)
      PROVE  Goal'
  <2>1. PICK a \in table : Unlink(p, a)
    BY <1>17 DEF DeleteCacheEntry, Entry
  <2>2. \A q \in Procs : Hand(q)' = Hand(q)
    BY <1>17 DEF DeleteCacheEntry, Hand, Go, TypeOK, dict, counts, locks, hand, victim
  <2> QED BY <2>1, <2>2, UnlinkPlaces
<1>18. ASSUME DeleteNoLock(p)
      PROVE  Goal'
  <2>1. PICK a \in table : Unlink(p, a)
    BY <1>18 DEF DeleteNoLock, Flushed
  <2>2. \A q \in Procs : Hand(q)' = Hand(q)
    BY <1>18 DEF DeleteNoLock, Hand, Go, TypeOK, dict, counts, locks, hand, victim
  <2> QED BY <2>1, <2>2, UnlinkPlaces
<1>19. ASSUME Evict(p)
      PROVE  Goal'
  <2>1. \A q \in Procs : Hand(q)' = Hand(q)
    <3>1. /\ e' = e /\ pc[p] = "evict"
          /\ \E x \in {"next", "evicted"} : pc' = [pc EXCEPT ![p] = x]
      BY <1>19 DEF Evict, hand, Go
    <3> QED BY <3>1 DEF Hand, TypeOK
  <2>2. CASE UNCHANGED dict
    BY <2>1, <2>2, SamePlaces, SameEntries DEF dict, Aged
  <2>3. CASE \E a \in table : Unlink(p, a)
    BY <2>1, <2>3, UnlinkPlaces
  <2> QED BY <1>19, <2>2, <2>3 DEF Evict, Entry
<1>20. ASSUME NEW w \in Keys, GetCacheEntry(p, w)
      PROVE  Goal'
  <2>1. UNCHANGED <<table, key, obj, free, heap>>
    BY <1>20 DEF GetCacheEntry
  <2>2. \A q \in Procs : Hand(q)' = Hand(q)
    BY <1>20 DEF GetCacheEntry, Hand, Go, TypeOK
  <2>3. PICK a \in table : Relink(p, MakeNewest(a))
    BY <1>20 DEF GetCacheEntry, Entry
  <2>4. Aged'
    BY <2>1, <2>3, MadeNewest DEF Aged, TypeOK
  <2> QED BY <2>1, <2>2, <2>4, SamePlaces, SameEntries
<1>21. ASSUME DictionaryCompact(p)
      PROVE  Goal'
  <2>1. \A q \in Procs : Hand(q)' = Hand(q)
    <3>1. /\ e' = e /\ pc[p] = "next"
          /\ \E x \in {"end", "walk"} : pc' = [pc EXCEPT ![p] = x]
      BY <1>21 DEF DictionaryCompact, hand, Go
    <3> QED BY <3>1 DEF Hand, TypeOK
  <2>2. UNCHANGED <<table, key, aging, mislinked>>
    BY <1>21 DEF DictionaryCompact
  <2>3. CASE UNCHANGED <<obj, free, heap>>
    BY <2>1, <2>2, <2>3, SamePlaces, SameEntries DEF Aged
  <2>4. CASE /\ free' = <<>> /\ heap' = heap \cup ToSet(free)
             /\ obj' = [a \in Elements |-> IF Contains(free, a) THEN None ELSE obj[a]]
    <3>1. \A a \in table : a \in Elements /\ ~Contains(free, a)
      BY LenProperties DEF InOnePlace, Contains, ToSet, TypeOK
    <3>2. Entered' /\ OneEntryPerKey'
      BY <2>2, <2>4, <3>1, SameEntries
    <3>3. IsInjective(free') /\ ToSet(free') = {}
      BY <2>4 DEF IsInjective, ToSet
    <3>4. InOnePlace'
      BY <2>1, <2>2, <2>4, <3>3 DEF InOnePlace
    <3> QED BY <2>2, <3>2, <3>4 DEF Aged
  <2> QED BY <1>21, <2>3, <2>4 DEF DictionaryCompact
<1> QED BY <1>1, <1>2, <1>3, <1>4, <1>5, <1>6, <1>7, <1>8, <1>9, <1>10, <1>11, <1>12, <1>13, <1>14, <1>15, <1>16, <1>17, <1>18, <1>19, <1>20, <1>21, <1>22 DEF Step

-----------------------------------------------------------------------------
(* How the three counts of a gvar change.                                  *)

(* A processor that changes what it holds changes the count of holders.    *)
LEMMA HoldersChange ==
  ASSUME NEW p \in Procs, NEW x, g'[p] = x, \A q \in Procs \ {p} : g'[q] = g[q], NEW v
  PROVE  /\ (x = v <=> g[p] = v) => Cardinality(Holders(v)') = Cardinality(Holders(v))
         /\ x = v /\ g[p] # v => Cardinality(Holders(v)') = Cardinality(Holders(v)) + 1
         /\ x # v /\ g[p] = v => Cardinality(Holders(v)') + 1 = Cardinality(Holders(v))
<1>1. Holders(v)' = Fiber(Procs, g', v) /\ Holders(v) = Fiber(Procs, g, v)
  BY DEF Holders, Fiber
<1>2. IsFiniteSet(Procs) /\ Fiber(Procs \ {p}, g', v) = Fiber(Procs \ {p}, g, v)
  BY CacheAssumption DEF Fiber
<1> QED BY <1>1, <1>2, FiberChanged

(* One that held nothing adds itself to the holders.                       *)
LEMMA HoldersGain ==
  ASSUME TypeOK, NEW p \in Procs, NEW x, g'[p] = x, \A q \in Procs \ {p} : g'[q] = g[q],
         NEW v \in Gvars, g[p] = None
  PROVE  Cardinality(Holders(v)') = Cardinality(Holders(v)) + (IF x = v THEN 1 ELSE 0)
<1>1. g[p] # v /\ Cardinality(Holders(v)) \in Nat
  BY CacheAssumption, Counts
<1>2. CASE x = v
  BY <1>1, <1>2, HoldersChange
<1>3. CASE x # v
  BY <1>1, <1>3, HoldersChange
<1> QED BY <1>2, <1>3

(* One that lets go takes itself away.                                     *)
LEMMA HoldersLose ==
  ASSUME TypeOK, NEW p \in Procs, g'[p] = None, \A q \in Procs \ {p} : g'[q] = g[q],
         NEW v \in Gvars
  PROVE  /\ Cardinality(Holders(v)) = Cardinality(Holders(v)') + (IF g[p] = v THEN 1 ELSE 0)
         /\ Cardinality(Holders(v)') \in Nat
<1>1. v # None /\ Cardinality(Holders(v)) \in Nat /\ IsFiniteSet(Procs)
  BY CacheAssumption, Counts
<1>2. Holders(v)' = Fiber(Procs, g', v)
  BY DEF Holders, Fiber
<1>3. Cardinality(Holders(v)') \in Nat
  BY <1>1, <1>2, FiberFinite
<1>4. CASE g[p] = v
  BY <1>1, <1>3, <1>4, HoldersChange
<1>5. CASE g[p] # v
  BY <1>1, <1>3, <1>5, HoldersChange
<1> QED BY <1>4, <1>5

(* The same of the victims of reclaims: one changes, ...                   *)
LEMMA ReclaimersChange ==
  ASSUME NEW p \in Procs, NEW x, vg'[p] = x, \A q \in Procs \ {p} : vg'[q] = vg[q], NEW v
  PROVE  /\ (x = v <=> vg[p] = v) => Cardinality(Reclaimers(v)') = Cardinality(Reclaimers(v))
         /\ x = v /\ vg[p] # v => Cardinality(Reclaimers(v)') = Cardinality(Reclaimers(v)) + 1
         /\ x # v /\ vg[p] = v => Cardinality(Reclaimers(v)') + 1 = Cardinality(Reclaimers(v))
<1>1. Reclaimers(v)' = Fiber(Procs, vg', v) /\ Reclaimers(v) = Fiber(Procs, vg, v)
  BY DEF Reclaimers, Fiber
<1>2. IsFiniteSet(Procs) /\ Fiber(Procs \ {p}, vg', v) = Fiber(Procs \ {p}, vg, v)
  BY CacheAssumption DEF Fiber
<1> QED BY <1>1, <1>2, FiberChanged

(* ... is found, ...                                                       *)
LEMMA ReclaimersGain ==
  ASSUME TypeOK, NEW p \in Procs, NEW x, vg'[p] = x, \A q \in Procs \ {p} : vg'[q] = vg[q],
         NEW v \in Gvars, vg[p] = None
  PROVE  Cardinality(Reclaimers(v)') = Cardinality(Reclaimers(v)) + (IF x = v THEN 1 ELSE 0)
<1>1. vg[p] # v /\ Cardinality(Reclaimers(v)) \in Nat
  BY CacheAssumption, Counts
<1>2. CASE x = v
  BY <1>1, <1>2, ReclaimersChange
<1>3. CASE x # v
  BY <1>1, <1>3, ReclaimersChange
<1> QED BY <1>2, <1>3

(* ... and is dropped.                                                     *)
LEMMA ReclaimersLose ==
  ASSUME TypeOK, NEW p \in Procs, vg'[p] = None, \A q \in Procs \ {p} : vg'[q] = vg[q],
         NEW v \in Gvars
  PROVE  /\ Cardinality(Reclaimers(v)) = Cardinality(Reclaimers(v)') + (IF vg[p] = v THEN 1 ELSE 0)
         /\ Cardinality(Reclaimers(v)') \in Nat
<1>1. v # None /\ Cardinality(Reclaimers(v)) \in Nat /\ IsFiniteSet(Procs)
  BY CacheAssumption, Counts
<1>2. Reclaimers(v)' = Fiber(Procs, vg', v)
  BY DEF Reclaimers, Fiber
<1>3. Cardinality(Reclaimers(v)') \in Nat
  BY <1>1, <1>2, FiberFinite
<1>4. CASE vg[p] = v
  BY <1>1, <1>3, <1>4, ReclaimersChange
<1>5. CASE vg[p] # v
  BY <1>1, <1>3, <1>5, ReclaimersChange
<1> QED BY <1>4, <1>5

(* An entry that changes its object changes the count of entries.          *)
LEMMA EntriesReplace ==
  ASSUME TypeOK, NEW a \in table, NEW x, table' = table, obj'[a] = x,
         \A b \in table \ {a} : obj'[b] = obj[b], NEW v
  PROVE  /\ (x = v <=> obj[a] = v) => Cardinality(Entries(v)') = Cardinality(Entries(v))
         /\ x = v /\ obj[a] # v => Cardinality(Entries(v)') = Cardinality(Entries(v)) + 1
         /\ x # v /\ obj[a] = v => Cardinality(Entries(v)') + 1 = Cardinality(Entries(v))
<1>1. Entries(v)' = Fiber(table, obj', v) /\ Entries(v) = Fiber(table, obj, v)
  BY DEF Entries, Fiber
<1>2. IsFiniteSet(table) /\ Fiber(table \ {a}, obj', v) = Fiber(table \ {a}, obj, v)
  BY Counts DEF Fiber
<1> QED BY <1>1, <1>2, FiberChanged

(* An entry that is added adds itself to the entries of its object.        *)
LEMMA EntriesAdd ==
  ASSUME TypeOK, NEW a, a \notin table, table' = table \cup {a}, obj' = obj, NEW v
  PROVE  Cardinality(Entries(v)') = Cardinality(Entries(v)) + (IF obj[a] = v THEN 1 ELSE 0)
<1>1. Entries(v)' = Fiber(table \cup {a}, obj, v) /\ Entries(v) = Fiber(table, obj, v)
  BY DEF Entries, Fiber
<1> QED BY <1>1, Counts, FiberAdded

(* The entries of an object in what remains of the table can be counted.   *)
LEMMA EntriesNat ==
  ASSUME TypeOK, table' \subseteq table, obj' = obj, NEW v
  PROVE  Cardinality(Entries(v)') \in Nat
<1>1. Entries(v)' = Fiber(table', obj, v)
  BY DEF Entries, Fiber
<1>2. IsFiniteSet(table')
  BY Counts, FS_Subset
<1> QED BY <1>1, <1>2, FiberFinite

(* An entry that is removed takes itself away.                             *)
LEMMA EntriesRemove ==
  ASSUME TypeOK, NEW a \in table, table' = table \ {a}, obj' = obj, NEW v
  PROVE  Cardinality(Entries(v)) = Cardinality(Entries(v)') + (IF obj[a] = v THEN 1 ELSE 0)
<1>1. Entries(v)' = Fiber(table \ {a}, obj, v) /\ Entries(v) = Fiber(table, obj, v)
  BY DEF Entries, Fiber
<1> QED BY <1>1, Counts, FiberRemoved

(* A replaced object and the one that replaces it change places.           *)
LEMMA ReplaceCounts ==
  ASSUME TypeOK, NEW p \in Procs, NEW a \in table, Replace(p, a), table' = table, NEW v
  PROVE  Cardinality(Entries(v)') + Cardinality(Holders(v)') = Cardinality(Entries(v)) + Cardinality(Holders(v))
<1>1. /\ obj'[a] = g[p] /\ \A b \in table \ {a} : obj'[b] = obj[b]
      /\ g'[p] = obj[a] /\ \A q \in Procs \ {p} : g'[q] = g[q]
  BY DEF Replace, TypeOK
<1>2. /\ Cardinality(Entries(v)) \in Nat /\ Cardinality(Entries(v)') \in Nat
      /\ Cardinality(Holders(v)) \in Nat /\ Cardinality(Holders(v)') \in Nat
  <2>1. Entries(v)' = Fiber(table, obj', v) /\ Holders(v)' = Fiber(Procs, g', v)
    BY DEF Entries, Holders, Fiber
  <2> QED BY <2>1, Counts, FiberFinite
<1>3. /\ (g[p] = v <=> obj[a] = v) => Cardinality(Entries(v)') = Cardinality(Entries(v))
      /\ g[p] = v /\ obj[a] # v => Cardinality(Entries(v)') = Cardinality(Entries(v)) + 1
      /\ g[p] # v /\ obj[a] = v => Cardinality(Entries(v)') + 1 = Cardinality(Entries(v))
  BY <1>1, EntriesReplace
<1>4. /\ (obj[a] = v <=> g[p] = v) => Cardinality(Holders(v)') = Cardinality(Holders(v))
      /\ obj[a] = v /\ g[p] # v => Cardinality(Holders(v)') = Cardinality(Holders(v)) + 1
      /\ obj[a] # v /\ g[p] = v => Cardinality(Holders(v)') + 1 = Cardinality(Holders(v))
  BY <1>1, HoldersChange
<1> QED BY <1>2, <1>3, <1>4

\* The count of v and whether it exists agree with the references to it.
RefsOf(v) ==
  /\ refs[v] = Cardinality(Entries(v)) + Cardinality(Holders(v)) + Cardinality(Reclaimers(v))
  /\ v \in live <=> refs[v] > 0

(* They go on agreeing when no reference comes or goes.                    *)
LEMMA SameRefs ==
  ASSUME RefsExact, UNCHANGED <<table, g, vg, refs, live>>, \A a \in table : obj'[a] = obj[a]
  PROVE  RefsExact'
<1> SUFFICES ASSUME NEW v \in Gvars PROVE RefsOf(v)'
  BY DEF RefsExact, RefsOf
<1>1. RefsOf(v)
  BY DEF RefsExact, RefsOf
<1>2. Entries(v)' = Entries(v) /\ Holders(v)' = Holders(v) /\ Reclaimers(v)' = Reclaimers(v)
  BY DEF Entries, Holders, Reclaimers
<1> QED BY <1>1, <1>2 DEF RefsOf

(* ExDelete takes one from the count of its gvar, which was at least one.  *)
LEMMA DeleteCounts ==
  ASSUME TypeOK, RefsExact, NEW w \in Gvars, refs[w] >= 1, ExDelete(w), NEW v \in Gvars
  PROVE  /\ refs'[v] = refs[v] - (IF w = v THEN 1 ELSE 0)
         /\ v \in live' <=> refs'[v] > 0
<1>1. refs[v] \in Nat /\ refs[w] \in Nat /\ (v \in live <=> refs[v] > 0)
  BY DEF TypeOK, RefsExact
<1>2. refs' = [refs EXCEPT ![w] = @ - 1] /\ refs \in [Gvars -> Nat]
  BY DEF ExDelete, TypeOK
<1>3. CASE w = v
  BY <1>1, <1>2, <1>3 DEF ExDelete
<1>4. CASE w # v
  BY <1>1, <1>2, <1>4 DEF ExDelete
<1> QED BY <1>3, <1>4

(* A step keeps every reference count exact.                               *)
LEMMA RefsStep ==
  ASSUME IInv, NEW p \in Procs, Step(p)
  PROVE  RefsExact'
<1> USE DEF IInv
<1>c. ControlOf(p) /\ CacheAssumption
  BY CacheAssumption DEF Control
<1>r. ASSUME NEW v \in Gvars
      PROVE  /\ RefsOf(v) /\ refs[v] \in Nat /\ v # None
             /\ Cardinality(Entries(v)) \in Nat /\ Cardinality(Holders(v)) \in Nat
             /\ Cardinality(Reclaimers(v)) \in Nat
  BY CacheAssumption, Counts DEF RefsExact, RefsOf, TypeOK
<1>s. (\A v \in Gvars : RefsOf(v)') => RefsExact'
  BY DEF RefsExact, RefsOf
<1>h. ASSUME NEW v \in Gvars, vg' = vg PROVE Reclaimers(v)' = Reclaimers(v)
  BY <1>h DEF Reclaimers
<1>t. ASSUME NEW v \in Gvars, table' = table, obj' = obj PROVE Entries(v)' = Entries(v)
  BY <1>t DEF Entries
<1>g. ASSUME NEW v \in Gvars, g' = g PROVE Holders(v)' = Holders(v)
  BY <1>g DEF Holders
<1>1. ASSUME ReclaimMemory(p)
      PROVE  RefsExact'
  <2>1. UNCHANGED <<table, obj, g, vg, refs, live>>
    BY <1>1 DEF ReclaimMemory, dict, counts, hand, victim
  <2> QED BY <2>1, SameRefs
<1>2. ASSUME ReclaimDisable(p)
      PROVE  RefsExact'
  <2>1. UNCHANGED <<table, obj, g, vg, refs, live>>
    BY <1>2 DEF ReclaimDisable, dict, counts, hand, victim
  <2> QED BY <2>1, SameRefs
<1>3. ASSUME BeginIterateSorted(p)
      PROVE  RefsExact'
  <2>1. UNCHANGED <<table, obj, g, vg, refs, live>>
    BY <1>3 DEF BeginIterateSorted, dict, counts, hand, victim
  <2> QED BY <2>1, SameRefs
<1>4. ASSUME IterateSorted(p)
      PROVE  RefsExact'
  <2>1. UNCHANGED <<table, obj, g, vg, refs, live>>
    BY <1>4 DEF IterateSorted, dict, counts, hand, victim
  <2> QED BY <2>1, SameRefs
<1>5. ASSUME ReclaimEnable(p)
      PROVE  RefsExact'
  <2>1. UNCHANGED <<table, obj, g, vg, refs, live>>
    BY <1>5 DEF ReclaimEnable, dict, counts, hand, victim
  <2> QED BY <2>1, SameRefs
<1>6. ASSUME NEW all \in BOOLEAN, CacheFlush(p, all)
      PROVE  RefsExact'
  <2>1. UNCHANGED <<table, obj, g, vg, refs, live>>
    BY <1>6 DEF CacheFlush, dict, counts, hand, victim
  <2> QED BY <2>1, SameRefs
<1>7. ASSUME BeginIterate(p)
      PROVE  RefsExact'
  <2>1. UNCHANGED <<table, obj, g, vg, refs, live>>
    BY <1>7 DEF BeginIterate, dict, counts, hand, victim
  <2> QED BY <2>1, SameRefs
<1>8. ASSUME EndIterate(p)
      PROVE  RefsExact'
  <2>1. UNCHANGED <<table, obj, g, vg, refs, live>>
    BY <1>8 DEF EndIterate, dict, counts, hand, victim
  <2> QED BY <2>1, SameRefs
<1>9. ASSUME InsertAllocate(p)
      PROVE  RefsExact'
  <2>1. UNCHANGED <<table, obj, g, vg, refs, live>>
    BY <1>9 DEF InsertAllocate, dict, counts, hand, victim
  <2> QED BY <2>1, SameRefs
<1>10. ASSUME LateNewest(p)
      PROVE  RefsExact'
  <2>1. g[p] = None
    BY <1>10, <1>c DEF LateNewest, ControlOf, At, Reclaiming
  <2>2. UNCHANGED <<table, obj, g, vg, refs, live>>
    BY <1>10, <2>1 DEF LateNewest, Done, counts, hand, victim, TypeOK
  <2> QED BY <2>2, SameRefs
<1>22. ASSUME LateMoved(p)
       PROVE  RefsExact'
  <2>1. g[p] = None
    BY <1>22, <1>c DEF LateMoved, ControlOf, At, Reclaiming
  <2>2. UNCHANGED <<table, obj, g, vg, refs, live>>
    BY <1>22, <2>1 DEF LateMoved, Done, counts, victim, TypeOK
  <2> QED BY <2>2, SameRefs
<1>11. ASSUME InsertFill(p)
      PROVE  RefsExact'
  <2>1. UNCHANGED <<table, g, vg, refs, live>>
    BY <1>11 DEF InsertFill, counts, hand, victim
  <2>2. e[p] \notin table
    BY <1>11 DEF InsertFill, Hand, InOnePlace
  <2>3. \A a \in table : obj'[a] = obj[a]
    BY <1>11, <2>2 DEF InsertFill, TypeOK
  <2> QED BY <2>1, <2>3, SameRefs
<1>12. ASSUME DictionaryCompact(p)
      PROVE  RefsExact'
  <2>1. UNCHANGED <<table, g, vg, refs, live>>
    BY <1>12 DEF DictionaryCompact, counts, hand, victim
  <2>2. \A a \in table : a \in Elements /\ ~Contains(free, a)
    BY LenProperties DEF InOnePlace, Contains, ToSet, TypeOK
  <2>3. \A a \in table : obj'[a] = obj[a]
    BY <1>12, <2>2 DEF DictionaryCompact
  <2> QED BY <2>1, <2>3, SameRefs
<1>13. ASSUME NEW w \in Keys, NEW x \in Gvars, NEW keep \in BOOLEAN, SetCacheEntry(p, w, x, keep)
      PROVE  RefsExact'
  <2> SUFFICES ASSUME NEW v \in Gvars PROVE RefsOf(v)'
    BY <1>s
  <2>0. g'[p] = x /\ \A q \in Procs \ {p} : g'[q] = g[q]
    BY <1>13 DEF SetCacheEntry, TypeOK
  <2>1. g[p] = None /\ vg' = vg /\ table' = table /\ obj' = obj
    BY <1>13, <1>c DEF SetCacheEntry, dict, victim, ControlOf, At, Reclaiming
  <2>2. Cardinality(Holders(v)') = Cardinality(Holders(v)) + (IF x = v THEN 1 ELSE 0)
    BY <2>0, <2>1, HoldersGain
  <2>3. refs[x] = 0
    BY <1>13, <1>r DEF SetCacheEntry, RefsOf
  <2>4. refs'[v] = refs[v] + (IF x = v THEN 1 ELSE 0) /\ (v \in live' <=> refs'[v] > 0)
    BY <1>13, <1>r, <2>3 DEF SetCacheEntry, RefsOf, TypeOK
  <2> QED BY <1>r, <1>h, <1>t, <2>1, <2>2, <2>4 DEF RefsOf
<1>14. ASSUME NEW w \in Keys, GetCacheEntry(p, w)
      PROVE  RefsExact'
  <2> SUFFICES ASSUME NEW v \in Gvars PROVE RefsOf(v)'
    BY <1>s
  <2>1. PICK a \in Entry(w) : /\ refs' = [refs EXCEPT ![obj[a]] = @ + 1]
                             /\ g' = [g EXCEPT ![p] = obj[a]]
    BY <1>14 DEF GetCacheEntry
  <2>0. g'[p] = obj[a] /\ \A q \in Procs \ {p} : g'[q] = g[q]
    BY <2>1 DEF TypeOK
  <2>2. g[p] = None /\ vg' = vg /\ table' = table /\ obj' = obj /\ live' = live
    BY <1>14, <1>c DEF GetCacheEntry, victim, ControlOf, At, Reclaiming
  <2>3. a \in table /\ obj[a] \in Gvars
    BY DEF Entry, Entered
  <2>4. Cardinality(Holders(v)') = Cardinality(Holders(v)) + (IF obj[a] = v THEN 1 ELSE 0)
    BY <2>0, <2>2, HoldersGain
  <2>5. obj[a] \in live
    BY <2>3, HeldIsLive
  <2>6. refs'[v] = refs[v] + (IF obj[a] = v THEN 1 ELSE 0) /\ (v \in live' <=> refs'[v] > 0)
    BY <1>r, <2>1, <2>2, <2>3, <2>5 DEF RefsOf, TypeOK
  <2> QED BY <1>r, <1>h, <1>t, <2>2, <2>4, <2>6 DEF RefsOf
<1>15. ASSUME NEW w \in Keys, DeleteCacheEntry(p, w)
      PROVE  RefsExact'
  <2> SUFFICES ASSUME NEW v \in Gvars PROVE RefsOf(v)'
    BY <1>s
  <2>1. PICK a \in Entry(w) : Unlink(p, a) /\ g' = [g EXCEPT ![p] = obj[a]]
    BY <1>15 DEF DeleteCacheEntry
  <2>0. g'[p] = obj[a] /\ \A q \in Procs \ {p} : g'[q] = g[q]
    BY <2>1 DEF TypeOK
  <2>2. g[p] = None /\ vg' = vg /\ refs' = refs /\ live' = live
    BY <1>15, <1>c DEF DeleteCacheEntry, counts, victim, ControlOf, At, Reclaiming
  <2>3. a \in table /\ table' = table \ {a} /\ obj' = obj
    BY <2>1 DEF Entry, Unlink
  <2>4. Cardinality(Holders(v)') = Cardinality(Holders(v)) + (IF obj[a] = v THEN 1 ELSE 0)
    BY <2>0, <2>2, HoldersGain
  <2>5. /\ Cardinality(Entries(v)) = Cardinality(Entries(v)') + (IF obj[a] = v THEN 1 ELSE 0)
        /\ Cardinality(Entries(v)') \in Nat
    BY <2>3, EntriesRemove, EntriesNat
  <2> QED BY <1>r, <1>h, <2>2, <2>4, <2>5 DEF RefsOf
<1>16. ASSUME InsertSearch(p)
      PROVE  RefsExact'
  <2> SUFFICES ASSUME NEW v \in Gvars PROVE RefsOf(v)'
    BY <1>s
  <2>1. vg' = vg /\ refs' = refs /\ live' = live
    BY <1>16 DEF InsertSearch, counts, victim
  <2>2. CASE UNCHANGED <<table, obj, g>>
    BY <1>r, <1>h, <1>t, <1>g, <2>1, <2>2 DEF RefsOf
  <2>3. CASE \E a \in table : Replace(p, a) /\ table' = table
    BY <1>r, <1>h, <2>1, <2>3, ReplaceCounts DEF RefsOf
  <2>4. UNCHANGED <<table, obj, g>> \/ \E a \in table : Replace(p, a) /\ table' = table
    BY <1>16 DEF InsertSearch, Entry, dict, hand
  <2> QED BY <2>2, <2>3, <2>4
<1>17. ASSUME InsertLink(p)
      PROVE  RefsExact'
  <2> SUFFICES ASSUME NEW v \in Gvars PROVE RefsOf(v)'
    BY <1>s
  <2>1. vg' = vg /\ refs' = refs /\ live' = live
    BY <1>17 DEF InsertLink, counts, victim
  <2>2. CASE \E a \in table : Replace(p, a) /\ table' = table
    BY <1>r, <1>h, <2>1, <2>2, ReplaceCounts DEF RefsOf
  <2>3. CASE /\ table' = table \cup {e[p]} /\ obj' = obj /\ g' = [g EXCEPT ![p] = None]
    <3>1. e[p] \notin table /\ obj[e[p]] = g[p]
      BY <1>17, <1>c DEF InsertLink, Hand, InOnePlace, ControlOf
    <3>2. Cardinality(Entries(v)') = Cardinality(Entries(v)) + (IF g[p] = v THEN 1 ELSE 0)
      BY <2>3, <3>1, EntriesAdd
    <3>0. g'[p] = None /\ \A q \in Procs \ {p} : g'[q] = g[q]
      BY <2>3 DEF TypeOK
    <3>3. /\ Cardinality(Holders(v)) = Cardinality(Holders(v)') + (IF g[p] = v THEN 1 ELSE 0)
          /\ Cardinality(Holders(v)') \in Nat
      BY <3>0, HoldersLose
    <3> QED BY <1>r, <1>h, <2>1, <3>2, <3>3 DEF RefsOf
  <2>4. \/ \E a \in table : Replace(p, a) /\ table' = table
        \/ /\ table' = table \cup {e[p]} /\ obj' = obj /\ g' = [g EXCEPT ![p] = None]
    BY <1>17 DEF InsertLink, Entry, Done
  <2> QED BY <2>2, <2>3, <2>4
<1>18. ASSUME Drop(p)
      PROVE  RefsExact'
  <2> SUFFICES ASSUME NEW v \in Gvars PROVE RefsOf(v)'
    BY <1>s
  <2>0. g'[p] = None /\ \A q \in Procs \ {p} : g'[q] = g[q]
    BY <1>18 DEF Drop, Done, TypeOK
  <2>1. g[p] \in Gvars /\ ExDelete(g[p]) /\ vg' = vg /\ table' = table /\ obj' = obj
    BY <1>18, <1>c DEF Drop, Done, dict, victim, TypeOK, ControlOf, At, Reclaiming
  <2>2. /\ Cardinality(Holders(v)) = Cardinality(Holders(v)') + (IF g[p] = v THEN 1 ELSE 0)
        /\ Cardinality(Holders(v)') \in Nat
    BY <2>0, HoldersLose
  <2>3. refs'[v] = refs[v] - (IF g[p] = v THEN 1 ELSE 0) /\ (v \in live' <=> refs'[v] > 0)
    BY <2>1, HeldIsLive, DeleteCounts
  <2> QED BY <1>r, <1>h, <1>t, <2>1, <2>2, <2>3 DEF RefsOf
<1>19. ASSUME Evict(p)
      PROVE  RefsExact'
  <2> SUFFICES ASSUME NEW v \in Gvars PROVE RefsOf(v)'
    BY <1>s
  <2>1. g' = g /\ refs' = refs /\ live' = live
    BY <1>19 DEF Evict, counts, hand
  <2>2. CASE UNCHANGED <<table, obj, vg>>
    BY <1>r, <1>h, <1>t, <1>g, <2>1, <2>2 DEF RefsOf
  <2>3. CASE \E a \in table : Unlink(p, a) /\ vg' = [vg EXCEPT ![p] = obj[a]]
    <3>1. PICK a \in table : Unlink(p, a) /\ vg' = [vg EXCEPT ![p] = obj[a]]
      BY <2>3
    <3>2. vg[p] = None /\ table' = table \ {a} /\ obj' = obj
      BY <1>19, <1>c, <3>1 DEF Evict, ControlOf, Unlink
    <3>0. vg'[p] = obj[a] /\ \A q \in Procs \ {p} : vg'[q] = vg[q]
      BY <3>1 DEF TypeOK
    <3>3. Cardinality(Reclaimers(v)') = Cardinality(Reclaimers(v)) + (IF obj[a] = v THEN 1 ELSE 0)
      BY <3>0, <3>2, ReclaimersGain
    <3>4. /\ Cardinality(Entries(v)) = Cardinality(Entries(v)') + (IF obj[a] = v THEN 1 ELSE 0)
          /\ Cardinality(Entries(v)') \in Nat
      BY <3>2, EntriesRemove, EntriesNat
    <3> QED BY <1>r, <1>g, <2>1, <3>3, <3>4 DEF RefsOf
  <2>4. \/ UNCHANGED <<table, obj, vg>>
        \/ \E a \in table : Unlink(p, a) /\ vg' = [vg EXCEPT ![p] = obj[a]]
    BY <1>19 DEF Evict, Entry, dict
  <2> QED BY <2>2, <2>3, <2>4
<1>20. ASSUME EvictDrop(p)
      PROVE  RefsExact'
  <2> SUFFICES ASSUME NEW v \in Gvars PROVE RefsOf(v)'
    BY <1>s
  <2>0. vg'[p] = None /\ \A q \in Procs \ {p} : vg'[q] = vg[q]
    BY <1>20 DEF EvictDrop, TypeOK
  <2>1. vg[p] \in Gvars /\ ExDelete(vg[p]) /\ g' = g /\ table' = table /\ obj' = obj
    BY <1>20, <1>c DEF EvictDrop, dict, hand, TypeOK, ControlOf
  <2>2. /\ Cardinality(Reclaimers(v)) = Cardinality(Reclaimers(v)') + (IF vg[p] = v THEN 1 ELSE 0)
        /\ Cardinality(Reclaimers(v)') \in Nat
    BY <2>0, ReclaimersLose
  <2>3. refs'[v] = refs[v] - (IF vg[p] = v THEN 1 ELSE 0) /\ (v \in live' <=> refs'[v] > 0)
    BY <2>1, HeldIsLive, DeleteCounts
  <2> QED BY <1>r, <1>g, <1>t, <2>1, <2>2, <2>3 DEF RefsOf
<1>21. ASSUME DeleteNoLock(p)
      PROVE  RefsExact'
  <2> SUFFICES ASSUME NEW v \in Gvars PROVE RefsOf(v)'
    BY <1>s
  <2>1. PICK a \in table : Unlink(p, a) /\ ExDelete(obj[a])
    BY <1>21 DEF DeleteNoLock, Flushed
  <2>2. obj[a] \in Gvars /\ table' = table \ {a} /\ obj' = obj /\ g' = g /\ vg' = vg
    BY <1>21, <2>1 DEF DeleteNoLock, Unlink, hand, victim, Entered
  <2>3. /\ Cardinality(Entries(v)) = Cardinality(Entries(v)') + (IF obj[a] = v THEN 1 ELSE 0)
        /\ Cardinality(Entries(v)') \in Nat
    BY <2>2, EntriesRemove, EntriesNat
  <2>4. refs'[v] = refs[v] - (IF obj[a] = v THEN 1 ELSE 0) /\ (v \in live' <=> refs'[v] > 0)
    BY <2>1, <2>2, HeldIsLive, DeleteCounts
  <2> QED BY <1>r, <1>g, <1>h, <2>2, <2>3, <2>4 DEF RefsOf
<1> QED BY <1>1, <1>2, <1>3, <1>4, <1>5, <1>6, <1>7, <1>8, <1>9, <1>10, <1>11, <1>12, <1>13, <1>14, <1>15, <1>16, <1>17, <1>18, <1>19, <1>20, <1>21, <1>22 DEF Step

-----------------------------------------------------------------------------
(* The invariant holds in every reachable state.                           *)
THEOREM Invariant == Spec => []IInv
<1>1. IInv /\ [Next]_vars => IInv'
  <2> SUFFICES ASSUME IInv, [Next]_vars PROVE IInv'
    OBVIOUS
  <2>1. ASSUME NEW p \in Procs, Step(p) PROVE IInv'
    BY <2>1, TypeStep, ControlStep, PlaceStep, RefsStep DEF IInv
  <2>2. CASE UNCHANGED vars
    <3>1. UNCHANGED <<table, key, obj, free, heap, aging, mislinked, iterItem, refs, live, permanent, dlock, rec_sem,
                      astray, pc, back, k, g, e, vk, vg, second>>
      BY <2>2 DEF vars, dict, counts, locks, hand, victim
    <3>2. TypeOK' /\ Entered' /\ OneEntryPerKey' /\ Aged'
      BY <3>1 DEF IInv, TypeOK, Entered, OneEntryPerKey, Aged
    <3>3. Control' /\ InOnePlace'
      BY <3>1 DEF IInv, Control, ControlOf, At, InOnePlace, Hand
    <3>4. RefsExact'
      BY <3>1, SameRefs DEF IInv
    <3> QED BY <3>2, <3>3, <3>4 DEF IInv
  <2> QED BY <2>1, <2>2 DEF Next
<1> QED BY <1>1, InitIInv, PTL DEF Spec

(* Every variable of the cache has its type, always.                       *)
THEOREM TypeCorrect == Spec => []TypeOK
<1>1. IInv => TypeOK
  BY DEF IInv
<1> QED BY <1>1, Invariant, PTL

(* A gvar's count is the number of entries and processors that refer to    *)
(* it, and it exists exactly as long as there is one.                      *)
THEOREM CountsAreExact == Spec => []RefsExact
<1>1. IInv => RefsExact
  BY DEF IInv
<1> QED BY <1>1, Invariant, PTL

(* However many processors insert a key at a time, one entry comes of it.  *)
THEOREM OneEntry == Spec => []OneEntryPerKey
<1>1. IInv => OneEntryPerKey
  BY DEF IInv
<1> QED BY <1>1, Invariant, PTL

(* Counting the places of an element: each of the four counts is 0 or 1.   *)
LEMMA OnePlaceCounted ==
  ASSUME IInv, NEW a \in Elements
  PROVE  Cardinality({p \in Procs : e[p] = a /\ pc[p] \notin {"replaced", "late", "move"}})
         + Cardinality({i \in DOMAIN free : free[i] = a})
         + (IF a \in table THEN 1 ELSE 0) + (IF a \in heap THEN 1 ELSE 0) = 1
<1> DEFINE P == {p \in Procs : e[p] = a /\ pc[p] \notin {"replaced", "late", "move"}}
           F == {i \in DOMAIN free : free[i] = a}
<1>1. a # None
  BY CacheAssumption
<1>2. P = {p \in Procs : Hand(p) = a}
  BY <1>1 DEF Hand
<1>3. (F = {} <=> a \notin ToSet(free)) /\ (F # {} => \E i : F = {i})
  BY DEF IInv, InOnePlace, IsInjective, ToSet
<1>4. P # {} => \E p : P = {p}
  BY <1>1, <1>2 DEF IInv, InOnePlace
<1>5. /\ P = {} <=> \A p \in Procs : Hand(p) # a
      /\ P # {} => a \notin table \cup heap \cup ToSet(free)
      /\ a \notin table \cup heap \cup ToSet(free) => P # {}
  BY <1>2 DEF IInv, InOnePlace
<1>6. a \in table => a \notin heap /\ a \notin ToSet(free)
  BY DEF IInv, InOnePlace
<1>7. a \in heap => a \notin ToSet(free)
  BY DEF IInv, InOnePlace
<1> HIDE DEF P, F
<1>8. Cardinality(P) = IF P = {} THEN 0 ELSE 1
  BY <1>4, FS_EmptySet, FS_Singleton
<1>9. Cardinality(F) = IF F = {} THEN 0 ELSE 1
  BY <1>3, FS_EmptySet, FS_Singleton
<1>10. Cardinality(P) + Cardinality(F) + (IF a \in table THEN 1 ELSE 0) + (IF a \in heap THEN 1 ELSE 0) = 1
  BY <1>3, <1>5, <1>6, <1>7, <1>8, <1>9
<1> QED BY <1>10 DEF P, F

(* An element is an entry, free, the allocator's or in the hands of one    *)
(* processor, whatever becomes of the aging list, and until an unlocked    *)
(* move has overlapped another edit every entry is in that list once.      *)
THEOREM OnePlace == Spec => []ElementsInOnePlace
<1>1. IInv => ElementsInOnePlace
  BY OnePlaceCounted DEF ElementsInOnePlace, IInv, Aged
<1> QED BY <1>1, Invariant, PTL

=============================================================================
