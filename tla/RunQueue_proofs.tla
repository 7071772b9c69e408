--------------------------- MODULE RunQueue_proofs ---------------------------
(***************************************************************************)
(* Proofs about RunQueue, for any processors, groups, batches, blocks and  *)
(* bound: the lists, the count and the ownership of the blocks are as the  *)
(* invariants of RunQueue say, and rq.c implements JobQueue.               *)
(***************************************************************************)
EXTENDS RunQueue, FiniteSetTheorems, SequenceTheorems, WellFoundedInduction, TLAPS

(* A set of numbers that is not empty has a least one.                     *)
LEMMA Least ==
  ASSUME NEW T, T \subseteq Nat, T # {}
  PROVE  \E x \in T : \A y \in T : x <= y
<1> DEFINE R == {ss \in Nat \X Nat : ss[1] < ss[2]}
<1>1. IsWellFoundedOn(R, Nat)
  BY NatLessThanWellFounded DEF OpToRel
<1>2. \E x \in T : \A y \in T : ~ (<<y, x>> \in R)
  BY <1>1, WFMin, Zenon
<1>3. \A x, y \in Nat : y < x => <<y, x>> \in R
  OBVIOUS
<1> HIDE DEF R
<1>4. \A x, y \in T : x <= y \/ y < x
  OBVIOUS
<1>5. PICK x \in T : \A y \in T : ~ (<<y, x>> \in R)
  BY <1>2
<1>6. \A y \in T : x <= y
  BY <1>3, <1>4, <1>5
<1> QED BY <1>6

(* The least element that Min chooses.                                     *)
LEMMA MinLeast ==
  ASSUME NEW T, T \subseteq Nat, T # {}
  PROVE  Min(T) \in T /\ \A y \in T : Min(T) <= y
BY Least DEF Min

-----------------------------------------------------------------------------
(* Linked lists.                                                           *)

\* The elements of a sequence, none twice.
Once(s) == \A i, j \in 1..Len(s) : s[i] = s[j] => i = j

\* With f in the blocks, the list that starts at h has the blocks of s.
Linked(f, h, s) ==
  /\ s \in Seq(Blocks) /\ Once(s)
  /\ h = IF s = << >> THEN Null ELSE s[1]
  /\ \A i \in 1..Len(s) : f[s[i]].next = IF i < Len(s) THEN s[i + 1] ELSE Null

\* One step of the walk.
Further(f, s) == IF s = << >> \/ f[Last(s)].next = Null THEN s ELSE Append(s, f[Last(s)].next)

Walked(f, h, w) ==
  w = [n \in 0..Cardinality(Blocks) |->
         IF n = 0 THEN IF h = Null THEN << >> ELSE <<h>> ELSE Further(f, w[n - 1])]

(* A list is not longer than there are blocks.                             *)
LEMMA ListBound ==
  ASSUME NEW s \in Seq(Blocks), Once(s)
  PROVE  Cardinality(Blocks) \in Nat /\ Len(s) <= Cardinality(Blocks)
<1>1. IsFiniteSet(Blocks) /\ Cardinality(Blocks) \in Nat
  BY RunQueueAssumption, FS_CardinalityType
<1>2. Len(s) \in Nat /\ s \in [1..Len(s) -> Blocks]
  BY LenProperties
<1>3. s \in Injection(1..Len(s), Blocks)
  BY <1>2 DEF Once, Injection, IsInjective
<1>4. Cardinality(1..Len(s)) <= Cardinality(Blocks)
  BY <1>1, <1>3, FS_Injection
<1>5. Cardinality(1..Len(s)) = Len(s)
  <2>1. 1 \in Int /\ Len(s) \in Int
    BY <1>2
  <2>2. Cardinality(1..Len(s)) = IF 1 > Len(s) THEN 0 ELSE Len(s) - 1 + 1
    BY <2>1, FS_Interval
  <2> QED BY <1>2, <2>2
<1> QED BY <1>1, <1>4, <1>5

(* The prefixes of a list, which the walk goes through.                    *)
LEMMA FurtherPrefix ==
  ASSUME NEW f, NEW h, NEW s, Linked(f, h, s), NEW n \in Nat, n > 0
  PROVE  LET pre(m) == SubSeq(s, 1, IF m + 1 < Len(s) THEN m + 1 ELSE Len(s))
         IN  Further(f, pre(n - 1)) = pre(n)
<1> DEFINE k(m) == IF m + 1 < Len(s) THEN m + 1 ELSE Len(s)
           pre(m) == SubSeq(s, 1, k(m))
<1> SUFFICES Further(f, pre(n - 1)) = pre(n)
  OBVIOUS
<1>1. Len(s) \in Nat /\ s \in [1..Len(s) -> Blocks] /\ s \in Seq(Blocks)
  BY LenProperties DEF Linked
<1>2. \A m \in Nat : /\ pre(m) \in Seq(Blocks) /\ Len(pre(m)) = k(m)
                     /\ \A i \in 1..k(m) : pre(m)[i] = s[i]
  <2> TAKE m \in Nat
  <2>1. k(m) \in Nat /\ k(m) <= Len(s) /\ \A i \in 1..k(m) : s[i] \in Blocks
    BY <1>1
  <2>2. /\ SubSeq(s, 1, k(m)) \in Seq(Blocks)
        /\ Len(SubSeq(s, 1, k(m))) = IF 1 <= k(m) THEN k(m) - 1 + 1 ELSE 0
        /\ \A i \in 1..(k(m) - 1 + 1) : SubSeq(s, 1, k(m))[i] = s[1 + i - 1]
    <3> HIDE DEF k
    <3> QED BY <1>1, <2>1, SubSeqProperties
  <2> HIDE DEF k
  <2>3. Len(SubSeq(s, 1, k(m))) = k(m)
    BY <2>1, <2>2
  <2>4. \A i \in 1..k(m) : SubSeq(s, 1, k(m))[i] = s[i]
    BY <2>1, <2>2
  <2> QED BY <2>2, <2>3, <2>4
<1>3. k(n) \in Nat /\ k(n - 1) \in Nat /\ n - 1 \in Nat
  BY <1>1
<1>4. CASE s = << >>
  <2>1. k(n) = 0 /\ k(n - 1) = 0
    BY <1>1, <1>4
  <2>2. pre(n) = << >> /\ pre(n - 1) = << >>
    <3> HIDE DEF k
    <3>1. pre(n) \in Seq(Blocks) /\ Len(pre(n)) = 0 /\ pre(n - 1) \in Seq(Blocks) /\ Len(pre(n - 1)) = 0
      BY <1>2, <1>3, <2>1
    <3> HIDE DEF pre
    <3> QED BY <3>1, EmptySeq
  <2> QED BY <2>2 DEF Further
<1>5. CASE s # << >>
  <2>1. Len(s) > 0
    BY <1>1, <1>5, EmptySeq
  <2>2. k(n - 1) \in 1..Len(s) /\ k(n) = (IF k(n - 1) < Len(s) THEN k(n - 1) + 1 ELSE k(n - 1))
    BY <1>1, <1>3, <2>1
  <2> HIDE DEF k
  <2>3. /\ pre(n - 1) \in Seq(Blocks) /\ Len(pre(n - 1)) = k(n - 1)
        /\ \A i \in 1..k(n - 1) : pre(n - 1)[i] = s[i]
    BY <1>2, <1>3
  <2>4. /\ pre(n) \in Seq(Blocks) /\ Len(pre(n)) = k(n)
        /\ \A i \in 1..k(n) : pre(n)[i] = s[i]
    BY <1>2
  <2> HIDE DEF pre
  <2>5. pre(n - 1) # << >> /\ Last(pre(n - 1)) = s[k(n - 1)]
    BY <2>2, <2>3, EmptySeq DEF Last
  <2>6. f[s[k(n - 1)]].next = IF k(n - 1) < Len(s) THEN s[k(n - 1) + 1] ELSE Null
    BY <2>2 DEF Linked
  <2>7. CASE k(n - 1) < Len(s)
    <3>1. s[k(n - 1) + 1] \in Blocks /\ s[k(n - 1) + 1] # Null /\ k(n) = k(n - 1) + 1
      BY <1>1, <2>2, <2>7, RunQueueAssumption
    <3>2. Further(f, pre(n - 1)) = Append(pre(n - 1), s[k(n)])
      BY <2>5, <2>6, <2>7, <3>1 DEF Further
    <3>3. Append(pre(n - 1), s[k(n)]) = pre(n)
      <4>1. s[k(n)] \in Blocks
        BY <3>1
      <4>2. /\ Append(pre(n - 1), s[k(n)]) \in Seq(Blocks)
            /\ Len(Append(pre(n - 1), s[k(n)])) = k(n - 1) + 1
            /\ \A i \in 1..k(n - 1) : Append(pre(n - 1), s[k(n)])[i] = pre(n - 1)[i]
            /\ Append(pre(n - 1), s[k(n)])[k(n - 1) + 1] = s[k(n)]
        BY <2>3, <4>1, AppendProperties
      <4>3. \A i \in 1..k(n) : Append(pre(n - 1), s[k(n)])[i] = pre(n)[i]
        BY <1>3, <2>2, <2>3, <2>4, <3>1, <4>2
      <4> DEFINE t == Append(pre(n - 1), s[k(n)])
      <4> HIDE DEF t
      <4>4. t \in Seq(Blocks) /\ Len(t) = k(n) /\ \A i \in 1..k(n) : t[i] = pre(n)[i]
        BY <3>1, <4>2, <4>3 DEF t
      <4>5. t = pre(n)
        BY <2>4, <4>4, SeqEqual
      <4> QED BY <4>5 DEF t
    <3> QED BY <3>2, <3>3
  <2>8. CASE ~(k(n - 1) < Len(s))
    <3>1. Further(f, pre(n - 1)) = pre(n - 1)
      BY <2>5, <2>6, <2>8 DEF Further
    <3>2. k(n) = k(n - 1)
      BY <2>2, <2>8
    <3> QED BY <3>1, <3>2 DEF pre
  <2> QED BY <2>7, <2>8
<1> QED BY <1>4, <1>5

(* The walk along a list gives its blocks.                                 *)
LEMMA WalkIs ==
  ASSUME NEW f, NEW h, NEW s, Linked(f, h, s)
  PROVE  Walk(f, h) = s
<1> DEFINE C == Cardinality(Blocks)
           k(m) == IF m + 1 < Len(s) THEN m + 1 ELSE Len(s)
           pre(m) == SubSeq(s, 1, k(m))
           v == [n \in 0..C |-> pre(n)]
<1>1. C \in Nat /\ Len(s) \in Nat /\ Len(s) <= C /\ s \in Seq(Blocks)
  BY ListBound, LenProperties DEF Linked
<1>2. pre(0) = IF h = Null THEN << >> ELSE <<h>>
  <2>1. CASE s = << >>
    <3>1. h = Null /\ k(0) = 0
      BY <2>1, EmptySeq DEF Linked
    <3>2. SubSeq(s, 1, 0) = << >>
      BY <2>1, <1>1
    <3> QED BY <3>1, <3>2
  <2>2. CASE s # << >>
    <3>1. Len(s) > 0 /\ k(0) = 1
      <4>1. Len(s) > 0
        BY <1>1, <2>2, EmptySeq
      <4>2. \A n \in Nat : n > 0 => (IF 0 + 1 < n THEN 0 + 1 ELSE n) = 1
        OBVIOUS
      <4> QED BY <1>1, <4>1, <4>2
    <3>2. s[1] \in Blocks /\ h = s[1] /\ h # Null
      BY <1>1, <2>2, <3>1, ElementOfSeq, RunQueueAssumption DEF Linked
    <3>3. SubSeq(s, 1, 1) = <<s[1]>>
      <4>1. /\ SubSeq(s, 1, 1) \in Seq(Blocks) /\ Len(SubSeq(s, 1, 1)) = 1
            /\ SubSeq(s, 1, 1)[1] = s[1]
        <5>1. \A i \in 1..1 : s[i] \in Blocks
          BY <3>2
        <5>2. /\ SubSeq(s, 1, 1) \in Seq(Blocks)
              /\ Len(SubSeq(s, 1, 1)) = IF 1 <= 1 THEN 1 - 1 + 1 ELSE 0
              /\ \A i \in 1..(1 - 1 + 1) : SubSeq(s, 1, 1)[i] = s[1 + i - 1]
          BY <1>1, <5>1, SubSeqProperties
        <5> QED BY <5>2
      <4> DEFINE t == SubSeq(s, 1, 1)
      <4> HIDE DEF t
      <4>2. t \in Seq(Blocks) /\ Len(t) = 1 /\ t[1] = s[1]
        BY <4>1 DEF t
      <4>3. t = <<s[1]>>
        BY <3>2, <4>2
      <4> QED BY <4>3 DEF t
    <3> QED BY <3>1, <3>2, <3>3
  <2> QED BY <2>1, <2>2
<1>3. \A n \in 1..C : pre(n) = Further(f, pre(n - 1))
  BY FurtherPrefix
<1> HIDE DEF pre
<1>4. Walked(f, h, v)
  <2>1. ASSUME NEW n \in 0..C
        PROVE  v[n] = IF n = 0 THEN IF h = Null THEN << >> ELSE <<h>> ELSE Further(f, v[n - 1])
    <3>1. CASE n = 0
      BY <1>1, <1>2, <3>1
    <3>2. CASE n # 0
      <4>1. n \in 1..C /\ n - 1 \in 0..C
        BY <1>1, <3>2
      <4> QED BY <1>3, <3>2, <4>1
    <3> QED BY <3>1, <3>2
  <2> QED BY <2>1 DEF Walked
<1>5. \E w : Walked(f, h, w) /\ Walk(f, h) = w[C]
  <2> DEFINE R(w) == w = [n \in 0..Cardinality(Blocks) |->
                            IF n = 0 THEN IF h = Null THEN << >> ELSE <<h>>
                            ELSE LET t == w[n - 1]
                                 IN  IF t = << >> \/ f[Last(t)].next = Null THEN t
                                     ELSE Append(t, f[Last(t)].next)]
  <2>1. R(v)
    BY <1>4 DEF Walked, Further
  <2>2. R(CHOOSE w : R(w))
    BY <2>1
  <2>3. Walk(f, h) = (CHOOSE w : R(w))[Cardinality(Blocks)]
    BY DEF Walk
  <2>4. Walked(f, h, CHOOSE w : R(w))
    BY <2>2 DEF Walked, Further
  <2> QED BY <2>3, <2>4
<1>6. PICK w : Walked(f, h, w) /\ Walk(f, h) = w[C]
  BY <1>5
<1>7. \A n \in 0..C : w[n] = pre(n)
  <2> DEFINE T == {n \in 0..C : w[n] # pre(n)}
  <2>1. CASE T # {}
    <3>1. T \subseteq Nat
      BY <1>1
    <3>2. PICK n \in T : \A m \in T : n <= m
      BY <2>1, <3>1, Least
    <3>3. n # 0
      <4>1. w[0] = IF h = Null THEN << >> ELSE <<h>>
        BY <1>1, <1>6 DEF Walked
      <4> QED BY <1>2, <4>1
    <3>4. n - 1 \in 0..C /\ n \in 1..C
      BY <1>1, <3>3
    <3>5. w[n - 1] = pre(n - 1)
      BY <1>1, <3>2, <3>4
    <3>6. w[n] = Further(f, w[n - 1])
      BY <1>6, <3>3 DEF Walked
    <3> QED BY <1>3, <3>4, <3>5, <3>6
  <2>2. CASE T = {}
    BY <2>2
  <2> QED BY <2>1, <2>2
<1>8. pre(C) = s
  <2>1. k(C) = Len(s)
    BY <1>1
  <2>2. SubSeq(s, 1, Len(s)) = s
    BY <1>1
  <2> QED BY <2>1, <2>2 DEF pre
<1> QED BY <1>1, <1>6, <1>7, <1>8

\* With f in the blocks, the list from h to t has the blocks of s, in both
\* directions.
Doubly(f, h, t, s) ==
  /\ Linked(f, h, s)
  /\ t = IF s = << >> THEN Null ELSE s[Len(s)]
  /\ \A i \in 1..Len(s) : f[s[i]].prev = IF i > 1 THEN s[i - 1] ELSE Null

\* The contents of a block, and the job in it.
Node == [next : Ptr, prev : Ptr, gid : Gids, JID : Procs \cup {0}, highpri : BOOLEAN,
         repeat : Nat, id : Nat]

JobIn(f, k) == [gid |-> f[k].gid, JID |-> f[k].JID, highpri |-> f[k].highpri,
                repeat |-> f[k].repeat, id |-> f[k].id]

\* The job that Insert makes of b[i].
JobFrom(b, i, n) == [gid |-> b[i].gid, JID |-> b[i].JID, highpri |-> b[i].highpri,
                     repeat |-> b[i].repeat, id |-> n + i]

(* What a list has, by index.                                              *)
LEMMA ListElements ==
  ASSUME NEW s \in Seq(Blocks)
  PROVE  /\ Len(s) \in Nat /\ DOMAIN s = 1..Len(s) /\ Range(s) = {s[i] : i \in 1..Len(s)}
         /\ \A i \in 1..Len(s) : s[i] \in Blocks /\ s[i] # Null
         /\ s = << >> <=> Len(s) = 0
<1>1. Len(s) \in Nat /\ DOMAIN s = 1..Len(s)
  BY LenProperties
<1>2. \A i \in 1..Len(s) : s[i] \in Blocks /\ s[i] # Null
  BY ElementOfSeq, RunQueueAssumption
<1>3. s = << >> <=> Len(s) = 0
  BY EmptySeq
<1> QED BY <1>1, <1>2, <1>3 DEF Range

(* A list depends on the links of its blocks only.                         *)
LEMMA LinkedFrame ==
  ASSUME NEW f, NEW g, NEW h, NEW s, Linked(f, h, s), \A k \in Range(s) : g[k].next = f[k].next
  PROVE  Linked(g, h, s)
<1>1. s \in Seq(Blocks)
  BY DEF Linked
<1>2. \A i \in 1..Len(s) : s[i] \in Range(s)
  BY <1>1, ListElements
<1> QED BY <1>2 DEF Linked

(* The same for a doubly linked list: it needs prev too.                   *)
LEMMA DoublyFrame ==
  ASSUME NEW f, NEW g, NEW h, NEW t, NEW s, Doubly(f, h, t, s),
         \A k \in Range(s) : g[k].next = f[k].next /\ g[k].prev = f[k].prev
  PROVE  Doubly(g, h, t, s)
<1>1. Linked(g, h, s) /\ s \in Seq(Blocks)
  BY LinkedFrame DEF Doubly, Linked
<1>2. \A i \in 1..Len(s) : s[i] \in Range(s)
  BY <1>1, ListElements
<1> QED BY <1>1, <1>2 DEF Doubly

(* The elements of a concatenation.                                        *)
LEMMA ConcatElements ==
  ASSUME NEW x \in Seq(Blocks), NEW y \in Seq(Blocks)
  PROVE  /\ x \o y \in Seq(Blocks) /\ Len(x \o y) = Len(x) + Len(y)
         /\ \A i \in 1..Len(x) : (x \o y)[i] = x[i]
         /\ \A i \in 1..Len(y) : (x \o y)[Len(x) + i] = y[i]
         /\ \A i \in 1..(Len(x) + Len(y)) : i \in 1..Len(x) \/ i - Len(x) \in 1..Len(y)
         /\ Range(x \o y) = Range(x) \cup Range(y)
<1>1. Len(x) \in Nat /\ Len(y) \in Nat
  BY ListElements
<1>2. /\ x \o y \in Seq(Blocks) /\ Len(x \o y) = Len(x) + Len(y)
      /\ \A i \in 1..(Len(x) + Len(y)) : (x \o y)[i] = IF i <= Len(x) THEN x[i] ELSE y[i - Len(x)]
  BY ConcatProperties
<1> DEFINE s == x \o y
<1> HIDE DEF s
<1>3. /\ s \in Seq(Blocks) /\ Len(s) = Len(x) + Len(y)
      /\ \A i \in 1..(Len(x) + Len(y)) : s[i] = IF i <= Len(x) THEN x[i] ELSE y[i - Len(x)]
  BY <1>2 DEF s
<1>4. \A i \in 1..Len(x) : s[i] = x[i]
  BY <1>1, <1>3
<1>5. ASSUME NEW i \in 1..Len(y) PROVE s[Len(x) + i] = y[i]
  <2>1. Len(x) + i \in 1..(Len(x) + Len(y)) /\ ~(Len(x) + i <= Len(x)) /\ Len(x) + i - Len(x) = i
    BY <1>1
  <2> QED BY <1>3, <2>1
<1>6. \A i \in 1..(Len(x) + Len(y)) : i \in 1..Len(x) \/ i - Len(x) \in 1..Len(y)
  BY <1>1
<1>7. \A k : k \in Range(s) <=> k \in Range(x) \cup Range(y)
  <2>1. /\ Range(s) = {s[i] : i \in 1..(Len(x) + Len(y))}
        /\ Range(x) = {x[i] : i \in 1..Len(x)} /\ Range(y) = {y[i] : i \in 1..Len(y)}
    BY <1>3, ListElements
  <2>2. \A i \in 1..Len(x) : i \in 1..(Len(x) + Len(y))
    BY <1>1
  <2>3. \A i \in 1..Len(y) : Len(x) + i \in 1..(Len(x) + Len(y))
    BY <1>1
  <2>4. \A i \in 1..(Len(x) + Len(y)) : s[i] \in Range(x) \cup Range(y)
    <3> TAKE i \in 1..(Len(x) + Len(y))
    <3>1. CASE i \in 1..Len(x)
      BY <1>4, <2>1, <3>1
    <3>2. CASE i - Len(x) \in 1..Len(y)
      <4>1. Len(x) + (i - Len(x)) = i
        BY <1>1
      <4>2. s[i] = y[i - Len(x)]
        BY <1>5, <3>2, <4>1
      <4> QED BY <2>1, <3>2, <4>2
    <3> QED BY <1>6, <3>1, <3>2
  <2>5. \A k \in Range(x) : k \in Range(s)
    BY <1>4, <2>1, <2>2
  <2>6. \A k \in Range(y) : k \in Range(s)
    BY <1>5, <2>1, <2>3
  <2> QED BY <2>1, <2>4, <2>5, <2>6
<1>8. Range(s) = Range(x) \cup Range(y)
  BY <1>7
<1> QED BY <1>3, <1>4, <1>5, <1>6, <1>8 DEF s

(* Two lists without a common block, joined.                               *)
LEMMA Join ==
  ASSUME NEW f, NEW x \in Seq(Blocks), NEW y \in Seq(Blocks), Once(x), Once(y),
         Range(x) \cap Range(y) = {}, x # << >>, y # << >>,
         \A i \in 1..Len(x) : f[x[i]].next = IF i < Len(x) THEN x[i + 1] ELSE y[1],
         \A i \in 1..Len(x) : f[x[i]].prev = IF i > 1 THEN x[i - 1] ELSE Null,
         \A i \in 1..Len(y) : f[y[i]].next = IF i < Len(y) THEN y[i + 1] ELSE Null,
         \A i \in 1..Len(y) : f[y[i]].prev = IF i > 1 THEN y[i - 1] ELSE x[Len(x)]
  PROVE  Doubly(f, x[1], y[Len(y)], x \o y)
<1> DEFINE s == x \o y
           m == Len(x)
           n == Len(y)
<1>1. /\ m \in Nat /\ n \in Nat /\ m > 0 /\ n > 0
      /\ Range(x) = {x[i] : i \in 1..m} /\ Range(y) = {y[i] : i \in 1..n}
  BY ListElements
<1>2. /\ s \in Seq(Blocks) /\ Len(s) = m + n
      /\ \A i \in 1..m : s[i] = x[i]
      /\ \A i \in 1..n : s[m + i] = y[i]
      /\ \A i \in 1..(m + n) : i \in 1..m \/ i - m \in 1..n
  BY ConcatElements
<1> HIDE DEF s
<1>3. \A i \in 1..m, j \in 1..n : x[i] # y[j]
  BY <1>1
<1> HIDE DEF m, n
<1>4. Once(s)
  <2> SUFFICES ASSUME NEW i \in 1..(m + n), NEW j \in 1..(m + n), s[i] = s[j] PROVE i = j
    BY <1>2 DEF Once
  <2>1. /\ i \notin 1..m => s[i] = y[i - m] /\ i - m \in 1..n
        /\ j \notin 1..m => s[j] = y[j - m] /\ j - m \in 1..n
    <3>1. m + (i - m) = i /\ m + (j - m) = j
      BY <1>1
    <3> QED BY <1>2, <3>1
  <2>2. CASE i \in 1..m /\ j \in 1..m
    BY <1>2, <2>2 DEF Once, m
  <2>3. CASE i \notin 1..m /\ j \notin 1..m
    <3>1. i - m = j - m
      BY <2>1, <2>3 DEF Once, n
    <3> QED BY <1>1, <3>1
  <2>4. CASE i \in 1..m /\ j \notin 1..m
    BY <1>2, <1>3, <2>1, <2>4
  <2>5. CASE i \notin 1..m /\ j \in 1..m
    BY <1>2, <1>3, <2>1, <2>5
  <2> QED BY <2>2, <2>3, <2>4, <2>5
<1>5. s # << >> /\ s[1] = x[1] /\ s[m + n] = y[n]
  <2>1. 1 \in 1..m /\ n \in 1..n /\ m + n > 0
    BY <1>1
  <2> QED BY <1>2, <2>1, ListElements
<1>6. \A i \in 1..(m + n) : /\ f[s[i]].next = IF i < m + n THEN s[i + 1] ELSE Null
                            /\ f[s[i]].prev = IF i > 1 THEN s[i - 1] ELSE Null
  <2> TAKE i \in 1..(m + n)
  <2>1. CASE i \in 1..m
    <3>1. s[i] = x[i] /\ i < m + n
      BY <1>1, <1>2, <2>1
    <3>2. f[s[i]].next = s[i + 1]
      <4>1. CASE i < m
        <5>1. i + 1 \in 1..m
          BY <1>1, <2>1, <4>1
        <5>2. s[i + 1] = x[i + 1]
          BY <1>2, <5>1
        <5> QED BY <2>1, <3>1, <4>1, <5>2 DEF m
      <4>2. CASE i = m
        <5>1. s[i + 1] = y[1]
          BY <1>1, <1>2, <4>2
        <5> QED BY <1>1, <2>1, <3>1, <4>2, <5>1 DEF m
      <4> QED BY <1>1, <2>1, <4>1, <4>2
    <3>3. f[s[i]].prev = IF i > 1 THEN s[i - 1] ELSE Null
      <4>1. CASE i > 1
        <5>1. i - 1 \in 1..m
          BY <1>1, <2>1, <4>1
        <5>2. s[i - 1] = x[i - 1]
          BY <1>2, <5>1
        <5> QED BY <2>1, <3>1, <4>1, <5>2 DEF m
      <4>2. CASE ~(i > 1)
        BY <2>1, <3>1, <4>2 DEF m
      <4> QED BY <4>1, <4>2
    <3> QED BY <3>1, <3>2, <3>3
  <2>2. CASE i - m \in 1..n
    <3> DEFINE j == i - m
    <3>1. j \in 1..n /\ i = m + j /\ j \in Int
      BY <1>1, <2>2
    <3> HIDE DEF j
    <3>2. s[i] = y[j]
      BY <1>2, <3>1
    <3>3. f[s[i]].next = IF i < m + n THEN s[i + 1] ELSE Null
      <4>1. CASE j < n
        <5>1. j + 1 \in 1..n /\ m + (j + 1) = i + 1 /\ i < m + n
          BY <1>1, <3>1, <4>1
        <5>2. s[i + 1] = y[j + 1]
          BY <1>2, <5>1
        <5>3. f[y[j]].next = y[j + 1]
          BY <3>1, <4>1 DEF n
        <5> QED BY <3>2, <5>1, <5>2, <5>3
      <4>2. CASE j = n
        <5>1. ~(i < m + n) /\ ~(j < n)
          BY <1>1, <3>1, <4>2
        <5>2. f[y[j]].next = Null
          BY <3>1, <5>1 DEF n
        <5> QED BY <3>2, <5>1, <5>2
      <4> QED BY <1>1, <3>1, <4>1, <4>2
    <3>4. f[s[i]].prev = IF i > 1 THEN s[i - 1] ELSE Null
      <4>1. i > 1
        BY <1>1, <3>1
      <4>2. CASE j > 1
        <5>1. j - 1 \in 1..n /\ m + (j - 1) = i - 1
          BY <1>1, <3>1, <4>2
        <5>2. s[i - 1] = y[j - 1]
          BY <1>2, <5>1
        <5>3. f[y[j]].prev = y[j - 1]
          BY <3>1, <4>2 DEF n
        <5> QED BY <3>2, <4>1, <5>2, <5>3
      <4>3. CASE j = 1
        <5>1. i - 1 = m /\ m \in 1..m /\ ~(j > 1)
          BY <1>1, <3>1, <4>3
        <5>2. s[i - 1] = x[m]
          BY <1>2, <5>1
        <5>3. f[y[j]].prev = x[m]
          BY <3>1, <5>1 DEF n, m
        <5> QED BY <3>2, <4>1, <5>2, <5>3
      <4> QED BY <3>1, <4>2, <4>3
    <3> QED BY <3>3, <3>4
  <2> QED BY <1>2, <2>1, <2>2
<1>7. Linked(f, x[1], s)
  <2>1. \A i \in 1..Len(s) : f[s[i]].next = IF i < Len(s) THEN s[i + 1] ELSE Null
    BY <1>2, <1>6
  <2> QED BY <1>2, <1>4, <1>5, <2>1 DEF Linked
<1>8. y[Len(y)] = s[Len(s)]
  BY <1>2, <1>5 DEF n
<1>9. \A i \in 1..Len(s) : f[s[i]].prev = IF i > 1 THEN s[i - 1] ELSE Null
  BY <1>2, <1>6
<1>10. Doubly(f, x[1], y[Len(y)], s)
  BY <1>5, <1>7, <1>8, <1>9 DEF Doubly
<1> QED BY <1>10 DEF s

-----------------------------------------------------------------------------
(* Insertion.                                                              *)

(* The blocks of c filled with the jobs b, and the others as they were.    *)
LEMMA FilledIs ==
  ASSUME TypeOK, NEW c \in Seq(Blocks), Once(c), NEW b \in Batches, Len(b) = Len(c)
  PROVE  /\ Filled(c, b) \in [Blocks -> Node]
         /\ \A k \in Blocks \ Range(c) : Filled(c, b)[k] = blk[k]
         /\ \A i \in 1..Len(c) :
              /\ JobIn(Filled(c, b), c[i]) = JobFrom(b, i, Len(log))
              /\ Filled(c, b)[c[i]].next = IF i < Len(c) THEN c[i + 1] ELSE Null
              /\ Filled(c, b)[c[i]].prev = IF i > 1 THEN c[i - 1] ELSE Null
<1> DEFINE rec(i) == [gid |-> b[i].gid, JID |-> b[i].JID, highpri |-> b[i].highpri,
                      repeat |-> b[i].repeat, id |-> Len(log) + i,
                      next |-> IF i < Len(c) THEN c[i + 1] ELSE Null,
                      prev |-> IF i > 1 THEN c[i - 1] ELSE Null]
           at(k) == CHOOSE j \in 1..Len(c) : c[j] = k
<1>1. /\ Len(c) \in Nat /\ DOMAIN c = 1..Len(c) /\ Range(c) = {c[i] : i \in 1..Len(c)}
      /\ \A i \in 1..Len(c) : c[i] \in Blocks
  BY ListElements
<1>2. b \in Seq(Templates) /\ \A i \in 1..Len(c) : b[i] \in Templates
  BY RunQueueAssumption, ElementOfSeq
<1>3. Len(log) \in Nat /\ blk \in [Blocks -> Node]
  BY LenProperties DEF TypeOK, Node
<1>4. \A i \in 1..Len(c) : rec(i) \in Node
  <2> TAKE i \in 1..Len(c)
  <2>1. (IF i < Len(c) THEN c[i + 1] ELSE Null) \in Ptr
    <3>1. CASE i < Len(c)
      <4>1. i + 1 \in 1..Len(c)
        BY <1>1, <3>1
      <4> QED BY <1>1, <3>1, <4>1 DEF Ptr
    <3>2. CASE ~(i < Len(c))
      BY <3>2 DEF Ptr
    <3> QED BY <3>1, <3>2
  <2>2. (IF i > 1 THEN c[i - 1] ELSE Null) \in Ptr
    <3>1. CASE i > 1
      <4>1. i - 1 \in 1..Len(c)
        BY <1>1, <3>1
      <4> QED BY <1>1, <3>1, <4>1 DEF Ptr
    <3>2. CASE ~(i > 1)
      BY <3>2 DEF Ptr
    <3> QED BY <3>1, <3>2
  <2>3. b[i] \in Templates /\ Len(log) + i \in Nat
    BY <1>2, <1>3
  <2> QED BY <2>1, <2>2, <2>3 DEF Node, Templates
<1> HIDE DEF rec
<1>5. Filled(c, b) = [k \in Blocks |-> IF k \in Range(c) THEN rec(at(k)) ELSE blk[k]]
  BY <1>1 DEF Filled, rec
<1>6. \A k \in Range(c) : at(k) \in 1..Len(c) /\ c[at(k)] = k
  BY <1>1
<1>7. \A i \in 1..Len(c) : at(c[i]) = i
  BY <1>1, <1>6 DEF Once
<1> HIDE DEF at
<1>8. Filled(c, b) \in [Blocks -> Node]
  BY <1>3, <1>4, <1>5, <1>6
<1>9. \A i \in 1..Len(c) : Filled(c, b)[c[i]] = rec(i)
  BY <1>1, <1>5, <1>7
<1>10. ASSUME NEW i \in 1..Len(c)
       PROVE  /\ JobIn(Filled(c, b), c[i]) = JobFrom(b, i, Len(log))
              /\ Filled(c, b)[c[i]].next = IF i < Len(c) THEN c[i + 1] ELSE Null
              /\ Filled(c, b)[c[i]].prev = IF i > 1 THEN c[i - 1] ELSE Null
  <2>1. JobIn(Filled(c, b), c[i]) = JobFrom(b, i, Len(log))
    <3>1. /\ rec(i).gid = b[i].gid /\ rec(i).JID = b[i].JID /\ rec(i).highpri = b[i].highpri
          /\ rec(i).repeat = b[i].repeat /\ rec(i).id = Len(log) + i
      BY DEF rec
    <3> QED BY <1>9, <3>1 DEF JobIn, JobFrom
  <2>2. rec(i).next = (IF i < Len(c) THEN c[i + 1] ELSE Null) /\ rec(i).prev = (IF i > 1 THEN c[i - 1] ELSE Null)
    BY DEF rec
  <2> QED BY <1>9, <2>1, <2>2
<1> QED BY <1>5, <1>8, <1>10

\* Link l forward to x, and h back to y.
SetLinks(f, l, h, x, y) == [f EXCEPT ![l].next = x, ![h].prev = y]

(* What changes when two links are set.                                    *)
LEMMA LinksSet ==
  ASSUME NEW f \in [Blocks -> Node], NEW l \in Blocks, NEW h \in Blocks, l # h, NEW x \in Ptr, NEW y \in Ptr,
         NEW g, g = SetLinks(f, l, h, x, y)
  PROVE  /\ g \in [Blocks -> Node]
         /\ \A k \in Blocks : JobIn(g, k) = JobIn(f, k)
         /\ g[l].next = x /\ g[h].prev = y
         /\ \A k \in Blocks \ {l} : g[k].next = f[k].next
         /\ \A k \in Blocks \ {h} : g[k].prev = f[k].prev
         /\ \A k \in Blocks \ {l, h} : g[k] = f[k]
<1>1. g[l] = [f[l] EXCEPT !.next = x] /\ g[h] = [f[h] EXCEPT !.prev = y]
  BY DEF SetLinks
<1>2. \A k \in Blocks \ {l, h} : g[k] = f[k]
  BY DEF SetLinks
<1>3. DOMAIN g = Blocks /\ g = [k \in Blocks |-> g[k]]
  BY DEF SetLinks
<1>4. f[l] \in Node /\ f[h] \in Node
  OBVIOUS
<1>5. g[l] \in Node /\ g[l].next = x /\ g[l].prev = f[l].prev /\ JobIn(g, l) = JobIn(f, l)
  BY <1>1, <1>4 DEF Node, JobIn
<1>6. g[h] \in Node /\ g[h].prev = y /\ g[h].next = f[h].next /\ JobIn(g, h) = JobIn(f, h)
  BY <1>1, <1>4 DEF Node, JobIn
<1>7. \A k \in Blocks : g[k] \in Node
  BY <1>2, <1>5, <1>6
<1>8. g \in [Blocks -> Node]
  BY <1>3, <1>7
<1>9. \A k \in Blocks : JobIn(g, k) = JobIn(f, k)
  BY <1>2, <1>5, <1>6 DEF JobIn
<1> QED BY <1>2, <1>5, <1>6, <1>8, <1>9

(* Splice puts the filled chain in front of the queue or behind it.        *)
LEMMA SpliceIs ==
  ASSUME TypeOK, NEW q, Doubly(blk, head, tail, q),
         NEW c \in Seq(Blocks), Once(c), Range(c) \cap Range(q) = {},
         NEW b \in Batches, Len(b) = Len(c), Splice(c, b)
  PROVE  /\ Doubly(blk', head', tail', IF b[1].highpri THEN c \o q ELSE q \o c)
         /\ blk' \in [Blocks -> Node]
         /\ \A k \in Blocks \ (Range(c) \cup Range(q)) : blk'[k] = blk[k]
         /\ \A i \in 1..Len(q) : JobIn(blk', q[i]) = JobIn(blk, q[i])
         /\ \A i \in 1..Len(c) : JobIn(blk', c[i]) = JobFrom(b, i, Len(log))
<1> DEFINE new == Filled(c, b)
           m == Len(c)
           n == Len(q)
<1>1. /\ new \in [Blocks -> Node]
      /\ \A k \in Blocks \ Range(c) : new[k] = blk[k]
      /\ \A i \in 1..m :
           /\ JobIn(new, c[i]) = JobFrom(b, i, Len(log))
           /\ new[c[i]].next = IF i < m THEN c[i + 1] ELSE Null
           /\ new[c[i]].prev = IF i > 1 THEN c[i - 1] ELSE Null
  BY FilledIs
<1> HIDE DEF new
<1>2. Len(b) > 0 /\ b[1].highpri \in BOOLEAN
  <2>1. b \in Seq(Templates) /\ Len(b) > 0
    BY RunQueueAssumption
  <2>2. b[1] \in Templates
    BY <2>1, ElementOfSeq, LenProperties
  <2> QED BY <2>1, <2>2 DEF Templates
<1>3. /\ m \in Nat /\ m > 0 /\ c # << >> /\ Range(c) = {c[i] : i \in 1..m}
      /\ \A i \in 1..m : c[i] \in Blocks /\ c[i] # Null
  BY <1>2, ListElements
<1>4. /\ q \in Seq(Blocks) /\ Once(q) /\ n \in Nat /\ Range(q) = {q[i] : i \in 1..n}
      /\ \A i \in 1..n : q[i] \in Blocks /\ q[i] # Null
      /\ q = << >> <=> n = 0
      /\ head = IF q = << >> THEN Null ELSE q[1]
      /\ tail = IF q = << >> THEN Null ELSE q[n]
      /\ \A i \in 1..n : /\ blk[q[i]].next = IF i < n THEN q[i + 1] ELSE Null
                         /\ blk[q[i]].prev = IF i > 1 THEN q[i - 1] ELSE Null
  BY ListElements DEF Doubly, Linked
<1>5. head = Null <=> q = << >>
  <2>1. q # << >> => q[1] # Null
    BY <1>4
  <2> QED BY <1>4, <2>1
<1>6. \A i \in 1..n : q[i] \notin Range(c) /\ new[q[i]] = blk[q[i]]
  BY <1>1, <1>4
<1>7. \A i \in 1..m : c[i] \notin Range(q)
  BY <1>3
<1>8. CASE q = << >>
  <2>1. head' = c[1] /\ tail' = c[m] /\ blk' = new /\ n = 0
    BY <1>4, <1>5, <1>8 DEF Splice, new
  <2>2. Linked(blk', head', c)
    BY <1>1, <1>3, <2>1 DEF Linked
  <2>3. Doubly(blk', head', tail', c)
    BY <1>1, <1>3, <2>1, <2>2 DEF Doubly
  <2>4. c \o q = c /\ q \o c = c
    BY <1>4, <1>8
  <2>5. Doubly(blk', head', tail', IF b[1].highpri THEN c \o q ELSE q \o c)
    BY <2>3, <2>4
  <2> QED BY <1>1, <1>4, <1>8, <2>1, <2>5
<1>9. CASE q # << >> /\ b[1].highpri
  <2>1. head = q[1] /\ n > 0 /\ q[1] \in Blocks /\ c[m] \in Blocks /\ c[m] # q[1] /\ tail = q[n] /\ 1 \in 1..m
        /\ m \in 1..m /\ 1 \in 1..n /\ n \in 1..n
    <3>1. n > 0 /\ 1 \in 1..n /\ n \in 1..n /\ m \in 1..m /\ 1 \in 1..m
      BY <1>3, <1>4, <1>9
    <3> QED BY <1>3, <1>4, <1>6, <1>9, <3>1
  <2>2. /\ head' = c[1] /\ tail' = tail
        /\ blk' = [new EXCEPT ![c[m]].next = q[1], ![q[1]].prev = c[m]]
    BY <1>5, <1>9, <2>1 DEF Splice, new
  <2>a. blk' = SetLinks(new, c[m], q[1], q[1], c[m])
    BY <2>2 DEF SetLinks
  <2>3. /\ blk' \in [Blocks -> Node]
        /\ \A k \in Blocks : JobIn(blk', k) = JobIn(new, k)
        /\ blk'[c[m]].next = q[1] /\ blk'[q[1]].prev = c[m]
        /\ \A k \in Blocks \ {c[m]} : blk'[k].next = new[k].next
        /\ \A k \in Blocks \ {q[1]} : blk'[k].prev = new[k].prev
        /\ \A k \in Blocks \ {c[m], q[1]} : blk'[k] = new[k]
    <3>1. q[1] \in Ptr /\ c[m] \in Ptr
      BY <2>1 DEF Ptr
    <3> QED BY <1>1, <2>1, <2>a, <3>1, LinksSet
  <2>4. \A i \in 1..m : blk'[c[i]].next = IF i < m THEN c[i + 1] ELSE q[1]
    <3> TAKE i \in 1..m
    <3>1. CASE i < m
      <4>1. c[i] # c[m]
        BY <1>3, <2>1, <3>1 DEF Once
      <4> QED BY <1>1, <1>3, <2>3, <3>1, <4>1
    <3>2. CASE i = m
      BY <1>3, <2>3, <3>2
    <3> QED BY <1>3, <3>1, <3>2
  <2>5. \A i \in 1..m : blk'[c[i]].prev = IF i > 1 THEN c[i - 1] ELSE Null
    <3> TAKE i \in 1..m
    <3>1. c[i] # q[1] /\ c[i] \in Blocks
      BY <1>3, <1>4, <1>7, <2>1
    <3> QED BY <1>1, <2>3, <3>1
  <2>6. \A i \in 1..n : blk'[q[i]].next = IF i < n THEN q[i + 1] ELSE Null
    <3> TAKE i \in 1..n
    <3>1. q[i] # c[m] /\ q[i] \in Blocks
      BY <1>3, <1>4, <1>6, <2>1
    <3>2. blk'[q[i]].next = blk[q[i]].next
      BY <1>6, <2>3, <3>1
    <3> QED BY <1>4, <3>2
  <2>7. \A i \in 1..n : blk'[q[i]].prev = IF i > 1 THEN q[i - 1] ELSE c[m]
    <3> TAKE i \in 1..n
    <3>1. CASE i > 1
      <4>1. q[i] # q[1] /\ q[i] \in Blocks
        BY <1>4, <2>1, <3>1 DEF Once
      <4>2. blk'[q[i]].prev = blk[q[i]].prev
        BY <1>6, <2>3, <4>1
      <4> QED BY <1>4, <3>1, <4>2
    <3>2. CASE i = 1
      BY <2>3, <3>2
    <3> QED BY <1>4, <3>1, <3>2
  <2>8. Doubly(blk', c[1], q[n], c \o q)
    BY <1>3, <1>4, <1>9, <2>4, <2>5, <2>6, <2>7, Join
  <2>9. Doubly(blk', head', tail', IF b[1].highpri THEN c \o q ELSE q \o c)
    BY <1>9, <2>1, <2>2, <2>8
  <2>10. \A k \in Blocks \ (Range(c) \cup Range(q)) : blk'[k] = blk[k]
    BY <1>1, <1>3, <1>4, <2>1, <2>3
  <2>11. \A i \in 1..n : JobIn(blk', q[i]) = JobIn(blk, q[i])
    BY <1>4, <1>6, <2>3 DEF JobIn
  <2>12. \A i \in 1..m : JobIn(blk', c[i]) = JobFrom(b, i, Len(log))
    BY <1>1, <1>3, <2>3
  <2> QED BY <2>3, <2>9, <2>10, <2>11, <2>12
<1>10. CASE q # << >> /\ ~b[1].highpri
  <2>1. head = q[1] /\ n > 0 /\ q[n] \in Blocks /\ c[1] \in Blocks /\ c[1] # q[n] /\ tail = q[n] /\ 1 \in 1..m
        /\ m \in 1..m /\ 1 \in 1..n /\ n \in 1..n
    <3>1. n > 0 /\ 1 \in 1..n /\ n \in 1..n /\ m \in 1..m /\ 1 \in 1..m
      BY <1>3, <1>4, <1>10
    <3> QED BY <1>3, <1>4, <1>6, <1>10, <3>1
  <2>2. /\ head' = head /\ tail' = c[m]
        /\ blk' = [new EXCEPT ![c[1]].prev = q[n], ![q[n]].next = c[1]]
    BY <1>5, <1>10, <2>1 DEF Splice, new
  <2>3. blk' = [new EXCEPT ![q[n]].next = c[1], ![c[1]].prev = q[n]]
    BY <1>1, <2>1, <2>2
  <2>a. blk' = SetLinks(new, q[n], c[1], c[1], q[n])
    BY <2>3 DEF SetLinks
  <2>4. /\ blk' \in [Blocks -> Node]
        /\ \A k \in Blocks : JobIn(blk', k) = JobIn(new, k)
        /\ blk'[q[n]].next = c[1] /\ blk'[c[1]].prev = q[n]
        /\ \A k \in Blocks \ {q[n]} : blk'[k].next = new[k].next
        /\ \A k \in Blocks \ {c[1]} : blk'[k].prev = new[k].prev
        /\ \A k \in Blocks \ {q[n], c[1]} : blk'[k] = new[k]
    <3>1. q[n] \in Ptr /\ c[1] \in Ptr
      BY <2>1 DEF Ptr
    <3> QED BY <1>1, <2>1, <2>a, <3>1, LinksSet
  <2>5. \A i \in 1..n : blk'[q[i]].next = IF i < n THEN q[i + 1] ELSE c[1]
    <3> TAKE i \in 1..n
    <3>1. CASE i < n
      <4>1. q[i] # q[n] /\ q[i] \in Blocks
        BY <1>4, <2>1, <3>1 DEF Once
      <4>2. blk'[q[i]].next = blk[q[i]].next
        BY <1>6, <2>4, <4>1
      <4> QED BY <1>4, <3>1, <4>2
    <3>2. CASE i = n
      BY <1>4, <2>4, <3>2
    <3> QED BY <1>4, <3>1, <3>2
  <2>6. \A i \in 1..n : blk'[q[i]].prev = IF i > 1 THEN q[i - 1] ELSE Null
    <3> TAKE i \in 1..n
    <3>1. q[i] # c[1] /\ q[i] \in Blocks
      BY <1>3, <1>4, <1>6, <2>1
    <3>2. blk'[q[i]].prev = blk[q[i]].prev
      BY <1>6, <2>4, <3>1
    <3> QED BY <1>4, <3>2
  <2>7. \A i \in 1..m : blk'[c[i]].next = IF i < m THEN c[i + 1] ELSE Null
    <3> TAKE i \in 1..m
    <3>1. c[i] # q[n] /\ c[i] \in Blocks
      BY <1>3, <1>4, <1>7, <2>1
    <3> QED BY <1>1, <2>4, <3>1
  <2>8. \A i \in 1..m : blk'[c[i]].prev = IF i > 1 THEN c[i - 1] ELSE q[n]
    <3> TAKE i \in 1..m
    <3>1. CASE i > 1
      <4>1. c[i] # c[1] /\ c[i] \in Blocks
        BY <1>3, <2>1, <3>1 DEF Once
      <4> QED BY <1>1, <2>4, <3>1, <4>1
    <3>2. CASE i = 1
      BY <2>4, <3>2
    <3> QED BY <1>3, <3>1, <3>2
  <2>9. Doubly(blk', q[1], c[m], q \o c)
    BY <1>3, <1>4, <1>10, <2>5, <2>6, <2>7, <2>8, Join
  <2>10. Doubly(blk', head', tail', IF b[1].highpri THEN c \o q ELSE q \o c)
    BY <1>10, <2>1, <2>2, <2>9
  <2>11. \A k \in Blocks \ (Range(c) \cup Range(q)) : blk'[k] = blk[k]
    BY <1>1, <1>3, <1>4, <2>1, <2>4
  <2>12. \A i \in 1..n : JobIn(blk', q[i]) = JobIn(blk, q[i])
    BY <1>4, <1>6, <2>4 DEF JobIn
  <2>13. \A i \in 1..m : JobIn(blk', c[i]) = JobFrom(b, i, Len(log))
    BY <1>1, <1>3, <2>4
  <2> QED BY <2>4, <2>10, <2>11, <2>12, <2>13
<1> QED BY <1>2, <1>8, <1>9, <1>10

-----------------------------------------------------------------------------
(* Removal.                                                                *)

(* What RemoveAt leaves: every element but the i-th, in the same order.    *)
LEMMA RemoveAtProps ==
  ASSUME NEW S, NEW s \in Seq(S), NEW i \in 1..Len(s)
  PROVE  /\ RemoveAt(s, i) \in Seq(S)
         /\ Len(RemoveAt(s, i)) = Len(s) - 1
         /\ \A j \in 1..(Len(s) - 1) : RemoveAt(s, i)[j] = IF j < i THEN s[j] ELSE s[j + 1]
<1> DEFINE l == SubSeq(s, 1, i - 1)
           r == SubSeq(s, i + 1, Len(s))
<1>1. Len(s) \in Nat /\ \A j \in 1..Len(s) : s[j] \in S
  BY LenProperties, ElementOfSeq
<1>2. /\ l \in Seq(S)
      /\ Len(l) = i - 1
      /\ \A j \in 1..(i - 1) : l[j] = s[j]
  <2>1. \A j \in 1..(i - 1) : s[j] \in S
    BY <1>1
  <2> QED BY <1>1, <2>1, SubSeqProperties
<1>3. /\ r \in Seq(S)
      /\ Len(r) = Len(s) - i
      /\ \A j \in 1..(Len(s) - i) : r[j] = s[i + j]
  <2>1. \A j \in (i + 1)..Len(s) : s[j] \in S
    BY <1>1
  <2>2. /\ r \in Seq(S)
        /\ Len(r) = IF i + 1 <= Len(s) THEN Len(s) - (i + 1) + 1 ELSE 0
        /\ \A j \in 1..(Len(s) - (i + 1) + 1) : r[j] = s[(i + 1) + j - 1]
    BY <1>1, <2>1, SubSeqProperties
  <2> HIDE DEF r
  <2> QED BY <1>1, <2>2
<1> HIDE DEF l, r
<1>4. /\ l \o r \in Seq(S)
      /\ Len(l \o r) = Len(l) + Len(r)
      /\ \A j \in 1..(Len(l) + Len(r)) :
           (l \o r)[j] = IF j <= Len(l) THEN l[j] ELSE r[j - Len(l)]
  BY <1>2, <1>3, ConcatProperties
<1>5. RemoveAt(s, i) = l \o r
  BY DEF RemoveAt, l, r
<1>6. Len(RemoveAt(s, i)) = Len(s) - 1
  BY <1>1, <1>2, <1>3, <1>4, <1>5
<1>7. ASSUME NEW j \in 1..(Len(s) - 1)
      PROVE  RemoveAt(s, i)[j] = IF j < i THEN s[j] ELSE s[j + 1]
  <2>1. CASE j < i
    BY <1>1, <1>2, <1>3, <1>4, <1>5, <2>1
  <2>2. CASE j >= i
    <3>1. (l \o r)[j] = r[j - (i - 1)]
      BY <1>1, <1>2, <1>3, <1>4, <2>2
    <3>2. j - (i - 1) \in 1..(Len(s) - i)
      BY <1>1, <2>2
    <3>3. r[j - (i - 1)] = s[i + (j - (i - 1))]
      BY <1>3, <3>2
    <3> QED BY <1>1, <1>5, <2>2, <3>1, <3>3
  <2> QED BY <1>1, <2>1, <2>2
<1> QED BY <1>4, <1>5, <1>6, <1>7

(* A list from which a block is cut out, its neighbours linked.            *)
LEMMA CutOut ==
  ASSUME NEW f, NEW g, NEW h, NEW t, NEW q, Doubly(f, h, t, q), NEW i \in 1..Len(q),
         \A j \in 1..Len(q) : j # i =>
           /\ g[q[j]].next = IF j = i - 1 THEN f[q[i]].next ELSE f[q[j]].next
           /\ g[q[j]].prev = IF j = i + 1 THEN f[q[i]].prev ELSE f[q[j]].prev
  PROVE  Doubly(g, IF i = 1 THEN f[q[i]].next ELSE h, IF i = Len(q) THEN f[q[i]].prev ELSE t, RemoveAt(q, i))
<1> DEFINE n == Len(q)
           s == RemoveAt(q, i)
           a(j) == IF j < i THEN j ELSE j + 1
<1>1. /\ q \in Seq(Blocks) /\ Once(q) /\ n \in Nat /\ n > 0 /\ i \in 1..n
      /\ \A j \in 1..n : q[j] \in Blocks /\ q[j] # Null
      /\ h = q[1] /\ t = q[n]
      /\ \A j \in 1..n : /\ f[q[j]].next = IF j < n THEN q[j + 1] ELSE Null
                         /\ f[q[j]].prev = IF j > 1 THEN q[j - 1] ELSE Null
  <2>1. q \in Seq(Blocks) /\ n \in Nat /\ n > 0
    BY ListElements DEF Doubly, Linked
  <2> QED BY <2>1, ListElements DEF Doubly, Linked
<1>2. s \in Seq(Blocks) /\ Len(s) = n - 1 /\ \A j \in 1..(n - 1) : s[j] = IF j < i THEN q[j] ELSE q[j + 1]
  BY <1>1, RemoveAtProps
<1> HIDE DEF s
<1>n. n \in Nat /\ n > 0 /\ i \in 1..n
  BY <1>1
<1>m. n # 1 => /\ n > 1 /\ 1 \in 1..(n - 1) /\ 1 \in 1..n /\ n - 1 \in 1..(n - 1)
               /\ n \in 1..n /\ (n - 1 < i <=> i = n) /\ (n - 1) + 1 = n
  <2> HIDE DEF n
  <2> QED BY <1>n
<1>3. \A j \in 1..(n - 1) : a(j) \in 1..n /\ a(j) # i /\ s[j] = q[a(j)]
  BY <1>1, <1>2
<1>4. Once(s)
  <2> SUFFICES ASSUME NEW j \in 1..(n - 1), NEW k \in 1..(n - 1), s[j] = s[k] PROVE j = k
    BY <1>2 DEF Once
  <2>1. a(j) \in 1..n /\ a(k) \in 1..n /\ q[a(j)] = q[a(k)]
    BY <1>3
  <2>2. a(j) = a(k)
    <3> HIDE DEF a
    <3> QED BY <1>1, <2>1 DEF Once
  <2> QED BY <1>1, <2>2
<1>5. \A j \in 1..(n - 1) : g[s[j]].next = IF j < n - 1 THEN s[j + 1] ELSE Null
  <2> TAKE j \in 1..(n - 1)
  <2>1. a(j) \in 1..n /\ a(j) # i /\ s[j] = q[a(j)]
    BY <1>3
  <2>2. g[s[j]].next = IF a(j) = i - 1 THEN f[q[i]].next ELSE f[q[a(j)]].next
    BY <2>1
  <2>3. CASE a(j) = i - 1
    <3>1. j = i - 1 /\ (j < n - 1 <=> i < n)
      BY <1>1, <2>3
    <3>2. g[s[j]].next = IF i < n THEN q[i + 1] ELSE Null
      BY <1>1, <2>2, <2>3
    <3>3. j < n - 1 => s[j + 1] = q[i + 1]
      <4>1. j < n - 1 => j + 1 \in 1..(n - 1) /\ j + 1 = i
        BY <1>1, <3>1
      <4> QED BY <1>1, <1>2, <4>1
    <3> QED BY <3>1, <3>2, <3>3
  <2>4. CASE a(j) # i - 1
    <3>1. g[s[j]].next = IF a(j) < n THEN q[a(j) + 1] ELSE Null
      BY <1>1, <2>1, <2>2, <2>4
    <3>2. a(j) < n <=> j < n - 1
      BY <1>1, <2>1, <2>4
    <3>3. j < n - 1 => s[j + 1] = q[a(j) + 1]
      <4>1. j < n - 1 => j + 1 \in 1..(n - 1)
        BY <1>1
      <4>2. CASE j < i
        <5>1. a(j) = j /\ j + 1 < i
          BY <1>1, <2>4, <4>2
        <5> QED BY <1>2, <4>1, <5>1
      <4>3. CASE ~(j < i)
        <5>1. a(j) = j + 1 /\ ~(j + 1 < i)
          BY <1>1, <4>3
        <5> QED BY <1>2, <4>1, <5>1
      <4> QED BY <4>2, <4>3
    <3> QED BY <3>1, <3>2, <3>3
  <2> QED BY <2>3, <2>4
<1>6. \A j \in 1..(n - 1) : g[s[j]].prev = IF j > 1 THEN s[j - 1] ELSE Null
  <2> TAKE j \in 1..(n - 1)
  <2>1. a(j) \in 1..n /\ a(j) # i /\ s[j] = q[a(j)]
    BY <1>3
  <2>2. g[s[j]].prev = IF a(j) = i + 1 THEN f[q[i]].prev ELSE f[q[a(j)]].prev
    BY <2>1
  <2>3. CASE a(j) = i + 1
    <3>1. j = i /\ (j > 1 <=> i > 1)
      BY <1>1, <2>3
    <3>2. g[s[j]].prev = IF i > 1 THEN q[i - 1] ELSE Null
      BY <1>1, <2>2, <2>3
    <3>3. j > 1 => s[j - 1] = q[i - 1]
      <4>1. j > 1 => j - 1 \in 1..(n - 1) /\ j - 1 < i
        BY <1>1, <3>1
      <4> QED BY <1>2, <3>1, <4>1
    <3> QED BY <3>1, <3>2, <3>3
  <2>4. CASE a(j) # i + 1
    <3>1. g[s[j]].prev = IF a(j) > 1 THEN q[a(j) - 1] ELSE Null
      BY <1>1, <2>1, <2>2, <2>4
    <3>2. a(j) > 1 <=> j > 1
      BY <1>1, <2>1, <2>4
    <3>3. j > 1 => s[j - 1] = q[a(j) - 1]
      <4>1. j > 1 => j - 1 \in 1..(n - 1)
        BY <1>1
      <4>2. CASE j < i
        <5>1. a(j) = j /\ j - 1 < i
          BY <1>1, <4>2
        <5> QED BY <1>2, <4>1, <5>1
      <4>3. CASE ~(j < i)
        <5>1. a(j) = j + 1 /\ j > i
          BY <1>1, <2>4, <4>3
        <5>2. ~(j - 1 < i) /\ (j - 1) + 1 = a(j) - 1
          BY <1>1, <5>1
        <5> QED BY <1>2, <4>1, <5>2
      <4> QED BY <4>2, <4>3
    <3> QED BY <3>1, <3>2, <3>3
  <2> QED BY <2>3, <2>4
<1>7. s = << >> <=> n = 1
  BY <1>1, <1>2, ListElements
<1>8. (IF i = 1 THEN f[q[i]].next ELSE h) = IF s = << >> THEN Null ELSE s[1]
  <2>1. CASE n = 1
    BY <1>1, <1>7, <2>1
  <2>2. CASE n # 1
    <3>1. 1 \in 1..(n - 1) /\ 1 \in 1..n /\ 1 < n
      BY <1>m, <2>2
    <3>2. s[1] = IF i = 1 THEN q[2] ELSE q[1]
      BY <1>1, <1>2, <3>1
    <3>3. i = 1 => f[q[i]].next = q[2]
      BY <1>1, <3>1
    <3> QED BY <1>1, <1>7, <2>2, <3>2, <3>3
  <2> QED BY <2>1, <2>2
<1>9. (IF i = n THEN f[q[i]].prev ELSE t) = IF s = << >> THEN Null ELSE s[n - 1]
  <2>1. CASE n = 1
    BY <1>1, <1>7, <2>1
  <2>2. CASE n # 1
    <3>1. n - 1 \in 1..(n - 1) /\ (n - 1 < i <=> i = n) /\ (n - 1) + 1 = n /\ n > 1 /\ n \in 1..n
      BY <1>m, <2>2
    <3>2. s[n - 1] = IF i = n THEN q[n - 1] ELSE q[n]
      BY <1>2, <3>1
    <3>3. i = n => f[q[i]].prev = q[n - 1]
      BY <1>1, <3>1
    <3> QED BY <1>1, <1>7, <2>2, <3>2, <3>3
  <2> QED BY <2>1, <2>2
<1> HIDE DEF a, n
<1>10. Linked(g, IF i = 1 THEN f[q[i]].next ELSE h, s)
  BY <1>2, <1>4, <1>5, <1>8 DEF Linked
<1>11. Doubly(g, IF i = 1 THEN f[q[i]].next ELSE h, IF i = n THEN f[q[i]].prev ELSE t, s)
  BY <1>2, <1>6, <1>9, <1>10 DEF Doubly
<1> QED BY <1>11 DEF s, n

(* A block put in front of a list.                                         *)
LEMMA Pushed ==
  ASSUME NEW f, NEW h, NEW s, Linked(f, h, s), NEW k \in Blocks, k \notin Range(s), f[k].next = h
  PROVE  Linked(f, k, <<k>> \o s)
<1> DEFINE x == <<k>>
           t == x \o s
           n == Len(s)
<1>1. /\ s \in Seq(Blocks) /\ Once(s) /\ n \in Nat /\ Range(s) = {s[i] : i \in 1..n}
      /\ s = << >> <=> n = 0
      /\ h = IF s = << >> THEN Null ELSE s[1]
      /\ \A i \in 1..n : f[s[i]].next = IF i < n THEN s[i + 1] ELSE Null
  BY ListElements DEF Linked
<1>2. x \in Seq(Blocks) /\ Len(x) = 1 /\ x[1] = k
  OBVIOUS
<1> HIDE DEF x
<1>3. /\ t \in Seq(Blocks) /\ Len(t) = 1 + n
      /\ \A i \in 1..1 : t[i] = x[i]
      /\ \A i \in 1..n : t[1 + i] = s[i]
  <2>1. /\ t \in Seq(Blocks) /\ Len(t) = Len(x) + n
        /\ \A i \in 1..Len(x) : t[i] = x[i]
        /\ \A i \in 1..n : t[Len(x) + i] = s[i]
    BY <1>1, <1>2, ConcatElements
  <2> HIDE DEF t
  <2> QED BY <1>2, <2>1
<1> HIDE DEF t
<1>n. n \in Nat
  BY <1>1
<1>4. t[1] = k /\ \A i \in 1..(1 + n) : i = 1 \/ (i - 1 \in 1..n /\ t[i] = s[i - 1])
  <2>1. \A i \in 1..(1 + n) : i = 1 \/ (i - 1 \in 1..n /\ i = 1 + (i - 1))
    BY <1>n
  <2>2. \A i \in 1..(1 + n) : i = 1 \/ (i - 1 \in 1..n /\ t[i] = s[i - 1])
    <3> TAKE i \in 1..(1 + n)
    <3>1. CASE i = 1
      BY <3>1
    <3>2. CASE i # 1
      <4>1. i - 1 \in 1..n /\ i = 1 + (i - 1)
        BY <2>1, <3>2
      <4>2. t[1 + (i - 1)] = s[i - 1]
        BY <1>3, <4>1
      <4> QED BY <4>1, <4>2
    <3> QED BY <3>1, <3>2
  <2> QED BY <1>2, <1>3, <2>2
<1>5. Once(t)
  <2> SUFFICES ASSUME NEW i \in 1..(1 + n), NEW j \in 1..(1 + n), t[i] = t[j] PROVE i = j
    BY <1>3 DEF Once
  <2>1. \A m \in 1..n : s[m] # k
    BY <1>1
  <2>2. CASE i = 1 \/ j = 1
    BY <1>4, <2>1, <2>2
  <2>3. CASE i # 1 /\ j # 1
    <3>1. s[i - 1] = s[j - 1] /\ i - 1 \in 1..n /\ j - 1 \in 1..n
      BY <1>4, <2>3
    <3>2. i - 1 = j - 1
      BY <1>1, <3>1 DEF Once
    <3> QED BY <1>1, <3>2
  <2> QED BY <2>2, <2>3
<1>6. \A i \in 1..(1 + n) : f[t[i]].next = IF i < 1 + n THEN t[i + 1] ELSE Null
  <2> TAKE i \in 1..(1 + n)
  <2>1. CASE i = 1
    <3>1. CASE n = 0
      BY <1>1, <1>4, <2>1, <3>1
    <3>2. CASE n # 0
      <4>1. 1 \in 1..n /\ 1 < 1 + n /\ t[1 + 1] = s[1]
        BY <1>1, <1>3, <3>2
      <4> QED BY <1>1, <1>4, <2>1, <3>2, <4>1
    <3> QED BY <3>1, <3>2
  <2>2. CASE i # 1
    <3>1. t[i] = s[i - 1] /\ i - 1 \in 1..n /\ (i - 1 < n <=> i < 1 + n) /\ (i - 1) + 1 = i
      BY <1>1, <1>4, <2>2
    <3>2. f[t[i]].next = IF i - 1 < n THEN s[i] ELSE Null
      BY <1>1, <3>1
    <3>3. i - 1 < n => t[1 + i] = s[i]
      <4>1. i - 1 < n => i \in 1..n
        BY <1>1
      <4> QED BY <1>3, <4>1
    <3>4. 1 + i = i + 1
      BY <1>1
    <3> QED BY <3>1, <3>2, <3>3, <3>4
  <2> QED BY <2>1, <2>2
<1>7. t # << >>
  BY <1>1, <1>3, ListElements
<1>8. Linked(f, k, t)
  BY <1>3, <1>4, <1>5, <1>6, <1>7 DEF Linked
<1> QED BY <1>8 DEF t, x

(* A list without its first m blocks.                                      *)
LEMMA Dropped ==
  ASSUME NEW f, NEW h, NEW s, Linked(f, h, s), NEW m \in 0..Len(s)
  PROVE  /\ Linked(f, IF m < Len(s) THEN s[m + 1] ELSE Null, SubSeq(s, m + 1, Len(s)))
         /\ Range(SubSeq(s, m + 1, Len(s))) = {s[i] : i \in (m + 1)..Len(s)}
<1> DEFINE n == Len(s)
           t == SubSeq(s, m + 1, n)
<1>1. /\ s \in Seq(Blocks) /\ Once(s) /\ n \in Nat /\ m \in Nat /\ m <= n
      /\ \A i \in 1..n : s[i] \in Blocks
      /\ \A i \in 1..n : f[s[i]].next = IF i < n THEN s[i + 1] ELSE Null
  BY ListElements DEF Linked
<1>2. t \in Seq(Blocks) /\ Len(t) = n - m /\ \A i \in 1..(n - m) : t[i] = s[m + i]
  <2>1. /\ t \in Seq(Blocks)
        /\ Len(t) = IF m + 1 <= n THEN n - (m + 1) + 1 ELSE 0
        /\ \A i \in 1..(n - (m + 1) + 1) : t[i] = s[(m + 1) + i - 1]
    <3>1. \A i \in (m + 1)..n : s[i] \in Blocks
      BY <1>1
    <3> QED BY <1>1, <3>1, SubSeqProperties
  <2> HIDE DEF t
  <2> QED BY <1>1, <2>1
<1> HIDE DEF t
<1>3. \A i \in 1..(n - m) : m + i \in 1..n
  BY <1>1
<1>4. Once(t)
  <2> SUFFICES ASSUME NEW i \in 1..(n - m), NEW j \in 1..(n - m), t[i] = t[j] PROVE i = j
    BY <1>2 DEF Once
  <2>1. m + i = m + j
    BY <1>1, <1>2, <1>3 DEF Once
  <2> QED BY <1>1, <2>1
<1>5. \A i \in 1..(n - m) : f[t[i]].next = IF i < n - m THEN t[i + 1] ELSE Null
  <2> TAKE i \in 1..(n - m)
  <2>1. t[i] = s[m + i] /\ m + i \in 1..n /\ (m + i < n <=> i < n - m)
    BY <1>1, <1>2
  <2>2. i < n - m => t[i + 1] = s[m + i + 1]
    <3>1. i < n - m => i + 1 \in 1..(n - m) /\ m + (i + 1) = m + i + 1
      BY <1>1
    <3> QED BY <1>2, <3>1
  <2> QED BY <1>1, <2>1, <2>2
<1>6. (IF m < n THEN s[m + 1] ELSE Null) = IF t = << >> THEN Null ELSE t[1]
  <2>1. t = << >> <=> ~(m < n)
    BY <1>1, <1>2, ListElements
  <2>2. m < n => 1 \in 1..(n - m)
    BY <1>1
  <2> QED BY <1>2, <2>1, <2>2
<1>7. Linked(f, IF m < n THEN s[m + 1] ELSE Null, t)
  BY <1>2, <1>4, <1>5, <1>6 DEF Linked
<1>8. Range(t) = {s[i] : i \in (m + 1)..n}
  <2>1. Range(t) = {t[i] : i \in 1..(n - m)}
    BY <1>2, ListElements
  <2>2. \A i \in 1..(n - m) : t[i] = s[m + i] /\ m + i \in (m + 1)..n
    BY <1>1, <1>2
  <2>3. \A i \in (m + 1)..n : i - m \in 1..(n - m) /\ s[i] = t[i - m]
    <3>1. \A i \in (m + 1)..n : i - m \in 1..(n - m) /\ m + (i - m) = i
      BY <1>1
    <3> QED BY <1>2, <3>1
  <2>4. Range(t) \subseteq {s[i] : i \in (m + 1)..n}
    BY <2>1, <2>2
  <2>5. {s[i] : i \in (m + 1)..n} \subseteq Range(t)
    <3> SUFFICES ASSUME NEW i \in (m + 1)..n PROVE s[i] \in Range(t)
      OBVIOUS
    <3> QED BY <2>1, <2>3
  <2> QED BY <2>4, <2>5
<1> QED BY <1>7, <1>8 DEF t

(* Unlink takes the i-th block out of the queue, onto the free list.       *)
LEMMA UnlinkIs ==
  ASSUME TypeOK, NEW q, Doubly(blk, head, tail, q), NEW s, Linked(blk, free, s),
         Range(q) \cap Range(s) = {}, NEW i \in 1..Len(q), Unlink(q[i])
  PROVE  /\ Doubly(blk', head', tail', RemoveAt(q, i))
         /\ Linked(blk', free', <<q[i]>> \o s)
         /\ free' \in Ptr /\ head' \in Ptr /\ tail' \in Ptr
         /\ blk' \in [Blocks -> Node]
         /\ \A k \in Blocks : JobIn(blk', k) = JobIn(blk, k)
<1> DEFINE k == q[i]
           n == Len(q)
<1>1. /\ q \in Seq(Blocks) /\ Once(q) /\ n \in Nat /\ Range(q) = {q[j] : j \in 1..n}
      /\ i \in 1..n /\ k \in Blocks /\ k # Null
      /\ \A j \in 1..n : q[j] \in Blocks /\ q[j] # Null
      /\ \A j \in 1..n : /\ blk[q[j]].next = IF j < n THEN q[j + 1] ELSE Null
                         /\ blk[q[j]].prev = IF j > 1 THEN q[j - 1] ELSE Null
  BY ListElements DEF Doubly, Linked
<1>2. blk \in [Blocks -> Node] /\ free \in Ptr /\ head \in Ptr /\ tail \in Ptr /\ Null \notin Blocks
  BY RunQueueAssumption DEF TypeOK, Node
<1>3. \A j \in Blocks : blk[j] \in Node /\ blk[j].next \in Ptr /\ blk[j].prev \in Ptr
  BY <1>2 DEF Node
<1>4. blk[k].prev = Null <=> i = 1
  <2>1. i > 1 => i - 1 \in 1..n
    BY <1>1
  <2> QED BY <1>1, <2>1
<1>5. blk[k].next = Null <=> i = n
  <2>1. i < n => i + 1 \in 1..n
    BY <1>1
  <2> QED BY <1>1, <2>1
<1>6. /\ head' = IF i = 1 THEN blk[k].next ELSE head
      /\ tail' = IF i = n THEN blk[k].prev ELSE tail
      /\ free' = k
  BY <1>4, <1>5 DEF Unlink
<1>7. blk' = [j \in Blocks |->
                CASE j = k -> [blk[k] EXCEPT !.next = free]
                  [] j = blk[k].prev -> [blk[blk[k].prev] EXCEPT !.next = blk[k].next]
                  [] j = blk[k].next -> [blk[blk[k].next] EXCEPT !.prev = blk[k].prev]
                  [] OTHER -> blk[j]]
  BY DEF Unlink
<1>8. i > 1 => i - 1 \in 1..n /\ q[i - 1] # k /\ blk[k].prev = q[i - 1]
  <2> HIDE DEF n
  <2>1. i > 1 => i - 1 \in 1..n /\ i - 1 # i
    BY <1>1
  <2> QED BY <1>1, <2>1 DEF Once, n
<1>9. i < n => i + 1 \in 1..n /\ q[i + 1] # k /\ blk[k].next = q[i + 1]
  <2> HIDE DEF n
  <2>1. i < n => i + 1 \in 1..n /\ i + 1 # i
    BY <1>1
  <2> QED BY <1>1, <2>1 DEF Once, n
<1>10. i > 1 /\ i < n => q[i - 1] # q[i + 1]
  <2>1. i > 1 /\ i < n => i - 1 # i + 1
    BY <1>1
  <2> QED BY <1>1, <1>8, <1>9, <2>1 DEF Once
<1> DEFINE pr == blk[k].prev
           nx == blk[k].next
<1>11. pr # k /\ nx # k /\ (pr # Null => pr # nx) /\ pr \in Ptr /\ nx \in Ptr
  <2>1. pr # k /\ nx # k
    BY <1>1, <1>4, <1>5, <1>8, <1>9
  <2>2. pr # Null => pr # nx
    <3>1. CASE i > 1 /\ i < n
      BY <1>8, <1>9, <1>10, <3>1
    <3>2. CASE ~(i > 1)
      BY <1>1, <1>4, <3>2
    <3>3. CASE ~(i < n)
      BY <1>1, <1>5, <3>3
    <3> QED BY <3>1, <3>2, <3>3
  <2> QED BY <1>1, <1>3, <2>1, <2>2
<1> HIDE DEF pr, nx, k, n
<1>12. /\ blk'[k] = [blk[k] EXCEPT !.next = free]
       /\ pr # Null => blk'[pr] = [blk[pr] EXCEPT !.next = nx]
       /\ nx # Null => blk'[nx] = [blk[nx] EXCEPT !.prev = pr]
       /\ \A j \in Blocks \ {k, pr, nx} : blk'[j] = blk[j]
       /\ DOMAIN blk' = Blocks /\ blk' = [j \in Blocks |-> blk'[j]]
  <2>1. /\ pr # Null => pr \in Blocks
        /\ nx # Null => nx \in Blocks
    BY <1>11 DEF Ptr
  <2>2. blk' = [j \in Blocks |->
                CASE j = k -> [blk[k] EXCEPT !.next = free]
                  [] j = pr -> [blk[pr] EXCEPT !.next = nx]
                  [] j = nx -> [blk[nx] EXCEPT !.prev = pr]
                  [] OTHER -> blk[j]]
    BY <1>7 DEF pr, nx
  <2>3. blk'[k] = [blk[k] EXCEPT !.next = free]
    <3>1. k \in Blocks
      BY <1>1 DEF k
    <3> HIDE DEF k
    <3> QED BY <1>11, <2>2, <3>1
  <2>4. pr # Null => blk'[pr] = [blk[pr] EXCEPT !.next = nx]
    BY <1>11, <2>1, <2>2
  <2>5. nx # Null => blk'[nx] = [blk[nx] EXCEPT !.prev = pr]
    <3>1. nx # Null => nx # pr
      BY <1>11
    <3> QED BY <1>11, <2>1, <2>2, <3>1
  <2>6. \A j \in Blocks \ {k, pr, nx} : blk'[j] = blk[j]
    BY <2>2
  <2>7. DOMAIN blk' = Blocks /\ blk' = [j \in Blocks |-> blk'[j]]
    BY <2>2
  <2> QED BY <2>3, <2>4, <2>5, <2>6, <2>7
<1>13. \A j \in Blocks :
         /\ blk'[j] \in Node /\ JobIn(blk', j) = JobIn(blk, j)
         /\ blk'[j].next = IF j = k THEN free ELSE IF j = pr THEN nx ELSE blk[j].next
         /\ blk'[j].prev = IF j # k /\ j = nx THEN pr ELSE blk[j].prev
  <2> TAKE j \in Blocks
  <2>1. blk[j] \in Node /\ j # Null
    BY <1>2, <1>3
  <2>2. CASE j = k
    <3>1. blk'[j] = [blk[j] EXCEPT !.next = free]
      BY <1>12, <2>2
    <3> QED BY <1>2, <2>1, <2>2, <3>1 DEF Node, JobIn
  <2>3. CASE j = pr
    <3>1. blk'[j] = [blk[j] EXCEPT !.next = nx] /\ j # k /\ j # nx
      BY <1>11, <1>12, <2>1, <2>3
    <3> QED BY <1>11, <2>1, <2>3, <3>1 DEF Node, JobIn
  <2>4. CASE j = nx
    <3>1. blk'[j] = [blk[j] EXCEPT !.prev = pr] /\ j # k /\ j # pr
      BY <1>11, <1>12, <2>1, <2>4
    <3> QED BY <1>11, <2>1, <2>4, <3>1 DEF Node, JobIn
  <2>5. CASE j \notin {k, pr, nx}
    <3>1. blk'[j] = blk[j]
      BY <1>12, <2>5
    <3> QED BY <2>1, <2>5, <3>1 DEF JobIn
  <2> QED BY <2>2, <2>3, <2>4, <2>5
<1>14. blk' \in [Blocks -> Node]
  BY <1>12, <1>13
<1>15. \A j \in 1..n : j # i =>
         /\ blk'[q[j]].next = IF j = i - 1 THEN blk[q[i]].next ELSE blk[q[j]].next
         /\ blk'[q[j]].prev = IF j = i + 1 THEN blk[q[i]].prev ELSE blk[q[j]].prev
  <2> SUFFICES ASSUME NEW j \in 1..n, j # i
               PROVE  /\ blk'[q[j]].next = IF j = i - 1 THEN nx ELSE blk[q[j]].next
                      /\ blk'[q[j]].prev = IF j = i + 1 THEN pr ELSE blk[q[j]].prev
    BY DEF pr, nx, k
  <2>1. q[j] # k /\ q[j] \in Blocks /\ q[j] # Null
    BY <1>1 DEF Once, k, n
  <2>2. q[j] = pr <=> j = i - 1
    <3>1. CASE i > 1
      BY <1>1, <1>8, <3>1 DEF Once, pr, n
    <3>2. CASE ~(i > 1)
      <4>1. pr = Null /\ j # i - 1
        BY <1>1, <1>4, <3>2 DEF pr
      <4> QED BY <2>1, <4>1
    <3> QED BY <3>1, <3>2
  <2>3. q[j] = nx <=> j = i + 1
    <3>1. CASE i < n
      BY <1>1, <1>9, <3>1 DEF Once, nx, n
    <3>2. CASE ~(i < n)
      <4>1. nx = Null /\ j # i + 1
        BY <1>1, <1>5, <3>2 DEF nx
      <4> QED BY <2>1, <4>1
    <3> QED BY <3>1, <3>2
  <2> QED BY <1>13, <2>1, <2>2, <2>3
<1>16. Doubly(blk', head', tail', RemoveAt(q, i))
  <2>1. /\ head' = IF i = 1 THEN blk[q[i]].next ELSE head
        /\ tail' = IF i = Len(q) THEN blk[q[i]].prev ELSE tail
    BY <1>6 DEF k, n
  <2>2. \A j \in 1..Len(q) : j # i =>
         /\ blk'[q[j]].next = IF j = i - 1 THEN blk[q[i]].next ELSE blk[q[j]].next
         /\ blk'[q[j]].prev = IF j = i + 1 THEN blk[q[i]].prev ELSE blk[q[j]].prev
    BY <1>15 DEF n
  <2>3. Doubly(blk', IF i = 1 THEN blk[q[i]].next ELSE head, IF i = Len(q) THEN blk[q[i]].prev ELSE tail, RemoveAt(q, i))
    BY <2>2, CutOut
  <2> QED BY <2>1, <2>3
<1>17. Linked(blk', free', <<k>> \o s)
  <2>1. k \in Range(q) /\ (pr # Null => pr \in Range(q))
    <3>1. k \in Range(q)
      BY <1>1 DEF k
    <3>2. pr # Null => pr \in Range(q)
      BY <1>1, <1>4, <1>8 DEF pr
    <3> QED BY <3>1, <3>2
  <2>2. s \in Seq(Blocks) /\ \A j \in Range(s) : j \in Blocks /\ j # k /\ j # pr
    <3>1. s \in Seq(Blocks)
      BY DEF Linked
    <3>2. \A j \in Range(s) : j \in Blocks
      BY <3>1, ListElements
    <3> QED BY <1>2, <2>1, <3>1, <3>2
  <2>3. Linked(blk', free, s)
    BY <1>13, <2>2, LinkedFrame
  <2>4. blk'[k].next = free /\ k \notin Range(s) /\ k \in Blocks
    BY <1>1, <1>13, <2>2
  <2> QED BY <1>6, <2>3, <2>4, Pushed
<1>18. free' \in Ptr /\ head' \in Ptr /\ tail' \in Ptr
  BY <1>1, <1>2, <1>3, <1>6 DEF Ptr
<1> QED BY <1>13, <1>14, <1>16, <1>17, <1>18 DEF k

-----------------------------------------------------------------------------
(* Counting.                                                               *)

(* n pairs.                                                                *)
LEMMA PairsFinite ==
  ASSUME NEW p, NEW n \in Nat
  PROVE  IsFiniteSet({p} \X (1..n)) /\ Cardinality({p} \X (1..n)) = n
<1>1. IsFiniteSet({p}) /\ Cardinality({p}) = 1
  BY FS_Singleton
<1>2. IsFiniteSet(1..n) /\ Cardinality(1..n) = n
  <2>1. 1 \in Int /\ n \in Int
    OBVIOUS
  <2>2. IsFiniteSet(1..n) /\ Cardinality(1..n) = IF 1 > n THEN 0 ELSE n - 1 + 1
    BY <2>1, FS_Interval
  <2> QED BY <2>2
<1>3. /\ IsFiniteSet({p} \X (1..n))
      /\ Cardinality({p} \X (1..n)) = Cardinality({p}) * Cardinality(1..n)
  BY <1>1, <1>2, FS_Product
<1> QED BY <1>1, <1>2, <1>3

(* Two sets without a common element.                                      *)
LEMMA DisjointUnion ==
  ASSUME NEW S, NEW T, IsFiniteSet(S), IsFiniteSet(T), S \cap T = {}
  PROVE  /\ IsFiniteSet(S \cup T) /\ Cardinality(S \cup T) = Cardinality(S) + Cardinality(T)
         /\ Cardinality(S) \in Nat /\ Cardinality(T) \in Nat
<1>1. Cardinality(S \cap T) = 0
  BY FS_EmptySet
<1>2. Cardinality(S) \in Nat /\ Cardinality(T) \in Nat
  BY FS_CardinalityType
<1>3. IsFiniteSet(S \cup T) /\ Cardinality(S \cup T) = Cardinality(S) + Cardinality(T) - Cardinality(S \cap T)
  BY FS_Union
<1> QED BY <1>1, <1>2, <1>3

\* The repetitions of the jobs in the blocks S.
Reps(f, S) == UNION {{k} \X (1..f[k].repeat) : k \in S}

\* The repetitions of the jobs of a batch.
BatchReps(b) == UNION {{i} \X (1..b[i].repeat) : i \in DOMAIN b}

(* What the repetitions of the jobs in S are, element by element.          *)
LEMMA RepsMember == \A f, S, x : x \in Reps(f, S) <=> \E k \in S : \E r \in 1..f[k].repeat : x = <<k, r>>
BY DEF Reps

(* A union of finitely many finite sets.                                   *)
LEMMA ImageFinite ==
  ASSUME NEW S, NEW f, IsFiniteSet(S), \A x \in S : IsFiniteSet(f[x])
  PROVE  IsFiniteSet(UNION {f[x] : x \in S})
<1> DEFINE T == {f[x] : x \in S}
           g == [x \in S |-> f[x]]
<1>1. g \in Surjection(S, T)
  BY DEF Surjection
<1>2. IsFiniteSet(T)
  <2> HIDE DEF g, T
  <2> QED BY <1>1, FS_Surjection
<1>3. \A U \in T : IsFiniteSet(U)
  OBVIOUS
<1> HIDE DEF T
<1>4. IsFiniteSet(UNION T)
  BY <1>2, <1>3, FS_UNION
<1> QED BY <1>4 DEF T

(* Once they are in the blocks c, there are as many as the batch has.      *)
LEMMA RepsOfBatch ==
  ASSUME NEW b \in Batches, NEW c \in Seq(Blocks), Once(c), Len(c) = Len(b),
         NEW f, \A i \in 1..Len(c) : f[c[i]].repeat = b[i].repeat
  PROVE  /\ IsFiniteSet(Reps(f, Range(c))) /\ Cardinality(Reps(f, Range(c))) = Repeats(b)
         /\ Repeats(b) \in Nat
<1> DEFINE A == BatchReps(b)
           B == Reps(f, Range(c))
           n == Len(b)
<1>1. b \in Seq(Templates) /\ n \in Nat /\ DOMAIN b = 1..n
  BY RunQueueAssumption, LenProperties
<1>2. \A i \in 1..n : b[i].repeat \in Nat
  <2>1. \A i \in 1..n : b[i] \in Templates
    BY <1>1, ElementOfSeq
  <2> QED BY <2>1 DEF Templates
<1>3. IsFiniteSet(A)
  <2> DEFINE g == [i \in 1..n |-> {i} \X (1..b[i].repeat)]
  <2>1. \A i \in 1..n : IsFiniteSet(g[i])
    BY <1>2, PairsFinite
  <2>2. IsFiniteSet(1..n)
    <3>1. 1 \in Int /\ n \in Int
      BY <1>1
    <3> QED BY <3>1, FS_Interval
  <2>3. A = UNION {g[i] : i \in 1..n}
    BY <1>1 DEF BatchReps
  <2> HIDE DEF g, A, n
  <2>4. IsFiniteSet(UNION {g[i] : i \in 1..n})
    <3> DEFINE S == 1..n
    <3>1. IsFiniteSet(S) /\ \A i \in S : IsFiniteSet(g[i])
      BY <2>1, <2>2
    <3> HIDE DEF S
    <3>2. IsFiniteSet(UNION {g[i] : i \in S})
      BY <3>1, ImageFinite
    <3> QED BY <3>2 DEF S
  <2> QED BY <2>3, <2>4
<1>4. \A x : x \in A <=> \E i \in 1..n : \E r \in 1..b[i].repeat : x = <<i, r>>
  BY <1>1 DEF BatchReps
<1>5. Range(c) = {c[i] : i \in 1..n}
  BY ListElements
<1>6. \A x : x \in B <=> \E i \in 1..n : \E r \in 1..b[i].repeat : x = <<c[i], r>>
  <2>1. \A i \in 1..n : f[c[i]].repeat = b[i].repeat
    OBVIOUS
  <2>2. \A x : x \in B <=> \E k \in Range(c) : \E r \in 1..f[k].repeat : x = <<k, r>>
    BY RepsMember
  <2> HIDE DEF B, n
  <2> QED BY <1>5, <2>1, <2>2
<1> HIDE DEF A, B
<1> DEFINE h == [x \in A |-> <<c[x[1]], x[2]>>]
<1>7. h \in Bijection(A, B)
  <2>1. h \in [A -> B]
    BY <1>4, <1>6
  <2>2. \A x, y \in A : h[x] = h[y] => x = y
    <3> SUFFICES ASSUME NEW x \in A, NEW y \in A, h[x] = h[y] PROVE x = y
      OBVIOUS
    <3>1. PICK i \in 1..n : \E r \in 1..b[i].repeat : x = <<i, r>>
      BY <1>4
    <3>2. PICK r \in 1..b[i].repeat : x = <<i, r>>
      BY <3>1
    <3>3. PICK j \in 1..n : \E t \in 1..b[j].repeat : y = <<j, t>>
      BY <1>4
    <3>4. PICK t \in 1..b[j].repeat : y = <<j, t>>
      BY <3>3
    <3>5. <<c[i], r>> = <<c[j], t>>
      BY <3>2, <3>4
    <3>6. c[i] = c[j] /\ r = t
      BY <3>5
    <3>7. i = j
      BY <3>6 DEF Once
    <3> QED BY <3>2, <3>4, <3>6, <3>7
  <2>3. \A y \in B : \E x \in A : h[x] = y
    <3> TAKE y \in B
    <3>1. PICK i \in 1..n : \E r \in 1..b[i].repeat : y = <<c[i], r>>
      BY <1>6
    <3>2. PICK r \in 1..b[i].repeat : y = <<c[i], r>>
      BY <3>1
    <3>3. <<i, r>> \in A
      BY <1>4
    <3>4. h[<<i, r>>] = y
      BY <3>2, <3>3
    <3> QED BY <3>3, <3>4
  <2> HIDE DEF h
  <2> QED BY <2>1, <2>2, <2>3 DEF Bijection, Injection, Surjection, IsInjective
<1>8. IsFiniteSet(B) /\ Cardinality(B) = Cardinality(A)
  <2>1. ExistsBijection(A, B)
    BY <1>7 DEF ExistsBijection
  <2> QED BY <1>3, <2>1, FS_Bijection
<1>9. Cardinality(A) = Repeats(b) /\ Cardinality(A) \in Nat
  BY <1>3, FS_CardinalityType DEF A, BatchReps, Repeats
<1> QED BY <1>8, <1>9 DEF B


-----------------------------------------------------------------------------
(* The inductive invariant.                                                *)

FreeList == Walk(blk, free)

Lists == Doubly(blk, head, tail, Queue) /\ Linked(blk, free, FreeList)

Alive == \A k \in Range(Queue) : blk[k].repeat > 0

\* A processor has a batch from the moment it enters an enqueue, and blocks for
\* all of it when it comes to link them.
Chains ==
  \A p \in Procs :
    /\ Once(chain[p])
    /\ pc[p] \in {"take", "takeMany", "insert"} <=> batch[p] \in Batches
    /\ pc[p] \notin {"take", "takeMany", "insert"} <=> batch[p] = << >>
    /\ pc[p] = "take" => Len(batch[p]) = 1
    /\ pc[p] = "insert" => Len(chain[p]) = Len(batch[p])
    /\ pc[p] # "insert" => chain[p] = << >>

\* Blocks not allocated H, free F, queued Q and held by the processors C.
Partition(H, F, Q, C) ==
  /\ \A k \in Blocks : k \in H \cup F \cup Q \/ \E p \in Procs : k \in C[p]
  /\ H \cap F = {} /\ H \cap Q = {} /\ F \cap Q = {}
  /\ \A p \in Procs : C[p] \cap H = {} /\ C[p] \cap F = {} /\ C[p] \cap Q = {}
  /\ \A p, r \in Procs : p # r => C[p] \cap C[r] = {}

Held == [p \in Procs |-> Range(chain[p])]

Apart == Partition(heap, Range(FreeList), Range(Queue), Held)

Locked == \A p \in Procs : pc[p] = "find" <=> lock = p

\* What count leaves out: the repetition claimed in the critical section.
Claimed == IF lock = NoProc THEN 0 ELSE 1

Counted ==
  /\ IsFiniteSet(Reps(blk, Range(Queue)))
  /\ count = Cardinality(Reps(blk, Range(Queue))) - Claimed
  /\ count >= 0

\* The jobs whose enqueuing has started and has not ended.
Waiting(f) == UNION {{p} \X DOMAIN f[p] : p \in Procs}

Budget ==
  /\ IsFiniteSet(Waiting(batch))
  /\ Len(log) + Cardinality(Waiting(batch)) = issued

IInv ==
  TypeOK /\ Lists /\ Alive /\ Chains /\ Apart /\ Locked /\ Counted /\ Budget

(* Blocks move from the heap and the free list to a processor.             *)
LEMMA Gathered ==
  ASSUME NEW H, NEW F, NEW Q, NEW C, Partition(H, F, Q, C), NEW p \in Procs, C[p] = {},
         NEW N, N \subseteq H, NEW T, T \subseteq F,
         NEW D, D[p] = N \cup T, \A r \in Procs \ {p} : D[r] = C[r]
  PROVE  Partition(H \ N, F \ T, Q, D)
<1>1. \A k \in Blocks : k \in (H \ N) \cup (F \ T) \cup Q \/ \E r \in Procs : k \in D[r]
  <2> TAKE k \in Blocks
  <2>1. CASE k \in N \cup T
    BY <2>1
  <2>2. CASE k \notin N \cup T
    <3>1. k \in H \cup F \cup Q \/ \E r \in Procs : k \in C[r]
      BY DEF Partition
    <3>2. ASSUME NEW r \in Procs, k \in C[r] PROVE k \in D[r]
      BY <3>2
    <3> QED BY <2>2, <3>1, <3>2
  <2> QED BY <2>1, <2>2
<1>2. (H \ N) \cap (F \ T) = {} /\ (H \ N) \cap Q = {} /\ (F \ T) \cap Q = {}
  BY DEF Partition
<1>3. \A r \in Procs : D[r] \cap (H \ N) = {} /\ D[r] \cap (F \ T) = {} /\ D[r] \cap Q = {}
  <2> TAKE r \in Procs
  <2>1. H \cap F = {} /\ H \cap Q = {} /\ F \cap Q = {}
    BY DEF Partition
  <2>2. CASE r = p
    BY <2>1, <2>2
  <2>3. CASE r # p
    <3>1. D[r] = C[r] /\ C[r] \cap H = {} /\ C[r] \cap F = {} /\ C[r] \cap Q = {}
      BY <2>3 DEF Partition
    <3> QED BY <3>1
  <2> QED BY <2>2, <2>3
<1>4. \A r, t \in Procs : r # t => D[r] \cap D[t] = {}
  <2>1. \A r \in Procs : r # p => D[r] \cap (N \cup T) = {}
    <3> SUFFICES ASSUME NEW r \in Procs, r # p PROVE D[r] \cap (N \cup T) = {}
      OBVIOUS
    <3>1. D[r] = C[r] /\ C[r] \cap H = {} /\ C[r] \cap F = {}
      BY DEF Partition
    <3> QED BY <3>1
  <2>2. \A r, t \in Procs : r # t => C[r] \cap C[t] = {}
    BY DEF Partition
  <2> SUFFICES ASSUME NEW r \in Procs, NEW t \in Procs, r # t PROVE D[r] \cap D[t] = {}
    OBVIOUS
  <2>3. CASE r = p
    BY <2>1, <2>3
  <2>4. CASE t = p
    BY <2>1, <2>4
  <2>5. CASE r # p /\ t # p
    BY <2>2, <2>5
  <2> QED BY <2>3, <2>4, <2>5
<1> QED BY <1>1, <1>2, <1>3, <1>4 DEF Partition

(* A processor links the blocks it holds.                                  *)
LEMMA Queued ==
  ASSUME NEW H, NEW F, NEW Q, NEW C, Partition(H, F, Q, C), NEW p \in Procs,
         NEW D, D[p] = {}, \A r \in Procs \ {p} : D[r] = C[r]
  PROVE  Partition(H, F, Q \cup C[p], D)
<1>1. \A k \in Blocks : k \in H \cup F \cup (Q \cup C[p]) \/ \E r \in Procs : k \in D[r]
  <2> TAKE k \in Blocks
  <2>1. k \in H \cup F \cup Q \/ \E r \in Procs : k \in C[r]
    BY DEF Partition
  <2>2. ASSUME NEW r \in Procs, k \in C[r], r # p PROVE k \in D[r]
    BY <2>2
  <2> QED BY <2>1, <2>2
<1>2. H \cap F = {} /\ H \cap (Q \cup C[p]) = {} /\ F \cap (Q \cup C[p]) = {}
  <2>1. /\ H \cap F = {} /\ H \cap Q = {} /\ F \cap Q = {}
        /\ C[p] \cap H = {} /\ C[p] \cap F = {}
    BY DEF Partition
  <2> QED BY <2>1
<1>3. \A r \in Procs : D[r] \cap H = {} /\ D[r] \cap F = {} /\ D[r] \cap (Q \cup C[p]) = {}
  <2> TAKE r \in Procs
  <2>1. CASE r = p
    BY <2>1
  <2>2. CASE r # p
    <3>1. /\ D[r] = C[r] /\ C[r] \cap H = {} /\ C[r] \cap F = {} /\ C[r] \cap Q = {}
          /\ C[r] \cap C[p] = {}
      BY <2>2 DEF Partition
    <3> QED BY <3>1
  <2> QED BY <2>1, <2>2
<1>4. \A r, t \in Procs : r # t => D[r] \cap D[t] = {}
  <2> SUFFICES ASSUME NEW r \in Procs, NEW t \in Procs, r # t PROVE D[r] \cap D[t] = {}
    OBVIOUS
  <2>1. CASE r = p \/ t = p
    BY <2>1
  <2>2. CASE r # p /\ t # p
    <3>1. C[r] \cap C[t] = {}
      BY DEF Partition
    <3> QED BY <2>2, <3>1
  <2> QED BY <2>1, <2>2
<1> QED BY <1>1, <1>2, <1>3, <1>4 DEF Partition

(* Blocks go from the free list into the queue.                            *)
LEMMA Reused ==
  ASSUME NEW H, NEW F, NEW Q, NEW C, Partition(H, F, Q, C), NEW T, T \subseteq F
  PROVE  Partition(H, F \ T, Q \cup T, C)
<1>1. \A k \in Blocks : k \in H \cup (F \ T) \cup (Q \cup T) \/ \E r \in Procs : k \in C[r]
  BY DEF Partition
<1>2. H \cap (F \ T) = {} /\ H \cap (Q \cup T) = {} /\ (F \ T) \cap (Q \cup T) = {}
  BY DEF Partition
<1>3. \A r \in Procs : C[r] \cap H = {} /\ C[r] \cap (F \ T) = {} /\ C[r] \cap (Q \cup T) = {}
  BY DEF Partition
<1>4. \A r, t \in Procs : r # t => C[r] \cap C[t] = {}
  BY DEF Partition
<1> QED BY <1>1, <1>2, <1>3, <1>4 DEF Partition

(* Blocks go from the queue onto the free list.                            *)
LEMMA Freed ==
  ASSUME NEW H, NEW F, NEW Q, NEW C, Partition(H, F, Q, C), NEW T, T \subseteq Q
  PROVE  Partition(H, F \cup T, Q \ T, C)
<1>1. \A k \in Blocks : k \in H \cup (F \cup T) \cup (Q \ T) \/ \E r \in Procs : k \in C[r]
  BY DEF Partition
<1>2. H \cap (F \cup T) = {} /\ H \cap (Q \ T) = {} /\ (F \cup T) \cap (Q \ T) = {}
  BY DEF Partition
<1>3. \A r \in Procs : C[r] \cap H = {} /\ C[r] \cap (F \cup T) = {} /\ C[r] \cap (Q \ T) = {}
  BY DEF Partition
<1>4. \A r, t \in Procs : r # t => C[r] \cap C[t] = {}
  BY DEF Partition
<1> QED BY <1>1, <1>2, <1>3, <1>4 DEF Partition

(* A processor that starts to enqueue the batch b.                         *)
LEMMA WaitingMore ==
  ASSUME NEW f, NEW g, NEW p \in Procs, NEW b, Len(b) \in Nat, DOMAIN b = 1..Len(b),
         IsFiniteSet(Waiting(f)), f[p] = << >>, g[p] = b,
         \A r \in Procs \ {p} : g[r] = f[r]
  PROVE  /\ IsFiniteSet(Waiting(g))
         /\ Cardinality(Waiting(g)) = Cardinality(Waiting(f)) + Len(b)
         /\ Cardinality(Waiting(f)) \in Nat
<1> DEFINE P == {p} \X (1..Len(b))
<1>1. IsFiniteSet(P) /\ Cardinality(P) = Len(b)
  BY PairsFinite
<1>2. \A x : x \in Waiting(f) <=> \E r \in Procs : \E i \in DOMAIN f[r] : x = <<r, i>>
  BY DEF Waiting
<1>3. \A x : x \in Waiting(g) <=> \E r \in Procs : \E i \in DOMAIN g[r] : x = <<r, i>>
  BY DEF Waiting
<1>4. \A x : x \in P <=> \E i \in 1..Len(b) : x = <<p, i>>
  OBVIOUS
<1>5. ASSUME NEW i \in DOMAIN f[p] PROVE FALSE
  BY <1>5
<1> HIDE DEF P
<1>6. Waiting(f) \cap P = {}
  <2> SUFFICES ASSUME NEW x \in Waiting(f), x \in P PROVE FALSE
    OBVIOUS
  <2>1. PICK r \in Procs : \E i \in DOMAIN f[r] : x = <<r, i>>
    BY <1>2
  <2>2. PICK i \in DOMAIN f[r] : x = <<r, i>>
    BY <2>1
  <2>3. r = p
    BY <1>4, <2>2
  <2> QED BY <1>5, <2>2, <2>3
<1>7. Waiting(g) = Waiting(f) \cup P
  <2>1. ASSUME NEW x \in Waiting(g) PROVE x \in Waiting(f) \cup P
    <3>1. PICK r \in Procs : \E i \in DOMAIN g[r] : x = <<r, i>>
      BY <1>3, <2>1
    <3>2. PICK i \in DOMAIN g[r] : x = <<r, i>>
      BY <3>1
    <3>3. CASE r = p
      BY <1>4, <3>2, <3>3
    <3>4. CASE r # p
      BY <1>2, <3>2, <3>4
    <3> QED BY <3>3, <3>4
  <2>2. ASSUME NEW x \in Waiting(f) PROVE x \in Waiting(g)
    <3>1. PICK r \in Procs : \E i \in DOMAIN f[r] : x = <<r, i>>
      BY <1>2, <2>2
    <3>2. PICK i \in DOMAIN f[r] : x = <<r, i>>
      BY <3>1
    <3>3. r # p
      BY <1>5, <3>2
    <3> QED BY <1>3, <3>2, <3>3
  <2>3. ASSUME NEW x \in P PROVE x \in Waiting(g)
    BY <1>3, <1>4, <2>3
  <2> QED BY <2>1, <2>2, <2>3
<1> QED BY <1>1, <1>6, <1>7, DisjointUnion

(* A processor whose batch b is in the queue.                              *)
LEMMA WaitingLess ==
  ASSUME NEW f, NEW g, NEW p \in Procs, NEW b, Len(b) \in Nat, DOMAIN b = 1..Len(b),
         IsFiniteSet(Waiting(f)), f[p] = b, g[p] = << >>,
         \A r \in Procs \ {p} : g[r] = f[r]
  PROVE  /\ IsFiniteSet(Waiting(g))
         /\ Cardinality(Waiting(f)) = Cardinality(Waiting(g)) + Len(b)
         /\ Cardinality(Waiting(g)) \in Nat
<1>1. Waiting(g) \subseteq Waiting(f)
  <2> SUFFICES ASSUME NEW x \in Waiting(g) PROVE x \in Waiting(f)
    OBVIOUS
  <2>1. PICK r \in Procs : \E i \in DOMAIN g[r] : x = <<r, i>>
    BY DEF Waiting
  <2>2. r # p
    BY <2>1
  <2>3. g[r] = f[r]
    BY <2>2
  <2> QED BY <2>1, <2>3 DEF Waiting
<1>2. IsFiniteSet(Waiting(g))
  BY <1>1, FS_Subset
<1>3. \A r \in Procs \ {p} : f[r] = g[r]
  OBVIOUS
<1> QED BY <1>2, <1>3, WaitingMore

(* What a batch is.                                                        *)
LEMMA BatchIs ==
  ASSUME NEW b \in Batches
  PROVE  /\ b \in Seq(Templates) /\ Len(b) \in Nat /\ Len(b) > 0 /\ DOMAIN b = 1..Len(b)
         /\ b # << >>
         /\ \A i \in 1..Len(b) : b[i] \in Templates /\ b[i].repeat > 0 /\ b[i].repeat \in Nat
<1>1. b \in Seq(Templates) /\ Len(b) > 0
  BY RunQueueAssumption
<1>2. Len(b) \in Nat /\ DOMAIN b = 1..Len(b)
  BY <1>1, LenProperties
<1>3. b # << >>
  BY <1>1
<1>4. \A i \in 1..Len(b) : b[i] \in Templates
  BY <1>1, <1>2, ElementOfSeq
<1>5. \A t \in Templates : t.repeat > 0 /\ t.repeat \in Nat
  BY DEF Templates
<1> QED BY <1>1, <1>2, <1>3, <1>4, <1>5

(* The two lists of a state.                                               *)
LEMMA ListsGive ==
  ASSUME TypeOK, Lists
  PROVE  /\ Queue \in Seq(Blocks) /\ Once(Queue) /\ Linked(blk, head, Queue)
         /\ FreeList \in Seq(Blocks) /\ Once(FreeList) /\ Linked(blk, free, FreeList)
         /\ Doubly(blk, head, tail, Queue)
         /\ blk \in [Blocks -> Node]
BY DEF Lists, Doubly, Linked, TypeOK, Node

(* The lists after a step, once it is known what they are.                 *)
LEMMA ListsAre ==
  ASSUME NEW q, Doubly(blk', head', tail', q), NEW s, Linked(blk', free', s)
  PROVE  Queue' = q /\ FreeList' = s /\ Lists'
<1>1. Queue' = q
  <2>1. Linked(blk', head', q)
    BY DEF Doubly
  <2>2. Walk(blk', head') = q
    BY <2>1, WalkIs
  <2> QED BY <2>2 DEF Queue
<1>2. FreeList' = s
  <2>1. Walk(blk', free') = s
    BY WalkIs
  <2> QED BY <2>1 DEF FreeList
<1> QED BY <1>1, <1>2 DEF Lists

-----------------------------------------------------------------------------
(* Counting the repetitions of the queue.                                  *)

(* Blocks whose repeat is as before.                                       *)
LEMMA RepsFrame ==
  ASSUME NEW f, NEW g, NEW S, \A k \in S : g[k].repeat = f[k].repeat
  PROVE  Reps(g, S) = Reps(f, S)
<1>1. \A x : x \in Reps(g, S) <=> \E k \in S : \E r \in 1..g[k].repeat : x = <<k, r>>
  BY RepsMember
<1>2. \A x : x \in Reps(f, S) <=> \E k \in S : \E r \in 1..f[k].repeat : x = <<k, r>>
  BY RepsMember
<1>3. \A x : x \in Reps(g, S) <=> x \in Reps(f, S)
  BY <1>1, <1>2
<1> QED BY <1>3

(* More blocks.                                                            *)
LEMMA RepsUnion ==
  ASSUME NEW f, NEW S, NEW T, S \cap T = {}
  PROVE  /\ Reps(f, S \cup T) = Reps(f, S) \cup Reps(f, T)
         /\ Reps(f, S) \cap Reps(f, T) = {}
<1>1. /\ \A x : x \in Reps(f, S) <=> \E k \in S : \E r \in 1..f[k].repeat : x = <<k, r>>
      /\ \A x : x \in Reps(f, T) <=> \E k \in T : \E r \in 1..f[k].repeat : x = <<k, r>>
      /\ \A x : x \in Reps(f, S \cup T) <=> \E k \in S \cup T : \E r \in 1..f[k].repeat : x = <<k, r>>
  BY RepsMember
<1>2. Reps(f, S \cup T) = Reps(f, S) \cup Reps(f, T)
  <2>1. \A x : x \in Reps(f, S \cup T) <=> x \in Reps(f, S) \/ x \in Reps(f, T)
    BY <1>1
  <2> QED BY <2>1
<1>3. ASSUME NEW x \in Reps(f, S), x \in Reps(f, T) PROVE FALSE
  <2>1. PICK k \in S : \E r \in 1..f[k].repeat : x = <<k, r>>
    BY <1>1
  <2>2. PICK j \in T : \E r \in 1..f[j].repeat : x = <<j, r>>
    BY <1>1, <1>3
  <2>3. k = j
    BY <2>1, <2>2
  <2> QED BY <2>3
<1> QED BY <1>2, <1>3

(* A repetition of the job in block k is handed out.                       *)
LEMMA RepsLess ==
  ASSUME NEW f, NEW g, NEW S, NEW k \in S, f[k].repeat \in Nat, f[k].repeat > 0,
         \A j \in S \ {k} : g[j].repeat = f[j].repeat, NEW T,
         \/ T = S /\ g[k].repeat = f[k].repeat - 1
         \/ T = S \ {k} /\ f[k].repeat = 1,
         IsFiniteSet(Reps(f, S))
  PROVE  /\ IsFiniteSet(Reps(g, T))
         /\ Cardinality(Reps(g, T)) = Cardinality(Reps(f, S)) - 1
         /\ Cardinality(Reps(f, S)) \in Nat
<1> DEFINE n == f[k].repeat
           y == <<k, n>>
<1>1. \A x : x \in Reps(g, T) <=> \E j \in T : \E r \in 1..g[j].repeat : x = <<j, r>>
  BY RepsMember
<1>2. \A x : x \in Reps(f, S) <=> \E j \in S : \E r \in 1..f[j].repeat : x = <<j, r>>
  BY RepsMember
<1>3. y \in Reps(f, S)
  <2>1. n \in 1..n
    OBVIOUS
  <2> QED BY <1>2, <2>1
<1>4. \A r : r \in 1..n /\ r # n <=> r \in 1..(n - 1)
  OBVIOUS
<1>5. ASSUME NEW x PROVE x \in Reps(g, T) => x \in Reps(f, S) /\ x # y
  <2> SUFFICES ASSUME x \in Reps(g, T) PROVE x \in Reps(f, S) /\ x # y
    OBVIOUS
  <2>1. PICK j \in T : \E r \in 1..g[j].repeat : x = <<j, r>>
    BY <1>1
  <2>2. PICK r \in 1..g[j].repeat : x = <<j, r>>
    BY <2>1
  <2>3. CASE j = k
    <3>1. g[j].repeat = n - 1
      BY <2>3
    <3>2. r \in 1..n /\ r # n
      BY <1>4, <2>2, <3>1
    <3> HIDE DEF n
    <3>3. x # <<k, n>>
      BY <2>2, <3>2
    <3>4. r \in 1..f[k].repeat
      BY <3>2 DEF n
    <3> QED BY <1>2, <2>2, <2>3, <3>3, <3>4
  <2>4. CASE j # k
    <3>1. j \in S \ {k}
      BY <2>4
    <3>2. r \in 1..f[j].repeat
      BY <2>2, <3>1
    <3>3. x # y
      BY <2>2, <2>4
    <3> QED BY <1>2, <2>2, <3>1, <3>2, <3>3
  <2> QED BY <2>3, <2>4
<1>6. ASSUME NEW x PROVE x \in Reps(f, S) /\ x # y => x \in Reps(g, T)
  <2> SUFFICES ASSUME x \in Reps(f, S), x # y PROVE x \in Reps(g, T)
    OBVIOUS
  <2>1. PICK j \in S : \E r \in 1..f[j].repeat : x = <<j, r>>
    BY <1>2
  <2>2. PICK r \in 1..f[j].repeat : x = <<j, r>>
    BY <2>1
  <2>3. CASE j = k
    <3>1. r \in 1..n /\ r # n
      BY <2>2, <2>3
    <3>2. r \in 1..(n - 1)
      BY <1>4, <3>1
    <3>3. T = S /\ g[k].repeat = n - 1
      BY <3>1
    <3> HIDE DEF n
    <3> QED BY <1>1, <2>2, <2>3, <3>2, <3>3
  <2>4. CASE j # k
    <3>1. j \in S \ {k} /\ j \in T
      BY <2>4
    <3>2. r \in 1..g[j].repeat
      BY <2>2, <3>1
    <3> QED BY <1>1, <2>2, <3>1, <3>2
  <2> QED BY <2>3, <2>4
<1> HIDE DEF y, n
<1>7. Reps(g, T) = Reps(f, S) \ {y}
  BY <1>5, <1>6
<1>8. /\ IsFiniteSet(Reps(f, S) \ {y})
      /\ Cardinality(Reps(f, S) \ {y}) = Cardinality(Reps(f, S)) - 1
  <2>1. /\ IsFiniteSet(Reps(f, S) \ {y})
        /\ Cardinality(Reps(f, S) \ {y}) = IF y \in Reps(f, S) THEN Cardinality(Reps(f, S)) - 1 ELSE Cardinality(Reps(f, S))
    BY FS_RemoveElement
  <2> QED BY <1>3, <2>1
<1>9. Cardinality(Reps(f, S)) \in Nat
  BY FS_CardinalityType
<1> QED BY <1>7, <1>8, <1>9

(* The ends of a list are pointers.                                        *)
LEMMA EndsArePointers ==
  /\ \A f, h, s : Linked(f, h, s) => h \in Ptr
  /\ \A f, h, t, s : Doubly(f, h, t, s) => h \in Ptr /\ t \in Ptr
<1>1. ASSUME NEW f, NEW h, NEW s, Linked(f, h, s) PROVE h \in Ptr
  <2>1. s \in Seq(Blocks) /\ h = IF s = << >> THEN Null ELSE s[1]
    BY <1>1 DEF Linked
  <2>2. s # << >> => s[1] \in Blocks
    <3>1. /\ Len(s) \in Nat /\ (s = << >> <=> Len(s) = 0)
          /\ \A i \in 1..Len(s) : s[i] \in Blocks
      BY <2>1, ListElements
    <3> QED BY <3>1
  <2> QED BY <2>1, <2>2 DEF Ptr
<1>2. ASSUME NEW f, NEW h, NEW t, NEW s, Doubly(f, h, t, s) PROVE h \in Ptr /\ t \in Ptr
  <2>1. Linked(f, h, s) /\ s \in Seq(Blocks) /\ t = IF s = << >> THEN Null ELSE s[Len(s)]
    BY <1>2 DEF Doubly, Linked
  <2>2. s # << >> => s[Len(s)] \in Blocks
    <3>1. /\ Len(s) \in Nat /\ (s = << >> <=> Len(s) = 0)
          /\ \A i \in 1..Len(s) : s[i] \in Blocks
      BY <2>1, ListElements
    <3>2. s # << >> => Len(s) \in 1..Len(s)
      BY <3>1
    <3> QED BY <3>1, <3>2
  <2> QED BY <1>1, <2>1, <2>2 DEF Ptr
<1> QED BY <1>1, <1>2

-----------------------------------------------------------------------------
(* Inserting.                                                              *)

(* What Insert makes of the queue: the blocks c in front of or behind what *)
(* was there, with the jobs b in them, and the count goes with them.       *)
LEMMA InsertGives ==
  ASSUME TypeOK, Lists, Alive, Counted, NEW p, NEW c \in Seq(Blocks), Once(c),
         Range(c) \cap Range(Queue) = {}, NEW b \in Batches, Len(b) = Len(c), NEW s,
         Linked(blk, free', s), Range(s) \cap Range(c) = {}, Range(s) \cap Range(Queue) = {},
         Insert(p, c, b), lock' = lock
  PROVE  /\ Queue' = IF b[1].highpri THEN c \o Queue ELSE Queue \o c
         /\ Range(Queue') = Range(Queue) \cup Range(c)
         /\ FreeList' = s /\ Lists' /\ Alive' /\ Counted'
         /\ blk' \in [Blocks -> Node] /\ {free', head', tail'} \subseteq Ptr /\ count' \in Int
         /\ \A i \in 1..Len(Queue) : JobIn(blk', Queue[i]) = JobIn(blk, Queue[i])
         /\ \A i \in 1..Len(c) : JobIn(blk', c[i]) = JobFrom(b, i, Len(log))
<1> DEFINE q == Queue
           new == IF b[1].highpri THEN c \o q ELSE q \o c
<1>1. /\ q \in Seq(Blocks) /\ Doubly(blk, head, tail, q)
      /\ Splice(c, b) /\ count' = count + Repeats(b)
  BY ListsGive DEF Insert
<1>2. /\ Doubly(blk', head', tail', new)
      /\ blk' \in [Blocks -> Node]
      /\ \A k \in Blocks \ (Range(c) \cup Range(q)) : blk'[k] = blk[k]
      /\ \A i \in 1..Len(q) : JobIn(blk', q[i]) = JobIn(blk, q[i])
      /\ \A i \in 1..Len(c) : JobIn(blk', c[i]) = JobFrom(b, i, Len(log))
  BY <1>1, SpliceIs
<1>3. Range(new) = Range(q) \cup Range(c)
  BY <1>1, ConcatElements
<1> HIDE DEF q, new
<1>4. Linked(blk', free', s)
  <2>1. s \in Seq(Blocks)
    BY DEF Linked
  <2>2. \A k \in Range(s) : k \in Blocks
    BY <2>1, ListElements
  <2>3. \A k \in Range(s) : k \in Blocks \ (Range(c) \cup Range(q))
    BY <2>2 DEF q
  <2>4. \A k \in Range(s) : blk'[k].next = blk[k].next
    BY <1>2, <2>3
  <2> QED BY <2>4, LinkedFrame
<1>5. Queue' = new /\ FreeList' = s /\ Lists'
  BY <1>2, <1>4, ListsAre
<1>6. free' \in Ptr /\ head' \in Ptr /\ tail' \in Ptr
  BY <1>2, <1>4, EndsArePointers
<1>7. \A k \in Range(q) : blk'[k].repeat = blk[k].repeat
  <2> TAKE k \in Range(q)
  <2>1. PICK i \in 1..Len(q) : k = q[i]
    BY <1>1, ListElements
  <2>2. JobIn(blk', k) = JobIn(blk, k)
    BY <1>2, <2>1
  <2> QED BY <2>2 DEF JobIn
<1>8. \A i \in 1..Len(c) : blk'[c[i]].repeat = b[i].repeat
  <2> TAKE i \in 1..Len(c)
  <2>1. JobIn(blk', c[i]) = JobFrom(b, i, Len(log))
    BY <1>2
  <2> QED BY <2>1 DEF JobIn, JobFrom
<1>9. Alive'
  <2>1. \A k \in Range(q) : blk'[k].repeat > 0
    BY <1>7 DEF Alive, q
  <2>2. \A k \in Range(c) : blk'[k].repeat > 0
    <3> TAKE k \in Range(c)
    <3>1. PICK i \in 1..Len(c) : k = c[i]
      BY ListElements
    <3>2. blk'[k].repeat = b[i].repeat /\ b[i].repeat > 0
      BY <1>8, <3>1, BatchIs
    <3> QED BY <3>2
  <2>3. \A k \in Range(Queue') : blk'[k].repeat > 0
    BY <1>3, <1>5, <2>1, <2>2
  <2> QED BY <2>3 DEF Alive
<1>10. Counted' /\ count' \in Int
  <2> DEFINE R == Reps(blk, Range(q))
             S == Reps(blk', Range(c))
  <2>1. Reps(blk', Range(q)) = R
    BY <1>7, RepsFrame
  <2>2. Reps(blk', Range(Queue')) = R \cup S /\ R \cap S = {}
    <3>1. Range(q) \cap Range(c) = {}
      BY DEF q
    <3> QED BY <1>3, <1>5, <2>1, <3>1, RepsUnion
  <2>3. IsFiniteSet(S) /\ Cardinality(S) = Repeats(b) /\ Repeats(b) \in Nat
    BY <1>8, RepsOfBatch
  <2>4. IsFiniteSet(R) /\ count = Cardinality(R) - Claimed /\ count >= 0
    BY DEF Counted, q
  <2> HIDE DEF R, S
  <2>5. /\ IsFiniteSet(R \cup S) /\ Cardinality(R \cup S) = Cardinality(R) + Cardinality(S)
        /\ Cardinality(R) \in Nat
    BY <2>2, <2>3, <2>4, DisjointUnion
  <2>6. Claimed' = Claimed /\ Claimed \in Nat
    BY DEF Claimed
  <2>7. /\ count + Repeats(b) = Cardinality(R \cup S) - Claimed
        /\ count + Repeats(b) >= 0 /\ count + Repeats(b) \in Int
    BY <2>3, <2>4, <2>5, <2>6
  <2>8. IsFiniteSet(Reps(blk', Range(Queue'))) /\ count' = Cardinality(Reps(blk', Range(Queue'))) - Claimed'
    BY <1>1, <2>2, <2>5, <2>6, <2>7
  <2> QED BY <1>1, <2>7, <2>8 DEF Counted
<1> QED BY <1>2, <1>3, <1>5, <1>6, <1>9, <1>10 DEF q, new

-----------------------------------------------------------------------------
(* The steps of an insertion.                                              *)

(* The step that links the batch of p and drops what p held.               *)
LEMMA Inserted ==
  ASSUME IInv, NEW p \in Procs, batch[p] \in Batches, pc[p] # "find", lock = NoProc,
         NEW c \in Seq(Blocks), Once(c), Range(c) \cap Range(Queue) = {},
         Len(batch[p]) = Len(c), NEW s, Linked(blk, free', s),
         Range(s) \cap Range(c) = {}, Range(s) \cap Range(Queue) = {},
         Insert(p, c, batch[p]), UNCHANGED <<heap, lock, gidOf, issued>>
  PROVE  /\ TypeOK' /\ Lists' /\ Alive' /\ Chains' /\ Locked' /\ Counted' /\ Budget'
         /\ FreeList' = s /\ Range(Queue') = Range(Queue) \cup Range(c)
         /\ Held'[p] = {} /\ \A r \in Procs \ {p} : Held'[r] = Held[r]
<1> DEFINE b == batch[p]
<1>1. TypeOK /\ Lists /\ Alive /\ Counted /\ Chains /\ Locked /\ Budget
  BY DEF IInv
<1>2. /\ Range(Queue') = Range(Queue) \cup Range(c)
      /\ FreeList' = s /\ Lists' /\ Alive' /\ Counted'
      /\ blk' \in [Blocks -> Node] /\ {free', head', tail'} \subseteq Ptr /\ count' \in Int
  BY <1>1, InsertGives
<1>3. /\ log' = log \o b
      /\ pc' = [pc EXCEPT ![p] = "idle"]
      /\ batch' = [batch EXCEPT ![p] = << >>]
      /\ chain' = [chain EXCEPT ![p] = << >>]
  BY DEF Insert
<1>4. /\ pc \in [Procs -> {"idle", "take", "takeMany", "insert", "deq", "find"}]
      /\ batch \in [Procs -> Batches \cup {<< >>}] /\ chain \in [Procs -> Seq(Blocks)]
      /\ log \in Seq(Templates) /\ issued \in 0..MaxJobs
  BY <1>1 DEF TypeOK
<1>5. /\ pc'[p] = "idle" /\ batch'[p] = << >> /\ chain'[p] = << >>
      /\ \A r \in Procs \ {p} : pc'[r] = pc[r] /\ batch'[r] = batch[r] /\ chain'[r] = chain[r]
  BY <1>3, <1>4
<1>6. b \in Seq(Templates) /\ Len(b) \in Nat /\ DOMAIN b = 1..Len(b) /\ b # << >>
  BY BatchIs
<1>7. TypeOK'
  <2>1. log' \in Seq(Templates)
    BY <1>3, <1>4, <1>6, ConcatProperties
  <2>2. pc' \in [Procs -> {"idle", "take", "takeMany", "insert", "deq", "find"}]
    BY <1>3, <1>4
  <2>3. batch' \in [Procs -> Batches \cup {<< >>}]
    BY <1>3, <1>4
  <2>4. chain' \in [Procs -> Seq(Blocks)]
    <3>1. << >> \in Seq(Blocks)
      OBVIOUS
    <3> QED BY <1>3, <1>4, <3>1
  <2>5. heap' \subseteq Blocks /\ lock' \in Procs \cup {NoProc} /\ gidOf' \in [Procs -> Gids]
        /\ issued' \in 0..MaxJobs
    BY <1>1 DEF TypeOK
  <2> QED BY <1>2, <2>1, <2>2, <2>3, <2>4, <2>5 DEF TypeOK, Node
<1>8. Chains'
  <2>1. ASSUME NEW r \in Procs
        PROVE  /\ Once(chain'[r])
               /\ pc'[r] \in {"take", "takeMany", "insert"} <=> batch'[r] \in Batches
               /\ pc'[r] \notin {"take", "takeMany", "insert"} <=> batch'[r] = << >>
               /\ pc'[r] = "take" => Len(batch'[r]) = 1
               /\ pc'[r] = "insert" => Len(chain'[r]) = Len(batch'[r])
               /\ pc'[r] # "insert" => chain'[r] = << >>
    <3>1. CASE r # p
      BY <1>1, <1>5, <3>1 DEF Chains
    <3>2. CASE r = p
      <4>1. << >> \notin Batches
        BY BatchIs
      <4>2. Once(<< >>)
        BY DEF Once
      <4> QED BY <1>5, <3>2, <4>1, <4>2
    <3> QED BY <3>1, <3>2
  <2> QED BY <2>1 DEF Chains
<1>9. Locked'
  BY <1>1, <1>5, RunQueueAssumption DEF Locked
<1>10. Budget'
  <2>1. /\ IsFiniteSet(Waiting(batch'))
        /\ Cardinality(Waiting(batch)) = Cardinality(Waiting(batch')) + Len(b)
        /\ Cardinality(Waiting(batch')) \in Nat
    <3>1. IsFiniteSet(Waiting(batch)) /\ batch[p] = b /\ batch'[p] = << >>
      BY <1>1, <1>5 DEF Budget
    <3>2. \A r \in Procs \ {p} : batch'[r] = batch[r]
      BY <1>5
    <3> HIDE DEF b
    <3> QED BY <1>6, <3>1, <3>2, WaitingLess
  <2>2. Len(log') = Len(log) + Len(b) /\ Len(log) \in Nat
    <3> HIDE DEF b
    <3>1. Len(log \o b) = Len(log) + Len(b)
      BY <1>4, <1>6, ConcatProperties
    <3>2. Len(log) \in Nat
      BY <1>4, LenProperties
    <3> QED BY <1>3, <3>1, <3>2
  <2>3. Len(log) + Cardinality(Waiting(batch)) = issued
    BY <1>1 DEF Budget
  <2> HIDE DEF b
  <2>4. Len(log') + Cardinality(Waiting(batch')) = issued'
    BY <1>6, <2>1, <2>2, <2>3
  <2> QED BY <2>1, <2>4 DEF Budget
<1>11. Held'[p] = {} /\ \A r \in Procs \ {p} : Held'[r] = Held[r]
  <2>1. Range(<< >>) = {}
    BY DEF Range
  <2> QED BY <1>5, <2>1 DEF Held
<1> QED BY <1>1, <1>2, <1>7, <1>8, <1>9, <1>10, <1>11

(* Blocks that are allocated.                                              *)
LEMMA AllocateGives ==
  ASSUME TypeOK, NEW n \in Nat, NEW c \in Allocate(n)
  PROVE  c \in Seq(Blocks) /\ Len(c) = n /\ Once(c) /\ Range(c) \subseteq heap
<1>1. c \in [1..n -> heap] /\ IsInjective(c) /\ heap \subseteq Blocks
  BY DEF Allocate, TypeOK
<1>2. c \in [1..n -> Blocks]
  BY <1>1
<1>3. c \in Seq(Blocks) /\ Len(c) = n
  BY <1>2, SeqDef, LenProperties
<1>4. Once(c)
  BY <1>1, <1>3 DEF IsInjective, Once
<1>5. Range(c) \subseteq heap
  BY <1>1 DEF Range
<1> QED BY <1>3, <1>4, <1>5

(* The step that gathers the blocks c for the batch of p.                  *)
LEMMA Gathering ==
  ASSUME IInv, NEW p \in Procs, pc[p] \notin {"find", "insert"},
         NEW c \in Seq(Blocks), Once(c), NEW N, N \subseteq heap,
         NEW T, T \subseteq Range(FreeList), Range(c) = N \cup T,
         NEW s, Linked(blk, free', s), Range(s) = Range(FreeList) \ T,
         batch'[p] \in Batches, Len(c) = Len(batch'[p]),
         \A r \in Procs \ {p} : batch'[r] = batch[r],
         chain' = [chain EXCEPT ![p] = c], heap' = heap \ N,
         pc' = [pc EXCEPT ![p] = "insert"],
         UNCHANGED <<count, head, tail, blk, lock>>
  PROVE  Lists' /\ Alive' /\ Chains' /\ Apart' /\ Locked' /\ Counted' /\ free' \in Ptr
<1>1. TypeOK /\ Lists /\ Alive /\ Counted /\ Chains /\ Locked /\ Apart
  BY DEF IInv
<1>2. Queue' = Queue /\ FreeList' = s /\ Lists'
  <2>1. Doubly(blk', head', tail', Queue) /\ Linked(blk', free', s)
    BY <1>1, ListsGive
  <2> QED BY <2>1, ListsAre
<1>3. Alive' /\ Counted'
  BY <1>1, <1>2 DEF Alive, Counted, Claimed
<1>4. /\ pc \in [Procs -> {"idle", "take", "takeMany", "insert", "deq", "find"}]
      /\ chain \in [Procs -> Seq(Blocks)]
  BY <1>1 DEF TypeOK
<1>5. /\ pc'[p] = "insert" /\ chain'[p] = c
      /\ \A r \in Procs \ {p} : pc'[r] = pc[r] /\ batch'[r] = batch[r] /\ chain'[r] = chain[r]
  BY <1>4
<1>6. Chains'
  <2>1. ASSUME NEW r \in Procs
        PROVE  /\ Once(chain'[r])
               /\ pc'[r] \in {"take", "takeMany", "insert"} <=> batch'[r] \in Batches
               /\ pc'[r] \notin {"take", "takeMany", "insert"} <=> batch'[r] = << >>
               /\ pc'[r] = "take" => Len(batch'[r]) = 1
               /\ pc'[r] = "insert" => Len(chain'[r]) = Len(batch'[r])
               /\ pc'[r] # "insert" => chain'[r] = << >>
    <3>1. CASE r # p
      BY <1>1, <1>5, <3>1 DEF Chains
    <3>2. CASE r = p
      <4>1. batch'[p] # << >>
        BY BatchIs
      <4> QED BY <1>5, <3>2, <4>1
    <3> QED BY <3>1, <3>2
  <2> QED BY <2>1 DEF Chains
<1>7. Locked'
  BY <1>1, <1>5 DEF Locked
<1>8. Apart'
  <2>1. Held[p] = {} /\ Held'[p] = N \cup T /\ \A r \in Procs \ {p} : Held'[r] = Held[r]
    <3>1. chain[p] = << >> /\ Range(<< >>) = {}
      BY <1>1 DEF Chains, Range
    <3> QED BY <1>5, <3>1 DEF Held
  <2>2. Partition(heap, Range(FreeList), Range(Queue), Held)
    BY <1>1 DEF Apart
  <2>3. Partition(heap \ N, Range(FreeList) \ T, Range(Queue), Held')
    BY <2>1, <2>2, Gathered
  <2> QED BY <1>2, <2>3 DEF Apart
<1> QED BY <1>2, <1>3, <1>6, <1>7, <1>8, EndsArePointers

(* A batch is added to those whose enqueuing has not ended.                *)
LEMMA BatchStarts ==
  ASSUME NEW p \in Procs, NEW b \in Batches, IsFiniteSet(Waiting(batch)), batch[p] = << >>,
         batch'[p] = b, \A r \in Procs \ {p} : batch'[r] = batch[r]
  PROVE  /\ IsFiniteSet(Waiting(batch'))
         /\ Cardinality(Waiting(batch')) = Cardinality(Waiting(batch)) + Len(b)
         /\ Cardinality(Waiting(batch)) \in Nat
<1>1. Len(b) \in Nat /\ DOMAIN b = 1..Len(b)
  BY BatchIs
<1> QED BY <1>1, WaitingMore

(* The entry of both enqueues: a free block seen without the lock, or      *)
(* blocks allocated.                                                       *)
LEMMA Started ==
  ASSUME IInv, NEW p \in Procs, NEW b \in Batches, NEW w \in {"take", "takeMany"},
         w = "take" => Len(b) = 1, pc[p] = "idle", issued + Len(b) <= MaxJobs,
         issued' = issued + Len(b), batch' = [batch EXCEPT ![p] = b],
         \/ pc' = [pc EXCEPT ![p] = w] /\ UNCHANGED <<chain, heap>>
         \/ \E c \in Allocate(Len(b)) :
              /\ chain' = [chain EXCEPT ![p] = c] /\ heap' = heap \ Range(c)
              /\ pc' = [pc EXCEPT ![p] = "insert"],
         UNCHANGED <<count, free, head, tail, blk, lock, gidOf, hist>>
  PROVE  IInv'
<1>1. TypeOK /\ Lists /\ Alive /\ Counted /\ Chains /\ Locked /\ Apart /\ Budget
  BY DEF IInv
<1>2. /\ pc \in [Procs -> {"idle", "take", "takeMany", "insert", "deq", "find"}]
      /\ batch \in [Procs -> Batches \cup {<< >>}] /\ chain \in [Procs -> Seq(Blocks)]
      /\ log \in Seq(Templates) /\ issued \in 0..MaxJobs /\ heap \subseteq Blocks /\ MaxJobs \in Nat
  BY <1>1, RunQueueAssumption DEF TypeOK
<1>3. b \in Seq(Templates) /\ Len(b) \in Nat /\ Len(b) > 0 /\ DOMAIN b = 1..Len(b) /\ b # << >>
  BY BatchIs
<1>4. batch[p] = << >> /\ batch'[p] = b /\ \A r \in Procs \ {p} : batch'[r] = batch[r]
  BY <1>1, <1>2 DEF Chains
<1>5. Budget'
  <2>1. /\ IsFiniteSet(Waiting(batch'))
        /\ Cardinality(Waiting(batch')) = Cardinality(Waiting(batch)) + Len(b)
        /\ Cardinality(Waiting(batch)) \in Nat
    <3>1. IsFiniteSet(Waiting(batch)) /\ batch[p] = << >> /\ batch'[p] = b
      BY <1>1, <1>4 DEF Budget
    <3>2. \A r \in Procs \ {p} : batch'[r] = batch[r]
      BY <1>4
    <3> QED BY <3>1, <3>2, BatchStarts
  <2>2. Len(log) + Cardinality(Waiting(batch)) = issued /\ Len(log) \in Nat /\ log' = log
    BY <1>1, <1>2, LenProperties DEF Budget, hist
  <2>3. Len(log) + Cardinality(Waiting(batch')) = issued'
    BY <1>3, <2>1, <2>2
  <2> QED BY <2>1, <2>2, <2>3 DEF Budget
<1>6. /\ issued' \in 0..MaxJobs /\ batch' \in [Procs -> Batches \cup {<< >>}]
      /\ log' \in Seq(Templates)
  <2>1. issued' \in 0..MaxJobs
    BY <1>2, <1>3
  <2>2. batch' \in [Procs -> Batches \cup {<< >>}]
    BY <1>2
  <2> QED BY <1>2, <2>1, <2>2 DEF hist
<1>7. CASE pc' = [pc EXCEPT ![p] = w] /\ UNCHANGED <<chain, heap>>
  <2>1. pc'[p] = w /\ \A r \in Procs \ {p} : pc'[r] = pc[r]
    BY <1>2, <1>7
  <2>2. TypeOK'
    <3>1. pc' \in [Procs -> {"idle", "take", "takeMany", "insert", "deq", "find"}]
      BY <1>2, <1>7
    <3> QED BY <1>1, <1>6, <1>7, <3>1 DEF TypeOK
  <2>3. Queue' = Queue /\ FreeList' = FreeList
    BY DEF Queue, FreeList
  <2>4. Lists' /\ Alive' /\ Counted'
    BY <1>1, <2>3 DEF Lists, Alive, Counted, Claimed
  <2>5. Apart'
    BY <1>1, <1>7, <2>3 DEF Apart, Held
  <2>6. Chains'
    <3>1. ASSUME NEW r \in Procs
          PROVE  /\ Once(chain'[r])
                 /\ pc'[r] \in {"take", "takeMany", "insert"} <=> batch'[r] \in Batches
                 /\ pc'[r] \notin {"take", "takeMany", "insert"} <=> batch'[r] = << >>
                 /\ pc'[r] = "take" => Len(batch'[r]) = 1
                 /\ pc'[r] = "insert" => Len(chain'[r]) = Len(batch'[r])
                 /\ pc'[r] # "insert" => chain'[r] = << >>
      <4>1. CASE r # p
        BY <1>1, <1>4, <1>7, <2>1, <4>1 DEF Chains
      <4>2. CASE r = p
        <5>1. chain'[p] = << >> /\ Once(chain'[p])
          BY <1>1, <1>7 DEF Chains
        <5> QED BY <1>3, <1>4, <2>1, <4>2, <5>1
      <4> QED BY <4>1, <4>2
    <3> QED BY <3>1 DEF Chains
  <2>7. Locked'
    BY <1>1, <2>1 DEF Locked
  <2> QED BY <1>5, <2>2, <2>4, <2>5, <2>6, <2>7 DEF IInv
<1>8. ASSUME NEW c \in Allocate(Len(b)), chain' = [chain EXCEPT ![p] = c],
             heap' = heap \ Range(c), pc' = [pc EXCEPT ![p] = "insert"]
      PROVE  IInv'
  <2>1. c \in Seq(Blocks) /\ Len(c) = Len(b) /\ Once(c) /\ Range(c) \subseteq heap
    BY <1>1, <1>3, AllocateGives
  <2>2. Linked(blk, free', FreeList)
    BY <1>1, ListsGive
  <2>3. Lists' /\ Alive' /\ Chains' /\ Apart' /\ Locked' /\ Counted'
    <3> DEFINE N == Range(c)
               T == {}
    <3>1. N \subseteq heap /\ T \subseteq Range(FreeList) /\ Range(c) = N \cup T
          /\ Range(FreeList) = Range(FreeList) \ T /\ heap' = heap \ N
      BY <1>8, <2>1
    <3> HIDE DEF N, T
    <3>2. batch'[p] \in Batches /\ Len(c) = Len(batch'[p]) /\ pc[p] \notin {"find", "insert"}
      BY <1>4, <2>1
    <3>3. \A r \in Procs \ {p} : batch'[r] = batch[r]
      BY <1>4
    <3>4. UNCHANGED <<count, head, tail, blk, lock>>
      OBVIOUS
    <3> QED BY <1>8, <2>1, <2>2, <3>1, <3>2, <3>3, <3>4, Gathering
  <2>4. TypeOK'
    <3>1. pc' \in [Procs -> {"idle", "take", "takeMany", "insert", "deq", "find"}]
      BY <1>2, <1>8
    <3>2. chain' \in [Procs -> Seq(Blocks)]
      BY <1>2, <1>8, <2>1
    <3>3. heap' \subseteq Blocks
      BY <1>2, <1>8
    <3> QED BY <1>1, <1>6, <3>1, <3>2, <3>3 DEF TypeOK
  <2> QED BY <1>5, <2>3, <2>4 DEF IInv
<1> QED BY <1>7, <1>8

(* Two lists without a common block, each without a block twice.           *)
LEMMA OnceConcat ==
  ASSUME NEW x \in Seq(Blocks), NEW y \in Seq(Blocks), Once(x), Once(y), Range(x) \cap Range(y) = {}
  PROVE  Once(x \o y)
<1>1. /\ Len(x) \in Nat /\ Len(y) \in Nat /\ Len(x \o y) = Len(x) + Len(y)
      /\ Range(x) = {x[i] : i \in 1..Len(x)} /\ Range(y) = {y[i] : i \in 1..Len(y)}
  BY ConcatElements, ListElements
<1>2. /\ \A i \in 1..Len(x) : (x \o y)[i] = x[i]
      /\ \A i \in 1..Len(y) : (x \o y)[Len(x) + i] = y[i]
  BY ConcatElements
<1> DEFINE z == x \o y
           n == Len(x)
           m == Len(y)
<1>3. ASSUME NEW i \in 1..(n + m)
      PROVE  \/ i \in 1..n /\ z[i] = x[i] /\ z[i] \in Range(x)
             \/ i - n \in 1..m /\ z[i] = y[i - n] /\ z[i] \in Range(y)
  <2>1. CASE i \in 1..n
    BY <1>1, <1>2, <2>1
  <2>2. CASE i \notin 1..n
    <3>1. i - n \in 1..m /\ n + (i - n) = i
      BY <1>1, <2>2
    <3> QED BY <1>1, <1>2, <3>1
  <2> QED BY <2>1, <2>2
<1> HIDE DEF z
<1>4. ASSUME NEW i \in 1..(n + m), NEW j \in 1..(n + m), z[i] = z[j] PROVE i = j
  <2>1. CASE z[i] \in Range(x)
    <3>1. i \in 1..n /\ z[i] = x[i] /\ j \in 1..n /\ z[j] = x[j]
      BY <1>3, <1>4, <2>1
    <3> QED BY <1>4, <3>1 DEF Once
  <2>2. CASE z[i] \notin Range(x)
    <3>1. i - n \in 1..m /\ z[i] = y[i - n] /\ j - n \in 1..m /\ z[j] = y[j - n]
      BY <1>3, <1>4, <2>2
    <3>2. i - n = j - n
      BY <1>4, <3>1 DEF Once
    <3> QED BY <1>1, <3>2
  <2> QED BY <2>1, <2>2
<1> QED BY <1>1, <1>4 DEF Once, z

(* The first m blocks of a list.                                           *)
LEMMA FirstTaken ==
  ASSUME NEW s \in Seq(Blocks), Once(s), NEW m \in 0..Len(s)
  PROVE  LET t == SubSeq(s, 1, m)
         IN  /\ Reverse(t) \in Seq(Blocks) /\ Len(Reverse(t)) = m /\ Once(Reverse(t))
             /\ Range(Reverse(t)) = {s[i] : i \in 1..m}
             /\ {s[i] : i \in (m + 1)..Len(s)} = Range(s) \ {s[i] : i \in 1..m}
<1> DEFINE t == SubSeq(s, 1, m)
           v == Reverse(t)
           n == Len(s)
<1>1. n \in Nat /\ m \in Nat /\ m <= n /\ Range(s) = {s[i] : i \in 1..n}
      /\ \A i \in 1..n : s[i] \in Blocks
  BY ListElements
<1>2. t \in Seq(Blocks) /\ Len(t) = m /\ \A i \in 1..m : t[i] = s[i]
  <2>1. \A i \in 1..m : s[i] \in Blocks
    BY <1>1
  <2>2. /\ t \in Seq(Blocks)
        /\ Len(t) = IF 1 <= m THEN m - 1 + 1 ELSE 0
        /\ \A i \in 1..(m - 1 + 1) : t[i] = s[1 + i - 1]
    BY <1>1, <2>1, SubSeqProperties
  <2> HIDE DEF t
  <2> QED BY <1>1, <2>2
<1> HIDE DEF t, n
<1>3. v = [i \in 1..m |-> t[(m - i) + 1]]
  BY <1>2 DEF Reverse
<1>4. \A i \in 1..m : (m - i) + 1 \in 1..m /\ (m - ((m - i) + 1)) + 1 = i
  BY <1>1
<1>5. \A i \in 1..m : v[i] = s[(m - i) + 1] /\ s[(m - i) + 1] \in Blocks
  <2>1. \A i \in 1..m : i \in 1..n
    BY <1>1
  <2> QED BY <1>1, <1>2, <1>3, <1>4, <2>1
<1>6. v \in Seq(Blocks) /\ Len(v) = m
  <2>1. v \in [1..m -> Blocks]
    BY <1>3, <1>5
  <2> HIDE DEF v
  <2> QED BY <1>1, <2>1, SeqDef, LenProperties
<1> HIDE DEF v
<1>7. Once(v)
  <2> SUFFICES ASSUME NEW i \in 1..m, NEW j \in 1..m, v[i] = v[j] PROVE i = j
    BY <1>6 DEF Once
  <2>1. s[(m - i) + 1] = s[(m - j) + 1]
    BY <1>5
  <2>2. (m - i) + 1 \in 1..n /\ (m - j) + 1 \in 1..n
    BY <1>1
  <2>3. (m - i) + 1 = (m - j) + 1
    BY <2>1, <2>2 DEF Once, n
  <2> QED BY <1>1, <2>3
<1>8. Range(v) = {s[i] : i \in 1..m}
  <2>1. Range(v) = {v[i] : i \in 1..m}
    BY <1>6, ListElements
  <2>2. ASSUME NEW i \in 1..m PROVE v[i] \in {s[j] : j \in 1..m}
    BY <1>4, <1>5
  <2>3. ASSUME NEW i \in 1..m PROVE s[i] \in {v[j] : j \in 1..m}
    <3>1. (m - i) + 1 \in 1..m /\ v[(m - i) + 1] = s[(m - ((m - i) + 1)) + 1]
      BY <1>4, <1>5
    <3>2. v[(m - i) + 1] = s[i]
      BY <1>4, <3>1
    <3> QED BY <3>1, <3>2
  <2> QED BY <2>1, <2>2, <2>3
<1>9. {s[i] : i \in (m + 1)..n} = Range(s) \ {s[i] : i \in 1..m}
  <2>1. ASSUME NEW i \in (m + 1)..n PROVE s[i] \in Range(s) /\ s[i] \notin {s[j] : j \in 1..m}
    <3>1. i \in 1..n
      BY <1>1
    <3>2. \A j \in 1..m : j \in 1..n /\ j # i
      BY <1>1
    <3> QED BY <1>1, <3>1, <3>2 DEF Once, n
  <2>2. ASSUME NEW k \in Range(s), k \notin {s[j] : j \in 1..m} PROVE k \in {s[i] : i \in (m + 1)..n}
    <3>1. PICK i \in 1..n : k = s[i]
      BY <1>1
    <3>2. i \notin 1..m
      BY <2>2, <3>1
    <3>3. i \in (m + 1)..n
      BY <1>1, <3>2
    <3> QED BY <3>1, <3>3
  <2> QED BY <2>1, <2>2
<1> QED BY <1>6, <1>7, <1>8, <1>9 DEF t, v, n

(* What EnqueueTake finds when the free list is not empty.                 *)
LEMMA FirstFree ==
  ASSUME TypeOK, Lists, free # Null
  PROVE  LET s == SubSeq(FreeList, 2, Len(FreeList))
         IN  /\ Linked(blk, blk[free].next, s)
             /\ free \in Range(FreeList) /\ Range(s) = Range(FreeList) \ {free} /\ free \in Blocks
<1> DEFINE f == FreeList
           n == Len(f)
           s == SubSeq(f, 2, n)
<1>1. /\ f \in Seq(Blocks) /\ Once(f) /\ Linked(blk, free, f)
      /\ n \in Nat /\ (f = << >> <=> n = 0) /\ Range(f) = {f[i] : i \in 1..n}
      /\ \A i \in 1..n : f[i] \in Blocks
  <2>1. f \in Seq(Blocks) /\ Once(f) /\ Linked(blk, free, f)
    BY ListsGive
  <2> QED BY <2>1, ListElements
<1> HIDE DEF f
<1>2. f # << >> /\ free = f[1]
  BY <1>1 DEF Linked
<1>3. n > 0 /\ 1 \in 1..n /\ 1 \in 0..n
  BY <1>1, <1>2
<1>4. /\ Linked(blk, IF 1 < n THEN f[2] ELSE Null, s)
      /\ Range(s) = {f[i] : i \in 2..n}
  <2>1. 1 + 1 = 2
    OBVIOUS
  <2>2. /\ Linked(blk, IF 1 < Len(f) THEN f[1 + 1] ELSE Null, SubSeq(f, 1 + 1, Len(f)))
        /\ Range(SubSeq(f, 1 + 1, Len(f))) = {f[i] : i \in (1 + 1)..Len(f)}
    BY <1>1, <1>3, Dropped
  <2> QED BY <2>1, <2>2
<1>5. blk[free].next = IF 1 < n THEN f[2] ELSE Null
  BY <1>1, <1>2, <1>3 DEF Linked
<1>6. {f[i] : i \in 2..n} = Range(f) \ {f[1]}
  <2>1. /\ Range(f) \ {f[i] : i \in 1..1} = {f[i] : i \in (1 + 1)..n}
    BY <1>1, <1>3, FirstTaken
  <2>2. {f[i] : i \in 1..1} = {f[1]} /\ 1 + 1 = 2
    OBVIOUS
  <2> QED BY <2>1, <2>2
<1>7. free \in Range(f) /\ free \in Blocks
  BY <1>1, <1>2, <1>3
<1> QED BY <1>2, <1>4, <1>5, <1>6, <1>7 DEF f

(* A processor enters _dxf_ExRQEnqueue.                                    *)
LEMMA EnqueueKeeps ==
  ASSUME IInv, NEW p \in Procs, NEW b \in Batches, Enqueue(p, b)
  PROVE  IInv'
<1>1. Len(b) = 1 /\ pc[p] = "idle" /\ issued < MaxJobs /\ issued' = issued + 1
  BY DEF Enqueue
<1>2. issued + Len(b) <= MaxJobs /\ issued' = issued + Len(b)
  <2>1. issued \in Nat /\ MaxJobs \in Nat
    BY RunQueueAssumption DEF IInv, TypeOK
  <2> QED BY <1>1, <2>1
<1>3. batch' = [batch EXCEPT ![p] = b] /\ UNCHANGED <<count, free, head, tail, blk, lock, gidOf, hist>>
  BY DEF Enqueue
<1>4. \/ pc' = [pc EXCEPT ![p] = "take"] /\ UNCHANGED <<chain, heap>>
      \/ \E c \in Allocate(Len(b)) :
           /\ chain' = [chain EXCEPT ![p] = c] /\ heap' = heap \ Range(c)
           /\ pc' = [pc EXCEPT ![p] = "insert"]
  BY <1>1 DEF Enqueue
<1> QED BY <1>1, <1>2, <1>3, <1>4, Started

(* A processor enters _dxf_ExRQEnqueueMany.                                *)
LEMMA EnqueueManyKeeps ==
  ASSUME IInv, NEW p \in Procs, NEW b \in Batches, EnqueueMany(p, b)
  PROVE  IInv'
<1>1. /\ pc[p] = "idle" /\ issued + Len(b) <= MaxJobs /\ issued' = issued + Len(b)
      /\ batch' = [batch EXCEPT ![p] = b] /\ UNCHANGED <<count, free, head, tail, blk, lock, gidOf, hist>>
  BY DEF EnqueueMany
<1>2. \/ pc' = [pc EXCEPT ![p] = "takeMany"] /\ UNCHANGED <<chain, heap>>
      \/ \E c \in Allocate(Len(b)) :
           /\ chain' = [chain EXCEPT ![p] = c] /\ heap' = heap \ Range(c)
           /\ pc' = [pc EXCEPT ![p] = "insert"]
  BY DEF EnqueueMany
<1> QED BY <1>1, <1>2, Started

(* The chain of blocks that p holds, when it is about to insert them.      *)
LEMMA ChainGives ==
  ASSUME IInv, NEW p \in Procs, pc[p] = "insert"
  PROVE  /\ chain[p] \in Seq(Blocks) /\ Once(chain[p]) /\ Len(batch[p]) = Len(chain[p])
         /\ batch[p] \in Batches
         /\ Range(chain[p]) \cap Range(Queue) = {} /\ Range(FreeList) \cap Range(chain[p]) = {}
<1>1. TypeOK /\ Chains /\ Apart
  BY DEF IInv
<1>2. chain[p] \in Seq(Blocks) /\ Held[p] = Range(chain[p])
  BY <1>1 DEF TypeOK, Held
<1>3. Held[p] \cap Range(Queue) = {} /\ Held[p] \cap Range(FreeList) = {}
  BY <1>1 DEF Apart, Partition
<1>4. Once(chain[p]) /\ Len(batch[p]) = Len(chain[p]) /\ batch[p] \in Batches
  BY <1>1 DEF Chains
<1> QED BY <1>2, <1>3, <1>4

(* The blocks prepared without the lock are linked under it.               *)
LEMMA EnqueueInsertKeeps ==
  ASSUME IInv, NEW p \in Procs, EnqueueInsert(p)
  PROVE  IInv'
<1>1. /\ pc[p] = "insert" /\ lock = NoProc /\ Insert(p, chain[p], batch[p])
      /\ UNCHANGED <<free, heap, lock, gidOf, issued, ran>>
  BY DEF EnqueueInsert
<1>2. TypeOK /\ Lists /\ Apart
  BY DEF IInv
<1>3. Linked(blk, free', FreeList) /\ Range(FreeList) \cap Range(Queue) = {}
  <2>1. Linked(blk, free, FreeList)
    BY <1>2, ListsGive
  <2>2. Range(FreeList) \cap Range(Queue) = {}
    BY <1>2 DEF Apart, Partition
  <2> QED BY <1>1, <2>1, <2>2
<1>4. /\ chain[p] \in Seq(Blocks) /\ Once(chain[p]) /\ Len(batch[p]) = Len(chain[p])
      /\ batch[p] \in Batches
      /\ Range(chain[p]) \cap Range(Queue) = {} /\ Range(FreeList) \cap Range(chain[p]) = {}
  BY <1>1, ChainGives
<1>5. UNCHANGED <<heap, lock, gidOf, issued>> /\ pc[p] # "find"
  BY <1>1
<1>6. /\ TypeOK' /\ Lists' /\ Alive' /\ Chains' /\ Locked' /\ Counted' /\ Budget'
      /\ FreeList' = FreeList /\ Range(Queue') = Range(Queue) \cup Range(chain[p])
      /\ Held'[p] = {} /\ \A r \in Procs \ {p} : Held'[r] = Held[r]
  BY <1>1, <1>3, <1>4, <1>5, Inserted
<1>7. Apart'
  <2>1. Partition(heap, Range(FreeList), Range(Queue), Held)
    BY <1>2 DEF Apart
  <2>2. Partition(heap, Range(FreeList), Range(Queue) \cup Held[p], Held')
    BY <1>6, <2>1, Queued
  <2>3. Held[p] = Range(chain[p])
    BY DEF Held
  <2> QED BY <1>1, <1>6, <2>2, <2>3 DEF Apart
<1> QED BY <1>6, <1>7 DEF IInv

(* Linking the free block under the lock.                                  *)
LEMMA TakeGives ==
  ASSUME IInv, NEW p \in Procs, EnqueueTake(p), free # Null
  PROVE  LET s == SubSeq(FreeList, 2, Len(FreeList))
             c == <<free>>
         IN  /\ c \in Seq(Blocks) /\ Once(c) /\ Len(batch[p]) = Len(c) /\ Range(c) = {free}
             /\ batch[p] \in Batches /\ Range(c) \cap Range(Queue) = {}
             /\ Linked(blk, free', s) /\ Range(s) = Range(FreeList) \ {free}
             /\ free \in Range(FreeList)
             /\ Range(s) \cap Range(c) = {} /\ Range(s) \cap Range(Queue) = {}
             /\ Insert(p, c, batch[p]) /\ lock = NoProc /\ pc[p] = "take"
             /\ UNCHANGED <<heap, lock, gidOf, issued, ran>>
<1> DEFINE s == SubSeq(FreeList, 2, Len(FreeList))
           c == <<free>>
<1>1. TypeOK /\ Lists /\ Apart /\ Chains
  BY DEF IInv
<1>2. /\ pc[p] = "take" /\ lock = NoProc /\ free' = blk[free].next /\ Insert(p, c, batch[p])
      /\ UNCHANGED <<heap, lock, gidOf, issued, ran>>
  BY DEF EnqueueTake
<1>3. /\ Linked(blk, free', s) /\ free \in Range(FreeList) /\ free \in Blocks
      /\ Range(s) = Range(FreeList) \ {free}
  BY <1>1, <1>2, FirstFree
<1>4. c \in Seq(Blocks) /\ Len(c) = 1 /\ Once(c) /\ Range(c) = {free}
  <2>1. c \in Seq(Blocks) /\ Len(c) = 1 /\ c[1] = free
    BY <1>3
  <2>2. Once(c)
    BY <2>1 DEF Once
  <2>3. Range(c) = {c[i] : i \in 1..Len(c)}
    BY <2>1, ListElements
  <2> HIDE DEF c
  <2>4. Range(c) = {free}
    BY <2>1, <2>3
  <2> QED BY <2>1, <2>2, <2>4
<1> HIDE DEF s, c
<1>5. Range(FreeList) \cap Range(Queue) = {}
  BY <1>1 DEF Apart, Partition
<1>6. Range(s) \cap Range(c) = {} /\ Range(s) \cap Range(Queue) = {} /\ Range(c) \cap Range(Queue) = {}
  BY <1>3, <1>4, <1>5
<1>7. Len(batch[p]) = Len(c) /\ batch[p] \in Batches
  BY <1>1, <1>2, <1>4 DEF Chains
<1>8. Insert(p, <<free>>, batch[p])
  BY <1>2 DEF c
<1> QED BY <1>2, <1>3, <1>4, <1>6, <1>7, <1>8 DEF s, c

(* The second look at free, under the lock: link the free block there is,  *)
(* or allocate one after all.                                              *)
LEMMA EnqueueTakeKeeps ==
  ASSUME IInv, NEW p \in Procs, EnqueueTake(p)
  PROVE  IInv'
<1>1. TypeOK /\ Lists /\ Apart /\ Chains /\ Budget
  BY DEF IInv
<1>2. CASE free # Null
  <2> DEFINE s == SubSeq(FreeList, 2, Len(FreeList))
             c == <<free>>
  <2>1. /\ c \in Seq(Blocks) /\ Once(c) /\ Len(batch[p]) = Len(c) /\ Range(c) = {free}
        /\ batch[p] \in Batches /\ Range(c) \cap Range(Queue) = {}
        /\ Linked(blk, free', s) /\ Range(s) = Range(FreeList) \ {free}
        /\ free \in Range(FreeList)
        /\ Range(s) \cap Range(c) = {} /\ Range(s) \cap Range(Queue) = {}
        /\ Insert(p, c, batch[p]) /\ lock = NoProc /\ pc[p] = "take"
        /\ UNCHANGED <<heap, lock, gidOf, issued>>
    BY <1>2, TakeGives
  <2> HIDE DEF s
  <2>2. /\ TypeOK' /\ Lists' /\ Alive' /\ Chains' /\ Locked' /\ Counted' /\ Budget'
        /\ FreeList' = s /\ Range(Queue') = Range(Queue) \cup Range(c)
        /\ Held'[p] = {} /\ \A r \in Procs \ {p} : Held'[r] = Held[r]
    BY <2>1, Inserted
  <2> HIDE DEF c
  <2>3. Apart'
    <3>1. Held' = Held
      <4>1. Held[p] = {}
        <5>1. chain[p] = << >> /\ Range(<< >>) = {}
          BY <1>1, <2>1 DEF Chains, Range
        <5> QED BY <5>1 DEF Held
      <4>2. Held = [r \in Procs |-> Held[r]] /\ Held' = [r \in Procs |-> Held'[r]]
        BY DEF Held
      <4>3. \A r \in Procs : Held'[r] = Held[r]
        BY <2>2, <4>1
      <4> QED BY <4>2, <4>3
    <3>2. Partition(heap, Range(FreeList), Range(Queue), Held)
      BY <1>1 DEF Apart
    <3>3. Range(c) \subseteq Range(FreeList)
      BY <2>1
    <3>4. Partition(heap, Range(FreeList) \ Range(c), Range(Queue) \cup Range(c), Held)
      BY <3>2, <3>3, Reused
    <3>5. /\ heap' = heap /\ Range(FreeList') = Range(FreeList) \ Range(c)
          /\ Range(Queue') = Range(Queue) \cup Range(c)
      BY <2>1, <2>2
    <3> QED BY <3>1, <3>4, <3>5 DEF Apart
  <2> QED BY <2>2, <2>3 DEF IInv
<1>3. CASE free = Null
  <2>1. /\ pc[p] = "take" /\ lock = NoProc
        /\ UNCHANGED <<count, free, head, tail, blk, batch, log, lock, gidOf, issued, ran>>
    BY <1>3 DEF EnqueueTake
  <2>2. PICK c \in Allocate(1) :
          /\ chain' = [chain EXCEPT ![p] = c] /\ heap' = heap \ Range(c)
          /\ pc' = [pc EXCEPT ![p] = "insert"]
    BY <1>3 DEF EnqueueTake
  <2>3. c \in Seq(Blocks) /\ Len(c) = 1 /\ Once(c) /\ Range(c) \subseteq heap
    BY <1>1, AllocateGives
  <2>4. batch[p] \in Batches /\ Len(batch[p]) = 1
    BY <1>1, <2>1 DEF Chains
  <2>5. Lists' /\ Alive' /\ Chains' /\ Apart' /\ Locked' /\ Counted'
    <3> DEFINE N == Range(c)
               T == {}
    <3>1. N \subseteq heap /\ T \subseteq Range(FreeList) /\ Range(c) = N \cup T
          /\ Range(FreeList) = Range(FreeList) \ T /\ heap' = heap \ N
      BY <2>2, <2>3
    <3> HIDE DEF N, T
    <3>2. batch'[p] \in Batches /\ Len(c) = Len(batch'[p]) /\ pc[p] \notin {"find", "insert"}
      BY <2>1, <2>3, <2>4
    <3>3. \A r \in Procs \ {p} : batch'[r] = batch[r]
      BY <2>1
    <3>4. UNCHANGED <<count, head, tail, blk, lock>>
      BY <2>1
    <3>5. Linked(blk, free', FreeList)
      BY <1>1, <2>1, ListsGive
    <3> QED BY <2>2, <2>3, <3>1, <3>2, <3>3, <3>4, <3>5, Gathering
  <2>6. TypeOK'
    <3>1. pc' \in [Procs -> {"idle", "take", "takeMany", "insert", "deq", "find"}]
      BY <1>1, <2>2 DEF TypeOK
    <3>2. chain' \in [Procs -> Seq(Blocks)]
      BY <1>1, <2>2, <2>3 DEF TypeOK
    <3>3. heap' \subseteq Blocks
      BY <1>1, <2>2 DEF TypeOK
    <3> QED BY <1>1, <2>1, <3>1, <3>2, <3>3 DEF TypeOK
  <2>7. Budget'
    BY <1>1, <2>1 DEF Budget
  <2> QED BY <2>5, <2>6, <2>7 DEF IInv
<1> QED BY <1>2, <1>3

(* The free blocks there are go to p, the others are allocated.            *)
LEMMA EnqueueManyTakeKeeps ==
  ASSUME IInv, NEW p \in Procs, EnqueueManyTake(p)
  PROVE  IInv'
<1> DEFINE f == FreeList
           n == Len(batch[p])
           l == Len(f)
           m == IF n < l THEN n ELSE l
           taken == SubSeq(f, 1, m)
           s == SubSeq(f, m + 1, l)
           T == {f[i] : i \in 1..m}
<1>1. TypeOK /\ Lists /\ Apart /\ Chains /\ Budget
  BY DEF IInv
<1>2. /\ pc[p] = "takeMany" /\ lock = NoProc
      /\ free' = IF m < l THEN f[m + 1] ELSE Null
      /\ pc' = [pc EXCEPT ![p] = "insert"]
      /\ UNCHANGED <<count, head, tail, blk, lock, batch, gidOf, issued, hist>>
  BY DEF EnqueueManyTake, FreeList
<1>3. PICK a \in Allocate(n - m) :
        /\ chain' = [chain EXCEPT ![p] = a \o Reverse(taken)]
        /\ heap' = heap \ Range(a)
  BY DEF EnqueueManyTake, FreeList
<1> HIDE DEF f
<1>4. /\ f \in Seq(Blocks) /\ Once(f) /\ Linked(blk, free, f) /\ l \in Nat
      /\ Range(f) = {f[i] : i \in 1..l}
  <2>1. f \in Seq(Blocks) /\ Once(f) /\ Linked(blk, free, f)
    BY <1>1, ListsGive DEF f
  <2> QED BY <2>1, ListElements
<1>5. batch[p] \in Batches /\ n \in Nat
  <2>1. batch[p] \in Batches
    BY <1>1, <1>2 DEF Chains
  <2> QED BY <2>1, BatchIs
<1>6. m \in 0..l /\ n - m \in Nat /\ m \in Nat
  BY <1>4, <1>5
<1> HIDE DEF m, n, l
<1>7. /\ Linked(blk, free', s) /\ Range(s) = Range(f) \ T
  <2>1. /\ Linked(blk, IF m < Len(f) THEN f[m + 1] ELSE Null, SubSeq(f, m + 1, Len(f)))
        /\ Range(SubSeq(f, m + 1, Len(f))) = {f[i] : i \in (m + 1)..Len(f)}
    BY <1>4, <1>6, Dropped DEF l
  <2>2. {f[i] : i \in (m + 1)..Len(f)} = Range(f) \ T
    BY <1>4, <1>6, FirstTaken DEF l
  <2> QED BY <1>2, <2>1, <2>2 DEF l
<1>8. /\ Reverse(taken) \in Seq(Blocks) /\ Len(Reverse(taken)) = m /\ Once(Reverse(taken))
      /\ Range(Reverse(taken)) = T
  BY <1>4, <1>6, FirstTaken DEF l
<1>9. T \subseteq Range(f)
  <2>1. \A i \in 1..m : i \in 1..l
    BY <1>4, <1>6
  <2> QED BY <1>4, <2>1
<1> DEFINE v == Reverse(taken)
           c == a \o v
<1>10. a \in Seq(Blocks) /\ Len(a) = n - m /\ Once(a) /\ Range(a) \subseteq heap
  BY <1>1, <1>6, AllocateGives
<1> HIDE DEF taken, s, T, v
<1>11. heap \cap Range(f) = {}
  BY <1>1 DEF Apart, Partition, f
<1>12. c \in Seq(Blocks) /\ Len(c) = n /\ Once(c) /\ Range(c) = Range(a) \cup T
  <2>1. v \in Seq(Blocks) /\ Len(v) = m /\ Once(v) /\ Range(v) = T
    BY <1>8 DEF v
  <2>2. Range(a) \cap Range(v) = {}
    BY <1>9, <1>10, <1>11, <2>1
  <2>3. Once(c)
    BY <1>10, <2>1, <2>2, OnceConcat
  <2>4. c \in Seq(Blocks) /\ Len(c) = Len(a) + Len(v) /\ Range(c) = Range(a) \cup Range(v)
    BY <1>10, <2>1, ConcatElements
  <2>5. Len(a) + Len(v) = n
    BY <1>5, <1>6, <1>10, <2>1
  <2> QED BY <2>1, <2>3, <2>4, <2>5
<1>13. chain' = [chain EXCEPT ![p] = c] /\ heap' = heap \ Range(a)
  BY <1>3 DEF v
<1> HIDE DEF c
<1>14. Lists' /\ Alive' /\ Chains' /\ Apart' /\ Locked' /\ Counted' /\ free' \in Ptr
  <2>1. batch'[p] \in Batches /\ Len(c) = Len(batch'[p]) /\ pc[p] \notin {"find", "insert"}
    BY <1>2, <1>5, <1>12 DEF n
  <2>2. \A r \in Procs \ {p} : batch'[r] = batch[r]
    BY <1>2
  <2>3. UNCHANGED <<count, head, tail, blk, lock>> /\ pc' = [pc EXCEPT ![p] = "insert"]
    BY <1>2
  <2>4. T \subseteq Range(FreeList) /\ Range(s) = Range(FreeList) \ T
    BY <1>7, <1>9 DEF f
  <2> QED BY <1>7, <1>10, <1>12, <1>13, <2>1, <2>2, <2>3, <2>4, Gathering
<1>15. TypeOK'
  <2>1. pc' \in [Procs -> {"idle", "take", "takeMany", "insert", "deq", "find"}]
    BY <1>1, <1>2 DEF TypeOK
  <2>2. chain' \in [Procs -> Seq(Blocks)]
    BY <1>1, <1>12, <1>13 DEF TypeOK
  <2>3. heap' \subseteq Blocks
    BY <1>1, <1>13 DEF TypeOK
  <2> QED BY <1>1, <1>2, <1>14, <2>1, <2>2, <2>3 DEF TypeOK, hist
<1>16. Budget'
  BY <1>1, <1>2 DEF Budget, hist
<1> QED BY <1>14, <1>15, <1>16 DEF IInv

-----------------------------------------------------------------------------
(* Dequeuing.                                                              *)

(* The unlocked look at count changes nothing but where p is.              *)
LEMMA DequeueKeeps ==
  ASSUME IInv, NEW p \in Procs, NEW gid \in Gids, Dequeue(p, gid)
  PROVE  IInv'
<1>1. TypeOK /\ Lists /\ Alive /\ Counted /\ Chains /\ Locked /\ Apart /\ Budget
  BY DEF IInv
<1>2. /\ pc[p] = "idle" /\ UNCHANGED <<rq, lock, batch, chain, issued, hist>>
      /\ \/ UNCHANGED <<pc, gidOf>>
         \/ pc' = [pc EXCEPT ![p] = "deq"] /\ gidOf' = [gidOf EXCEPT ![p] = gid]
  BY DEF Dequeue
<1>3. /\ count' = count /\ free' = free /\ head' = head /\ tail' = tail /\ blk' = blk /\ heap' = heap
      /\ lock' = lock /\ batch' = batch /\ chain' = chain /\ issued' = issued /\ log' = log
  BY <1>2 DEF rq, hist
<1>4. /\ pc' \in [Procs -> {"idle", "take", "takeMany", "insert", "deq", "find"}]
      /\ gidOf' \in [Procs -> Gids]
  BY <1>1, <1>2 DEF TypeOK
<1>5. TypeOK'
  BY <1>1, <1>3, <1>4 DEF TypeOK
<1>6. Queue' = Queue /\ FreeList' = FreeList
  BY <1>3 DEF Queue, FreeList
<1>7. Lists' /\ Alive' /\ Counted' /\ Apart' /\ Budget'
  BY <1>1, <1>3, <1>6 DEF Lists, Alive, Counted, Claimed, Apart, Held, Budget
<1>8. \A r \in Procs : pc'[r] = pc[r] \/ (pc[r] = "idle" /\ pc'[r] = "deq")
  BY <1>1, <1>2 DEF TypeOK
<1>9. Chains' /\ Locked'
  BY <1>1, <1>3, <1>8 DEF Chains, Locked
<1> QED BY <1>5, <1>7, <1>9 DEF IInv

(* The look at count under the lock: p claims a repetition or gives up.    *)
LEMMA DequeueLockKeeps ==
  ASSUME IInv, NEW p \in Procs, DequeueLock(p)
  PROVE  IInv'
<1>1. TypeOK /\ Lists /\ Alive /\ Counted /\ Chains /\ Locked /\ Apart /\ Budget
  BY DEF IInv
<1>2. /\ pc[p] = "deq" /\ lock = NoProc
      /\ \/ pc' = [pc EXCEPT ![p] = "idle"] /\ UNCHANGED <<count, lock>>
         \/ count > 0 /\ pc' = [pc EXCEPT ![p] = "find"] /\ count' = count - 1 /\ lock' = p
      /\ UNCHANGED <<free, head, tail, blk, heap, args, hist>>
  <2>1. count \in Int
    BY <1>1 DEF TypeOK
  <2> QED BY <2>1 DEF DequeueLock
<1>3. /\ free' = free /\ head' = head /\ tail' = tail /\ blk' = blk /\ heap' = heap
      /\ batch' = batch /\ chain' = chain /\ gidOf' = gidOf /\ issued' = issued /\ log' = log
  BY <1>2 DEF args, hist
<1>4. /\ pc' \in [Procs -> {"idle", "take", "takeMany", "insert", "deq", "find"}]
      /\ count' \in Int /\ lock' \in Procs \cup {NoProc}
  <2>1. pc' \in [Procs -> {"idle", "take", "takeMany", "insert", "deq", "find"}]
    BY <1>1, <1>2 DEF TypeOK
  <2>2. count' \in Int
    <3>1. count \in Int /\ (count' = count \/ count' = count - 1)
      BY <1>1, <1>2 DEF TypeOK
    <3> QED BY <3>1
  <2>3. lock' \in Procs \cup {NoProc}
    BY <1>1, <1>2 DEF TypeOK
  <2> QED BY <2>1, <2>2, <2>3
<1>5. TypeOK'
  BY <1>1, <1>3, <1>4 DEF TypeOK
<1>6. Queue' = Queue /\ FreeList' = FreeList
  BY <1>3 DEF Queue, FreeList
<1>7. Lists' /\ Alive' /\ Apart' /\ Budget'
  BY <1>1, <1>3, <1>6 DEF Lists, Alive, Apart, Held, Budget
<1>8. \A r \in Procs : pc'[r] = pc[r] \/ (pc[r] = "deq" /\ pc'[r] \in {"idle", "find"})
  BY <1>1, <1>2 DEF TypeOK
<1>9. Chains'
  BY <1>1, <1>3, <1>8 DEF Chains
<1>10. Locked'
  <2>1. pc \in [Procs -> {"idle", "take", "takeMany", "insert", "deq", "find"}]
    BY <1>1 DEF TypeOK
  <2>2. \A r \in Procs : pc[r] # "find"
    BY <1>1, <1>2, RunQueueAssumption DEF Locked
  <2>3. \A r \in Procs \ {p} : pc'[r] = pc[r]
    BY <1>2, <2>1
  <2>4. (pc'[p] = "idle" /\ lock' = NoProc) \/ (pc'[p] = "find" /\ lock' = p)
    BY <1>2, <2>1
  <2> QED BY <2>2, <2>3, <2>4, RunQueueAssumption DEF Locked
<1>11. Counted'
  <2>1. /\ IsFiniteSet(Reps(blk, Range(Queue)))
        /\ count = Cardinality(Reps(blk, Range(Queue))) - Claimed /\ count >= 0 /\ count \in Int
    BY <1>1 DEF Counted, TypeOK
  <2>2. Reps(blk', Range(Queue')) = Reps(blk, Range(Queue))
    BY <1>3, <1>6
  <2>3. Claimed = 0
    BY <1>2 DEF Claimed
  <2>4. Cardinality(Reps(blk, Range(Queue))) \in Nat
    BY <2>1, FS_CardinalityType
  <2>5. CASE count' = count /\ lock' = lock
    BY <2>1, <2>2, <2>5 DEF Counted, Claimed
  <2>6. CASE count > 0 /\ count' = count - 1 /\ lock' = p
    <3>1. Claimed' = 1
      BY <2>6, RunQueueAssumption DEF Claimed
    <3>2. count - 1 = Cardinality(Reps(blk, Range(Queue))) - 1 /\ count - 1 >= 0
      BY <2>1, <2>3, <2>4, <2>6
    <3> QED BY <2>1, <2>2, <2>6, <3>1, <3>2 DEF Counted
  <2> QED BY <1>2, <2>5, <2>6
<1> QED BY <1>5, <1>7, <1>9, <1>10, <1>11 DEF IInv

(* A list without its i-th block.                                          *)
LEMMA RangeRemoved ==
  ASSUME NEW q \in Seq(Blocks), Once(q), NEW i \in 1..Len(q)
  PROVE  Range(RemoveAt(q, i)) = Range(q) \ {q[i]}
<1> DEFINE r == RemoveAt(q, i)
           n == Len(q)
<1>1. /\ r \in Seq(Blocks) /\ Len(r) = n - 1
      /\ \A j \in 1..(n - 1) : r[j] = IF j < i THEN q[j] ELSE q[j + 1]
  BY RemoveAtProps
<1>2. n \in Nat /\ Range(q) = {q[j] : j \in 1..n}
  BY ListElements
<1> HIDE DEF r
<1>3. Range(r) = {r[j] : j \in 1..(n - 1)}
  <2>1. Range(r) = {r[j] : j \in 1..Len(r)}
    BY <1>1, ListElements
  <2> QED BY <1>1, <2>1
<1>4. \A j, k \in 1..n : q[j] = q[k] => j = k
  BY DEF Once
<1> HIDE DEF n
<1>5. ASSUME NEW j \in 1..(n - 1) PROVE r[j] \in Range(q) /\ r[j] # q[i]
  <2>1. CASE j < i
    <3>1. j \in 1..n /\ j # i
      BY <1>2, <2>1
    <3> QED BY <1>1, <1>2, <1>4, <2>1, <3>1 DEF n
  <2>2. CASE ~(j < i)
    <3>1. j + 1 \in 1..n /\ j + 1 # i
      BY <1>2, <2>2
    <3> QED BY <1>1, <1>2, <1>4, <2>2, <3>1 DEF n
  <2> QED BY <2>1, <2>2
<1>6. ASSUME NEW k \in Range(q), k # q[i] PROVE k \in Range(r)
  <2>1. PICK j \in 1..n : k = q[j]
    BY <1>2
  <2>2. j # i
    BY <1>6, <2>1
  <2>3. CASE j < i
    <3>1. j \in 1..(n - 1)
      BY <1>2, <2>3 DEF n
    <3> QED BY <1>1, <1>3, <2>1, <2>3, <3>1
  <2>4. CASE j > i
    <3>1. j - 1 \in 1..(n - 1) /\ ~(j - 1 < i) /\ (j - 1) + 1 = j
      BY <1>2, <2>4 DEF n
    <3>2. r[j - 1] = k
      BY <1>1, <2>1, <3>1
    <3> QED BY <1>3, <3>1, <3>2
  <2>5. j < i \/ j > i
    BY <1>2, <2>2 DEF n
  <2> QED BY <2>3, <2>4, <2>5
<1> QED BY <1>3, <1>5, <1>6 DEF r

(* What the end of Dequeue makes of the queue when it found the i-th job:  *)
(* the job loses a repetition, and the block goes onto the free list when  *)
(* that was the last.                                                      *)
LEMMA FindGives ==
  ASSUME TypeOK, Lists, Alive, Apart, NEW i \in 1..Len(Queue),
         IF blk[Queue[i]].repeat = 1
         THEN Unlink(Queue[i])
         ELSE blk' = [blk EXCEPT ![Queue[i]].repeat = @ - 1] /\ UNCHANGED <<free, head, tail>>
  PROVE  /\ Lists' /\ Alive' /\ blk' \in [Blocks -> Node] /\ {free', head', tail'} \subseteq Ptr
         /\ Queue[i] \in Range(Queue) /\ Queue[i] \in Blocks
         /\ \/ /\ blk[Queue[i]].repeat = 1 /\ Queue' = RemoveAt(Queue, i)
               /\ Range(Queue') = Range(Queue) \ {Queue[i]}
               /\ Range(FreeList') = Range(FreeList) \cup {Queue[i]}
               /\ \A j \in Blocks : JobIn(blk', j) = JobIn(blk, j)
            \/ /\ blk[Queue[i]].repeat # 1 /\ Queue' = Queue /\ FreeList' = FreeList
               /\ JobIn(blk', Queue[i]) = [JobIn(blk, Queue[i]) EXCEPT !.repeat = @ - 1]
               /\ \A j \in Blocks \ {Queue[i]} : JobIn(blk', j) = JobIn(blk, j)
<1> DEFINE q == Queue
           k == q[i]
<1>1. /\ q \in Seq(Blocks) /\ Once(q) /\ Doubly(blk, head, tail, q)
      /\ FreeList \in Seq(Blocks) /\ Linked(blk, free, FreeList)
      /\ blk \in [Blocks -> Node]
  BY ListsGive
<1>2. Range(q) \cap Range(FreeList) = {}
  BY DEF Apart, Partition
<1>3. Range(q) = {q[j] : j \in 1..Len(q)} /\ \A j \in 1..Len(q) : q[j] \in Blocks
  BY <1>1, ListElements
<1>4. k \in Range(q) /\ k \in Blocks
  BY <1>3
<1>5. \A j \in Range(q) : blk[j].repeat > 0
  BY DEF Alive
<1>6. CASE blk[k].repeat = 1
  <2>1. Unlink(Queue[i])
    BY <1>6
  <2>2. /\ Doubly(blk', head', tail', RemoveAt(Queue, i))
        /\ Linked(blk', free', <<Queue[i]>> \o FreeList)
        /\ free' \in Ptr /\ head' \in Ptr /\ tail' \in Ptr
        /\ blk' \in [Blocks -> Node]
        /\ \A j \in Blocks : JobIn(blk', j) = JobIn(blk, j)
    BY <1>1, <1>2, <2>1, UnlinkIs
  <2>3. Queue' = RemoveAt(q, i) /\ FreeList' = <<k>> \o FreeList /\ Lists'
    BY <2>2, ListsAre
  <2>4. Range(Queue') = Range(q) \ {k}
    BY <1>1, <2>3, RangeRemoved
  <2>5. Range(FreeList') = Range(FreeList) \cup {k}
    <3> DEFINE x == <<k>>
    <3>1. x \in Seq(Blocks) /\ Len(x) = 1 /\ x[1] = k
      BY <1>4
    <3>2. Range(x) = {x[j] : j \in 1..Len(x)}
      BY <3>1, ListElements
    <3> HIDE DEF x, k
    <3>3. Range(x) = {k}
      BY <3>1, <3>2
    <3>4. Range(x \o FreeList) = Range(x) \cup Range(FreeList)
      BY <1>1, <3>1, ConcatElements
    <3> QED BY <2>3, <3>3, <3>4 DEF x
  <2>6. Alive'
    <3>1. \A j \in Range(q) : j \in Blocks
      BY <1>3
    <3>2. \A j \in Range(q) : blk'[j].repeat = blk[j].repeat
      BY <2>2, <3>1 DEF JobIn
    <3> QED BY <1>5, <2>4, <3>2 DEF Alive
  <2> QED BY <1>4, <1>6, <2>2, <2>3, <2>4, <2>5, <2>6
<1>7. CASE blk[k].repeat # 1
  <2> HIDE DEF k
  <2>1. blk' = [blk EXCEPT ![k].repeat = @ - 1] /\ free' = free /\ head' = head /\ tail' = tail
    BY <1>7 DEF k
  <2>2. blk[k] \in Node /\ blk[k].repeat \in Nat /\ blk[k].repeat > 0
    <3>1. blk[k] \in Node
      BY <1>1, <1>4
    <3> QED BY <1>4, <1>5, <3>1 DEF Node
  <2>3. blk'[k] = [blk[k] EXCEPT !.repeat = @ - 1] /\ \A j \in Blocks \ {k} : blk'[j] = blk[j]
    BY <1>1, <1>4, <2>1
  <2>4. /\ blk'[k].next = blk[k].next /\ blk'[k].prev = blk[k].prev
        /\ blk'[k].repeat = blk[k].repeat - 1
        /\ JobIn(blk', k) = [JobIn(blk, k) EXCEPT !.repeat = @ - 1]
        /\ blk'[k] \in Node
    BY <2>2, <2>3 DEF Node, JobIn
  <2>5. \A j \in Blocks : blk'[j].next = blk[j].next /\ blk'[j].prev = blk[j].prev
    BY <2>3, <2>4
  <2>6. blk' \in [Blocks -> Node]
    <3>1. \A j \in Blocks : blk'[j] \in Node
      BY <1>1, <2>3, <2>4
    <3>2. blk' = [j \in Blocks |-> blk'[j]]
      BY <1>1, <2>1
    <3> QED BY <3>1, <3>2
  <2>7. Doubly(blk', head', tail', q)
    <3>1. \A j \in Range(q) : blk'[j].next = blk[j].next /\ blk'[j].prev = blk[j].prev
      BY <1>3, <2>5
    <3>2. Doubly(blk', head, tail, q)
      BY <1>1, <3>1, DoublyFrame
    <3> QED BY <2>1, <3>2
  <2>8. Linked(blk', free', FreeList)
    <3>1. \A j \in Range(FreeList) : j \in Blocks
      BY <1>1, ListElements
    <3>2. \A j \in Range(FreeList) : blk'[j].next = blk[j].next
      BY <2>5, <3>1
    <3>3. Linked(blk', free, FreeList)
      BY <1>1, <3>2, LinkedFrame
    <3> QED BY <2>1, <3>3
  <2>9. Queue' = q /\ FreeList' = FreeList /\ Lists'
    BY <2>7, <2>8, ListsAre
  <2>10. Alive'
    <3>1. \A j \in Range(q) : blk'[j].repeat > 0
      <4> TAKE j \in Range(q)
      <4>1. CASE j = k
        BY <1>7, <2>2, <2>4, <4>1
      <4>2. CASE j # k
        BY <1>3, <1>5, <2>3, <4>2
      <4> QED BY <4>1, <4>2
    <3> QED BY <2>9, <3>1 DEF Alive
  <2>11. {free', head', tail'} \subseteq Ptr
    BY <2>1 DEF TypeOK
  <2>12. \A j \in Blocks \ {k} : JobIn(blk', j) = JobIn(blk, j)
    BY <2>3 DEF JobIn
  <2> QED BY <1>4, <1>7, <2>4, <2>6, <2>9, <2>10, <2>11, <2>12 DEF k
<1> QED BY <1>6, <1>7

(* The first job that p may run.                                           *)
LEMMA FoundFirst ==
  ASSUME TypeOK, Lists, NEW p, NEW gid, Runnable(p, gid) # {}
  PROVE  LET i == Min(Runnable(p, gid))
         IN  /\ i \in 1..Len(Queue) /\ MayRun(Queue[i], p, gid)
             /\ \A j \in 1..Len(Queue) : MayRun(Queue[j], p, gid) => i <= j
<1> DEFINE R == Runnable(p, gid)
<1>1. Len(Queue) \in Nat /\ DOMAIN Queue = 1..Len(Queue)
  <2>1. Queue \in Seq(Blocks)
    BY ListsGive
  <2> QED BY <2>1, ListElements
<1>2. \A j : j \in R <=> j \in 1..Len(Queue) /\ MayRun(Queue[j], p, gid)
  BY <1>1 DEF Runnable
<1>3. R \subseteq Nat
  BY <1>1, <1>2
<1> HIDE DEF R
<1>4. Min(R) \in R /\ \A j \in R : Min(R) <= j
  <2>1. R # {}
    BY DEF R
  <2> QED BY <1>3, <2>1, MinLeast
<1> DEFINE i == Min(R)
<1> HIDE DEF i
<1>5. i \in R /\ \A j \in R : i <= j
  BY <1>4 DEF i
<1>6. i \in 1..Len(Queue) /\ MayRun(Queue[i], p, gid)
      /\ \A j \in 1..Len(Queue) : MayRun(Queue[j], p, gid) => i <= j
  BY <1>2, <1>5
<1> QED BY <1>6 DEF i, R

(* The end of the critical section.                                        *)
LEMMA DequeueFindKeeps ==
  ASSUME IInv, NEW p \in Procs, DequeueFind(p)
  PROVE  IInv'
<1> DEFINE found == Runnable(p, gidOf[p])
           i == Min(found)
           k == Queue[i]
<1>1. TypeOK /\ Lists /\ Alive /\ Counted /\ Chains /\ Locked /\ Apart /\ Budget
  BY DEF IInv
<1>2. /\ pc[p] = "find" /\ lock' = NoProc /\ pc' = [pc EXCEPT ![p] = "idle"]
      /\ heap' = heap /\ batch' = batch /\ chain' = chain /\ gidOf' = gidOf /\ issued' = issued
      /\ log' = log
  BY DEF DequeueFind, args
<1>3. lock = p
  BY <1>1, <1>2 DEF Locked
<1>4. /\ pc \in [Procs -> {"idle", "take", "takeMany", "insert", "deq", "find"}]
      /\ pc'[p] = "idle" /\ \A r \in Procs \ {p} : pc'[r] = pc[r]
  BY <1>1, <1>2 DEF TypeOK
<1>5. Chains' /\ Locked' /\ Budget'
  <2>1. Chains'
    <3>1. \A r \in Procs : pc'[r] = pc[r] \/ (pc[r] = "find" /\ pc'[r] = "idle")
      BY <1>2, <1>4
    <3> QED BY <1>1, <1>2, <3>1 DEF Chains
  <2>2. Locked'
    BY <1>1, <1>2, <1>3, <1>4, RunQueueAssumption DEF Locked
  <2> QED BY <1>1, <1>2, <2>1, <2>2 DEF Budget
<1>6. /\ pc' \in [Procs -> {"idle", "take", "takeMany", "insert", "deq", "find"}]
      /\ lock' \in Procs \cup {NoProc} /\ Held' = Held
  BY <1>1, <1>2 DEF TypeOK, Held
<1>7. Claimed = 1 /\ Claimed' = 0
  BY <1>2, <1>3, RunQueueAssumption DEF Claimed
<1>8. /\ IsFiniteSet(Reps(blk, Range(Queue)))
      /\ count = Cardinality(Reps(blk, Range(Queue))) - 1 /\ count >= 0 /\ count \in Int
      /\ Cardinality(Reps(blk, Range(Queue))) \in Nat
  <2>1. /\ IsFiniteSet(Reps(blk, Range(Queue)))
        /\ count = Cardinality(Reps(blk, Range(Queue))) - Claimed /\ count >= 0 /\ count \in Int
    BY <1>1 DEF Counted, TypeOK
  <2> QED BY <1>7, <2>1, FS_CardinalityType
<1>9. CASE found = {}
  <2>1. count' = count + 1 /\ free' = free /\ head' = head /\ tail' = tail /\ blk' = blk
    BY <1>9 DEF DequeueFind
  <2>2. Queue' = Queue /\ FreeList' = FreeList
    BY <2>1 DEF Queue, FreeList
  <2>3. Lists' /\ Alive' /\ Apart'
    BY <1>1, <1>2, <1>6, <2>1, <2>2 DEF Lists, Alive, Apart
  <2>4. Counted'
    <3>1. count + 1 = Cardinality(Reps(blk, Range(Queue))) - 0 /\ count + 1 >= 0
      BY <1>8
    <3> QED BY <1>7, <1>8, <2>1, <2>2, <3>1 DEF Counted
  <2>5. TypeOK'
    <3>1. count' \in Int
      BY <1>8, <2>1
    <3> QED BY <1>1, <1>2, <1>6, <2>1, <3>1 DEF TypeOK
  <2> QED BY <1>5, <2>3, <2>4, <2>5 DEF IInv
<1>10. CASE found # {}
  <2>1. /\ count' = count
        /\ IF blk[k].repeat = 1
           THEN Unlink(k)
           ELSE blk' = [blk EXCEPT ![k].repeat = @ - 1] /\ UNCHANGED <<free, head, tail>>
    BY <1>10 DEF DequeueFind
  <2>2. i \in 1..Len(Queue)
    BY <1>1, <1>10, FoundFirst
  <2> HIDE DEF i
  <2>3. /\ Lists' /\ Alive' /\ blk' \in [Blocks -> Node] /\ {free', head', tail'} \subseteq Ptr
        /\ k \in Range(Queue) /\ k \in Blocks
        /\ \/ /\ blk[k].repeat = 1 /\ Queue' = RemoveAt(Queue, i)
              /\ Range(Queue') = Range(Queue) \ {k}
              /\ Range(FreeList') = Range(FreeList) \cup {k}
              /\ \A j \in Blocks : JobIn(blk', j) = JobIn(blk, j)
           \/ /\ blk[k].repeat # 1 /\ Queue' = Queue /\ FreeList' = FreeList
              /\ JobIn(blk', k) = [JobIn(blk, k) EXCEPT !.repeat = @ - 1]
              /\ \A j \in Blocks \ {k} : JobIn(blk', j) = JobIn(blk, j)
    BY <1>1, <2>1, <2>2, FindGives
  <2> HIDE DEF k
  <2>4. Apart'
    <3>1. Partition(heap, Range(FreeList), Range(Queue), Held)
      BY <1>1 DEF Apart
    <3>2. CASE Range(Queue') = Range(Queue) \ {k} /\ Range(FreeList') = Range(FreeList) \cup {k}
      <4>1. {k} \subseteq Range(Queue)
        BY <2>3
      <4>2. Partition(heap, Range(FreeList) \cup {k}, Range(Queue) \ {k}, Held)
        BY <3>1, <4>1, Freed
      <4> QED BY <1>2, <1>6, <3>2, <4>2 DEF Apart
    <3>3. CASE Queue' = Queue /\ FreeList' = FreeList
      BY <1>2, <1>6, <3>1, <3>3 DEF Apart
    <3> QED BY <2>3, <3>2, <3>3
  <2>5. Counted'
    <3> DEFINE S == Range(Queue)
               T == Range(Queue')
    <3>1. \A j \in S : j \in Blocks
      <4>1. Queue \in Seq(Blocks)
        BY <1>1, ListsGive
      <4> QED BY <4>1, ListElements
    <3>2. blk[k].repeat \in Nat /\ blk[k].repeat > 0
      <4>1. blk[k] \in Node
        BY <1>1, <2>3, ListsGive
      <4> QED BY <1>1, <2>3, <4>1 DEF Node, Alive
    <3>3. \A j \in S \ {k} : blk'[j].repeat = blk[j].repeat
      <4>1. \A j \in Blocks \ {k} : JobIn(blk', j) = JobIn(blk, j)
        BY <2>3
      <4> QED BY <3>1, <4>1 DEF JobIn
    <3>4. \/ T = S /\ blk'[k].repeat = blk[k].repeat - 1
          \/ T = S \ {k} /\ blk[k].repeat = 1
      <4>1. JobIn(blk', k) = [JobIn(blk, k) EXCEPT !.repeat = @ - 1] => blk'[k].repeat = blk[k].repeat - 1
        BY DEF JobIn
      <4> QED BY <2>3, <4>1
    <3>5. k \in S /\ IsFiniteSet(Reps(blk, S))
      BY <1>8, <2>3
    <3> HIDE DEF S, T
    <3>6. /\ IsFiniteSet(Reps(blk', T))
          /\ Cardinality(Reps(blk', T)) = Cardinality(Reps(blk, S)) - 1
      BY <3>2, <3>3, <3>4, <3>5, RepsLess
    <3>7. count' = Cardinality(Reps(blk', T)) - 0 /\ count' >= 0
      BY <1>8, <2>1, <3>6 DEF S
    <3> QED BY <1>7, <3>6, <3>7 DEF Counted, T
  <2>6. TypeOK'
    BY <1>1, <1>2, <1>6, <2>1, <2>3 DEF TypeOK, Node
  <2> QED BY <1>5, <2>3, <2>4, <2>5, <2>6 DEF IInv
<1> QED BY <1>9, <1>10

-----------------------------------------------------------------------------
(* The specification keeps the invariant.                                  *)

(* Before anything is enqueued both lists are empty.                       *)
LEMMA InitHolds == Init => IInv
<1> SUFFICES ASSUME Init PROVE IInv
  OBVIOUS
<1>1. /\ count = 0 /\ free = Null /\ head = Null /\ tail = Null
      /\ blk = [b \in Blocks |-> Garbage] /\ heap = Blocks /\ lock = NoProc
      /\ pc = [p \in Procs |-> "idle"]
      /\ batch = [p \in Procs |-> << >>] /\ chain = [p \in Procs |-> << >>]
      /\ gidOf = [p \in Procs |-> 0] /\ issued = 0 /\ log = << >>
  BY DEF Init
<1>2. TypeOK
  <2>1. Garbage \in Node
    BY RunQueueAssumption DEF Garbage, Node, Ptr
  <2>2. blk \in [Blocks -> Node]
    BY <1>1, <2>1
  <2>3. << >> \in Seq(Blocks) /\ << >> \in Seq(Templates)
    OBVIOUS
  <2>4. issued \in 0..MaxJobs
    BY <1>1, RunQueueAssumption
  <2>5. gidOf \in [Procs -> Gids]
    BY <1>1, RunQueueAssumption
  <2> QED BY <1>1, <2>2, <2>3, <2>4, <2>5 DEF TypeOK, Node, Ptr
<1>3. Queue = << >> /\ FreeList = << >> /\ Lists
  <2>1. Doubly(blk, head, tail, << >>) /\ Linked(blk, free, << >>)
    BY <1>1 DEF Doubly, Linked, Once
  <2>2. Queue = << >> /\ FreeList = << >>
    <3>1. Linked(blk, head, << >>)
      BY <2>1 DEF Doubly
    <3>2. Walk(blk, head) = << >> /\ Walk(blk, free) = << >>
      BY <2>1, <3>1, WalkIs
    <3> QED BY <3>2 DEF Queue, FreeList
  <2> QED BY <2>1, <2>2 DEF Lists
<1>4. Range(Queue) = {} /\ Range(FreeList) = {} /\ \A p \in Procs : Held[p] = {}
  <2>1. Range(<< >>) = {}
    BY DEF Range
  <2> QED BY <1>1, <1>3, <2>1 DEF Held
<1>5. Alive
  BY <1>4 DEF Alive
<1>6. Chains
  <2>1. << >> \notin Batches /\ Once(<< >>)
    BY BatchIs DEF Once
  <2> QED BY <1>1, <2>1 DEF Chains
<1>7. Apart
  BY <1>1, <1>4 DEF Apart, Partition
<1>8. Locked
  BY <1>1, RunQueueAssumption DEF Locked
<1>9. Counted
  <2>1. Reps(blk, Range(Queue)) = {}
    BY <1>4, RepsMember
  <2>2. IsFiniteSet({}) /\ Cardinality({}) = 0
    BY FS_EmptySet
  <2> QED BY <1>1, <2>1, <2>2 DEF Counted, Claimed
<1>10. Budget
  <2>1. Waiting(batch) = {}
    BY <1>1 DEF Waiting
  <2>2. IsFiniteSet({}) /\ Cardinality({}) = 0
    BY FS_EmptySet
  <2>3. Len(log) + 0 = issued
    BY <1>1
  <2>4. IsFiniteSet(Waiting(batch)) /\ Cardinality(Waiting(batch)) = 0
    BY <2>1, <2>2
  <2> QED BY <2>3, <2>4 DEF Budget
<1> QED BY <1>2, <1>3, <1>5, <1>6, <1>7, <1>8, <1>9, <1>10 DEF IInv

(* A stuttering step.                                                      *)
LEMMA StutterKeeps == ASSUME IInv, UNCHANGED vars PROVE IInv'
<1>1. /\ count' = count /\ free' = free /\ head' = head /\ tail' = tail /\ blk' = blk /\ heap' = heap
      /\ lock' = lock /\ pc' = pc /\ batch' = batch /\ chain' = chain /\ gidOf' = gidOf
      /\ issued' = issued /\ log' = log
  BY DEF vars
<1>2. Queue' = Queue /\ FreeList' = FreeList
  BY <1>1 DEF Queue, FreeList
<1>3. TypeOK' /\ Lists' /\ Alive' /\ Chains'
  BY <1>1, <1>2 DEF IInv, TypeOK, Lists, Alive, Chains
<1>4. Apart' /\ Locked' /\ Counted' /\ Budget'
  BY <1>1, <1>2 DEF IInv, Apart, Held, Locked, Counted, Claimed, Budget
<1> QED BY <1>3, <1>4 DEF IInv

(* Every step keeps the invariant: one case for each action.               *)
LEMMA StepKeeps == ASSUME IInv, [Next]_vars PROVE IInv'
<1>1. CASE UNCHANGED vars
  BY <1>1, StutterKeeps
<1>2. ASSUME NEW p \in Procs, ProcNext(p) PROVE IInv'
  <2>1. ASSUME NEW b \in Batches, Enqueue(p, b) PROVE IInv'
    BY <2>1, EnqueueKeeps
  <2>2. ASSUME NEW b \in Batches, EnqueueMany(p, b) PROVE IInv'
    BY <2>2, EnqueueManyKeeps
  <2>3. CASE EnqueueTake(p)
    BY <2>3, EnqueueTakeKeeps
  <2>4. CASE EnqueueManyTake(p)
    BY <2>4, EnqueueManyTakeKeeps
  <2>5. CASE EnqueueInsert(p)
    BY <2>5, EnqueueInsertKeeps
  <2>6. ASSUME NEW gid \in Gids, Dequeue(p, gid) PROVE IInv'
    BY <2>6, DequeueKeeps
  <2>7. CASE DequeueLock(p)
    BY <2>7, DequeueLockKeeps
  <2>8. CASE DequeueFind(p)
    BY <2>8, DequeueFindKeeps
  <2> QED BY <1>2, <2>1, <2>2, <2>3, <2>4, <2>5, <2>6, <2>7, <2>8 DEF ProcNext
<1> QED BY <1>1, <1>2 DEF Next

(* The lists, what is in them, who holds which block and lock, the count   *)
(* and the jobs still to come are related as IInv says, in every state.    *)
THEOREM Invariant == Spec => []IInv
<1>1. IInv /\ [Next]_vars => IInv'
  BY StepKeeps
<1> QED BY InitHolds, <1>1, PTL DEF Spec

(* Fields, blocks and locals keep their types.                             *)
THEOREM TypeCorrect == Spec => []TypeOK
<1>1. IInv => TypeOK
  BY DEF IInv
<1> QED BY Invariant, <1>1, PTL

(* The doubly linked list is never broken: whatever the interleaving of    *)
(* insertions and removals at both ends, prev inverts next, head and tail  *)
(* are its ends, and no block is in it twice or without a repetition.      *)
THEOREM ListsWellFormed == Spec => []ListWellFormed
<1>1. IInv => ListWellFormed
  <2> SUFFICES ASSUME IInv PROVE ListWellFormed
    OBVIOUS
  <2> DEFINE q == Queue
  <2>1. /\ q \in Seq(Blocks) /\ Once(q) /\ Doubly(blk, head, tail, q)
        /\ \A k \in Range(q) : blk[k].repeat > 0
    BY ListsGive DEF IInv, Alive
  <2>2. Len(q) \in Nat /\ DOMAIN q = 1..Len(q) /\ Range(q) = {q[i] : i \in 1..Len(q)}
    BY <2>1, ListElements
  <2> HIDE DEF q
  <2>3. IsInjective(q)
    BY <2>1, <2>2 DEF Once, IsInjective
  <2>4. ASSUME NEW i \in DOMAIN q
        PROVE  blk[q[i]].prev = (IF i = 1 THEN Null ELSE q[i - 1]) /\ blk[q[i]].repeat > 0
    <3>1. i \in 1..Len(q) /\ q[i] \in Range(q) /\ (i > 1 <=> i # 1)
      BY <2>2, <2>4
    <3>2. blk[q[i]].prev = IF i > 1 THEN q[i - 1] ELSE Null
      BY <2>1, <3>1 DEF Doubly
    <3> QED BY <2>1, <3>1, <3>2
  <2>5. tail = IF q = << >> THEN Null ELSE Last(q)
    BY <2>1 DEF Doubly, Last
  <2> QED BY <2>3, <2>4, <2>5 DEF ListWellFormed, q
<1> QED BY Invariant, <1>1, PTL

(* The processors between the claim and the unlock: the holder of the lock *)
(* or nobody.                                                              *)
LEMMA ClaimedIs ==
  ASSUME IInv
  PROVE  Cardinality({p \in Procs : pc[p] = "find"}) = Claimed
<1>1. Locked /\ lock \in Procs \cup {NoProc}
  BY DEF IInv, TypeOK
<1>2. CASE lock = NoProc
  <2>1. {p \in Procs : pc[p] = "find"} = {}
    BY <1>1, <1>2, RunQueueAssumption DEF Locked
  <2> QED BY <1>2, <2>1, FS_EmptySet DEF Claimed
<1>3. CASE lock # NoProc
  <2>1. {p \in Procs : pc[p] = "find"} = {lock}
    BY <1>1, <1>3 DEF Locked
  <2>2. Cardinality({lock}) = 1
    BY FS_Singleton
  <2> QED BY <1>3, <2>1, <2>2 DEF Claimed
<1> QED BY <1>2, <1>3

(* The count that callers read without the lock is the number of           *)
(* repetitions in the queue, less the one claimed in a critical section.   *)
THEOREM CountsExact == Spec => []CountExact
<1>1. IInv => CountExact
  <2> SUFFICES ASSUME IInv PROVE CountExact
    OBVIOUS
  <2>1. count = Cardinality(Reps(blk, Range(Queue))) - Claimed
    BY DEF IInv, Counted
  <2>2. Reps(blk, Range(Queue)) = UNION {{k} \X (1..blk[k].repeat) : k \in Range(Queue)}
    BY DEF Reps
  <2> QED BY <2>1, <2>2, ClaimedIs DEF CountExact
<1> QED BY Invariant, <1>1, PTL

(* Error #8320 cannot happen: a processor that claimed a repetition under  *)
(* the lock finds a job in the list.                                       *)
THEOREM NeverEmptyWithCount == Spec => []NoEmptyWithCount
<1>1. IInv => NoEmptyWithCount
  <2> SUFFICES ASSUME IInv, NEW p \in Procs, pc[p] = "find" PROVE head # Null
    BY DEF NoEmptyWithCount
  <2>1. lock = p /\ Claimed = 1
    BY RunQueueAssumption DEF IInv, Locked, Claimed
  <2>2. /\ IsFiniteSet(Reps(blk, Range(Queue)))
        /\ count = Cardinality(Reps(blk, Range(Queue))) - Claimed /\ count >= 0
    BY DEF IInv, Counted
  <2>3. Cardinality(Reps(blk, Range(Queue))) \in Nat /\ Cardinality({}) = 0
    BY <2>2, FS_CardinalityType, FS_EmptySet
  <2>4. Reps(blk, Range(Queue)) # {}
    <3> DEFINE n == Cardinality(Reps(blk, Range(Queue)))
    <3>1. n # 0
      BY <2>1, <2>2, <2>3
    <3> QED BY <2>3, <3>1
  <2>5. Range(Queue) # {}
    BY <2>4, RepsMember
  <2>6. Queue # << >>
    BY <2>5 DEF Range
  <2>7. Queue \in Seq(Blocks) /\ Linked(blk, head, Queue)
    BY ListsGive DEF IInv
  <2>8. head = Queue[1] /\ Queue[1] # Null
    <3>1. /\ Len(Queue) \in Nat /\ (Queue = << >> <=> Len(Queue) = 0)
          /\ \A i \in 1..Len(Queue) : Queue[i] # Null
      BY <2>7, ListElements
    <3>2. 1 \in 1..Len(Queue)
      BY <2>6, <3>1
    <3> QED BY <2>6, <2>7, <3>1, <3>2 DEF Linked
  <2> QED BY <2>8
<1> QED BY Invariant, <1>1, PTL

(* How often a block is in a list without repetitions.                     *)
LEMMA TimesIn ==
  ASSUME NEW s \in Seq(Blocks), Once(s), NEW k
  PROVE  /\ k \in Range(s) => Cardinality({i \in DOMAIN s : s[i] = k}) = 1
         /\ k \notin Range(s) => Cardinality({i \in DOMAIN s : s[i] = k}) = 0
<1>1. DOMAIN s = 1..Len(s) /\ Range(s) = {s[i] : i \in 1..Len(s)}
  BY ListElements
<1>2. ASSUME k \in Range(s) PROVE Cardinality({i \in DOMAIN s : s[i] = k}) = 1
  <2>1. PICK i \in 1..Len(s) : s[i] = k
    BY <1>1, <1>2
  <2>2. {j \in DOMAIN s : s[j] = k} = {i}
    BY <1>1, <2>1 DEF Once
  <2>3. Cardinality({i}) = 1
    BY FS_Singleton
  <2> QED BY <2>2, <2>3
<1>3. ASSUME k \notin Range(s) PROVE Cardinality({i \in DOMAIN s : s[i] = k}) = 0
  <2>1. {j \in DOMAIN s : s[j] = k} = {}
    BY <1>1, <1>3
  <2> QED BY <2>1, FS_EmptySet
<1> QED BY <1>2, <1>3

\* Where block k is in the chains that processors hold.
HeldAt(k) == UNION {{p} \X {i \in DOMAIN chain[p] : chain[p][i] = k} : p \in Procs}

(* A block is held at most once, by at most one processor.                 *)
LEMMA HeldTimes ==
  ASSUME IInv, NEW k
  PROVE  /\ \A p \in Procs : k \in Held[p] => Cardinality(HeldAt(k)) = 1
         /\ (\A p \in Procs : k \notin Held[p]) => Cardinality(HeldAt(k)) = 0
<1>1. \A x : x \in HeldAt(k) <=>
        \E p \in Procs : \E i \in DOMAIN chain[p] : chain[p][i] = k /\ x = <<p, i>>
  BY DEF HeldAt
<1>2. ASSUME NEW p \in Procs
      PROVE  /\ DOMAIN chain[p] = 1..Len(chain[p]) /\ Once(chain[p])
             /\ Held[p] = {chain[p][i] : i \in DOMAIN chain[p]}
  <2>1. chain[p] \in Seq(Blocks) /\ Once(chain[p])
    BY DEF IInv, TypeOK, Chains
  <2>2. DOMAIN chain[p] = 1..Len(chain[p]) /\ Range(chain[p]) = {chain[p][i] : i \in 1..Len(chain[p])}
    BY <2>1, ListElements
  <2> QED BY <2>1, <2>2 DEF Held
<1>3. \A p, r \in Procs : p # r => Held[p] \cap Held[r] = {}
  BY DEF IInv, Apart, Partition
<1>4. ASSUME NEW p \in Procs, k \in Held[p] PROVE Cardinality(HeldAt(k)) = 1
  <2>1. PICK i \in DOMAIN chain[p] : chain[p][i] = k
    BY <1>2, <1>4
  <2>2. <<p, i>> \in HeldAt(k)
    BY <1>1, <2>1
  <2>3. ASSUME NEW x \in HeldAt(k) PROVE x = <<p, i>>
    <3>1. PICK r \in Procs : \E j \in DOMAIN chain[r] : chain[r][j] = k /\ x = <<r, j>>
      BY <1>1, <2>3
    <3>2. PICK j \in DOMAIN chain[r] : chain[r][j] = k /\ x = <<r, j>>
      BY <3>1
    <3>3. r = p
      <4>1. k \in Held[r]
        BY <1>2, <3>2
      <4> QED BY <1>3, <1>4, <4>1
    <3>4. j = i
      BY <1>2, <2>1, <3>2, <3>3 DEF Once
    <3> QED BY <3>2, <3>3, <3>4
  <2>4. HeldAt(k) = {<<p, i>>}
    BY <2>2, <2>3
  <2> QED BY <2>4, FS_Singleton
<1>5. ASSUME \A p \in Procs : k \notin Held[p] PROVE Cardinality(HeldAt(k)) = 0
  <2>1. HeldAt(k) = {}
    <3> SUFFICES ASSUME NEW x \in HeldAt(k) PROVE FALSE
      OBVIOUS
    <3>1. PICK r \in Procs : \E j \in DOMAIN chain[r] : chain[r][j] = k /\ x = <<r, j>>
      BY <1>1
    <3>2. k \in Held[r]
      BY <1>2, <3>1
    <3> QED BY <1>5, <3>2
  <2> QED BY <2>1, FS_EmptySet
<1> QED BY <1>4, <1>5

(* Every block is in exactly one place, whatever the unlocked looks at     *)
(* rq->free found: none leaks, none is used by two at a time.              *)
THEOREM BlocksOnce == Spec => []BlocksOwnedOnce
<1>1. IInv => BlocksOwnedOnce
  <2> SUFFICES ASSUME IInv, NEW k \in Blocks
               PROVE  (IF k \in heap THEN 1 ELSE 0)
                        + Cardinality({i \in DOMAIN Walk(blk, free) : Walk(blk, free)[i] = k})
                        + Cardinality({i \in DOMAIN Queue : Queue[i] = k})
                        + Cardinality(HeldAt(k)) = 1
    BY DEF BlocksOwnedOnce, HeldAt
  <2>1. /\ Queue \in Seq(Blocks) /\ Once(Queue) /\ FreeList \in Seq(Blocks) /\ Once(FreeList)
    BY ListsGive DEF IInv
  <2> DEFINE h == IF k \in heap THEN 1 ELSE 0
             f == Cardinality({i \in DOMAIN FreeList : FreeList[i] = k})
             q == Cardinality({i \in DOMAIN Queue : Queue[i] = k})
             c == Cardinality(HeldAt(k))
  <2>2. /\ k \in heap => h = 1
        /\ k \notin heap => h = 0
        /\ k \in Range(FreeList) => f = 1
        /\ k \notin Range(FreeList) => f = 0
        /\ k \in Range(Queue) => q = 1
        /\ k \notin Range(Queue) => q = 0
    BY <2>1, TimesIn
  <2>3. /\ \A p \in Procs : k \in Held[p] => c = 1
        /\ (\A p \in Procs : k \notin Held[p]) => c = 0
    BY HeldTimes
  <2> HIDE DEF h, f, q, c
  <2>4. /\ k \in heap \cup Range(FreeList) \cup Range(Queue) \/ \E p \in Procs : k \in Held[p]
        /\ heap \cap Range(FreeList) = {} /\ heap \cap Range(Queue) = {}
        /\ Range(FreeList) \cap Range(Queue) = {}
        /\ \A p \in Procs : /\ Held[p] \cap heap = {} /\ Held[p] \cap Range(FreeList) = {}
                            /\ Held[p] \cap Range(Queue) = {}
    BY DEF IInv, Apart, Partition
  <2>5. h + f + q + c = 1
    <3>1. CASE k \in heap
      <4>1. h = 1 /\ f = 0 /\ q = 0 /\ c = 0
        BY <2>2, <2>3, <2>4, <3>1
      <4> QED BY <4>1
    <3>2. CASE k \in Range(FreeList)
      <4>1. h = 0 /\ f = 1 /\ q = 0 /\ c = 0
        BY <2>2, <2>3, <2>4, <3>2
      <4> QED BY <4>1
    <3>3. CASE k \in Range(Queue)
      <4>1. h = 0 /\ f = 0 /\ q = 1 /\ c = 0
        BY <2>2, <2>3, <2>4, <3>3
      <4> QED BY <4>1
    <3>4. CASE \E p \in Procs : k \in Held[p]
      <4>1. h = 0 /\ f = 0 /\ q = 0 /\ c = 1
        BY <2>2, <2>3, <2>4, <3>4
      <4> QED BY <4>1
    <3> QED BY <2>4, <3>1, <3>2, <3>3, <3>4
  <2> QED BY <2>5 DEF h, f, q, c, FreeList
<1> QED BY Invariant, <1>1, PTL

-----------------------------------------------------------------------------
(* rq.c implements JobQueue.                                               *)

\* The jobs of a list of blocks.
JobList(f, s) == [i \in DOMAIN s |-> JobIn(f, s[i])]

\* What stands for JobQueue's jobs.
Mapped == [i \in DOMAIN Queue |-> Job(Queue[i])]

(* The mapping in terms of lists, before and after a step.                 *)
LEMMA MappedIs == Mapped = JobList(blk, Queue) /\ Mapped' = JobList(blk', Queue')
BY DEF Mapped, JobList, Job, JobIn

(* Jobs of a list, by index.                                               *)
LEMMA JobListIs ==
  ASSUME NEW f, NEW s \in Seq(Blocks)
  PROVE  /\ JobList(f, s) \in Seq({JobIn(f, k) : k \in Blocks})
         /\ Len(JobList(f, s)) = Len(s) /\ DOMAIN JobList(f, s) = 1..Len(s)
         /\ JobList(f, s) = [i \in 1..Len(s) |-> JobIn(f, s[i])]
         /\ \A i \in 1..Len(s) : JobList(f, s)[i] = JobIn(f, s[i])
<1> DEFINE n == Len(s)
<1>1. n \in Nat /\ DOMAIN s = 1..n /\ \A i \in 1..n : s[i] \in Blocks
  BY ListElements
<1> HIDE DEF n
<1>2. JobList(f, s) = [i \in 1..n |-> JobIn(f, s[i])]
  BY <1>1 DEF JobList
<1>3. JobList(f, s) \in [1..n -> {JobIn(f, k) : k \in Blocks}]
  BY <1>1, <1>2
<1>4. JobList(f, s) \in Seq({JobIn(f, k) : k \in Blocks}) /\ Len(JobList(f, s)) = n
  BY <1>1, <1>3, SeqDef, LenProperties
<1> QED BY <1>2, <1>4 DEF n

(* The jobs of two lists one behind the other.                             *)
LEMMA JobListConcat ==
  ASSUME NEW f, NEW x \in Seq(Blocks), NEW y \in Seq(Blocks)
  PROVE  JobList(f, x \o y) = JobList(f, x) \o JobList(f, y)
<1> DEFINE S == {JobIn(f, k) : k \in Blocks}
           X == JobList(f, x)
           Y == JobList(f, y)
           n == Len(x)
           m == Len(y)
           z == x \o y
<1>1. /\ n \in Nat /\ m \in Nat
      /\ X \in Seq(S) /\ Len(X) = n /\ \A i \in 1..n : X[i] = JobIn(f, x[i])
      /\ Y \in Seq(S) /\ Len(Y) = m /\ \A i \in 1..m : Y[i] = JobIn(f, y[i])
  <2>1. n \in Nat /\ m \in Nat
    BY ListElements
  <2>2. X \in Seq(S) /\ Len(X) = n
    BY JobListIs
  <2>3. \A i \in 1..n : X[i] = JobIn(f, x[i])
    BY JobListIs
  <2>4. Y \in Seq(S) /\ Len(Y) = m
    BY JobListIs
  <2>5. \A i \in 1..m : Y[i] = JobIn(f, y[i])
    BY JobListIs
  <2> HIDE DEF S, X, Y, n, m
  <2> QED BY <2>1, <2>2, <2>3, <2>4, <2>5
<1>2. /\ z \in Seq(Blocks) /\ Len(z) = n + m
      /\ \A i \in 1..n : z[i] = x[i]
      /\ \A i \in 1..m : z[n + i] = y[i]
      /\ \A i \in 1..(n + m) : i \in 1..n \/ i - n \in 1..m
  BY ConcatElements
<1> HIDE DEF S, X, Y, z, n, m
<1>3. JobList(f, z) = [i \in 1..(n + m) |-> JobIn(f, z[i])]
  BY <1>2, JobListIs
<1>4. /\ X \o Y \in Seq(S) /\ Len(X \o Y) = n + m
      /\ \A i \in 1..(n + m) : (X \o Y)[i] = IF i <= n THEN X[i] ELSE Y[i - n]
  BY <1>1, ConcatProperties
<1>5. ASSUME NEW i \in 1..(n + m) PROVE (X \o Y)[i] = JobIn(f, z[i])
  <2>1. CASE i \in 1..n
    BY <1>1, <1>2, <1>4, <2>1
  <2>2. CASE i \notin 1..n
    <3>1. i - n \in 1..m /\ n + (i - n) = i /\ ~(i <= n)
      BY <1>1, <1>2, <2>2
    <3>2. z[n + (i - n)] = y[i - n]
      BY <1>2, <3>1
    <3>3. (X \o Y)[i] = Y[i - n] /\ Y[i - n] = JobIn(f, y[i - n])
      BY <1>1, <1>4, <3>1
    <3> QED BY <3>1, <3>2, <3>3
  <2> QED BY <2>1, <2>2
<1>6. X \o Y = [i \in 1..(n + m) |-> (X \o Y)[i]]
  <2>1. Len(X \o Y) = n + m /\ X \o Y \in Seq(S)
    BY <1>4
  <2> DEFINE w == X \o Y
  <2> HIDE DEF w
  <2>2. w = [i \in 1..Len(w) |-> w[i]]
    <3>1. w \in [1..Len(w) -> S]
      BY <2>1, LenProperties DEF w
    <3> QED BY <3>1
  <2> QED BY <2>1, <2>2 DEF w
<1>7. X \o Y = JobList(f, z)
  BY <1>3, <1>5, <1>6
<1> QED BY <1>7 DEF X, Y, z

(* The jobs of a list without its i-th block.                              *)
LEMMA JobListRemove ==
  ASSUME NEW f, NEW s \in Seq(Blocks), NEW i \in 1..Len(s)
  PROVE  JobList(f, RemoveAt(s, i)) = RemoveAt(JobList(f, s), i)
<1> DEFINE S == {JobIn(f, k) : k \in Blocks}
           X == JobList(f, s)
           n == Len(s)
           r == RemoveAt(s, i)
           R == RemoveAt(X, i)
<1>1. n \in Nat /\ X \in Seq(S) /\ Len(X) = n /\ \A j \in 1..n : X[j] = JobIn(f, s[j])
  <2>1. n \in Nat
    BY ListElements
  <2>2. X \in Seq(S) /\ Len(X) = n
    BY JobListIs
  <2>3. \A j \in 1..n : X[j] = JobIn(f, s[j])
    BY JobListIs
  <2> HIDE DEF S, X, n
  <2> QED BY <2>1, <2>2, <2>3
<1>2. /\ r \in Seq(Blocks) /\ Len(r) = n - 1
      /\ \A j \in 1..(n - 1) : r[j] = IF j < i THEN s[j] ELSE s[j + 1]
  BY RemoveAtProps
<1> HIDE DEF S, X, n
<1>3. i \in 1..n
  BY DEF n
<1>4. /\ R \in Seq(S) /\ Len(R) = n - 1
      /\ \A j \in 1..(n - 1) : R[j] = IF j < i THEN X[j] ELSE X[j + 1]
  <2>1. i \in 1..Len(X)
    BY <1>1, <1>3
  <2> QED BY <1>1, <2>1, RemoveAtProps
<1> HIDE DEF r, R
<1>5. JobList(f, r) = [j \in 1..(n - 1) |-> JobIn(f, r[j])]
  BY <1>2, JobListIs
<1>6. ASSUME NEW j \in 1..(n - 1) PROVE R[j] = JobIn(f, r[j])
  <2>1. j \in 1..n /\ j + 1 \in 1..n
    BY <1>1
  <2>2. CASE j < i
    BY <1>1, <1>2, <1>4, <2>1, <2>2
  <2>3. CASE ~(j < i)
    BY <1>1, <1>2, <1>4, <2>1, <2>3
  <2> QED BY <2>2, <2>3
<1>7. R = [j \in 1..(n - 1) |-> R[j]]
  <2>1. R \in [1..Len(R) -> S]
    BY <1>4, LenProperties
  <2>2. R = [j \in 1..Len(R) |-> R[j]]
    BY <2>1
  <2> QED BY <1>4, <2>2
<1>8. R = JobList(f, r)
  BY <1>5, <1>6, <1>7
<1> QED BY <1>8 DEF R, r, X

(* The jobs of a list when the blocks have the same jobs.                  *)
LEMMA JobListFrame ==
  ASSUME NEW f, NEW g, NEW s \in Seq(Blocks), \A i \in 1..Len(s) : JobIn(g, s[i]) = JobIn(f, s[i])
  PROVE  JobList(g, s) = JobList(f, s)
<1>1. /\ JobList(f, s) = [i \in 1..Len(s) |-> JobIn(f, s[i])]
      /\ JobList(g, s) = [i \in 1..Len(s) |-> JobIn(g, s[i])]
  BY JobListIs
<1> QED BY <1>1

(* The jobs of a list as a function.                                       *)
LEMMA JobListFunction ==
  \A f : \A s \in Seq(Blocks) : JobList(f, s) = [j \in 1..Len(s) |-> JobIn(f, s[j])]
BY JobListIs

(* The jobs of a list when one of them is different.                       *)
LEMMA JobListOne ==
  ASSUME NEW f, NEW g, NEW s \in Seq(Blocks), Once(s), NEW i \in 1..Len(s),
         \A k \in Blocks \ {s[i]} : JobIn(g, k) = JobIn(f, k),
         JobIn(g, s[i]) = [JobIn(f, s[i]) EXCEPT !.repeat = @ - 1]
  PROVE  JobList(g, s) = [JobList(f, s) EXCEPT ![i].repeat = @ - 1]
<1> DEFINE n == Len(s)
           X == JobList(f, s)
<1>1. /\ X = [j \in 1..n |-> JobIn(f, s[j])]
      /\ JobList(g, s) = [j \in 1..n |-> JobIn(g, s[j])]
  BY JobListFunction
<1>2. \A j \in 1..n : s[j] \in Blocks
  BY ListElements
<1> HIDE DEF n, X
<1>3. i \in 1..n
  BY DEF n
<1>4. ASSUME NEW j \in 1..n, j # i PROVE JobIn(g, s[j]) = JobIn(f, s[j])
  <2>1. s[j] # s[i]
    BY <1>3, <1>4 DEF Once, n
  <2> QED BY <1>2, <2>1
<1> DEFINE w == [X EXCEPT ![i].repeat = @ - 1]
<1>5. w = [j \in 1..n |-> IF j = i THEN [X[i] EXCEPT !.repeat = @ - 1] ELSE X[j]]
  BY <1>1, <1>3
<1>6. \A j \in 1..n : JobIn(g, s[j]) = IF j = i THEN [X[i] EXCEPT !.repeat = @ - 1] ELSE X[j]
  BY <1>1, <1>3, <1>4
<1> HIDE DEF w
<1>7. w = JobList(g, s)
  BY <1>1, <1>5, <1>6
<1> QED BY <1>7 DEF w, X

(* What Insert does to the jobs is a Put.                                  *)
LEMMA InsertPuts ==
  ASSUME TypeOK, Lists, Alive, Counted, NEW p, NEW c \in Seq(Blocks), Once(c),
         Range(c) \cap Range(Queue) = {}, NEW b \in Batches, Len(b) = Len(c), NEW s,
         Linked(blk, free', s), Range(s) \cap Range(c) = {}, Range(s) \cap Range(Queue) = {},
         Insert(p, c, b), lock' = lock, Len(log) + Len(b) <= MaxJobs, ran' = ran
  PROVE  JQ!Put(b)
<1> DEFINE q == Queue
<1>1. /\ Queue' = IF b[1].highpri THEN c \o q ELSE q \o c
      /\ \A i \in 1..Len(q) : JobIn(blk', q[i]) = JobIn(blk, q[i])
      /\ \A i \in 1..Len(c) : JobIn(blk', c[i]) = JobFrom(b, i, Len(log))
  BY InsertGives
<1>2. q \in Seq(Blocks)
  BY ListsGive
<1> HIDE DEF q
<1>3. JobList(blk', q) = JobList(blk, q)
  BY <1>1, <1>2, JobListFrame
<1>4. JobList(blk', c) = JQ!Numbered(b, Len(log))
  <2>1. JobList(blk', c) = [i \in 1..Len(c) |-> JobIn(blk', c[i])]
    BY JobListIs
  <2>2. DOMAIN b = 1..Len(c)
    BY BatchIs
  <2>3. JQ!Numbered(b, Len(log)) = [i \in 1..Len(c) |-> JobFrom(b, i, Len(log))]
    BY <2>2 DEF JQ!Numbered, JobFrom
  <2> QED BY <1>1, <2>1, <2>3
<1>5. JobList(blk', Queue') = IF b[1].highpri THEN JQ!Numbered(b, Len(log)) \o JobList(blk, q)
                                              ELSE JobList(blk, q) \o JQ!Numbered(b, Len(log))
  <2>1. /\ JobList(blk', c \o q) = JobList(blk', c) \o JobList(blk', q)
        /\ JobList(blk', q \o c) = JobList(blk', q) \o JobList(blk', c)
    BY <1>2, JobListConcat
  <2> QED BY <1>1, <1>3, <1>4, <2>1
<1>6. log' = log \o b
  BY DEF Insert
<1>7. Mapped' = IF b[1].highpri THEN JQ!Numbered(b, Len(log)) \o Mapped
                                ELSE Mapped \o JQ!Numbered(b, Len(log))
  BY <1>5, MappedIs DEF q
<1> QED BY <1>6, <1>7 DEF JQ!Put, Mapped

(* There is room for the batch of a processor.                             *)
LEMMA BudgetLeft ==
  ASSUME IInv, NEW p \in Procs, batch[p] \in Batches
  PROVE  Len(log) + Len(batch[p]) <= MaxJobs
<1> DEFINE b == batch[p]
           P == {p} \X (1..Len(b))
<1>1. Len(b) \in Nat /\ DOMAIN b = 1..Len(b)
  BY BatchIs
<1>2. /\ IsFiniteSet(Waiting(batch)) /\ Len(log) + Cardinality(Waiting(batch)) = issued
      /\ issued \in 0..MaxJobs /\ MaxJobs \in Nat /\ Len(log) \in Nat
  <2>1. log \in Seq(Templates)
    BY DEF IInv, TypeOK
  <2> QED BY <2>1, RunQueueAssumption, LenProperties DEF IInv, Budget, TypeOK
<1>3. P \subseteq Waiting(batch)
  BY <1>1 DEF Waiting
<1> HIDE DEF P, b
<1>4. Cardinality(P) <= Cardinality(Waiting(batch)) /\ Cardinality(Waiting(batch)) \in Nat
  BY <1>2, <1>3, FS_Subset, FS_CardinalityType
<1>5. Cardinality(P) = Len(b)
  BY <1>1, PairsFinite DEF P
<1>6. Len(log) + Len(b) <= MaxJobs
  BY <1>1, <1>2, <1>4, <1>5
<1> QED BY <1>6 DEF b

(* A job that Dequeue finds is the one that Take hands out.                *)
LEMMA FindTakes ==
  ASSUME IInv, NEW p \in Procs, DequeueFind(p), Runnable(p, gidOf[p]) # {}
  PROVE  JQ!Take(p, gidOf[p])
<1> DEFINE gid == gidOf[p]
           i == Min(Runnable(p, gid))
           q == Queue
           X == JobList(blk, q)
<1>1. TypeOK /\ Lists /\ Alive /\ Apart
  BY DEF IInv
<1>2. /\ i \in 1..Len(q) /\ MayRun(q[i], p, gid)
      /\ \A j \in 1..Len(q) : MayRun(q[j], p, gid) => i <= j
  BY <1>1, FoundFirst
<1>3. /\ ran' = ran \cup {<<blk[q[i]].id, blk[q[i]].repeat - 1, p>>} /\ log' = log
      /\ IF blk[q[i]].repeat = 1
         THEN Unlink(q[i])
         ELSE blk' = [blk EXCEPT ![q[i]].repeat = @ - 1] /\ UNCHANGED <<free, head, tail>>
  BY DEF DequeueFind
<1> HIDE DEF i
<1>4. \/ /\ blk[q[i]].repeat = 1 /\ Queue' = RemoveAt(q, i)
         /\ \A j \in Blocks : JobIn(blk', j) = JobIn(blk, j)
      \/ /\ blk[q[i]].repeat # 1 /\ Queue' = q
         /\ JobIn(blk', q[i]) = [JobIn(blk, q[i]) EXCEPT !.repeat = @ - 1]
         /\ \A j \in Blocks \ {q[i]} : JobIn(blk', j) = JobIn(blk, j)
  BY <1>1, <1>2, <1>3, FindGives
<1>5. q \in Seq(Blocks) /\ Once(q) /\ Len(q) \in Nat
  <2>1. q \in Seq(Blocks) /\ Once(q)
    BY <1>1, ListsGive
  <2> QED BY <2>1, ListElements
<1>6. Mapped = X
  BY MappedIs
<1> HIDE DEF q, X
<1>7. DOMAIN X = 1..Len(q) /\ \A j \in 1..Len(q) : X[j] = JobIn(blk, q[j])
  BY <1>5, JobListIs DEF X
<1>8. \A j \in 1..Len(q) : JQ!MayRun(X[j], p, gid) <=> MayRun(q[j], p, gid)
  BY <1>7 DEF JQ!MayRun, MayRun, JobIn
<1>9. X[i].id = blk[q[i]].id /\ X[i].repeat = blk[q[i]].repeat
  BY <1>2, <1>7 DEF JobIn
<1>10. Mapped' = IF X[i].repeat = 1 THEN RemoveAt(X, i) ELSE [X EXCEPT ![i].repeat = @ - 1]
  <2>1. CASE /\ blk[q[i]].repeat = 1 /\ Queue' = RemoveAt(q, i)
             /\ \A j \in Blocks : JobIn(blk', j) = JobIn(blk, j)
    <3>1. RemoveAt(q, i) \in Seq(Blocks)
      BY <1>2, <1>5, RemoveAtProps
    <3>2. \A j \in 1..Len(RemoveAt(q, i)) : RemoveAt(q, i)[j] \in Blocks
      BY <3>1, ListElements
    <3>3. \A j \in 1..Len(RemoveAt(q, i)) : JobIn(blk', RemoveAt(q, i)[j]) = JobIn(blk, RemoveAt(q, i)[j])
      BY <2>1, <3>2
    <3>4. JobList(blk', RemoveAt(q, i)) = JobList(blk, RemoveAt(q, i))
      BY <3>1, <3>3, JobListFrame
    <3>5. JobList(blk, RemoveAt(q, i)) = RemoveAt(X, i)
      BY <1>2, <1>5, JobListRemove DEF X
    <3> QED BY <1>9, <2>1, <3>4, <3>5, MappedIs
  <2>2. CASE /\ blk[q[i]].repeat # 1 /\ Queue' = q
             /\ JobIn(blk', q[i]) = [JobIn(blk, q[i]) EXCEPT !.repeat = @ - 1]
             /\ \A j \in Blocks \ {q[i]} : JobIn(blk', j) = JobIn(blk, j)
    <3>1. JobList(blk', q) = [X EXCEPT ![i].repeat = @ - 1]
      BY <1>2, <1>5, <2>2, JobListOne DEF X
    <3> QED BY <1>9, <2>2, <3>1, MappedIs
  <2> QED BY <1>4, <2>1, <2>2
<1>11. /\ i \in DOMAIN X /\ JQ!MayRun(X[i], p, gid)
       /\ \A k \in 1..(i - 1) : ~JQ!MayRun(X[k], p, gid)
       /\ ran' = ran \cup {<<X[i].id, X[i].repeat - 1, p>>}
  <2>1. \A k \in 1..(i - 1) : k \in 1..Len(q) /\ ~(i <= k)
    BY <1>2, <1>5
  <2> QED BY <1>2, <1>3, <1>7, <1>8, <1>9, <2>1
<1>12. \E j \in DOMAIN Mapped :
         /\ JQ!MayRun(Mapped[j], p, gid)
         /\ \A k \in 1..(j - 1) : ~JQ!MayRun(Mapped[k], p, gid)
         /\ ran' = ran \cup {<<Mapped[j].id, Mapped[j].repeat - 1, p>>}
         /\ Mapped' = IF Mapped[j].repeat = 1 THEN JQ!RemoveAt(Mapped, j)
                      ELSE [Mapped EXCEPT ![j].repeat = @ - 1]
  <2>1. JQ!RemoveAt(X, i) = RemoveAt(X, i)
    BY DEF JQ!RemoveAt, RemoveAt
  <2> QED BY <1>6, <1>10, <1>11, <2>1
<1> QED BY <1>3, <1>12 DEF JQ!Take, Mapped

(* Every step of rq.c is a Put, a Take or invisible to JobQueue.           *)
LEMMA StepRefines ==
  ASSUME IInv, [Next]_vars
  PROVE  [JQ!JQNext]_<<Mapped, log, ran>>
<1>1. ASSUME blk' = blk, head' = head, log' = log, ran' = ran
      PROVE  UNCHANGED <<Mapped, log, ran>>
  <2>1. Queue' = Queue
    BY <1>1 DEF Queue
  <2>2. Mapped' = Mapped
    BY <1>1, <2>1, MappedIs
  <2> QED BY <1>1, <2>2
<1>2. CASE UNCHANGED vars
  BY <1>1, <1>2 DEF vars
<1>3. ASSUME NEW p \in Procs, ProcNext(p)
      PROVE  JQ!JQNext \/ UNCHANGED <<Mapped, log, ran>>
  <2>1. CASE \E b \in Batches : Enqueue(p, b) \/ EnqueueMany(p, b)
    BY <1>1, <2>1 DEF Enqueue, EnqueueMany, hist
  <2>2. CASE EnqueueManyTake(p)
    BY <1>1, <2>2 DEF EnqueueManyTake, hist
  <2>3. CASE \E gid \in Gids : Dequeue(p, gid)
    BY <1>1, <2>3 DEF Dequeue, rq, hist
  <2>4. CASE DequeueLock(p)
    BY <1>1, <2>4 DEF DequeueLock, hist
  <2>5. CASE EnqueueTake(p)
    <3>1. CASE free = Null
      BY <1>1, <2>5, <3>1 DEF EnqueueTake
    <3>2. CASE free # Null
      <4> DEFINE s == SubSeq(FreeList, 2, Len(FreeList))
                 c == <<free>>
                 b == batch[p]
      <4>1. /\ c \in Seq(Blocks) /\ Once(c) /\ Len(b) = Len(c) /\ b \in Batches
            /\ Range(c) \cap Range(Queue) = {} /\ Linked(blk, free', s)
            /\ Range(s) \cap Range(c) = {} /\ Range(s) \cap Range(Queue) = {}
            /\ Insert(p, c, b) /\ lock' = lock /\ ran' = ran
        BY <2>5, <3>2, TakeGives
      <4>2. Len(log) + Len(b) <= MaxJobs
        BY <4>1, BudgetLeft
      <4>3. TypeOK /\ Lists /\ Alive /\ Counted
        BY DEF IInv
      <4> HIDE DEF s
      <4>4. JQ!Put(b)
        BY <4>1, <4>2, <4>3, InsertPuts
      <4> QED BY <4>1, <4>4 DEF JQ!JQNext
    <3> QED BY <3>1, <3>2
  <2>6. CASE EnqueueInsert(p)
    <3> DEFINE c == chain[p]
               b == batch[p]
    <3>1. /\ pc[p] = "insert" /\ Insert(p, c, b) /\ lock' = lock /\ ran' = ran /\ free' = free
      BY <2>6 DEF EnqueueInsert
    <3>2. /\ c \in Seq(Blocks) /\ Once(c) /\ Len(b) = Len(c) /\ b \in Batches
          /\ Range(c) \cap Range(Queue) = {} /\ Range(FreeList) \cap Range(c) = {}
      BY <3>1, ChainGives
    <3>3. Len(log) + Len(b) <= MaxJobs
      BY <3>2, BudgetLeft
    <3>4. TypeOK /\ Lists /\ Alive /\ Counted /\ Apart
      BY DEF IInv
    <3>5. Linked(blk, free', FreeList) /\ Range(FreeList) \cap Range(Queue) = {}
      BY <3>1, <3>4, ListsGive DEF Apart, Partition
    <3>6. JQ!Put(b)
      BY <3>1, <3>2, <3>3, <3>4, <3>5, InsertPuts
    <3> QED BY <3>2, <3>6 DEF JQ!JQNext
  <2>7. CASE DequeueFind(p)
    <3>1. CASE Runnable(p, gidOf[p]) = {}
      BY <1>1, <2>7, <3>1 DEF DequeueFind, args
    <3>2. CASE Runnable(p, gidOf[p]) # {}
      <4>1. gidOf[p] \in Gids
        BY DEF IInv, TypeOK
      <4> QED BY <2>7, <3>2, <4>1, FindTakes DEF JQ!JQNext
    <3> QED BY <3>1, <3>2
  <2> QED BY <1>3, <2>1, <2>2, <2>3, <2>4, <2>5, <2>6, <2>7 DEF ProcNext
<1> QED BY <1>2, <1>3 DEF Next

(* rq.c implements the queue its callers rely on: with its blocks, links,  *)
(* lock and unlocked reads, an insertion is one Put, in front or behind,   *)
(* and a dequeue is one Take of the first job the processor may run.       *)
THEOREM RunQueueImplementsJobQueue == Spec => ImplementsJobQueue
<1>1. Init => JQ!JQInit
  <2> SUFFICES ASSUME Init PROVE JQ!JQInit
    OBVIOUS
  <2>1. Linked(blk, head, << >>)
    BY DEF Init, Linked, Once
  <2>2. Queue = << >>
    BY <2>1, WalkIs DEF Queue
  <2>3. Mapped = << >>
    BY <2>2 DEF Mapped
  <2> QED BY <2>3 DEF Init, JQ!JQInit, Mapped
<1>2. IInv /\ [Next]_vars => [JQ!JQNext]_JQ!jqVars
  BY StepRefines DEF JQ!jqVars, Mapped
<1> QED BY <1>1, <1>2, Invariant, PTL DEF Spec, JQ!JQSpec, ImplementsJobQueue
=============================================================================
