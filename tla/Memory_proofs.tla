---------------------------- MODULE Memory_proofs ----------------------------
(***************************************************************************)
(* Proofs about Memory, for any processors and any size of the arena.      *)
(***************************************************************************)
EXTENDS Memory, FiniteSetTheorems, SequenceTheorems, TLAPS

-----------------------------------------------------------------------------
(* Sequences without repetition: the free lists.                           *)

(* Taking the k-th element out of an injective sequence leaves an          *)
(* injective sequence of the others.                                       *)
LEMMA RemoveAtSet ==
  ASSUME NEW S, NEW s \in Seq(S), IsInjective(s), NEW k \in 1..Len(s)
  PROVE  /\ RemoveAt(s, k) \in Seq(S)
         /\ IsInjective(RemoveAt(s, k))
         /\ ToSet(RemoveAt(s, k)) = ToSet(s) \ {s[k]}
<1> DEFINE l == SubSeq(s, 1, k - 1)
           u == SubSeq(s, k + 1, Len(s))
           t == RemoveAt(s, k)
<1>1. Len(s) \in Nat /\ DOMAIN s = 1..Len(s) /\ \A j \in 1..Len(s) : s[j] \in S
  BY LenProperties, ElementOfSeq
<1>2. l \in Seq(S) /\ Len(l) = k - 1 /\ \A j \in 1..(k - 1) : l[j] = s[j]
  <2>1. \A j \in 1..(k - 1) : s[j] \in S
    BY <1>1
  <2> QED BY <1>1, <2>1, SubSeqProperties
<1>3. u \in Seq(S) /\ Len(u) = Len(s) - k /\ \A j \in 1..(Len(s) - k) : u[j] = s[k + j]
  <2>1. \A j \in (k + 1)..Len(s) : s[j] \in S
    BY <1>1
  <2>2. /\ u \in Seq(S)
        /\ Len(u) = IF k + 1 <= Len(s) THEN Len(s) - (k + 1) + 1 ELSE 0
        /\ \A j \in 1..(Len(s) - (k + 1) + 1) : u[j] = s[(k + 1) + j - 1]
    BY <1>1, <2>1, SubSeqProperties
  <2> HIDE DEF l, u, t
  <2>3. ASSUME NEW j \in 1..(Len(s) - k) PROVE u[j] = s[k + j]
    <3>1. j \in 1..(Len(s) - (k + 1) + 1) /\ (k + 1) + j - 1 = k + j
      BY <1>1
    <3>2. u[j] = s[(k + 1) + j - 1]
      BY <2>2, <3>1
    <3> QED BY <3>1, <3>2
  <2>4. Len(u) = Len(s) - k
    <3>1. k \in Nat /\ Len(s) \in Nat /\ k <= Len(s)
      BY <1>1
    <3>2. Len(u) = IF k + 1 <= Len(s) THEN Len(s) - (k + 1) + 1 ELSE 0
      BY <2>2
    <3> QED BY <3>1, <3>2
  <2> QED BY <2>2, <2>3, <2>4
<1>4. t = l \o u
  BY DEF RemoveAt
<1> HIDE DEF l, u, t
<1>5. /\ t \in Seq(S) /\ Len(t) = Len(s) - 1
      /\ \A j \in 1..(Len(l) + Len(u)) : t[j] = IF j <= Len(l) THEN l[j] ELSE u[j - Len(l)]
  <2>1. /\ l \o u \in Seq(S) /\ Len(l \o u) = Len(l) + Len(u)
        /\ \A j \in 1..(Len(l) + Len(u)) : (l \o u)[j] = IF j <= Len(l) THEN l[j] ELSE u[j - Len(l)]
    BY <1>2, <1>3, ConcatProperties
  <2> QED BY <1>1, <1>2, <1>3, <1>4, <2>1
<1>6. DOMAIN t = 1..(Len(s) - 1)
  BY <1>5, LenProperties
<1>7. ASSUME NEW j \in DOMAIN t PROVE t[j] = s[IF j < k THEN j ELSE j + 1]
  <2>1. CASE j < k
    <3>1. j \in 1..(k - 1) /\ j \in 1..(Len(l) + Len(u)) /\ j <= Len(l)
      BY <1>1, <1>2, <1>3, <1>6, <2>1
    <3> QED BY <1>2, <1>5, <2>1, <3>1
  <2>2. CASE j >= k
    <3>1. t[j] = u[j - (k - 1)]
      <4>1. j \in 1..(Len(l) + Len(u)) /\ ~(j <= Len(l))
        BY <1>1, <1>2, <1>3, <1>6, <2>2
      <4> QED BY <1>2, <1>5, <4>1
    <3>2. j - (k - 1) \in 1..(Len(s) - k) /\ k + (j - (k - 1)) = j + 1
      BY <1>1, <1>6, <2>2
    <3> QED BY <1>1, <1>3, <1>6, <2>2, <3>1, <3>2
  <2> QED BY <1>1, <1>6, <2>1, <2>2
<1>8. IsInjective(t)
  <2> SUFFICES ASSUME NEW j \in DOMAIN t, NEW m \in DOMAIN t, t[j] = t[m] PROVE j = m
    BY DEF IsInjective
  <2>1. (IF j < k THEN j ELSE j + 1) = (IF m < k THEN m ELSE m + 1)
    <3>1. /\ (IF j < k THEN j ELSE j + 1) \in DOMAIN s
          /\ (IF m < k THEN m ELSE m + 1) \in DOMAIN s
      BY <1>1, <1>6
    <3> QED BY <1>7, <3>1 DEF IsInjective
  <2> QED BY <1>1, <1>6, <2>1
<1>9. ToSet(t) = ToSet(s) \ {s[k]}
  <2>1. ASSUME NEW j \in DOMAIN t PROVE t[j] \in ToSet(s) \ {s[k]}
    <3>1. /\ (IF j < k THEN j ELSE j + 1) \in DOMAIN s
          /\ (IF j < k THEN j ELSE j + 1) # k
      BY <1>1, <1>6
    <3> QED BY <1>1, <1>7, <3>1 DEF ToSet, IsInjective
  <2>2. ASSUME NEW j \in DOMAIN s, j # k PROVE \E m \in DOMAIN t : t[m] = s[j]
    <3>1. CASE j < k
      BY <1>1, <1>6, <1>7, <3>1
    <3>2. CASE j > k
      <4>1. j - 1 \in DOMAIN t /\ ~(j - 1 < k) /\ (j - 1) + 1 = j
        BY <1>1, <1>6, <3>2
      <4> QED BY <1>7, <4>1
    <3> QED BY <1>1, <2>2, <3>1, <3>2
  <2> QED BY <2>1, <2>2 DEF ToSet
<1> QED BY <1>5, <1>8, <1>9 DEF t

(* So does taking an element out wherever it is, if it is there at all.    *)
LEMMA RemoveFirstSet ==
  ASSUME NEW S, NEW s \in Seq(S), IsInjective(s), NEW a
  PROVE  /\ RemoveFirst(s, a) \in Seq(S)
         /\ IsInjective(RemoveFirst(s, a))
         /\ ToSet(RemoveFirst(s, a)) = ToSet(s) \ {a}
<1>1. Len(s) \in Nat /\ DOMAIN s = 1..Len(s)
  BY LenProperties
<1>2. CASE \E k \in 1..Len(s) : s[k] = a
  <2>1. PICK k \in 1..Len(s) : s[k] = a
    BY <1>2
  <2>2. {j \in 1..Len(s) : s[j] = a} = {k}
    BY <1>1, <2>1 DEF IsInjective
  <2>3. Min({k}) = k
    BY <1>1 DEF Min
  <2>4. SelectInSeq(s, LAMBDA v : v = a) = k
    BY <2>2, <2>3 DEF SelectInSeq
  <2>5. RemoveFirst(s, a) = RemoveAt(s, k)
    BY <1>2, <2>4 DEF RemoveFirst
  <2> QED BY <2>1, <2>5, RemoveAtSet
<1>3. CASE ~ \E k \in 1..Len(s) : s[k] = a
  <2>1. RemoveFirst(s, a) = s
    BY <1>3 DEF RemoveFirst
  <2> QED BY <1>1, <1>3, <2>1 DEF ToSet
<1> QED BY <1>2, <1>3

(* Putting a new element in front keeps a sequence injective.              *)
LEMMA ConsSet ==
  ASSUME NEW S, NEW s \in Seq(S), IsInjective(s), NEW a \in S, a \notin ToSet(s)
  PROVE  /\ <<a>> \o s \in Seq(S)
         /\ IsInjective(<<a>> \o s)
         /\ ToSet(<<a>> \o s) = ToSet(s) \cup {a}
<1> DEFINE t == <<a>> \o s
<1>1. Len(s) \in Nat /\ DOMAIN s = 1..Len(s)
  BY LenProperties
<1>2. <<a>> \in Seq(S) /\ Len(<<a>>) = 1 /\ <<a>>[1] = a
  OBVIOUS
<1>3. /\ t \in Seq(S) /\ Len(t) = 1 + Len(s)
      /\ \A k \in 1..(1 + Len(s)) : t[k] = IF k <= 1 THEN <<a>>[k] ELSE s[k - 1]
  BY <1>2, ConcatProperties
<1> HIDE DEF t
<1>4. DOMAIN t = 1..(1 + Len(s))
  BY <1>3, LenProperties
<1>5. t[1] = a /\ \A k \in 2..(1 + Len(s)) : k - 1 \in DOMAIN s /\ t[k] = s[k - 1]
  BY <1>1, <1>2, <1>3
<1>6. \A k \in DOMAIN t : k = 1 \/ k \in 2..(1 + Len(s))
  BY <1>1, <1>4
<1>7. IsInjective(t)
  <2> SUFFICES ASSUME NEW k \in DOMAIN t, NEW j \in DOMAIN t, t[k] = t[j] PROVE k = j
    BY DEF IsInjective
  <2>1. CASE k = 1 \/ j = 1
    BY <1>5, <1>6, <2>1 DEF ToSet
  <2>2. CASE k # 1 /\ j # 1
    <3>1. k - 1 = j - 1
      BY <1>5, <1>6, <2>2 DEF IsInjective
    <3> QED BY <1>4, <3>1
  <2> QED BY <2>1, <2>2
<1>8. ToSet(t) = ToSet(s) \cup {a}
  <2>1. ToSet(t) \subseteq ToSet(s) \cup {a}
    BY <1>5, <1>6 DEF ToSet
  <2>2. a \in ToSet(t)
    BY <1>1, <1>4, <1>5 DEF ToSet
  <2>3. ASSUME NEW k \in DOMAIN s PROVE s[k] \in ToSet(t)
    <3>1. k + 1 \in 2..(1 + Len(s)) /\ (k + 1) - 1 = k /\ k + 1 \in DOMAIN t
      BY <1>1, <1>4
    <3> QED BY <1>5, <3>1 DEF ToSet
  <2> QED BY <2>1, <2>2, <2>3 DEF ToSet
<1> QED BY <1>3, <1>7, <1>8 DEF t

(* Taking the first one off keeps it injective as well.                    *)
LEMMA TailSet ==
  ASSUME NEW S, NEW s \in Seq(S), IsInjective(s), s # <<>>
  PROVE  /\ Head(s) \in S /\ Head(s) \in ToSet(s)
         /\ Tail(s) \in Seq(S)
         /\ IsInjective(Tail(s))
         /\ ToSet(Tail(s)) = ToSet(s) \ {Head(s)}
<1>1. Len(s) \in Nat \ {0} /\ DOMAIN s = 1..Len(s)
  BY EmptySeq, LenProperties
<1>2. /\ Head(s) = s[1] /\ Head(s) \in S /\ Tail(s) \in Seq(S)
      /\ Len(Tail(s)) = Len(s) - 1
      /\ \A k \in 1..(Len(s) - 1) : Tail(s)[k] = s[k + 1]
  BY HeadTailProperties
<1>3. DOMAIN Tail(s) = 1..(Len(s) - 1)
  BY <1>2, LenProperties
<1>4. \A k \in DOMAIN Tail(s) : k + 1 \in DOMAIN s /\ k + 1 # 1 /\ Tail(s)[k] = s[k + 1]
  BY <1>1, <1>2, <1>3
<1>5. IsInjective(Tail(s))
  <2> SUFFICES ASSUME NEW k \in DOMAIN Tail(s), NEW j \in DOMAIN Tail(s), Tail(s)[k] = Tail(s)[j]
               PROVE  k = j
    BY DEF IsInjective
  <2>1. k + 1 = j + 1
    BY <1>4 DEF IsInjective
  <2> QED BY <1>3, <2>1
<1>6. ToSet(Tail(s)) = ToSet(s) \ {Head(s)}
  <2>1. ASSUME NEW k \in DOMAIN Tail(s) PROVE Tail(s)[k] \in ToSet(s) \ {Head(s)}
    <3>1. s[k + 1] # s[1]
      BY <1>1, <1>4 DEF IsInjective
    <3> QED BY <1>2, <1>4, <3>1 DEF ToSet
  <2>2. ASSUME NEW k \in DOMAIN s, s[k] # Head(s) PROVE \E j \in DOMAIN Tail(s) : Tail(s)[j] = s[k]
    <3>1. k - 1 \in DOMAIN Tail(s) /\ (k - 1) + 1 = k
      BY <1>1, <1>2, <1>3, <2>2
    <3> QED BY <1>4, <3>1
  <2> QED BY <2>1, <2>2 DEF ToSet
<1>7. Head(s) \in ToSet(s)
  BY <1>1, <1>2 DEF ToSet
<1> QED BY <1>2, <1>5, <1>6, <1>7

-----------------------------------------------------------------------------
(* Blocks side by side.                                                    *)

\* The blocks of B, each of which ends where f says, tile the addresses below e.
Tiled(B, f, e) ==
  /\ B \subseteq Addresses
  /\ \A c \in B : f[c] \in Addresses /\ c < f[c] /\ f[c] <= e
  /\ \A c, d \in B : c < d => f[c] <= d
  /\ \A a \in Addresses : a < e => \E c \in B : c <= a /\ a < f[c]

\* g leads back from the end of each block of B to its start, but from the end of
\* a block of U, the pieces, to some block before it.
Chained(B, f, g, U) ==
  \A c \in B : /\ g[f[c]] \in Addresses
              /\ IF c \in U THEN g[f[c]] < c ELSE g[f[c]] = c

\* Back links h, which are g but for that of a, which is c.
Relinked(g, h, a, c) == h[a] = c /\ \A d \in Addresses \ {a} : h[d] = g[d]

(* A block ends where another starts, or where they all end.               *)
LEMMA NextIsBlock ==
  ASSUME MaxSize \in Nat, NEW B, NEW f, NEW e \in Addresses, Tiled(B, f, e), NEW c \in B
  PROVE  f[c] \in B \/ f[c] = e
<1>1. c \in Addresses /\ f[c] \in Addresses /\ c < f[c] /\ f[c] <= e
  BY DEF Tiled
<1>2. SUFFICES ASSUME f[c] < e PROVE f[c] \in B
  BY <1>1 DEF Addresses
<1>3. PICK d \in B : d <= f[c] /\ f[c] < f[d]
  BY <1>1, <1>2 DEF Tiled
<1>4. /\ d \in Addresses /\ f[d] \in Addresses /\ (c < d => f[c] <= d) /\ (d < c => f[d] <= c)
  BY <1>3 DEF Tiled
<1>5. d = f[c]
  BY <1>1, <1>3, <1>4 DEF Addresses
<1> QED BY <1>3, <1>5

(* No block starts inside another, and no two end at one place.            *)
LEMMA Inside ==
  ASSUME MaxSize \in Nat, NEW B, NEW f, NEW e \in Addresses, Tiled(B, f, e),
         NEW c \in B, NEW d \in B
  PROVE  /\ c < d => f[c] <= d /\ f[c] < f[d]
         /\ d < c => f[d] <= c /\ f[d] < f[c]
         /\ f[c] = f[d] => c = d
<1>1. /\ c \in Addresses /\ f[c] \in Addresses /\ c < f[c]
      /\ d \in Addresses /\ f[d] \in Addresses /\ d < f[d]
      /\ (c < d => f[c] <= d) /\ (d < c => f[d] <= c)
  BY DEF Tiled
<1> QED BY <1>1 DEF Addresses

(* Cutting a block in two.                                                 *)
LEMMA TilingSplit ==
  ASSUME MaxSize \in Nat, NEW B, NEW f, NEW h, NEW e \in Addresses, Tiled(B, f, e),
         NEW c \in B, NEW d \in Addresses, c < d, d < f[c], h[c] = d, h[d] = f[c],
         \A a \in B \ {c} : h[a] = f[a]
  PROVE  Tiled(B \cup {d}, h, e) /\ d \notin B
<1>1. B \subseteq Addresses /\ \A a \in B : f[a] \in Addresses /\ a < f[a] /\ f[a] <= e
  BY DEF Tiled
<1>2. d \notin B
  BY Inside, <1>1 DEF Addresses
<1>3. ASSUME NEW a \in B \cup {d} PROVE h[a] \in Addresses /\ a < h[a] /\ h[a] <= e
  <2>1. CASE a = c
    BY <1>1, <2>1 DEF Addresses
  <2>2. CASE a = d
    BY <1>1, <2>2 DEF Addresses
  <2>3. CASE a # c /\ a # d
    BY <1>1, <2>3
  <2> QED BY <2>1, <2>2, <2>3
<1>4. ASSUME NEW a \in B \cup {d}, NEW a2 \in B \cup {d}, a < a2 PROVE h[a] <= a2
  <2>1. CASE a = c
    <3>1. a2 = d \/ (a2 \in B /\ f[c] <= a2)
      BY <1>4, <2>1, Inside
    <3> QED BY <1>1, <2>1, <3>1 DEF Addresses
  <2>2. CASE a = d
    <3>1. a2 \in B /\ c < a2
      BY <1>1, <1>4, <2>2 DEF Addresses
    <3> QED BY <2>2, <3>1, Inside
  <2>3. CASE a # c /\ a # d /\ a2 = d
    <3>1. a \in B /\ ~(c < a)
      <4>1. c < a => f[c] <= a
        BY <2>3, Inside
      <4> QED BY <1>1, <1>4, <2>3, <4>1 DEF Addresses
    <3>2. a < c
      BY <1>1, <2>3, <3>1 DEF Addresses
    <3>3. f[a] <= c /\ h[a] = f[a]
      BY <2>3, <3>1, <3>2, Inside
    <3> QED BY <1>1, <2>3, <3>1, <3>3 DEF Addresses
  <2>4. CASE a # c /\ a # d /\ a2 # d
    BY <1>4, <2>4, Inside
  <2> QED BY <2>1, <2>2, <2>3, <2>4
<1>5. ASSUME NEW a \in Addresses, a < e PROVE \E a2 \in B \cup {d} : a2 <= a /\ a < h[a2]
  <2>1. PICK a2 \in B : a2 <= a /\ a < f[a2]
    BY <1>5 DEF Tiled
  <2>2. CASE a2 # c
    BY <2>1, <2>2
  <2>3. CASE a2 = c /\ a < d
    BY <2>1, <2>3
  <2>4. CASE a2 = c /\ ~(a < d)
    <3>1. d <= a
      BY <2>4 DEF Addresses
    <3> QED BY <2>1, <2>4, <3>1
  <2> QED BY <2>2, <2>3, <2>4
<1> QED BY <1>1, <1>2, <1>3, <1>4, <1>5 DEF Tiled

(* Making one block of two that follow each other.                         *)
LEMMA TilingMerge ==
  ASSUME MaxSize \in Nat, NEW B, NEW f, NEW h, NEW e \in Addresses, Tiled(B, f, e),
         NEW c \in B, NEW d \in B, f[c] = d, h[c] = f[d],
         \A a \in B \ {c, d} : h[a] = f[a]
  PROVE  Tiled(B \ {d}, h, e) /\ c # d
<1>1. B \subseteq Addresses /\ \A a \in B : f[a] \in Addresses /\ a < f[a] /\ f[a] <= e
  BY DEF Tiled
<1>2. c < d /\ c # d
  BY <1>1 DEF Addresses
<1>3. ASSUME NEW a \in B \ {d} PROVE h[a] \in Addresses /\ a < h[a] /\ h[a] <= e
  <2>1. CASE a = c
    BY <1>1, <1>2, <2>1 DEF Addresses
  <2>2. CASE a # c
    BY <1>1, <2>2
  <2> QED BY <2>1, <2>2
<1>4. ASSUME NEW a \in B \ {d}, NEW a2 \in B \ {d}, a < a2 PROVE h[a] <= a2
  <2>1. CASE a = c
    <3>1. d <= a2
      BY <1>4, <2>1, Inside
    <3>2. d < a2
      BY <1>1, <3>1 DEF Addresses
    <3> QED BY <2>1, <3>2, Inside
  <2>2. CASE a # c
    BY <1>4, <2>2, Inside
  <2> QED BY <2>1, <2>2
<1>5. ASSUME NEW a \in Addresses, a < e PROVE \E a2 \in B \ {d} : a2 <= a /\ a < h[a2]
  <2>1. PICK a2 \in B : a2 <= a /\ a < f[a2]
    BY <1>5 DEF Tiled
  <2>2. CASE a2 \in {c, d}
    <3>1. c <= a /\ a < f[d]
      BY <1>1, <1>2, <2>1, <2>2 DEF Addresses
    <3> QED BY <1>2, <3>1
  <2>3. CASE a2 \notin {c, d}
    BY <2>1, <2>3
  <2> QED BY <2>2, <2>3
<1> QED BY <1>1, <1>2, <1>3, <1>4, <1>5 DEF Tiled

(* Adding a block at the end.                                              *)
LEMMA TilingGrow ==
  ASSUME MaxSize \in Nat, NEW B, NEW f, NEW h, NEW e \in Addresses, Tiled(B, f, e),
         NEW d \in Addresses, e < d, h[e] = d, \A a \in B : h[a] = f[a]
  PROVE  Tiled(B \cup {e}, h, d) /\ e \notin B
<1>1. B \subseteq Addresses /\ \A a \in B : f[a] \in Addresses /\ a < f[a] /\ f[a] <= e
  BY DEF Tiled
<1>2. e \notin B
  BY <1>1 DEF Addresses
<1>3. ASSUME NEW a \in B \cup {e} PROVE h[a] \in Addresses /\ a < h[a] /\ h[a] <= d
  BY <1>1 DEF Addresses
<1>4. ASSUME NEW a \in B \cup {e}, NEW a2 \in B \cup {e}, a < a2 PROVE h[a] <= a2
  <2>1. CASE a = e
    <3>1. a2 \in B
      BY <1>1, <1>4, <2>1 DEF Addresses
    <3> QED BY <1>1, <1>4, <2>1, <3>1 DEF Addresses
  <2>2. CASE a # e
    BY <1>1, <1>4, <2>2, Inside
  <2> QED BY <2>1, <2>2
<1>5. ASSUME NEW a \in Addresses, a < d PROVE \E a2 \in B \cup {e} : a2 <= a /\ a < h[a2]
  <2>1. CASE a < e
    BY <2>1 DEF Tiled
  <2>2. CASE ~(a < e)
    <3>1. e <= a
      BY <2>2 DEF Addresses
    <3> QED BY <1>5, <3>1
  <2> QED BY <2>1, <2>2
<1> QED BY <1>1, <1>2, <1>3, <1>4, <1>5 DEF Tiled

(* Giving the last one up.                                                 *)
LEMMA TilingShrink ==
  ASSUME MaxSize \in Nat, NEW B, NEW f, NEW h, NEW e \in Addresses, Tiled(B, f, e),
         NEW d \in B, f[d] = e, \A a \in B \ {d} : h[a] = f[a]
  PROVE  Tiled(B \ {d}, h, d)
<1>1. B \subseteq Addresses /\ \A a \in B : f[a] \in Addresses /\ a < f[a] /\ f[a] <= e
  BY DEF Tiled
<1>2. ASSUME NEW a \in B \ {d} PROVE h[a] \in Addresses /\ a < h[a] /\ h[a] <= d
  <2>1. ~(d < a)
    <3>1. d < a => e <= a
      BY Inside
    <3> QED BY <1>1, <3>1 DEF Addresses
  <2>2. a < d
    BY <1>1, <2>1 DEF Addresses
  <2>3. f[a] <= d
    BY <2>2, Inside
  <2> QED BY <1>1, <2>3
<1>3. ASSUME NEW a \in B \ {d}, NEW a2 \in B \ {d}, a < a2 PROVE h[a] <= a2
  BY <1>3, Inside
<1>4. ASSUME NEW a \in Addresses, a < d PROVE \E a2 \in B \ {d} : a2 <= a /\ a < h[a2]
  <2>1. PICK a2 \in B : a2 <= a /\ a < f[a2]
    BY <1>1, <1>4 DEF Tiled, Addresses
  <2>2. a2 # d
    BY <1>1, <1>4, <2>1 DEF Addresses
  <2> QED BY <2>1, <2>2
<1> QED BY <1>1, <1>2, <1>3, <1>4 DEF Tiled

(* The back links of a block that is cut in two: the block after the new   *)
(* one, which is a piece until then, still knows the old one.              *)
LEMMA ChainSplit ==
  ASSUME MaxSize \in Nat, NEW B, NEW f, NEW g, NEW U, NEW e \in Addresses,
         Tiled(B, f, e), Chained(B, f, g, U),
         NEW c \in B, c \notin U, NEW d \in Addresses, c < d, d < f[c],
         NEW h, h[c] = d, h[d] = f[c], \A a \in B \ {c} : h[a] = f[a],
         NEW k, Relinked(g, k, d, c)
  PROVE  Chained(B \cup {d}, h, k, U \cup {d})
<1>1. B \subseteq Addresses /\ \A a \in B : f[a] \in Addresses /\ a < f[a] /\ f[a] <= e
  BY DEF Tiled
<1>2. d \notin B
  BY Inside, <1>1 DEF Addresses
<1>3. \A a \in B : f[a] # d
  <2> SUFFICES ASSUME NEW a \in B, f[a] = d PROVE FALSE
    OBVIOUS
  <2>1. a # c
    BY <1>1 DEF Addresses
  <2>2. (c < a => f[c] <= a) /\ (a < c => f[a] <= c)
    BY Inside
  <2> QED BY <1>1, <2>1, <2>2 DEF Addresses
<1>4. \A a \in B : k[f[a]] = g[f[a]]
  BY <1>1, <1>3 DEF Relinked
<1>5. ASSUME NEW a \in B \ {c} PROVE /\ k[h[a]] \in Addresses
                                     /\ IF a \in U \cup {d} THEN k[h[a]] < a ELSE k[h[a]] = a
  BY <1>2, <1>4 DEF Chained
<1>6. k[h[c]] = c /\ c \notin U \cup {d}
  BY <1>2 DEF Relinked
<1>7. k[h[d]] = c /\ c < d
  <2>1. k[f[c]] = g[f[c]] /\ g[f[c]] = c
    BY <1>4 DEF Chained
  <2> QED BY <2>1
<1>8. ASSUME NEW a \in B \cup {d} PROVE /\ k[h[a]] \in Addresses
                                        /\ IF a \in U \cup {d} THEN k[h[a]] < a ELSE k[h[a]] = a
  BY <1>1, <1>5, <1>6, <1>7
<1> QED BY <1>8 DEF Chained

(* The block after a piece learns of it.                                   *)
LEMMA ChainLink ==
  ASSUME MaxSize \in Nat, NEW B, NEW f, NEW g, NEW U, NEW e \in Addresses,
         Tiled(B, f, e), Chained(B, f, g, U), NEW c \in B,
         NEW k, Relinked(g, k, f[c], c)
  PROVE  Chained(B, f, k, U \ {c})
<1>1. B \subseteq Addresses /\ \A a \in B : f[a] \in Addresses
  BY DEF Tiled
<1>2. \A a \in B \ {c} : f[a] # f[c]
  BY Inside
<1>3. \A a \in B \ {c} : k[f[a]] = g[f[a]]
  BY <1>1, <1>2 DEF Relinked
<1>4. ASSUME NEW a \in B PROVE /\ k[f[a]] \in Addresses
                               /\ IF a \in U \ {c} THEN k[f[a]] < a ELSE k[f[a]] = a
  <2>1. CASE a = c
    BY <1>1, <2>1 DEF Relinked
  <2>2. CASE a # c
    BY <1>3, <2>2 DEF Chained
  <2> QED BY <2>1, <2>2
<1> QED BY <1>4 DEF Chained

(* The back links when one block is made of two.                           *)
LEMMA ChainMerge ==
  ASSUME MaxSize \in Nat, NEW B, NEW f, NEW g, NEW U, NEW e \in Addresses,
         Tiled(B, f, e), Chained(B, f, g, U),
         NEW c \in B, NEW d \in B, f[c] = d, c \notin U,
         NEW h, h[c] = f[d], \A a \in B \ {c, d} : h[a] = f[a],
         NEW k, Relinked(g, k, f[d], c)
  PROVE  Chained(B \ {d}, h, k, U)
<1>1. B \subseteq Addresses /\ \A a \in B : f[a] \in Addresses
  BY DEF Tiled
<1>2. \A a \in B \ {d} : f[a] # f[d]
  BY Inside
<1>3. \A a \in B \ {d} : k[f[a]] = g[f[a]]
  BY <1>1, <1>2 DEF Relinked
<1>4. ASSUME NEW a \in B \ {d} PROVE /\ k[h[a]] \in Addresses
                                     /\ IF a \in U THEN k[h[a]] < a ELSE k[h[a]] = a
  <2>1. CASE a = c
    BY <1>1, <2>1 DEF Relinked
  <2>2. CASE a # c
    BY <1>3, <2>2 DEF Chained
  <2> QED BY <2>1, <2>2
<1> QED BY <1>4 DEF Chained

(* The back links when there is one more block at the end.                 *)
LEMMA ChainGrow ==
  ASSUME MaxSize \in Nat, NEW B, NEW f, NEW g, NEW U, NEW e \in Addresses,
         Tiled(B, f, e), Chained(B, f, g, U), e \notin U, NEW d \in Addresses, e < d,
         NEW h, h[e] = d, \A a \in B : h[a] = f[a],
         NEW k, Relinked(g, k, d, e)
  PROVE  Chained(B \cup {e}, h, k, U)
<1>1. \A a \in B : f[a] \in Addresses /\ f[a] <= e
  BY DEF Tiled
<1>2. \A a \in B : k[f[a]] = g[f[a]]
  BY <1>1 DEF Addresses, Relinked
<1>3. ASSUME NEW a \in B \cup {e} PROVE /\ k[h[a]] \in Addresses
                                        /\ IF a \in U THEN k[h[a]] < a ELSE k[h[a]] = a
  <2>1. CASE a = e
    BY <2>1 DEF Relinked
  <2>2. CASE a # e
    BY <1>2, <2>2 DEF Chained
  <2> QED BY <2>1, <2>2
<1> QED BY <1>3 DEF Chained

-----------------------------------------------------------------------------
(* The inductive invariant.                                                *)

Allocating == {"first", "search", "take", "split", "splitlink", "splitfree", "pool"}

\* What a processor knows about its block, its neighbour, its size and its list.
ControlOf(p) ==
  /\ pc[p] # "corrupt"
  /\ pc[p] = "idle" => b[p] = Null /\ r[p] = Null /\ n[p] = 0
  /\ pc[p] \in Allocating => n[p] > 0 /\ r[p] = Null /\ (b[p] # Null => used[b[p]] > 0)
  /\ pc[p] \notin Allocating \cup {"idle"} => b[p] # Null
  /\ pc[p] \in {"search", "take"} => i[p] > n[p]
  /\ pc[p] = "take" => i[p] \in Sizes
  /\ pc[p] = "split" => x[p] # Null /\ x[p] + n[p] < next_block[x[p]]
  /\ pc[p] \in {"splitlink", "splitfree"} => x[p] # Null /\ next_block[x[p]] = x[p] + n[p]
  /\ pc[p] = "free" => n[p] = 0 /\ used[b[p]] > 0
  /\ pc[p] \in {"prev", "prevlock", "prevcheck", "mergepool", "insert", "keeplink"} =>
       n[p] = 0 /\ used[b[p]] = 0
  /\ pc[p] = "grow" => n[p] > 0
  /\ pc[p] \in {"grow", "next", "nextlock", "nextcheck"} =>
       IF n[p] > 0 THEN used[b[p]] > 0 /\ r[p] = Null ELSE used[b[p]] = 0
  /\ pc[p] \in {"prevlock", "prevcheck"} => x[p] # Null /\ x[p] < b[p]
  /\ pc[p] = "prevcheck" => i[p] = b[p] - x[p]
  /\ pc[p] \in {"nextlock", "nextcheck"} => /\ x[p] = next_block[b[p]] /\ i[p] \in Locks
                                            /\ Nn(p) \in Addresses \cup {Null}
  /\ r[p] # Null => used[r[p]] > 0

Control == \A p \in Procs : ControlOf(p)

\* The blocks in a processor's hands, and those that only it may change.
Mine(p) == InHand(p) \cup Freed(p)
Owned(p) == ({b[p], r[p]} \ {Null}) \cup InHand(p)

\* A block is kept, a user's, on a free list or in the hands of one processor;
\* the user's block may be in a processor's hands as well.
Ownership ==
  /\ used[0] = 0 /\ 0 \notin FreeBlocks
  /\ \A c \in FreeBlocks : used[c] = 0
  /\ \A p \in Procs : /\ 0 \notin Owned(p) /\ Owned(p) \cap FreeBlocks = {}
                      /\ \A c \in InHand(p) : used[c] = 0
                      /\ b[p] # Null => b[p] # r[p] /\ b[p] \notin InHand(p)
  /\ \A p, q \in Procs : Owned(p) \cap Owned(q) # {} => p = q

\* Blocks do not overlap, and leave no gap below the pool.
Tiling ==
  /\ 0 < pool /\ pool <= size /\ next_block[pool] = Null
  /\ Tiled(Blocks, next_block, pool)

\* The pieces that were split off and that the blocks after them do not know yet.
Piece(p) ==
  CASE pc[p] = "splitlink" -> {x[p] + n[p]}
    [] pc[p] = "keeplink" -> {b[p]}
    [] OTHER -> {}
Pieces == UNION {Piece(p) : p \in Procs}

\* Every block is known to the next one, but for those pieces.
Linked == Chained(Blocks, next_block, prev_block, Pieces)

\* The lists hold blocks of their size, once.
Listed ==
  \A s \in Sizes : /\ IsInjective(lists[s])
                   /\ \A c \in ToSet(lists[s]) : next_block[c] = c + s

\* The free bit tells which blocks those are.
Marked == \A c \in Blocks : free_bit[c] <=> c \in FreeBlocks

\* A user's block is large enough.
Fitting == \A a \in Used : a + used[a] <= next_block[a]

\* The state of the allocator as long as no merge has torn a list.
Sound == Typed /\ Control /\ Ownership /\ Tiling /\ Linked /\ Listed /\ Marked /\ Fitting

IInv == TypeOK /\ (torn \/ Sound)

-----------------------------------------------------------------------------
(* What a step of one processor can disturb.                               *)

\* A step of p changes nothing of the others, and of the blocks only those in T,
\* which are not theirs.
Touch(p, T) ==
  /\ T \subseteq Addresses /\ 0 \notin T
  /\ \A q \in Procs \ {p} : /\ pc'[q] = pc[q] /\ b'[q] = b[q] /\ x'[q] = x[q]
                            /\ n'[q] = n[q] /\ i'[q] = i[q] /\ r'[q] = r[q]
                            /\ Owned(q) \cap T = {}
  /\ \A c \in Addresses \ T : next_block'[c] = next_block[c] /\ used'[c] = used[c]
  /\ FreeBlocks' \ T = FreeBlocks \ T
  /\ Mine(p)' \ T = Mine(p) \ T
  /\ Owned(p)' \subseteq Owned(p) \cup T

(* Blocks are addresses.                                                   *)
LEMMA BlocksType ==
  ASSUME Typed, Control
  PROVE  /\ FreeBlocks \subseteq Addresses
         /\ \A p \in Procs : /\ Mine(p) \subseteq Owned(p) /\ Mine(p) \subseteq Blocks
                             /\ Owned(p) \subseteq Blocks /\ Piece(p) \subseteq Owned(p)
         /\ \A c : c \in Blocks <=> \/ c = 0
                                    \/ c \in Addresses /\ used[c] > 0
                                    \/ c \in FreeBlocks
                                    \/ \E p \in Procs : c \in Mine(p)
<1>1. FreeBlocks \subseteq Addresses
  <2> SUFFICES ASSUME NEW s \in Sizes, NEW c \in ToSet(lists[s]) PROVE c \in Addresses
    BY DEF FreeBlocks
  <2>1. lists[s] \in Seq(Addresses)
    BY DEF Typed
  <2>2. PICK k \in DOMAIN lists[s] : lists[s][k] = c
    BY DEF ToSet
  <2> QED BY <2>1, <2>2, LenProperties, ElementOfSeq
<1>2. \A c : c \in Blocks <=> \/ c = 0
                              \/ c \in Addresses /\ used[c] > 0
                              \/ c \in FreeBlocks
                              \/ \E p \in Procs : c \in Mine(p)
  BY DEF Blocks, Used, Mine
<1>3. ASSUME NEW p \in Procs
      PROVE  /\ Mine(p) \subseteq Owned(p) /\ Mine(p) \subseteq Blocks
             /\ Owned(p) \subseteq Blocks /\ Piece(p) \subseteq Owned(p)
  <2>1. Mine(p) \subseteq Owned(p)
    BY DEF Mine, Owned, Freed
  <2>2. Mine(p) \subseteq Blocks
    BY <1>2
  <2>3. b[p] # Null => b[p] \in Blocks
    <3>1. b[p] # Null => used[b[p]] \in Nat /\ b[p] \in Addresses
      BY DEF Typed
    <3>2. b[p] # Null => used[b[p]] > 0 \/ b[p] \in Mine(p)
      BY <3>1 DEF Mine, Freed
    <3> QED BY <1>2, <3>1, <3>2
  <2>4. r[p] # Null => r[p] \in Blocks
    <3>1. r[p] # Null => r[p] \in Addresses /\ used[r[p]] > 0
      BY DEF Typed, Control, ControlOf
    <3> QED BY <1>2, <3>1
  <2>5. Owned(p) \subseteq Blocks
    BY <2>2, <2>3, <2>4 DEF Owned, Mine
  <2>6. Piece(p) \subseteq Owned(p)
    <3>1. pc[p] = "keeplink" => b[p] # Null
      BY DEF Control, ControlOf, Allocating
    <3> QED BY <3>1 DEF Piece, Owned, InHand
  <2> QED BY <2>1, <2>2, <2>5, <2>6
<1> QED BY <1>1, <1>2, <1>3

(* Nothing changes for the others.                                         *)
LEMMA Others ==
  ASSUME Typed, NEW p \in Procs, NEW T, Touch(p, T), NEW q \in Procs \ {p}
  PROVE  /\ Owned(q)' = Owned(q) /\ InHand(q)' = InHand(q) /\ Mine(q)' = Mine(q)
         /\ Piece(q)' = Piece(q) /\ (ControlOf(q) => ControlOf(q)')
<1>1. /\ pc'[q] = pc[q] /\ b'[q] = b[q] /\ x'[q] = x[q] /\ n'[q] = n[q] /\ i'[q] = i[q]
      /\ r'[q] = r[q] /\ Owned(q) \cap T = {}
  BY DEF Touch
<1>2. \A c \in Addresses \ T : next_block'[c] = next_block[c] /\ used'[c] = used[c]
  BY DEF Touch
<1>3. InHand(q)' = InHand(q) /\ Piece(q)' = Piece(q)
  BY <1>1 DEF InHand, Piece
<1>4. Owned(q)' = Owned(q)
  BY <1>1, <1>3 DEF Owned
<1>5. b[q] # Null => used'[b[q]] = used[b[q]] /\ next_block'[b[q]] = next_block[b[q]]
  <2>1. b[q] # Null => b[q] \in Addresses /\ b[q] \in Owned(q)
    BY DEF Typed, Owned
  <2> QED BY <1>1, <1>2, <2>1
<1>6. r[q] # Null => used'[r[q]] = used[r[q]]
  <2>1. r[q] # Null => r[q] \in Addresses /\ r[q] \in Owned(q)
    BY DEF Typed, Owned
  <2> QED BY <1>1, <1>2, <2>1
<1>7. Mine(q)' = Mine(q)
  BY <1>1, <1>3, <1>5 DEF Mine, Freed
<1>8. pc[q] \in {"split", "splitlink", "splitfree"} /\ x[q] # Null => next_block'[x[q]] = next_block[x[q]]
  <2>1. pc[q] \in {"split", "splitlink", "splitfree"} => x[q] \in Owned(q)
    BY DEF Owned, InHand
  <2>2. x[q] # Null => x[q] \in Addresses
    BY DEF Typed
  <2> QED BY <1>1, <1>2, <2>1, <2>2
<1>9. ControlOf(q) => ControlOf(q)'
  <2> SUFFICES ASSUME ControlOf(q) PROVE ControlOf(q)'
    OBVIOUS
  <2>1. pc[q] \in {"nextlock", "nextcheck", "free", "prev", "prevlock", "prevcheck", "mergepool",
                   "insert", "keeplink", "grow", "next"} => b[q] # Null
    BY DEF ControlOf, Allocating
  <2>2. Nn(q)' = Nn(q)
    BY <1>1 DEF Nn
  <2> QED BY <1>1, <1>5, <1>6, <1>8, <2>1, <2>2 DEF ControlOf, Allocating
<1> QED BY <1>3, <1>4, <1>7, <1>9

(* Which are the blocks after the step.                                    *)
LEMMA BlocksStep ==
  ASSUME Typed, Control, Typed', Control', NEW p \in Procs, NEW T, Touch(p, T)
  PROVE  /\ \A c : c \notin T => (c \in Blocks' <=> c \in Blocks)
         /\ \A c \in T : /\ c \in Blocks <=> used[c] > 0 \/ c \in FreeBlocks \/ c \in Mine(p)
                         /\ c \in Blocks' <=> used'[c] > 0 \/ c \in FreeBlocks' \/ c \in Mine(p)'
<1>1. \A q \in Procs \ {p} : Mine(q)' = Mine(q) /\ Mine(q) \cap T = {}
  <2> SUFFICES ASSUME NEW q \in Procs \ {p} PROVE Mine(q)' = Mine(q) /\ Mine(q) \cap T = {}
    OBVIOUS
  <2>1. Mine(q)' = Mine(q)
    BY Others
  <2>2. Mine(q) \subseteq Owned(q)
    BY BlocksType
  <2>3. Owned(q) \cap T = {}
    BY DEF Touch
  <2> QED BY <2>1, <2>2, <2>3
<1>2. \A c : c \in Blocks <=> \/ c = 0
                              \/ c \in Addresses /\ used[c] > 0
                              \/ c \in FreeBlocks
                              \/ \E q \in Procs : c \in Mine(q)
  BY DEF Blocks, Used, Mine
<1>3. \A c : c \in Blocks' <=> \/ c = 0
                               \/ c \in Addresses /\ used'[c] > 0
                               \/ c \in FreeBlocks'
                               \/ \E q \in Procs : c \in Mine(q)'
  BY DEF Blocks, Used, Mine
<1>4. /\ T \subseteq Addresses /\ 0 \notin T
      /\ \A c \in Addresses \ T : used'[c] = used[c]
      /\ \A c : c \notin T => (c \in FreeBlocks' <=> c \in FreeBlocks)
      /\ \A c : c \notin T => (c \in Mine(p)' <=> c \in Mine(p))
  BY DEF Touch
<1>5. ASSUME NEW c, c \notin T PROVE c \in Blocks' <=> c \in Blocks
  <2>1. (\E q \in Procs : c \in Mine(q)') <=> (\E q \in Procs : c \in Mine(q))
    BY <1>1, <1>4, <1>5
  <2>2. c \in Addresses => used'[c] = used[c]
    BY <1>4, <1>5
  <2>3. c \in FreeBlocks' <=> c \in FreeBlocks
    BY <1>4, <1>5
  <2> QED BY <1>2, <1>3, <2>1, <2>2, <2>3
<1>6. ASSUME NEW c \in T
      PROVE  /\ c \in Blocks <=> used[c] > 0 \/ c \in FreeBlocks \/ c \in Mine(p)
             /\ c \in Blocks' <=> used'[c] > 0 \/ c \in FreeBlocks' \/ c \in Mine(p)'
  <2>1. /\ (\E q \in Procs : c \in Mine(q)) <=> c \in Mine(p)
        /\ (\E q \in Procs : c \in Mine(q)') <=> c \in Mine(p)'
    BY <1>1
  <2> QED BY <1>2, <1>3, <1>4, <2>1
<1> QED BY <1>5, <1>6

(* Which blocks the next ones do not know.                                 *)
LEMMA PiecesStep ==
  ASSUME Typed, Control, Ownership, NEW p \in Procs, NEW T, Touch(p, T)
  PROVE  /\ Pieces' = (Pieces \ Piece(p)) \cup Piece(p)'
         /\ Pieces \subseteq Blocks /\ Pieces \cap Owned(p) = Piece(p)
<1>1. \A q \in Procs \ {p} : Piece(q)' = Piece(q)
  BY Others
<1>2. \A q \in Procs : Piece(q) \subseteq Owned(q) /\ Piece(q) \subseteq Blocks
  BY BlocksType
<1>3. \A q \in Procs \ {p} : Owned(q) \cap Owned(p) = {}
  BY DEF Ownership
<1>4. \A q \in Procs \ {p} : Piece(q) \cap Owned(p) = {} /\ Piece(q) \cap Piece(p) = {}
  BY <1>2, <1>3
<1>5. Pieces = UNION {Piece(q) : q \in Procs} /\ Pieces' = UNION {Piece(q)' : q \in Procs}
  BY DEF Pieces
<1>6. Pieces' = (Pieces \ Piece(p)) \cup Piece(p)'
  <2>1. ASSUME NEW c \in Pieces' PROVE c \in (Pieces \ Piece(p)) \cup Piece(p)'
    <3>1. PICK q \in Procs : c \in Piece(q)'
      BY <1>5
    <3>2. CASE q = p
      BY <3>1, <3>2
    <3>3. CASE q # p
      BY <1>1, <1>4, <1>5, <3>1, <3>3
    <3> QED BY <3>2, <3>3
  <2>2. ASSUME NEW c \in Pieces, c \notin Piece(p) PROVE c \in Pieces'
    <3>1. PICK q \in Procs : c \in Piece(q)
      BY <1>5
    <3> QED BY <1>1, <1>5, <2>2, <3>1
  <2> QED BY <1>5, <2>1, <2>2
<1>7. Pieces \subseteq Blocks
  BY <1>2, <1>5
<1>8. Pieces \cap Owned(p) = Piece(p)
  BY <1>2, <1>4, <1>5
<1> QED BY <1>6, <1>7, <1>8

(* The ownership after the step.                                           *)
LEMMA OwnershipStep ==
  ASSUME Typed, Control, Ownership, NEW p \in Procs, NEW T, Touch(p, T),
         \A c \in T \cap FreeBlocks' : used'[c] = 0,
         Owned(p)' \cap FreeBlocks' = {},
         \A c \in InHand(p)' : used'[c] = 0,
         b'[p] # Null => b'[p] # r'[p] /\ b'[p] \notin InHand(p)'
  PROVE  Ownership'
<1>1. /\ T \subseteq Addresses /\ 0 \notin T
      /\ \A q \in Procs \ {p} : b'[q] = b[q] /\ r'[q] = r[q] /\ Owned(q) \cap T = {}
      /\ \A c \in Addresses \ T : used'[c] = used[c]
      /\ FreeBlocks' \ T = FreeBlocks \ T
      /\ Owned(p)' \subseteq Owned(p) \cup T
  BY DEF Touch
<1>2. /\ used[0] = 0 /\ 0 \notin FreeBlocks
      /\ \A c \in FreeBlocks : used[c] = 0
      /\ \A q \in Procs : /\ 0 \notin Owned(q) /\ Owned(q) \cap FreeBlocks = {}
                          /\ \A c \in InHand(q) : used[c] = 0
                          /\ b[q] # Null => b[q] # r[q] /\ b[q] \notin InHand(q)
      /\ \A q, q2 \in Procs : Owned(q) \cap Owned(q2) # {} => q = q2
  BY DEF Ownership
<1>3. \A q \in Procs \ {p} : Owned(q)' = Owned(q) /\ InHand(q)' = InHand(q)
  BY Others
<1>4. FreeBlocks \subseteq Addresses
  BY BlocksType
<1>5. used'[0] = 0 /\ 0 \notin FreeBlocks'
  <2>1. 0 \in Addresses
    BY MemoryAssumption DEF Addresses
  <2> QED BY <1>1, <1>2, <2>1
<1>6. ASSUME NEW c \in FreeBlocks' PROVE used'[c] = 0
  BY <1>1, <1>2, <1>4
<1>7. ASSUME NEW q \in Procs
      PROVE  /\ 0 \notin Owned(q)' /\ Owned(q)' \cap FreeBlocks' = {}
             /\ \A c \in InHand(q)' : used'[c] = 0
             /\ b'[q] # Null => b'[q] # r'[q] /\ b'[q] \notin InHand(q)'
  <2>1. CASE q = p
    BY <1>1, <1>2, <2>1
  <2>2. CASE q # p
    <3>1. \A c \in InHand(q) : c \in Owned(q) /\ c \in Addresses
      <4>1. Owned(q) \subseteq Addresses \cup {Null} \cup InHand(q)
        BY DEF Typed, Owned
      <4>2. InHand(q) \subseteq Owned(q)
        BY DEF Owned
      <4>3. pc[q] = "split" => x[q] \in Addresses
        BY DEF Typed, Control, ControlOf
      <4>4. pc[q] \in {"splitlink", "splitfree"} => /\ x[q] \in Addresses /\ next_block[x[q]] = x[q] + n[q]
                                                    /\ next_block[x[q]] \in Addresses \cup {Null}
                                                    /\ n[q] \in Nat
        BY MemoryAssumption DEF Typed, Control, ControlOf
      <4>5. pc[q] \in {"splitlink", "splitfree"} => x[q] + n[q] \in Addresses
        BY <4>4 DEF Addresses, Null
      <4> QED BY <4>2, <4>3, <4>4, <4>5 DEF InHand
    <3>2. \A c \in InHand(q) : used'[c] = used[c]
      BY <1>1, <2>2, <3>1
    <3>3. Owned(q) \cap FreeBlocks' = {}
      BY <1>1, <1>2, <2>2
    <3> QED BY <1>1, <1>2, <1>3, <2>2, <3>2, <3>3
  <2> QED BY <2>1, <2>2
<1>8. ASSUME NEW q \in Procs, NEW q2 \in Procs, q # q2 PROVE Owned(q)' \cap Owned(q2)' = {}
  <2>1. CASE q = p
    BY <1>1, <1>2, <1>3, <1>8, <2>1
  <2>2. CASE q2 = p
    BY <1>1, <1>2, <1>3, <1>8, <2>2
  <2>3. CASE q # p /\ q2 # p
    BY <1>2, <1>3, <1>8, <2>3
  <2> QED BY <2>1, <2>2, <2>3
<1> QED BY <1>5, <1>6, <1>7, <1>8 DEF Ownership

(* The invariant after the step, but for the shape of the arena and of     *)
(* the lists.                                                              *)
LEMMA Step ==
  ASSUME Sound, Typed', NEW p \in Procs, NEW T, Touch(p, T), ControlOf(p)',
         \A c \in T \cap FreeBlocks' : used'[c] = 0,
         Owned(p)' \cap FreeBlocks' = {},
         \A c \in InHand(p)' : used'[c] = 0,
         b'[p] # Null => b'[p] # r'[p] /\ b'[p] \notin InHand(p)',
         \A c \in T : used'[c] > 0 => c + used'[c] <= next_block'[c],
         \A c \in Blocks' \ T : free_bit'[c] = free_bit[c],
         \A c \in Blocks' \cap T : free_bit'[c] <=> c \in FreeBlocks',
         Tiling', Linked', Listed'
  PROVE  Sound'
<1>1. Control'
  <2>1. ASSUME NEW q \in Procs PROVE ControlOf(q)'
    <3>1. CASE q = p
      BY <3>1
    <3>2. CASE q # p
      BY <3>2, Others DEF Sound, Control
    <3> QED BY <3>1, <3>2
  <2> QED BY <2>1 DEF Control
<1>2. Ownership'
  BY OwnershipStep DEF Sound
<1>3. Marked'
  <2> SUFFICES ASSUME NEW c \in Blocks' PROVE free_bit'[c] <=> c \in FreeBlocks'
    BY DEF Marked
  <2>1. CASE c \notin T
    <3>1. c \in Blocks
      BY <1>1, <2>1, BlocksStep DEF Sound
    <3>2. c \in FreeBlocks' <=> c \in FreeBlocks
      BY <2>1 DEF Touch
    <3> QED BY <2>1, <3>1, <3>2 DEF Sound, Marked
  <2> QED BY <2>1
<1>4. Fitting'
  <2> SUFFICES ASSUME NEW c \in Addresses, used'[c] > 0 PROVE c + used'[c] <= next_block'[c]
    BY DEF Fitting, Used
  <2>1. CASE c \notin T
    <3>1. used'[c] = used[c] /\ next_block'[c] = next_block[c]
      BY <2>1 DEF Touch
    <3> QED BY <3>1 DEF Sound, Fitting, Used
  <2> QED BY <2>1
<1> QED BY <1>1, <1>2, <1>3, <1>4 DEF Sound

(* A step that changes neither the arena nor the lists.                    *)
LEMMA Quiet ==
  ASSUME Sound, Typed', NEW p \in Procs, NEW T, Touch(p, T), T \cap FreeBlocks = {},
         UNCHANGED <<links, lists, pool, size, used>>,
         Mine(p)' = Mine(p), Piece(p)' = Piece(p), ControlOf(p)',
         \A c \in InHand(p)' : used'[c] = 0,
         b'[p] # Null => b'[p] # r'[p] /\ b'[p] \notin InHand(p)'
  PROVE  Sound'
<1>1. FreeBlocks' = FreeBlocks
  BY DEF FreeBlocks
<1>2. Control'
  <2>1. ASSUME NEW q \in Procs PROVE ControlOf(q)'
    <3>1. CASE q = p
      BY <3>1
    <3>2. CASE q # p
      BY <3>2, Others DEF Sound, Control
    <3> QED BY <3>1, <3>2
  <2> QED BY <2>1 DEF Control
<1>3. Blocks' = Blocks
  <2>1. /\ \A c : c \notin T => (c \in Blocks' <=> c \in Blocks)
        /\ \A c \in T : /\ c \in Blocks <=> used[c] > 0 \/ c \in FreeBlocks \/ c \in Mine(p)
                        /\ c \in Blocks' <=> used'[c] > 0 \/ c \in FreeBlocks' \/ c \in Mine(p)'
    BY <1>2, BlocksStep DEF Sound
  <2>2. used' = used
    OBVIOUS
  <2> QED BY <1>1, <2>1, <2>2
<1>4. Pieces' = Pieces
  BY PiecesStep DEF Sound, Pieces
<1>5. next_block' = next_block /\ prev_block' = prev_block /\ free_bit' = free_bit
  BY DEF links
<1>6. Tiling' /\ Linked' /\ Listed'
  BY <1>3, <1>4, <1>5 DEF Sound, Tiling, Linked, Listed
<1>7. Owned(p)' \cap FreeBlocks' = {}
  BY <1>1 DEF Sound, Touch, Ownership
<1>8. \A c \in T : used'[c] > 0 => c + used'[c] <= next_block'[c]
  BY <1>5 DEF Sound, Fitting, Used, Touch
<1>9. \A c \in Blocks' : free_bit'[c] <=> c \in FreeBlocks'
  BY <1>1, <1>3, <1>5 DEF Sound, Marked
<1> QED BY <1>1, <1>5, <1>6, <1>7, <1>8, <1>9, Step

-----------------------------------------------------------------------------
(* The parts a step is made of.                                            *)

\* p goes to w with block a, neighbour y, size m, list s and result o.
Moves(p, w, a, y, m, s, o) ==
  /\ pc' \in [Procs -> Places]
  /\ b' \in [Procs -> Addresses \cup {Null}] /\ x' \in [Procs -> Addresses \cup {Null}]
  /\ n' \in [Procs -> 0 .. MaxUser] /\ i' \in [Procs -> 0 .. MaxSize + 1]
  /\ r' \in [Procs -> Addresses \cup {Null}]
  /\ pc'[p] = w /\ b'[p] = a /\ x'[p] = y /\ n'[p] = m /\ i'[p] = s /\ r'[p] = o
  /\ \A q \in Procs \ {p} : /\ pc'[q] = pc[q] /\ b'[q] = b[q] /\ x'[q] = x[q]
                            /\ n'[q] = n[q] /\ i'[q] = i[q] /\ r'[q] = r[q]

\* The types of what is shared.
ArenaType ==
  /\ next_block \in [Addresses -> Addresses \cup {Null}]
  /\ prev_block \in [Addresses -> Addresses \cup {Null}]
  /\ free_bit \in [Addresses -> BOOLEAN]
  /\ lists \in [Sizes -> Seq(Addresses)]
  /\ pool \in Addresses /\ size \in Addresses
  /\ lock \in [Locks -> Procs \cup {Null}]
  /\ used \in [Addresses -> 0 .. MaxSize]

(* Together they are the types of all.                                     *)
LEMMA MovesType ==
  ASSUME ArenaType', NEW p, NEW w, NEW a, NEW y, NEW m, NEW s, NEW o, Moves(p, w, a, y, m, s, o)
  PROVE  Typed'
BY DEF ArenaType, Moves, Typed

(* One variable changes for one processor.                                 *)
LEMMA Assigned ==
  ASSUME NEW S, NEW D, NEW f \in [D -> S], NEW p \in D, NEW v \in S, NEW h, h = [f EXCEPT ![p] = v]
  PROVE  h \in [D -> S] /\ h[p] = v /\ \A q \in D \ {p} : h[q] = f[q]
OBVIOUS

(* The end of a call.                                                      *)
LEMMA DoneStep ==
  ASSUME Typed, NEW p \in Procs, Done(p)
  PROVE  Moves(p, "idle", Null, Null, 0, 0, Null)
<1>1. /\ "idle" \in Places /\ 0 \in 0 .. MaxUser /\ 0 \in 0 .. MaxSize + 1
      /\ Null \in Addresses \cup {Null}
  BY MemoryAssumption DEF Places
<1>2. pc' \in [Procs -> Places] /\ pc'[p] = "idle" /\ \A q \in Procs \ {p} : pc'[q] = pc[q]
  BY <1>1 DEF Typed, Done, Go
<1>3. b' \in [Procs -> Addresses \cup {Null}] /\ b'[p] = Null /\ \A q \in Procs \ {p} : b'[q] = b[q]
  BY <1>1 DEF Typed, Done
<1>4. x' \in [Procs -> Addresses \cup {Null}] /\ x'[p] = Null /\ \A q \in Procs \ {p} : x'[q] = x[q]
  BY <1>1 DEF Typed, Done
<1>5. n' \in [Procs -> 0 .. MaxUser] /\ n'[p] = 0 /\ \A q \in Procs \ {p} : n'[q] = n[q]
  BY <1>1 DEF Typed, Done
<1>6. i' \in [Procs -> 0 .. MaxSize + 1] /\ i'[p] = 0 /\ \A q \in Procs \ {p} : i'[q] = i[q]
  BY <1>1 DEF Typed, Done
<1>7. r' \in [Procs -> Addresses \cup {Null}] /\ r'[p] = Null /\ \A q \in Procs \ {p} : r'[q] = r[q]
  BY <1>1 DEF Typed, Done
<1> QED BY <1>2, <1>3, <1>4, <1>5, <1>6, <1>7 DEF Moves

(* The free bits that a user may overwrite are inside its block.           *)
LEMMA JunkOutside ==
  ASSUME NEW f \in [Addresses -> BOOLEAN], NEW a \in Addresses, NEW m, NEW h \in Junk(f, a, m)
  PROVE  /\ h \in [Addresses -> BOOLEAN]
         /\ \A c \in Addresses : ~(a < c /\ c < a + m) => h[c] = f[c]
<1>1. PICK junk \in BOOLEAN : h = [c \in Addresses |-> IF a < c /\ c < a + m THEN junk ELSE f[c]]
  BY DEF Junk
<1> QED BY <1>1

(* amalloc returns block a; the old block of DXReAllocate is freed next.   *)
LEMMA ReturnStep ==
  ASSUME Typed, NEW p \in Procs, NEW a \in Addresses, NEW f \in [Addresses -> BOOLEAN],
         Return(p, a, f)
  PROVE  /\ free_bit' \in [Addresses -> BOOLEAN] /\ (n[p] > 0 => ~free_bit'[a])
         /\ \A c \in Addresses \ {a} : ~(a < c /\ c < a + n[p]) => free_bit'[c] = f[c]
         /\ used' \in [Addresses -> 0 .. MaxSize] /\ used'[a] = n[p]
         /\ \A c \in Addresses \ {a} : used'[c] = used[c]
         /\ b[p] = Null => Moves(p, "idle", Null, Null, 0, 0, Null)
         /\ b[p] # Null => Moves(p, "free", b[p], Null, 0, 0, a)
<1>1. free_bit' \in Junk([f EXCEPT ![a] = FALSE], a, n[p]) /\ used' = [used EXCEPT ![a] = n[p]]
  BY DEF Return
<1>2. [f EXCEPT ![a] = FALSE] \in [Addresses -> BOOLEAN]
  OBVIOUS
<1>3. /\ free_bit' \in [Addresses -> BOOLEAN]
      /\ \A c \in Addresses : ~(a < c /\ c < a + n[p]) => free_bit'[c] = [f EXCEPT ![a] = FALSE][c]
  BY <1>1, <1>2, JunkOutside
<1>4. /\ free_bit' \in [Addresses -> BOOLEAN] /\ (n[p] > 0 => ~free_bit'[a])
      /\ \A c \in Addresses \ {a} : ~(a < c /\ c < a + n[p]) => free_bit'[c] = f[c]
  <2>1. ~(a < a)
    BY DEF Addresses
  <2>2. [f EXCEPT ![a] = FALSE][a] = FALSE /\ \A c \in Addresses \ {a} : [f EXCEPT ![a] = FALSE][c] = f[c]
    OBVIOUS
  <2>3. ~free_bit'[a]
    BY <1>3, <2>1, <2>2
  <2> QED BY <1>3, <2>2, <2>3
<1>5. n[p] \in 0 .. MaxSize
  BY MemoryAssumption DEF Typed
<1>6. /\ used' \in [Addresses -> 0 .. MaxSize] /\ used'[a] = n[p]
      /\ \A c \in Addresses \ {a} : used'[c] = used[c]
  BY <1>1, <1>5 DEF Typed
<1>7. b[p] = Null => Moves(p, "idle", Null, Null, 0, 0, Null)
  BY DoneStep DEF Return
<1>8. ASSUME b[p] # Null PROVE Moves(p, "free", b[p], Null, 0, 0, a)
  <2>1. /\ "free" \in Places /\ 0 \in 0 .. MaxUser /\ 0 \in 0 .. MaxSize + 1
        /\ Null \in Addresses \cup {Null}
    BY MemoryAssumption DEF Places
  <2>2. pc' \in [Procs -> Places] /\ pc'[p] = "free" /\ \A q \in Procs \ {p} : pc'[q] = pc[q]
    BY <1>8, <2>1 DEF Typed, Return, Go
  <2>3. b' = b /\ b' \in [Procs -> Addresses \cup {Null}]
    BY <1>8 DEF Typed, Return
  <2>4. x' \in [Procs -> Addresses \cup {Null}] /\ x'[p] = Null /\ \A q \in Procs \ {p} : x'[q] = x[q]
    BY <1>8, <2>1 DEF Typed, Return
  <2>5. n' \in [Procs -> 0 .. MaxUser] /\ n'[p] = 0 /\ \A q \in Procs \ {p} : n'[q] = n[q]
    BY <1>8, <2>1 DEF Typed, Return
  <2>6. i' \in [Procs -> 0 .. MaxSize + 1] /\ i'[p] = 0 /\ \A q \in Procs \ {p} : i'[q] = i[q]
    BY <1>8, <2>1 DEF Typed, Return
  <2>7. r' \in [Procs -> Addresses \cup {Null}] /\ r'[p] = a /\ \A q \in Procs \ {p} : r'[q] = r[q]
    BY <1>8 DEF Typed, Return
  <2> QED BY <2>2, <2>3, <2>4, <2>5, <2>6, <2>7 DEF Moves
<1> QED BY <1>4, <1>6, <1>7, <1>8

(* A block is taken off the list it is on.                                 *)
LEMMA TakeOff ==
  ASSUME Typed, Listed, NEW s \in Sizes, NEW a \in ToSet(lists[s]),
         NEW t \in Seq(Addresses), IsInjective(t), ToSet(t) = ToSet(lists[s]) \ {a},
         lists' = [lists EXCEPT ![s] = t],
         \A c \in FreeBlocks \ {a} : next_block'[c] = next_block[c]
  PROVE  /\ lists' \in [Sizes -> Seq(Addresses)] /\ FreeBlocks' = FreeBlocks \ {a}
         /\ a \in FreeBlocks /\ Listed'
<1>1. /\ lists' \in [Sizes -> Seq(Addresses)] /\ lists'[s] = t
      /\ \A u \in Sizes \ {s} : lists'[u] = lists[u]
  BY DEF Typed
<1>2. \A u \in Sizes \ {s} : a \notin ToSet(lists[u])
  <2> SUFFICES ASSUME NEW u \in Sizes \ {s}, a \in ToSet(lists[u]) PROVE FALSE
    OBVIOUS
  <2>1. next_block[a] = a + s /\ next_block[a] = a + u
    BY DEF Listed
  <2>2. a \in Addresses
    <3>1. lists[s] \in Seq(Addresses)
      BY DEF Typed
    <3>2. PICK k \in DOMAIN lists[s] : lists[s][k] = a
      BY DEF ToSet
    <3> QED BY <3>1, <3>2, LenProperties, ElementOfSeq
  <2> QED BY <2>1, <2>2 DEF Addresses, Sizes
<1>3. \A u \in Sizes : ToSet(lists'[u]) = ToSet(lists[u]) \ {a}
  BY <1>1, <1>2
<1>4. FreeBlocks' = FreeBlocks \ {a}
  <2>1. \A c : c \in FreeBlocks <=> \E u \in Sizes : c \in ToSet(lists[u])
    BY DEF FreeBlocks
  <2>2. \A c : c \in FreeBlocks' <=> \E u \in Sizes : c \in ToSet(lists'[u])
    BY DEF FreeBlocks
  <2>3. \A c : c \in FreeBlocks' <=> c \in FreeBlocks /\ c # a
    BY <1>3, <2>1, <2>2
  <2> QED BY <2>3
<1>5. a \in FreeBlocks
  BY DEF FreeBlocks
<1>6. Listed'
  <2> SUFFICES ASSUME NEW u \in Sizes
               PROVE  IsInjective(lists'[u]) /\ \A c \in ToSet(lists'[u]) : next_block'[c] = c + u
    BY DEF Listed
  <2>1. IsInjective(lists'[u])
    BY <1>1 DEF Listed
  <2>2. \A c \in ToSet(lists'[u]) : c \in FreeBlocks \ {a} /\ next_block[c] = c + u
    BY <1>3 DEF Listed, FreeBlocks
  <2> QED BY <2>1, <2>2
<1> QED BY <1>1, <1>4, <1>5, <1>6

(* A block is put on the list of its size.                                 *)
LEMMA PutOn ==
  ASSUME Typed, Listed, NEW s \in Sizes, NEW a \in Addresses, a \notin FreeBlocks,
         lists' = [lists EXCEPT ![s] = <<a>> \o @],
         next_block'[a] = a + s, \A c \in FreeBlocks : next_block'[c] = next_block[c]
  PROVE  /\ lists' \in [Sizes -> Seq(Addresses)] /\ FreeBlocks' = FreeBlocks \cup {a}
         /\ Listed'
<1>1. lists[s] \in Seq(Addresses) /\ IsInjective(lists[s]) /\ a \notin ToSet(lists[s])
  BY DEF Typed, Listed, FreeBlocks
<1>2. /\ <<a>> \o lists[s] \in Seq(Addresses)
      /\ IsInjective(<<a>> \o lists[s])
      /\ ToSet(<<a>> \o lists[s]) = ToSet(lists[s]) \cup {a}
  BY <1>1, ConsSet
<1> DEFINE t == <<a>> \o lists[s]
<1>3. lists' = [lists EXCEPT ![s] = t]
  OBVIOUS
<1>4. t \in Seq(Addresses) /\ IsInjective(t) /\ ToSet(t) = ToSet(lists[s]) \cup {a}
  BY <1>2
<1> HIDE DEF t
<1>5. /\ lists' \in [Sizes -> Seq(Addresses)] /\ lists'[s] = t
      /\ \A u \in Sizes \ {s} : lists'[u] = lists[u]
  BY <1>3, <1>4 DEF Typed
<1>6. FreeBlocks' = FreeBlocks \cup {a}
  <2>1. \A c : c \in FreeBlocks <=> \E u \in Sizes : c \in ToSet(lists[u])
    BY DEF FreeBlocks
  <2>2. \A c : c \in FreeBlocks' <=> \E u \in Sizes : c \in ToSet(lists'[u])
    BY DEF FreeBlocks
  <2>3. \A c : c \in FreeBlocks' <=> c \in FreeBlocks \/ c = a
    BY <1>4, <1>5, <2>1, <2>2
  <2> QED BY <2>3
<1>7. Listed'
  <2> SUFFICES ASSUME NEW u \in Sizes
               PROVE  IsInjective(lists'[u]) /\ \A c \in ToSet(lists'[u]) : next_block'[c] = c + u
    BY DEF Listed
  <2>1. IsInjective(lists'[u])
    BY <1>4, <1>5 DEF Listed
  <2>2. \A c \in ToSet(lists[u]) : next_block'[c] = c + u
    BY DEF Listed, FreeBlocks
  <2>3. u = s => \A c \in ToSet(lists'[u]) : c \in ToSet(lists[u]) \/ c = a
    BY <1>4, <1>5
  <2>4. u # s => lists'[u] = lists[u]
    BY <1>5
  <2> QED BY <2>1, <2>2, <2>3, <2>4
<1> QED BY <1>5, <1>6, <1>7

(* What is known of a block.                                               *)
LEMMA BlockAt ==
  ASSUME Sound, NEW c \in Blocks
  PROVE  /\ c \in Addresses /\ c < next_block[c] /\ c < pool
         /\ next_block[c] \in Addresses /\ next_block[c] <= pool
         /\ next_block[c] # Null /\ c # pool
         /\ next_block[c] \in Blocks \/ next_block[c] = pool
         /\ prev_block[next_block[c]] \in Addresses
         /\ c \notin Pieces => prev_block[next_block[c]] = c
<1>1. pool \in Addresses /\ Tiled(Blocks, next_block, pool) /\ Linked /\ MaxSize \in Nat
  BY MemoryAssumption DEF Sound, Typed, Tiling
<1>2. c \in Addresses /\ next_block[c] \in Addresses /\ c < next_block[c] /\ next_block[c] <= pool
  BY <1>1 DEF Tiled
<1>3. next_block[c] \in Blocks \/ next_block[c] = pool
  BY <1>1, NextIsBlock
<1>4. c < pool /\ c # pool /\ next_block[c] # Null
  BY <1>1, <1>2 DEF Addresses, Null
<1>5. prev_block[next_block[c]] \in Addresses /\ (c \notin Pieces => prev_block[next_block[c]] = c)
  BY <1>1 DEF Linked, Chained
<1> QED BY <1>2, <1>3, <1>4, <1>5

(* What is known of a processor's block.                                   *)
LEMMA OwnBlock ==
  ASSUME Sound, NEW p \in Procs, NEW c \in Owned(p)
  PROVE  /\ c \in Blocks /\ c \in Addresses /\ c # 0 /\ c \notin FreeBlocks
         /\ \A q \in Procs \ {p} : c \notin Owned(q)
         /\ c \in Pieces <=> c \in Piece(p)
<1>1. c \in Blocks /\ \A q \in Procs : Piece(q) \subseteq Owned(q)
  BY BlocksType DEF Sound
<1>2. c \in Addresses
  BY <1>1, BlockAt
<1>3. c # 0 /\ c \notin FreeBlocks /\ \A q \in Procs \ {p} : c \notin Owned(q)
  BY DEF Sound, Ownership
<1>4. c \in Pieces <=> c \in Piece(p)
  BY <1>1, <1>3 DEF Pieces
<1> QED BY <1>1, <1>2, <1>3, <1>4

-----------------------------------------------------------------------------
(* Steps that change neither the arena nor the lists.                      *)

\* Where a processor cuts a block in two.
Cutting == {"split", "splitlink", "splitfree", "keeplink"}

(* Such a step of a processor that cuts no block, and may get a user's     *)
(* block.                                                                  *)
LEMMA QuietMove ==
  ASSUME Sound, NEW p \in Procs, UNCHANGED <<links, lists, pool, size, used>>,
         lock' \in [Locks -> Procs \cup {Null}], pc[p] \notin Cutting,
         NEW w \in Places \ Cutting, NEW a, NEW y, NEW m, NEW s, NEW o, Moves(p, w, a, y, m, s, o),
         o \in {r[p], Null}, a \in {b[p], Null} \/ (a \in Addresses /\ InUse(a) /\ o = Null),
         a # b[p] /\ b[p] # Null => used[b[p]] > 0, ControlOf(p)'
  PROVE  Sound'
<1>1. /\ pc'[p] = w /\ b'[p] = a /\ r'[p] = o
      /\ \A q \in Procs \ {p} : /\ pc'[q] = pc[q] /\ b'[q] = b[q] /\ x'[q] = x[q]
                                /\ n'[q] = n[q] /\ i'[q] = i[q] /\ r'[q] = r[q]
  BY DEF Moves
<1>2. Typed'
  <2>1. ArenaType'
    BY DEF Sound, Typed, ArenaType, links
  <2> QED BY <2>1, MovesType
<1> DEFINE T == {a} \ {b[p], Null}
<1>3. T # {} => a \in Addresses /\ InUse(a) /\ a # Null /\ a # b[p] /\ o = Null
  OBVIOUS
<1>4. T # {} => T = {a}
  OBVIOUS
<1>5. T # {} => used[a] > 0 /\ \A q \in Procs : a \notin Owned(q)
  <2> SUFFICES ASSUME T # {} PROVE used[a] > 0 /\ \A q \in Procs : a \notin Owned(q)
    OBVIOUS
  <2>1. used[a] > 0 /\ \A q \in Procs : a \notin {b[q], r[q]}
    BY <1>3 DEF InUse
  <2>2. \A q \in Procs : \A c \in InHand(q) : used[c] = 0
    BY DEF Sound, Ownership
  <2>3. \A q \in Procs : a \notin InHand(q)
    BY <2>1, <2>2
  <2> QED BY <2>1, <2>3 DEF Owned
<1>6. T # {} => a # 0 /\ a \notin FreeBlocks
  BY <1>5 DEF Sound, Ownership
<1>7. /\ InHand(p) = {} /\ InHand(p)' = {} /\ Piece(p) = {} /\ Piece(p)' = {}
  BY <1>1 DEF Cutting, InHand, Piece
<1>8. Mine(p)' = Mine(p)
  <2>1. b[p] # Null => used[b[p]] \in Nat
    BY DEF Sound, Typed
  <2>2. a # Null /\ a # b[p] => used[a] > 0
    BY <1>5
  <2>3. used' = used
    OBVIOUS
  <2>4. Freed(p) = IF a # Null /\ a = b[p] /\ used[a] = 0 THEN {a} ELSE {}
    BY <2>1 DEF Freed
  <2>5. Freed(p)' = IF a # Null /\ a = b[p] /\ used[a] = 0 THEN {a} ELSE {}
    BY <1>1, <2>2, <2>3 DEF Freed
  <2> QED BY <1>7, <2>4, <2>5 DEF Mine
<1>9. Owned(p)' \subseteq Owned(p) \cup T
  BY <1>1, <1>7 DEF Owned
<1>10. FreeBlocks' = FreeBlocks
  BY DEF FreeBlocks
<1>11. T \subseteq Addresses /\ 0 \notin T /\ \A q \in Procs : Owned(q) \cap T = {}
  BY <1>3, <1>4, <1>5, <1>6
<1>12. Touch(p, T)
  BY <1>1, <1>8, <1>9, <1>10, <1>11 DEF Touch, links
<1>13. T \cap FreeBlocks = {}
  BY <1>4, <1>6
<1>14. b'[p] # Null => b'[p] # r'[p] /\ b'[p] \notin InHand(p)'
  BY <1>1, <1>3, <1>7 DEF Sound, Ownership
<1> HIDE DEF T
<1> QED BY <1>2, <1>7, <1>8, <1>12, <1>13, <1>14, Quiet

(* DXAllocate.                                                             *)
LEMMA AmallocStep ==
  ASSUME Sound, NEW p \in Procs, NEW m \in 1 .. MaxUser, Amalloc(p, m) PROVE Sound'
<1>1. pc[p] = "idle" /\ b[p] = Null /\ r[p] = Null
  BY DEF Amalloc, Sound, Control, ControlOf
<1>2. Moves(p, "first", b[p], x[p], m, i[p], r[p])
  BY MemoryAssumption DEF Amalloc, Sound, Typed, Moves, Go, Places
<1>3. m > 0 /\ used' = used
  BY DEF Amalloc
<1>4. ControlOf(p)'
  BY <1>1, <1>2, <1>3 DEF Moves, ControlOf, Allocating
<1>5. lock' \in [Locks -> Procs \cup {Null}]
  BY DEF Amalloc, Sound, Typed
<1> QED BY <1>1, <1>2, <1>4, <1>5, QuietMove DEF Amalloc, Cutting, Places

(* getfree finds the first list empty.                                     *)
LEMMA GetFirstEmptyStep ==
  ASSUME Sound, NEW p \in Procs, GetFirst(p), lists[n[p]] = <<>> PROVE Sound'
<1>1. pc[p] = "first"
  BY DEF GetFirst
<1>2. n[p] > 0 /\ n[p] \in Nat /\ r[p] = Null /\ (b[p] # Null => used[b[p]] > 0)
  BY <1>1 DEF Sound, Typed, Control, ControlOf, Allocating
<1>3. Moves(p, "search", b[p], x[p], n[p], n[p] + 1, r[p])
  <2>1. n[p] \in 0 .. MaxUser
    BY DEF Sound, Typed
  <2>2. n[p] + 1 \in 0 .. MaxSize + 1
    BY <2>1, MemoryAssumption
  <2>3. pc' = [pc EXCEPT ![p] = "search"] /\ i' = [i EXCEPT ![p] = n[p] + 1] /\ UNCHANGED <<b, x, n, r>>
    BY DEF GetFirst, Go
  <2> QED BY <2>1, <2>2, <2>3 DEF Sound, Typed, Moves, Places
<1>4. used' = used
  BY DEF GetFirst
<1>5. ControlOf(p)'
  BY <1>2, <1>3, <1>4 DEF Moves, ControlOf, Allocating
<1>6. lock' \in [Locks -> Procs \cup {Null}]
  BY DEF GetFirst, Sound, Typed
<1> QED BY <1>1, <1>3, <1>5, <1>6, QuietMove DEF GetFirst, Cutting, Places, links

(* The search of the other lists.                                          *)
LEMMA SearchStep ==
  ASSUME Sound, NEW p \in Procs, Search(p) PROVE Sound'
<1>1. pc[p] = "search" /\ used' = used
  BY DEF Search
<1>2. /\ n[p] > 0 /\ n[p] \in Nat /\ r[p] = Null /\ (b[p] # Null => used[b[p]] > 0)
      /\ i[p] > n[p] /\ i[p] \in 0 .. MaxSize + 1 /\ MaxSize \in Nat
  BY <1>1, MemoryAssumption DEF Sound, Typed, Control, ControlOf, Allocating
<1>3. lock' \in [Locks -> Procs \cup {Null}]
  BY DEF Search, Sound, Typed
<1>4. CASE i[p] > MaxSize
  <2>1. Moves(p, "pool", b[p], x[p], n[p], i[p], r[p])
    BY <1>4 DEF Search, Sound, Typed, Moves, Go, Places
  <2>2. ControlOf(p)'
    BY <1>1, <1>2, <2>1 DEF Moves, ControlOf, Allocating
  <2> QED BY <1>1, <1>3, <2>1, <2>2, QuietMove DEF Search, Cutting, Places
<1>5. CASE ~(i[p] > MaxSize) /\ lists[i[p]] = <<>>
  <2>1. i[p] + 1 \in 0 .. MaxSize + 1
    BY <1>2, <1>5
  <2>2. Moves(p, "search", b[p], x[p], n[p], i[p] + 1, r[p])
    BY <1>1, <1>5, <2>1 DEF Search, Sound, Typed, Moves
  <2>3. i[p] + 1 > n[p]
    BY <1>2
  <2>4. ControlOf(p)'
    BY <1>1, <1>2, <2>2, <2>3 DEF Moves, ControlOf, Allocating
  <2> QED BY <1>1, <1>3, <2>2, <2>4, QuietMove DEF Search, Cutting, Places
<1>6. CASE ~(i[p] > MaxSize) /\ lists[i[p]] # <<>>
  <2>1. i[p] \in Sizes
    BY <1>2, <1>6 DEF Sizes
  <2>2. Moves(p, "take", b[p], x[p], n[p], i[p], r[p])
    BY <1>6 DEF Search, Sound, Typed, Moves, Go, Places
  <2>3. ControlOf(p)'
    BY <1>1, <1>2, <2>1, <2>2 DEF Moves, ControlOf, Allocating
  <2> QED BY <1>1, <1>3, <2>2, <2>3, QuietMove DEF Search, Cutting, Places
<1> QED BY <1>4, <1>5, <1>6

(* getfree finds the list empty after all.                                 *)
LEMMA GetFreeEmptyStep ==
  ASSUME Sound, NEW p \in Procs, GetFree(p), lists[i[p]] = <<>> PROVE Sound'
<1>1. pc[p] = "take" /\ used' = used
  BY DEF GetFree
<1>2. /\ n[p] > 0 /\ n[p] \in Nat /\ r[p] = Null /\ (b[p] # Null => used[b[p]] > 0)
      /\ i[p] > n[p] /\ i[p] \in 1 .. MaxSize /\ MaxSize \in Nat
  BY <1>1, MemoryAssumption DEF Sound, Typed, Control, ControlOf, Allocating, Sizes
<1>3. i[p] + 1 \in 0 .. MaxSize + 1 /\ i[p] + 1 > n[p]
  BY <1>2
<1>4. Moves(p, "search", b[p], x[p], n[p], i[p] + 1, r[p])
  BY <1>3 DEF GetFree, Sound, Typed, Moves, Go, Places
<1>5. ControlOf(p)'
  BY <1>1, <1>2, <1>3, <1>4 DEF Moves, ControlOf, Allocating
<1>6. lock' \in [Locks -> Procs \cup {Null}]
  BY DEF GetFree, Sound, Typed
<1> QED BY <1>1, <1>4, <1>5, <1>6, QuietMove DEF GetFree, Cutting, Places, links

(* getpool fails.                                                          *)
LEMMA GetPoolFullStep ==
  ASSUME Sound, NEW p \in Procs, GetPool(p), pool + n[p] > MaxSize PROVE Sound'
<1>1. pc[p] = "pool"
  BY DEF GetPool
<1>2. b[p] # Null => used[b[p]] > 0
  BY <1>1 DEF Sound, Control, ControlOf, Allocating
<1>3. Moves(p, "idle", Null, Null, 0, 0, Null)
  BY DoneStep DEF GetPool, Sound
<1>4. ControlOf(p)'
  BY <1>3 DEF Moves, ControlOf, Allocating
<1>5. lock' \in [Locks -> Procs \cup {Null}]
  BY DEF GetPool, Sound, Typed
<1>6. UNCHANGED <<links, lists, pool, size, used>>
  BY DEF GetPool
<1>7. "idle" \in Places \ Cutting /\ pc[p] \notin Cutting
  BY <1>1 DEF Cutting, Places
<1> QED BY <1>2, <1>3, <1>4, <1>5, <1>6, <1>7, QuietMove

(* DXFree.                                                                 *)
LEMMA FreeStep ==
  ASSUME Sound, NEW p \in Procs, NEW a \in Addresses, Free(p, a) PROVE Sound'
<1>1. pc[p] = "idle" /\ b[p] = Null /\ r[p] = Null /\ InUse(a) /\ a # Null
  BY DEF Free, Sound, Control, ControlOf, Addresses, Null
<1>2. UNCHANGED <<links, lists, pool, size, lock, used>>
  BY DEF Free
<1>3. Moves(p, "free", a, x[p], n[p], i[p], r[p])
  BY DEF Free, Sound, Typed, Moves, Go, Places
<1>4. n[p] = 0
  BY <1>1 DEF Sound, Control, ControlOf
<1>5. ControlOf(p)'
  BY <1>1, <1>2, <1>3, <1>4 DEF Moves, ControlOf, Allocating, InUse
<1>6. lock' \in [Locks -> Procs \cup {Null}]
  BY <1>2 DEF Sound, Typed
<1>7. "free" \in Places \ Cutting /\ pc[p] \notin Cutting
  BY <1>1 DEF Cutting, Places
<1> QED BY <1>1, <1>2, <1>3, <1>5, <1>6, <1>7, QuietMove

(* DXReAllocate.                                                           *)
LEMMA AreallocStep ==
  ASSUME Sound, NEW p \in Procs, NEW a \in Addresses, NEW m \in 1 .. MaxUser, Arealloc(p, a, m)
  PROVE  Sound'
<1>1. pc[p] = "idle" /\ b[p] = Null /\ r[p] = Null /\ InUse(a) /\ a # Null
  BY DEF Arealloc, Sound, Control, ControlOf, Addresses, Null
<1>2. UNCHANGED <<links, lists, pool, size, lock, used>>
  BY DEF Arealloc
<1>3. Moves(p, "grow", a, x[p], m, i[p], r[p])
  <2>1. a \in Blocks
    BY <1>1 DEF InUse, Blocks, Used
  <2>2. a \notin Pieces
    <3> SUFFICES ASSUME NEW q \in Procs, a \in Piece(q) PROVE FALSE
      BY DEF Pieces
    <3>1. a \in Owned(q)
      BY BlocksType DEF Sound
    <3>2. used[a] > 0 /\ a \notin {b[q], r[q]}
      BY <1>1 DEF InUse
    <3>3. a \in InHand(q)
      BY <3>1, <3>2 DEF Owned
    <3>4. used[a] = 0
      BY <3>3 DEF Sound, Ownership
    <3> QED BY <3>2, <3>4
  <2>3. prev_block[next_block[a]] = a
    BY <2>1, <2>2, BlockAt
  <2>4. Go(p, "grow")
    BY <2>3 DEF Arealloc
  <2> QED BY <2>4, MemoryAssumption DEF Arealloc, Sound, Typed, Moves, Go, Places
<1>4. ControlOf(p)'
  BY <1>1, <1>2, <1>3 DEF Moves, ControlOf, Allocating, InUse
<1>5. lock' \in [Locks -> Procs \cup {Null}]
  BY <1>2 DEF Sound, Typed
<1>6. "grow" \in Places \ Cutting /\ pc[p] \notin Cutting
  BY <1>1 DEF Cutting, Places
<1> QED BY <1>1, <1>2, <1>3, <1>4, <1>5, <1>6, QuietMove

(* The block before a block is known, though not always the nearest one.   *)
LEMMA BlockBefore ==
  ASSUME Sound, NEW c \in Blocks, c # 0
  PROVE  prev_block[c] \in Addresses /\ prev_block[c] # Null /\ prev_block[c] < c
<1>1. /\ pool \in Addresses /\ Tiled(Blocks, next_block, pool) /\ MaxSize \in Nat
      /\ \A d \in Blocks : d \in Addresses /\ next_block[d] \in Addresses
  BY MemoryAssumption, BlockAt DEF Sound, Typed, Tiling
<1>2. c - 1 \in Addresses /\ c - 1 < pool
  BY <1>1, BlockAt DEF Addresses
<1>3. PICK d \in Blocks : d <= c - 1 /\ c - 1 < next_block[d]
  BY <1>1, <1>2 DEF Tiled
<1>4. d < c => next_block[d] <= c
  BY <1>1, Inside
<1>5. d < c /\ next_block[d] = c
  BY <1>1, <1>3, <1>4 DEF Addresses
<1>6. /\ prev_block[c] \in Addresses
      /\ IF d \in Pieces THEN prev_block[c] < d ELSE prev_block[c] = d
  BY <1>5 DEF Sound, Linked, Chained
<1> QED BY <1>1, <1>5, <1>6 DEF Addresses, Null

(* What a processor that frees or grows its block knows.                   *)
LEMMA Working ==
  ASSUME Sound, NEW p \in Procs,
         pc[p] \in {"free", "prev", "prevlock", "prevcheck", "mergepool", "next", "nextlock",
                    "nextcheck", "insert", "grow", "keeplink"}
  PROVE  /\ b[p] # Null /\ b[p] # 0 /\ b[p] \in Owned(p) /\ b[p] \in Blocks /\ b[p] \in Addresses
         /\ b[p] # r[p] /\ b[p] \notin FreeBlocks /\ InHand(p) = {}
         /\ r[p] # Null => used[r[p]] > 0
<1>1. b[p] # Null /\ (r[p] # Null => used[r[p]] > 0)
  BY DEF Sound, Control, ControlOf, Allocating
<1>2. b[p] \in Owned(p)
  BY <1>1 DEF Owned
<1>3. b[p] # r[p]
  BY <1>1 DEF Sound, Ownership
<1>4. InHand(p) = {}
  BY DEF InHand
<1> QED BY <1>1, <1>2, <1>3, <1>4, OwnBlock

(* It goes on with the same block.                                         *)
LEMMA WorkMove ==
  ASSUME Sound, NEW p \in Procs, UNCHANGED <<links, lists, pool, size, used>>,
         lock' \in [Locks -> Procs \cup {Null}],
         pc[p] \in {"prev", "prevlock", "prevcheck", "mergepool", "next", "nextlock", "nextcheck",
                    "grow"},
         NEW w \in Places \ Cutting, NEW y, NEW s, Moves(p, w, b[p], y, n[p], s, r[p]),
         ControlOf(p)'
  PROVE  Sound'
<1>1. pc[p] \notin Cutting
  BY DEF Cutting
<1> QED BY <1>1, QuietMove

(* mergeprev, the quick check.                                             *)
LEMMA MergePrevStep ==
  ASSUME Sound, NEW p \in Procs, MergePrev(p) PROVE Sound'
<1>1. pc[p] = "prev" /\ UNCHANGED <<links, lists, pool, size, lock, used>>
  BY DEF MergePrev
<1>2. /\ n[p] = 0 /\ used[b[p]] = 0 /\ b[p] # Null /\ b[p] \in Blocks /\ b[p] # 0
      /\ (r[p] # Null => used[r[p]] > 0)
  BY <1>1, Working DEF Sound, Control, ControlOf
<1>3. prev_block[b[p]] \in Addresses /\ prev_block[b[p]] # Null /\ prev_block[b[p]] < b[p]
  BY <1>2, BlockBefore
<1>4. lock' \in [Locks -> Procs \cup {Null}]
  BY <1>1 DEF Sound, Typed
<1>5. CASE free_bit[prev_block[b[p]]]
  <2>1. Moves(p, "prevlock", b[p], prev_block[b[p]], n[p], i[p], r[p])
    BY <1>3, <1>5 DEF MergePrev, Sound, Typed, Moves, Go, Places
  <2>2. ControlOf(p)'
    BY <1>1, <1>2, <1>3, <2>1 DEF Moves, ControlOf, Allocating
  <2>3. "prevlock" \in Places \ Cutting
    BY DEF Places, Cutting
  <2> QED BY <1>1, <1>4, <2>1, <2>2, <2>3, WorkMove
<1>6. CASE ~free_bit[prev_block[b[p]]]
  <2>1. Moves(p, "mergepool", b[p], x[p], n[p], i[p], r[p])
    BY <1>6 DEF MergePrev, Sound, Typed, Moves, Go, Places
  <2>2. ControlOf(p)'
    BY <1>1, <1>2, <2>1 DEF Moves, ControlOf, Allocating
  <2>3. "mergepool" \in Places \ Cutting
    BY DEF Places, Cutting
  <2> QED BY <1>1, <1>4, <2>1, <2>2, <2>3, WorkMove
<1> QED BY <1>5, <1>6

(* mergeprev, the first half of the re-check.                              *)
LEMMA MergePrevLockStep ==
  ASSUME Sound, NEW p \in Procs, MergePrevLock(p) PROVE Sound'
<1>1. pc[p] = "prevlock" /\ UNCHANGED <<links, lists, pool, size, used>>
  BY DEF MergePrevLock
<1>2. /\ n[p] = 0 /\ used[b[p]] = 0 /\ b[p] # Null /\ (r[p] # Null => used[r[p]] > 0)
      /\ x[p] # Null /\ x[p] < b[p] /\ x[p] \in Addresses /\ b[p] \in Addresses
  BY <1>1, Working DEF Sound, Control, ControlOf, Typed
<1>3. CASE prev_block[b[p]] = x[p]
  <2>1. b[p] - x[p] \in 0 .. MaxSize + 1
    BY <1>2, MemoryAssumption DEF Addresses
  <2>2. /\ lock' = [lock EXCEPT ![b[p] - x[p]] = p] /\ i' = [i EXCEPT ![p] = b[p] - x[p]]
        /\ Go(p, "prevcheck") /\ UNCHANGED <<b, x, n, r>>
    BY <1>3 DEF MergePrevLock
  <2>3. Moves(p, "prevcheck", b[p], x[p], n[p], b[p] - x[p], r[p])
    BY <2>1, <2>2 DEF Sound, Typed, Moves, Go, Places
  <2>4. ControlOf(p)'
    BY <1>1, <1>2, <2>3 DEF Moves, ControlOf, Allocating
  <2>5. "prevcheck" \in Places \ Cutting
    BY DEF Places, Cutting
  <2>6. lock' \in [Locks -> Procs \cup {Null}]
    BY <2>2 DEF Sound, Typed
  <2> QED BY <1>1, <2>3, <2>4, <2>5, <2>6, WorkMove
<1>4. CASE prev_block[b[p]] # x[p]
  <2>1. Moves(p, "mergepool", b[p], x[p], n[p], i[p], r[p])
    BY <1>4 DEF MergePrevLock, Sound, Typed, Moves, Go, Places
  <2>2. ControlOf(p)'
    BY <1>1, <1>2, <2>1 DEF Moves, ControlOf, Allocating
  <2>3. "mergepool" \in Places \ Cutting
    BY DEF Places, Cutting
  <2>4. lock' \in [Locks -> Procs \cup {Null}]
    BY <1>4 DEF MergePrevLock, Sound, Typed
  <2> QED BY <1>1, <2>1, <2>2, <2>3, <2>4, WorkMove
<1> QED BY <1>3, <1>4

(* The list that was locked is left.                                       *)
LEMMA UnlockType ==
  ASSUME Typed, NEW p, Unlock(p) PROVE lock' \in [Locks -> Procs \cup {Null}]
BY DEF Typed, Unlock

(* mergeprev, when the previous block is no longer free.                   *)
LEMMA MergePrevNotStep ==
  ASSUME Sound, NEW p \in Procs, MergePrevDo(p), ~free_bit[x[p]]
  PROVE  Sound'
<1>1. /\ pc[p] = "prevcheck" /\ UNCHANGED <<links, lists, hand, pool, size, used>> /\ Unlock(p)
      /\ Go(p, "mergepool")
  BY DEF MergePrevDo, links, hand
<1>2. /\ n[p] = 0 /\ used[b[p]] = 0 /\ b[p] # Null /\ (r[p] # Null => used[r[p]] > 0)
  BY <1>1, Working DEF Sound, Control, ControlOf
<1>3. Moves(p, "mergepool", b[p], x[p], n[p], i[p], r[p])
  BY <1>1 DEF Sound, Typed, Moves, Go, Places, hand
<1>4. ControlOf(p)'
  BY <1>1, <1>2, <1>3 DEF Moves, ControlOf, Allocating
<1>5. "mergepool" \in Places \ Cutting
  BY DEF Places, Cutting
<1>6. lock' \in [Locks -> Procs \cup {Null}]
  BY <1>1, UnlockType DEF Sound
<1> QED BY <1>1, <1>3, <1>4, <1>5, <1>6, WorkMove

(* mergepool, when the next block is not the pool.                         *)
LEMMA MergePoolNotStep ==
  ASSUME Sound, NEW p \in Procs, MergePool(p), next_block[b[p]] # pool PROVE Sound'
<1>1. pc[p] = "mergepool" /\ UNCHANGED <<links, lists, pool, size, lock, used>>
  BY DEF MergePool, links
<1>2. /\ n[p] = 0 /\ used[b[p]] = 0 /\ b[p] # Null /\ (r[p] # Null => used[r[p]] > 0)
  BY <1>1, Working DEF Sound, Control, ControlOf
<1>3. Moves(p, "next", b[p], x[p], n[p], i[p], r[p])
  BY DEF MergePool, Sound, Typed, Moves, Go, Places, hand
<1>4. ControlOf(p)'
  BY <1>1, <1>2, <1>3 DEF Moves, ControlOf, Allocating
<1>5. "next" \in Places \ Cutting
  BY DEF Places, Cutting
<1>6. lock' \in [Locks -> Procs \cup {Null}]
  BY <1>1 DEF Sound, Typed
<1> QED BY <1>1, <1>3, <1>4, <1>5, <1>6, WorkMove

(* After mergenext a processor inserts its block or looks at it again.     *)
LEMMA AfterNextStep ==
  ASSUME Sound, NEW p \in Procs, pc[p] \in {"next", "nextlock", "nextcheck"},
         UNCHANGED <<links, lists, pool, size, used, hand>>,
         lock' \in [Locks -> Procs \cup {Null}],
         AfterNext(p)
  PROVE  Sound'
<1>1. /\ b[p] # Null /\ (r[p] # Null => used[r[p]] > 0) /\ n[p] \in Nat
      /\ IF n[p] > 0 THEN used[b[p]] > 0 /\ r[p] = Null ELSE used[b[p]] = 0
  BY Working, MemoryAssumption DEF Sound, Control, ControlOf, Typed
<1>2. PICK w \in {"grow", "insert"} :
        Go(p, w) /\ (w = "grow" => n[p] > 0) /\ (w = "insert" => n[p] = 0)
  BY <1>1 DEF AfterNext
<1>3. Moves(p, w, b[p], x[p], n[p], i[p], r[p])
  BY <1>2 DEF Sound, Typed, Moves, Go, Places, hand
<1>4. ControlOf(p)'
  BY <1>1, <1>2, <1>3 DEF Moves, ControlOf, Allocating
<1>5. w \in Places \ Cutting
  BY <1>2 DEF Places, Cutting
<1> QED BY <1>3, <1>4, <1>5, WorkMove

(* mergenext reads the next block and its size.                            *)
LEMMA MergeNextStep ==
  ASSUME Sound, NEW p \in Procs, MergeNext(p) PROVE Sound'
<1> DEFINE nb == next_block[b[p]]
           nn == next_block[nb]
<1>1. pc[p] = "next" /\ UNCHANGED <<links, lists, pool, size, lock, used>>
  BY DEF MergeNext
<1>2. lock' \in [Locks -> Procs \cup {Null}]
  BY <1>1 DEF Sound, Typed
<1>3. /\ b[p] # Null /\ b[p] \in Blocks /\ (r[p] # Null => used[r[p]] > 0)
      /\ IF n[p] > 0 THEN used[b[p]] > 0 /\ r[p] = Null ELSE used[b[p]] = 0
  BY <1>1, Working DEF Sound, Control, ControlOf
<1>4. nb \in Addresses /\ MaxSize \in Nat
  BY <1>3, BlockAt, MemoryAssumption
<1>5. PICK s \in Locks : /\ i' = [i EXCEPT ![p] = s]
                         /\ nn = IF s = NullList THEN Null ELSE nb + s
                         /\ nn \in Addresses \cup {Null}
  <2>1. CASE nn = Null
    <3>1. NullList \in Locks /\ i' = [i EXCEPT ![p] = NullList]
      BY <2>1 DEF MergeNext, Locks
    <3> QED BY <2>1, <3>1
  <2>2. CASE nn # Null
    <3>1. nb \in Blocks
      BY <2>2, <1>3, BlockAt DEF Sound, Tiling
    <3>2. nn \in Addresses /\ nb < nn
      BY <3>1, BlockAt
    <3>3. nn - nb \in Sizes /\ nn - nb # NullList /\ nb + (nn - nb) = nn
      BY <1>4, <3>2 DEF Addresses, Sizes, NullList
    <3>4. i' = [i EXCEPT ![p] = nn - nb]
      BY <2>2 DEF MergeNext
    <3> QED BY <3>2, <3>3, <3>4 DEF Locks
  <2> QED BY <2>1, <2>2
<1>6. x' = [x EXCEPT ![p] = nb] /\ Go(p, "nextlock") /\ UNCHANGED <<b, n, r>>
  BY DEF MergeNext
<1>7. s \in 0 .. MaxSize + 1
  BY <1>4 DEF Locks, Sizes, NullList
<1> HIDE DEF nn
<1>8. Moves(p, "nextlock", b[p], nb, n[p], s, r[p])
  BY <1>4, <1>5, <1>6, <1>7 DEF Sound, Typed, Moves, Go, Places
<1>9. ControlOf(p)'
  <2>1. /\ pc'[p] = "nextlock" /\ b'[p] = b[p] /\ x'[p] = nb /\ n'[p] = n[p] /\ i'[p] = s
        /\ r'[p] = r[p] /\ used' = used /\ next_block' = next_block
    BY <1>1, <1>8 DEF Moves, links
  <2>2. Nn(p)' = nn
    BY <1>5, <2>1 DEF Nn
  <2> QED BY <1>3, <1>5, <2>1, <2>2 DEF ControlOf, Allocating
<1>10. "nextlock" \in Places \ Cutting
  BY DEF Places, Cutting
<1> QED BY <1>1, <1>2, <1>8, <1>9, <1>10, WorkMove

(* mergenext, the first half of the re-check.                              *)
LEMMA MergeNextLockStep ==
  ASSUME Sound, NEW p \in Procs, MergeNextLock(p) PROVE Sound'
<1>1. pc[p] = "nextlock" /\ UNCHANGED <<links, lists, pool, size, used, hand>>
  BY DEF MergeNextLock
<1>2. CASE next_block[x[p]] = Nn(p)
  <2>1. lock' = [lock EXCEPT ![i[p]] = p] /\ Go(p, "nextcheck")
    BY <1>2 DEF MergeNextLock
  <2>2. /\ b[p] # Null /\ (r[p] # Null => used[r[p]] > 0)
        /\ x[p] = next_block[b[p]] /\ i[p] \in Locks /\ Nn(p) \in Addresses \cup {Null}
        /\ IF n[p] > 0 THEN used[b[p]] > 0 /\ r[p] = Null ELSE used[b[p]] = 0
    BY <1>1, Working DEF Sound, Control, ControlOf
  <2>3. Moves(p, "nextcheck", b[p], x[p], n[p], i[p], r[p])
    BY <1>1, <2>1 DEF Sound, Typed, Moves, Go, Places, hand
  <2>4. ControlOf(p)'
    <3>1. Nn(p)' = Nn(p)
      BY <1>1 DEF Nn, hand
    <3> QED BY <1>1, <2>2, <2>3, <3>1 DEF Moves, ControlOf, Allocating, links
  <2>5. "nextcheck" \in Places \ Cutting
    BY DEF Places, Cutting
  <2>6. lock' \in [Locks -> Procs \cup {Null}]
    BY <2>1 DEF Sound, Typed
  <2> QED BY <1>1, <2>3, <2>4, <2>5, <2>6, WorkMove
<1>3. CASE next_block[x[p]] # Nn(p)
  <2>1. AfterNext(p) /\ lock' \in [Locks -> Procs \cup {Null}]
    BY <1>3 DEF MergeNextLock, Sound, Typed
  <2> QED BY <1>1, <2>1, AfterNextStep
<1> QED BY <1>2, <1>3

(* mergenext, when the next block is no longer free.                       *)
LEMMA MergeNextNotStep ==
  ASSUME Sound, NEW p \in Procs, MergeNextDo(p), ~free_bit[x[p]]
  PROVE  Sound'
<1>1. /\ pc[p] = "nextcheck" /\ Unlock(p)
      /\ UNCHANGED <<links, lists, pool, size, used, hand>> /\ AfterNext(p)
  BY DEF MergeNextDo, links
<1>2. lock' \in [Locks -> Procs \cup {Null}]
  BY <1>1, UnlockType DEF Sound
<1> QED BY <1>1, <1>2, AfterNextStep

(* arealloc: the block is too small.                                       *)
LEMMA GrowStep ==
  ASSUME Sound, NEW p \in Procs, Grow(p) PROVE Sound'
<1>1. pc[p] = "grow" /\ UNCHANGED <<links, lists, pool, size, lock, used, hand>>
  BY DEF Grow
<1>2. b[p] # Null /\ n[p] > 0 /\ used[b[p]] > 0 /\ r[p] = Null
  BY <1>1, Working DEF Sound, Control, ControlOf
<1>3. PICK w \in {"next", "first"} : Go(p, w)
  BY DEF Grow
<1>4. Moves(p, w, b[p], x[p], n[p], i[p], r[p])
  BY <1>1, <1>3 DEF Sound, Typed, Moves, Go, Places, hand
<1>5. ControlOf(p)'
  BY <1>1, <1>2, <1>3, <1>4 DEF Moves, ControlOf, Allocating
<1>6. w \in Places \ Cutting
  BY <1>3 DEF Places, Cutting
<1>7. lock' \in [Locks -> Procs \cup {Null}]
  BY <1>1 DEF Sound, Typed
<1> QED BY <1>1, <1>4, <1>5, <1>6, <1>7, WorkMove

-----------------------------------------------------------------------------
(* Steps that change the lists or the arena.                               *)

(* The blocks after each other are the same.                               *)
LEMMA SameArena ==
  ASSUME Sound, UNCHANGED <<next_block, prev_block, pool, size>>, Blocks' = Blocks, Pieces' = Pieces
  PROVE  Tiling' /\ Linked'
BY DEF Sound, Tiling, Linked

(* A processor that allocates has freed nothing yet.                       *)
LEMMA NotFreed ==
  ASSUME Sound, NEW p \in Procs, pc[p] \in Allocating
  PROVE  /\ Freed(p) = {} /\ Mine(p) = InHand(p) /\ r[p] = Null
         /\ n[p] > 0 /\ n[p] \in Sizes /\ n[p] \in 1 .. MaxUser
         /\ b[p] # Null => b[p] \in Owned(p) /\ b[p] \in Addresses /\ used[b[p]] > 0
<1>1. n[p] > 0 /\ r[p] = Null /\ (b[p] # Null => used[b[p]] > 0)
  BY DEF Sound, Control, ControlOf
<1>2. Freed(p) = {}
  <2>1. b[p] # Null => used[b[p]] \in Nat
    BY DEF Sound, Typed
  <2> QED BY <1>1, <2>1 DEF Freed
<1>3. n[p] \in Sizes /\ n[p] \in 1 .. MaxUser
  <2>1. n[p] \in 0 .. MaxUser
    BY DEF Sound, Typed
  <2> QED BY <1>1, <2>1, MemoryAssumption DEF Sizes
<1>4. b[p] # Null => b[p] \in Owned(p) /\ b[p] \in Addresses
  BY DEF Sound, Typed, Owned
<1> QED BY <1>1, <1>2, <1>3, <1>4 DEF Mine

\* What is so when amalloc has returned block a, with the free bits f but for it.
Returned(p, a, f) ==
  /\ \A q \in Procs \ {p} : /\ pc'[q] = pc[q] /\ b'[q] = b[q] /\ x'[q] = x[q]
                            /\ n'[q] = n[q] /\ i'[q] = i[q] /\ r'[q] = r[q]
  /\ InHand(p)' = {} /\ Mine(p)' = {} /\ Piece(p)' = {}
  /\ Owned(p)' \subseteq {a, b[p]} \ {Null}
  /\ b'[p] # Null => b'[p] # r'[p]
  /\ ControlOf(p)'
  /\ ArenaType' => Typed'
  /\ free_bit' \in [Addresses -> BOOLEAN] /\ free_bit'[a] = FALSE
  /\ \A c \in Addresses \ {a} : ~(a < c /\ c < a + n[p]) => free_bit'[c] = f[c]
  /\ used' \in [Addresses -> 0 .. MaxSize] /\ used'[a] = n[p]
  /\ \A c \in Addresses \ {a} : used'[c] = used[c]

(* It is so.                                                               *)
LEMMA ReturnHands ==
  ASSUME Sound, NEW p \in Procs, pc[p] \in Allocating, NEW a \in Addresses, a # b[p],
         NEW f \in [Addresses -> BOOLEAN], Return(p, a, f)
  PROVE  Returned(p, a, f)
<1>1. /\ free_bit' \in [Addresses -> BOOLEAN] /\ (n[p] > 0 => ~free_bit'[a])
      /\ \A c \in Addresses \ {a} : ~(a < c /\ c < a + n[p]) => free_bit'[c] = f[c]
      /\ used' \in [Addresses -> 0 .. MaxSize] /\ used'[a] = n[p]
      /\ \A c \in Addresses \ {a} : used'[c] = used[c]
      /\ b[p] = Null => Moves(p, "idle", Null, Null, 0, 0, Null)
      /\ b[p] # Null => Moves(p, "free", b[p], Null, 0, 0, a)
  BY ReturnStep DEF Sound
<1>2. /\ n[p] > 0 /\ a # Null
      /\ b[p] # Null => b[p] \in Addresses /\ used[b[p]] > 0 /\ used[b[p]] \in Nat
  BY NotFreed DEF Sound, Typed, Addresses, Null
<1>3. free_bit'[a] = FALSE
  BY <1>1, <1>2
<1>4. CASE b[p] = Null
  <2>1. Moves(p, "idle", Null, Null, 0, 0, Null)
    BY <1>1, <1>4
  <2>2. /\ pc'[p] = "idle" /\ b'[p] = Null /\ r'[p] = Null /\ n'[p] = 0
        /\ \A q \in Procs \ {p} : /\ pc'[q] = pc[q] /\ b'[q] = b[q] /\ x'[q] = x[q]
                                  /\ n'[q] = n[q] /\ i'[q] = i[q] /\ r'[q] = r[q]
    BY <2>1 DEF Moves
  <2>3. InHand(p)' = {} /\ Piece(p)' = {} /\ Freed(p)' = {} /\ Owned(p)' = {}
    BY <2>2 DEF InHand, Piece, Freed, Owned
  <2>4. ControlOf(p)'
    BY <2>2 DEF ControlOf, Allocating
  <2>5. ArenaType' => Typed'
    BY <2>1, MovesType
  <2> QED BY <1>1, <1>3, <2>2, <2>3, <2>4, <2>5 DEF Mine, Returned
<1>5. CASE b[p] # Null
  <2>1. Moves(p, "free", b[p], Null, 0, 0, a)
    BY <1>1, <1>5
  <2>2. /\ pc'[p] = "free" /\ b'[p] = b[p] /\ r'[p] = a /\ n'[p] = 0
        /\ \A q \in Procs \ {p} : /\ pc'[q] = pc[q] /\ b'[q] = b[q] /\ x'[q] = x[q]
                                  /\ n'[q] = n[q] /\ i'[q] = i[q] /\ r'[q] = r[q]
    BY <2>1 DEF Moves
  <2>3. used'[b[p]] = used[b[p]] /\ used[b[p]] > 0 /\ used'[b[p]] # 0
    BY <1>1, <1>2, <1>5
  <2>4. InHand(p)' = {} /\ Piece(p)' = {} /\ Freed(p)' = {} /\ Owned(p)' \subseteq {a, b[p]} \ {Null}
    BY <2>2, <2>3 DEF InHand, Piece, Freed, Owned
  <2>5. ControlOf(p)'
    BY <1>1, <1>2, <1>5, <2>2, <2>3 DEF ControlOf, Allocating
  <2>6. ArenaType' => Typed'
    BY <2>1, MovesType
  <2> QED BY <1>1, <1>3, <2>2, <2>4, <2>5, <2>6 DEF Mine, Returned
<1> QED BY <1>4, <1>5

(* getfree takes the first block of the list where any is sure to fit.     *)
LEMMA GetFirstStep ==
  ASSUME Sound, NEW p \in Procs, GetFirst(p), lists[n[p]] # <<>> PROVE Sound'
<1> DEFINE h == Head(lists[n[p]])
<1>1. /\ pc[p] = "first" /\ lists' = [lists EXCEPT ![n[p]] = Tail(lists[n[p]])]
      /\ Return(p, h, free_bit)
      /\ UNCHANGED <<next_block, prev_block, pool, size, lock>>
  BY DEF GetFirst
<1>2. /\ Mine(p) = {} /\ n[p] > 0 /\ n[p] \in Sizes /\ Piece(p) = {}
      /\ b[p] # Null => b[p] \in Owned(p) /\ b[p] \in Addresses
  BY <1>1, NotFreed DEF Allocating, InHand, Piece
<1>3. lists[n[p]] \in Seq(Addresses) /\ IsInjective(lists[n[p]])
  BY <1>2 DEF Sound, Typed, Listed
<1>4. /\ h \in Addresses /\ h \in ToSet(lists[n[p]]) /\ Tail(lists[n[p]]) \in Seq(Addresses)
      /\ IsInjective(Tail(lists[n[p]])) /\ ToSet(Tail(lists[n[p]])) = ToSet(lists[n[p]]) \ {h}
  BY <1>3, TailSet
<1> HIDE DEF h
<1>5. /\ lists' \in [Sizes -> Seq(Addresses)] /\ FreeBlocks' = FreeBlocks \ {h}
      /\ h \in FreeBlocks /\ Listed'
  BY <1>1, <1>2, <1>4, TakeOff DEF Sound
<1>6. next_block[h] = h + n[p]
  BY <1>2, <1>4 DEF Sound, Listed
<1>7. h # 0 /\ h # b[p] /\ \A q \in Procs : h \notin Owned(q)
  <2>1. \A q \in Procs : h \notin Owned(q)
    BY <1>5 DEF Sound, Ownership
  <2> QED BY <1>2, <1>4, <1>5, <2>1 DEF Sound, Ownership, Addresses, Null
<1>8. free_bit \in [Addresses -> BOOLEAN] /\ pc[p] \in Allocating
  BY <1>1 DEF Sound, Typed, Allocating
<1>9. Returned(p, h, free_bit)
  BY <1>1, <1>4, <1>7, <1>8, ReturnHands
<1>10. Typed'
  <2>1. ArenaType'
    BY <1>1, <1>5, <1>9 DEF Sound, Typed, ArenaType, Returned
  <2> QED BY <1>9, <2>1 DEF Returned
<1>11. Touch(p, {h})
  BY <1>1, <1>2, <1>4, <1>5, <1>7, <1>9 DEF Touch, Returned
<1>12. Control'
  BY <1>9, <1>11, Others DEF Sound, Control, Returned
<1>13. Blocks' = Blocks
  <2>1. /\ \A c : c \notin {h} => (c \in Blocks' <=> c \in Blocks)
        /\ \A c \in {h} : /\ c \in Blocks <=> used[c] > 0 \/ c \in FreeBlocks \/ c \in Mine(p)
                          /\ c \in Blocks' <=> used'[c] > 0 \/ c \in FreeBlocks' \/ c \in Mine(p)'
    BY <1>10, <1>11, <1>12, BlocksStep DEF Sound
  <2>2. h \in Blocks /\ h \in Blocks'
    <3>1. used'[h] > 0
      BY <1>2, <1>9 DEF Returned
    <3> QED BY <1>5, <2>1, <3>1
  <2>3. \A c : c \in Blocks' <=> c \in Blocks
    BY <2>1, <2>2
  <2> QED BY <2>3
<1>14. Pieces' = Pieces
  <2>1. Pieces' = (Pieces \ Piece(p)) \cup Piece(p)'
    BY <1>11, PiecesStep DEF Sound
  <2> QED BY <1>2, <1>9, <2>1 DEF Returned
<1>15. Tiling' /\ Linked'
  BY <1>1, <1>13, <1>14, SameArena
<1>16. ASSUME NEW c \in Blocks', c # h PROVE free_bit'[c] = free_bit[c]
  <2>1. c \in Blocks /\ c \in Addresses /\ h \in Blocks
    <3>1. h \in Blocks
      BY <1>5, BlocksType DEF Sound
    <3> QED BY <1>13, <3>1, BlockAt
  <2>2. h < c => next_block[h] <= c
    BY <2>1, MemoryAssumption, Inside DEF Sound, Typed, Tiling
  <2>3. ~(h < c /\ c < h + n[p])
    BY <1>2, <1>4, <1>6, <2>1, <2>2 DEF Addresses, Sizes
  <2> QED BY <1>9, <1>16, <2>1, <2>3 DEF Returned
<1>17. Owned(p)' \cap FreeBlocks' = {}
  BY <1>2, <1>5, <1>9 DEF Sound, Ownership, Returned
<1>18. \A c \in {h} : used'[c] > 0 => c + used'[c] <= next_block'[c]
  BY <1>1, <1>2, <1>4, <1>6, <1>9 DEF Addresses, Sizes, Returned
<1> QED BY <1>5, <1>9, <1>10, <1>11, <1>15, <1>16, <1>17, <1>18, Step DEF Returned

(* A step that makes no block and loses none.                              *)
LEMMA SameBlocks ==
  ASSUME Sound, Typed', NEW p \in Procs, NEW T, Touch(p, T), ControlOf(p)',
         \A c \in T : c \in Blocks,
         \A c \in T : used'[c] > 0 \/ c \in FreeBlocks' \/ c \in Mine(p)'
  PROVE  /\ Blocks' = Blocks
         /\ Pieces' = (Pieces \ Piece(p)) \cup Piece(p)'
         /\ UNCHANGED <<next_block, prev_block, pool, size>> /\ Piece(p)' = Piece(p) => Tiling' /\ Linked'
<1>1. Control'
  BY Others DEF Sound, Control
<1>2. /\ \A c : c \notin T => (c \in Blocks' <=> c \in Blocks)
      /\ \A c \in T : c \in Blocks' <=> used'[c] > 0 \/ c \in FreeBlocks' \/ c \in Mine(p)'
  BY <1>1, BlocksStep DEF Sound
<1>3. \A c : c \in Blocks' <=> c \in Blocks
  BY <1>2
<1>4. Blocks' = Blocks
  BY <1>3
<1>5. Pieces' = (Pieces \ Piece(p)) \cup Piece(p)' /\ Pieces \cap Owned(p) = Piece(p)
  BY PiecesStep DEF Sound
<1>6. Piece(p)' = Piece(p) => Pieces' = Pieces
  BY <1>5
<1> QED BY <1>4, <1>5, <1>6, SameArena

(* getfree takes the first block of a list.                                *)
LEMMA GetFreeStep ==
  ASSUME Sound, NEW p \in Procs, GetFree(p), lists[i[p]] # <<>> PROVE Sound'
<1> DEFINE h == Head(lists[i[p]])
<1>1. /\ pc[p] = "take" /\ lists' = [lists EXCEPT ![i[p]] = Tail(lists[i[p]])]
      /\ x' = [x EXCEPT ![p] = h] /\ free_bit' = [free_bit EXCEPT ![h] = FALSE]
      /\ Go(p, "split")
      /\ UNCHANGED <<next_block, prev_block, pool, size, lock, used, b, n, i, r>>
  BY DEF GetFree
<1>2. /\ Mine(p) = {} /\ n[p] > 0 /\ n[p] \in Sizes /\ Piece(p) = {} /\ r[p] = Null
      /\ b[p] # Null => b[p] \in Owned(p) /\ b[p] \in Addresses /\ used[b[p]] > 0
  BY <1>1, NotFreed DEF Allocating, InHand, Piece
<1>3. i[p] \in Sizes /\ i[p] > n[p]
  BY <1>1 DEF Sound, Control, ControlOf
<1>4. lists[i[p]] \in Seq(Addresses) /\ IsInjective(lists[i[p]])
  BY <1>3 DEF Sound, Typed, Listed
<1>5. /\ h \in Addresses /\ h \in ToSet(lists[i[p]]) /\ Tail(lists[i[p]]) \in Seq(Addresses)
      /\ IsInjective(Tail(lists[i[p]])) /\ ToSet(Tail(lists[i[p]])) = ToSet(lists[i[p]]) \ {h}
  BY <1>4, TailSet
<1> HIDE DEF h
<1>6. /\ lists' \in [Sizes -> Seq(Addresses)] /\ FreeBlocks' = FreeBlocks \ {h}
      /\ h \in FreeBlocks /\ Listed'
  BY <1>1, <1>3, <1>5, TakeOff DEF Sound
<1>7. next_block[h] = h + i[p]
  BY <1>3, <1>5 DEF Sound, Listed
<1>8. h # 0 /\ used[h] = 0 /\ h \in Blocks /\ \A q \in Procs : h \notin Owned(q)
  <2>1. \A q \in Procs : h \notin Owned(q)
    BY <1>6 DEF Sound, Ownership
  <2>2. h \in Blocks
    BY <1>6, BlocksType DEF Sound
  <2> QED BY <1>6, <2>1, <2>2 DEF Sound, Ownership
<1>9. Moves(p, "split", b[p], h, n[p], i[p], r[p])
  BY <1>1, <1>5 DEF Sound, Typed, Moves, Go, Places
<1>10. Typed'
  <2>1. ArenaType'
    BY <1>1, <1>6 DEF Sound, Typed, ArenaType
  <2> QED BY <1>9, <2>1, MovesType
<1>11. h # Null /\ h + n[p] < next_block[h]
  BY <1>2, <1>3, <1>5, <1>7 DEF Addresses, Sizes, Null
<1>12. ControlOf(p)'
  BY <1>1, <1>2, <1>9, <1>11 DEF Moves, ControlOf, Allocating
<1>13. InHand(p)' = {h} /\ Mine(p)' = {h} /\ Piece(p)' = {} /\ Owned(p)' \subseteq Owned(p) \cup {h}
  <2>1. pc'[p] = "split" /\ x'[p] = h /\ b'[p] = b[p] /\ r'[p] = r[p] /\ used' = used
    BY <1>1, <1>9 DEF Moves
  <2>2. Freed(p)' = Freed(p)
    BY <2>1 DEF Freed
  <2>3. InHand(p)' = {h} /\ Piece(p)' = {}
    BY <2>1 DEF InHand, Piece
  <2> QED BY <1>2, <2>1, <2>2, <2>3 DEF Mine, Owned
<1>14. Touch(p, {h})
  BY <1>1, <1>2, <1>5, <1>6, <1>8, <1>9, <1>13 DEF Touch, Moves
<1>15. Tiling' /\ Linked' /\ Blocks' = Blocks
  BY <1>1, <1>2, <1>8, <1>10, <1>12, <1>13, <1>14, SameBlocks
<1>16. \A c \in Blocks' : c # h => free_bit'[c] = free_bit[c]
  BY <1>1, <1>15, BlockAt DEF Sound, Typed
<1>17. free_bit'[h] = FALSE
  BY <1>1, <1>5 DEF Sound, Typed
<1>18. Owned(p)' \cap FreeBlocks' = {}
  BY <1>6, <1>13 DEF Sound, Ownership
<1>19. b'[p] # Null => b'[p] # r'[p] /\ b'[p] \notin InHand(p)'
  BY <1>2, <1>8, <1>9, <1>13, <1>5 DEF Moves, Null, Addresses
<1>20. used' = used
  BY <1>1
<1> QED BY <1>6, <1>8, <1>10, <1>12, <1>13, <1>14, <1>15, <1>16, <1>17, <1>18, <1>19, <1>20, Step

(* afree: the block is nobody's any more.  The next block knows it.        *)
LEMMA AfreeStep ==
  ASSUME Sound, NEW p \in Procs, Afree(p) PROVE Sound'
<1>1. /\ pc[p] = "free" /\ used' = [used EXCEPT ![b[p]] = 0]
      /\ UNCHANGED <<links, lists, pool, size, lock, hand>>
  BY DEF Afree
<1>2. /\ b[p] # Null /\ b[p] # 0 /\ b[p] \in Owned(p) /\ b[p] \in Blocks /\ b[p] \in Addresses
      /\ b[p] # r[p] /\ b[p] \notin FreeBlocks /\ InHand(p) = {}
      /\ r[p] # Null => used[r[p]] > 0
  BY <1>1, Working
<1>3. Piece(p) = {} /\ prev_block[next_block[b[p]]] = b[p]
  <2>1. Piece(p) = {}
    BY <1>1 DEF Piece
  <2> QED BY <1>2, <2>1, OwnBlock, BlockAt
<1>4. Go(p, "prev")
  BY <1>3 DEF Afree
<1>5. n[p] = 0
  BY <1>1 DEF Sound, Control, ControlOf
<1>6. Moves(p, "prev", b[p], x[p], n[p], i[p], r[p])
  BY <1>1, <1>4 DEF Sound, Typed, Moves, Go, Places, hand
<1>7. /\ used' \in [Addresses -> 0 .. MaxSize] /\ used'[b[p]] = 0
      /\ \A c \in Addresses \ {b[p]} : used'[c] = used[c]
  BY <1>1, <1>2, MemoryAssumption DEF Sound, Typed
<1>8. Typed'
  <2>1. ArenaType'
    BY <1>1, <1>7 DEF Sound, Typed, ArenaType, links
  <2> QED BY <1>6, <2>1, MovesType
<1>9. r[p] # Null => used'[r[p]] > 0
  BY <1>2, <1>7 DEF Sound, Typed
<1>10. ControlOf(p)'
  BY <1>2, <1>5, <1>6, <1>7, <1>9 DEF Moves, ControlOf, Allocating
<1>11. InHand(p)' = {} /\ Mine(p)' = {b[p]} /\ Piece(p)' = {} /\ Owned(p)' = Owned(p) /\ Mine(p) \subseteq {b[p]}
  <2>1. pc'[p] = "prev" /\ b'[p] = b[p] /\ r'[p] = r[p]
    BY <1>6 DEF Moves
  <2>2. Freed(p)' = {b[p]} /\ Freed(p) \subseteq {b[p]}
    BY <1>2, <1>7, <2>1 DEF Freed
  <2>3. InHand(p)' = {} /\ Piece(p)' = {}
    BY <2>1 DEF InHand, Piece
  <2> QED BY <1>2, <2>1, <2>2, <2>3 DEF Mine, Owned
<1>12. FreeBlocks' = FreeBlocks
  BY <1>1 DEF FreeBlocks
<1>13. Touch(p, {b[p]})
  <2>1. \A q \in Procs \ {p} : Owned(q) \cap {b[p]} = {}
    BY <1>2, OwnBlock
  <2> QED BY <1>1, <1>2, <1>6, <1>7, <1>11, <1>12, <2>1 DEF Touch, Moves, links
<1>14. UNCHANGED <<next_block, prev_block, free_bit, pool, size>>
  BY <1>1 DEF links
<1>15. Tiling' /\ Linked' /\ Blocks' = Blocks
  BY <1>2, <1>3, <1>8, <1>10, <1>11, <1>13, <1>14, SameBlocks
<1>16. Listed'
  BY <1>1, <1>14 DEF Sound, Listed
<1>17. \A c \in Blocks' : free_bit'[c] <=> c \in FreeBlocks'
  BY <1>12, <1>14, <1>15 DEF Sound, Marked
<1>18. Owned(p)' \cap FreeBlocks' = {}
  BY <1>11, <1>12 DEF Sound, Ownership
<1>19. b'[p] # Null => b'[p] # r'[p] /\ b'[p] \notin InHand(p)'
  BY <1>2, <1>6, <1>11 DEF Moves
<1>20. \A c \in Blocks' : free_bit'[c] = free_bit[c]
  BY <1>14
<1> QED BY <1>2, <1>7, <1>8, <1>10, <1>11, <1>12, <1>13, <1>15, <1>16, <1>17, <1>18, <1>19, <1>20, Step

(* insfree at the end of afree.                                            *)
LEMMA InsertStep ==
  ASSUME Sound, NEW p \in Procs, Insert(p) PROVE Sound'
<1>1. /\ pc[p] = "insert" /\ lists' = [lists EXCEPT ![SizeOf(b[p])] = <<b[p]>> \o @]
      /\ free_bit' = [free_bit EXCEPT ![b[p]] = TRUE]
      /\ Done(p)
      /\ UNCHANGED <<next_block, prev_block, pool, size, lock, used>>
  BY DEF Insert
<1>2. /\ b[p] # Null /\ b[p] # 0 /\ b[p] \in Owned(p) /\ b[p] \in Blocks /\ b[p] \in Addresses
      /\ b[p] # r[p] /\ b[p] \notin FreeBlocks /\ InHand(p) = {} /\ Piece(p) = {}
  BY <1>1, Working DEF Piece
<1>3. used[b[p]] = 0
  BY <1>1 DEF Sound, Control, ControlOf
<1>4. Moves(p, "idle", Null, Null, 0, 0, Null)
  BY <1>1, DoneStep DEF Sound
<1>5. SizeOf(b[p]) \in Sizes /\ next_block[b[p]] = b[p] + SizeOf(b[p])
  <2>1. next_block[b[p]] \in Addresses /\ b[p] < next_block[b[p]]
    BY <1>2, BlockAt
  <2> QED BY <1>2, <2>1, MemoryAssumption DEF SizeOf, Sizes, Addresses
<1>6. lists' \in [Sizes -> Seq(Addresses)] /\ FreeBlocks' = FreeBlocks \cup {b[p]} /\ Listed'
  BY <1>1, <1>2, <1>5, PutOn DEF Sound
<1>7. Typed'
  <2>1. ArenaType'
    BY <1>1, <1>6 DEF Sound, Typed, ArenaType
  <2> QED BY <1>4, <2>1, MovesType
<1>8. ControlOf(p)'
  BY <1>4 DEF Moves, ControlOf, Allocating
<1>9. /\ InHand(p)' = {} /\ Mine(p)' = {} /\ Piece(p)' = {} /\ Owned(p)' = {}
      /\ Mine(p) \subseteq {b[p]}
  <2>1. pc'[p] = "idle" /\ b'[p] = Null /\ r'[p] = Null
    BY <1>4 DEF Moves
  <2>2. Freed(p)' = {} /\ Freed(p) \subseteq {b[p]}
    BY <2>1 DEF Freed
  <2>3. InHand(p)' = {} /\ Piece(p)' = {}
    BY <2>1 DEF InHand, Piece
  <2> QED BY <1>2, <2>1, <2>2, <2>3 DEF Mine, Owned
<1>10. Touch(p, {b[p]})
  <2>1. \A q \in Procs \ {p} : Owned(q) \cap {b[p]} = {}
    BY <1>2, OwnBlock
  <2> QED BY <1>1, <1>2, <1>4, <1>6, <1>9, <2>1 DEF Touch, Moves
<1>11. Tiling' /\ Linked' /\ Blocks' = Blocks
  BY <1>1, <1>2, <1>6, <1>7, <1>8, <1>9, <1>10, SameBlocks
<1>12. \A c \in Blocks' : c # b[p] => free_bit'[c] = free_bit[c]
  BY <1>1, <1>11, BlockAt DEF Sound, Typed
<1>13. free_bit'[b[p]] = TRUE
  BY <1>1, <1>2 DEF Sound, Typed
<1>14. used' = used
  BY <1>1
<1>15. b'[p] = Null
  BY <1>4 DEF Moves
<1> QED BY <1>3, <1>6, <1>7, <1>8, <1>9, <1>10, <1>11, <1>12, <1>13, <1>14, <1>15, Step

(* The lists stay as they are.                                             *)
LEMMA SameLists ==
  ASSUME Listed, UNCHANGED lists, \A c \in FreeBlocks : next_block'[c] = next_block[c]
  PROVE  FreeBlocks' = FreeBlocks /\ Listed'
<1>1. FreeBlocks' = FreeBlocks
  BY DEF FreeBlocks
<1>2. \A s \in Sizes : \A c \in ToSet(lists[s]) : c \in FreeBlocks
  BY DEF FreeBlocks
<1> QED BY <1>1, <1>2 DEF Listed

(* arealloc keeps a block that has the right size.                         *)
LEMMA KeepExactStep ==
  ASSUME Sound, NEW p \in Procs, Keep(p), n[p] = SizeOf(b[p]) PROVE Sound'
<1>1. /\ pc[p] = "grow" /\ used' = [used EXCEPT ![b[p]] = n[p]]
      /\ free_bit' \in Junk(free_bit, b[p], n[p])
      /\ Done(p) /\ UNCHANGED <<next_block, prev_block, lists, pool, size, lock>>
  BY DEF Keep
<1>2. /\ b[p] # Null /\ b[p] # 0 /\ b[p] \in Owned(p) /\ b[p] \in Blocks /\ b[p] \in Addresses
      /\ b[p] # r[p] /\ b[p] \notin FreeBlocks /\ InHand(p) = {} /\ Piece(p) = {}
  BY <1>1, Working DEF Piece
<1>3. n[p] > 0 /\ n[p] \in 0 .. MaxUser /\ used[b[p]] > 0
  BY <1>1 DEF Sound, Typed, Control, ControlOf
<1>4. Moves(p, "idle", Null, Null, 0, 0, Null)
  BY <1>1, DoneStep DEF Sound
<1>5. /\ next_block[b[p]] = b[p] + n[p] /\ free_bit \in [Addresses -> BOOLEAN]
      /\ next_block[b[p]] \in Addresses
  <2>1. next_block[b[p]] \in Addresses
    BY <1>2, BlockAt
  <2>2. n[p] = next_block[b[p]] - b[p]
    BY DEF SizeOf
  <2> QED BY <1>2, <2>1, <2>2 DEF Addresses, Sound, Typed
<1>6. /\ free_bit' \in [Addresses -> BOOLEAN]
      /\ \A c \in Addresses : ~(b[p] < c /\ c < b[p] + n[p]) => free_bit'[c] = free_bit[c]
  BY <1>1, <1>2, <1>5, JunkOutside
<1>7. /\ used' \in [Addresses -> 0 .. MaxSize] /\ used'[b[p]] = n[p]
      /\ \A c \in Addresses \ {b[p]} : used'[c] = used[c]
  <2>1. n[p] \in 0 .. MaxSize
    BY <1>3, MemoryAssumption
  <2> QED BY <1>1, <1>2, <2>1 DEF Sound, Typed
<1>8. Typed'
  <2>1. ArenaType'
    BY <1>1, <1>6, <1>7 DEF Sound, Typed, ArenaType
  <2> QED BY <1>4, <2>1, MovesType
<1>9. ControlOf(p)'
  BY <1>4 DEF Moves, ControlOf, Allocating
<1>10. /\ InHand(p)' = {} /\ Mine(p)' = {} /\ Piece(p)' = {} /\ Owned(p)' = {}
       /\ Mine(p) \subseteq {b[p]}
  <2>1. pc'[p] = "idle" /\ b'[p] = Null /\ r'[p] = Null
    BY <1>4 DEF Moves
  <2>2. Freed(p)' = {} /\ Freed(p) \subseteq {b[p]}
    BY <2>1 DEF Freed
  <2>3. InHand(p)' = {} /\ Piece(p)' = {}
    BY <2>1 DEF InHand, Piece
  <2> QED BY <1>2, <2>1, <2>2, <2>3 DEF Mine, Owned
<1>11. FreeBlocks' = FreeBlocks /\ Listed'
  BY <1>1, SameLists DEF Sound
<1>12. Touch(p, {b[p]})
  <2>1. \A q \in Procs \ {p} : Owned(q) \cap {b[p]} = {}
    BY <1>2, OwnBlock
  <2> QED BY <1>1, <1>2, <1>4, <1>7, <1>10, <1>11, <2>1 DEF Touch, Moves
<1>13. Tiling' /\ Linked' /\ Blocks' = Blocks
  BY <1>1, <1>2, <1>3, <1>7, <1>8, <1>9, <1>10, <1>12, SameBlocks
<1>14. ASSUME NEW c \in Blocks' PROVE free_bit'[c] = free_bit[c]
  <2>1. c \in Blocks /\ c \in Addresses
    BY <1>13, BlockAt
  <2>2. b[p] < c => next_block[b[p]] <= c
    BY <1>2, <2>1, MemoryAssumption, Inside DEF Sound, Typed, Tiling
  <2>3. ~(b[p] < c /\ c < b[p] + n[p])
    BY <1>2, <1>5, <2>1, <2>2 DEF Addresses
  <2> QED BY <1>6, <2>1, <2>3
<1>15. \A c \in Blocks' : free_bit'[c] <=> c \in FreeBlocks'
  BY <1>11, <1>13, <1>14 DEF Sound, Marked
<1>16. \A c \in {b[p]} : c + used'[c] <= next_block'[c]
  BY <1>1, <1>2, <1>5, <1>7 DEF Addresses
<1>17. b'[p] = Null
  BY <1>4 DEF Moves
<1> QED BY <1>2, <1>8, <1>9, <1>10, <1>11, <1>12, <1>13, <1>14, <1>15, <1>16, <1>17, Step

(* The block after a piece that was split off learns of it.                *)
LEMMA LinkStep ==
  ASSUME Sound, Typed', NEW p \in Procs, NEW c \in Owned(p), Piece(p) = {c},
         prev_block' = [prev_block EXCEPT ![next_block[c]] = c],
         UNCHANGED <<next_block, free_bit, lists, pool, size, lock, used, hand>>,
         \A q \in Procs \ {p} : pc'[q] = pc[q],
         InHand(p)' = InHand(p), Piece(p)' = {}, ControlOf(p)'
  PROVE  Sound'
<1>1. Owned(p)' = Owned(p) /\ Mine(p)' = Mine(p) /\ b' = b /\ r' = r
  BY DEF Owned, Mine, Freed, hand
<1>2. FreeBlocks' = FreeBlocks /\ Listed'
  BY SameLists DEF Sound
<1>3. Touch(p, {})
  BY <1>1, <1>2 DEF Touch, hand
<1>4. Blocks' = Blocks /\ Pieces' = (Pieces \ Piece(p)) \cup Piece(p)'
  BY <1>3, SameBlocks
<1>5. Pieces' = Pieces \ {c}
  BY <1>4
<1>6. Tiling'
  BY <1>4 DEF Sound, Tiling
<1>7. c \in Blocks /\ next_block[c] \in Addresses
  BY OwnBlock, BlockAt
<1>8. Relinked(prev_block, prev_block', next_block[c], c)
  BY <1>7 DEF Sound, Typed, Relinked
<1>9. Linked'
  <2>1. /\ MaxSize \in Nat /\ pool \in Addresses /\ Tiled(Blocks, next_block, pool)
        /\ Chained(Blocks, next_block, prev_block, Pieces)
    BY MemoryAssumption DEF Sound, Typed, Tiling, Linked
  <2>2. Chained(Blocks, next_block, prev_block', Pieces \ {c})
    BY <1>7, <1>8, <2>1, ChainLink
  <2> QED BY <1>4, <1>5, <2>2 DEF Linked
<1>10. Owned(p)' \cap FreeBlocks' = {}
  BY <1>1, <1>2 DEF Sound, Ownership
<1>11. \A a \in InHand(p)' : used'[a] = 0
  BY DEF Sound, Ownership
<1>12. b'[p] # Null => b'[p] # r'[p] /\ b'[p] \notin InHand(p)'
  BY <1>1 DEF Sound, Ownership
<1> QED BY <1>2, <1>3, <1>6, <1>9, <1>10, <1>11, <1>12, Step

(* split tells the block after the piece.                                  *)
LEMMA SplitLinkStep ==
  ASSUME Sound, NEW p \in Procs, SplitLink(p) PROVE Sound'
<1> DEFINE nf == x[p] + n[p]
<1>1. /\ pc[p] = "splitlink" /\ prev_block' = [prev_block EXCEPT ![next_block[nf]] = nf]
      /\ Go(p, "splitfree")
      /\ UNCHANGED <<next_block, free_bit, lists, pool, size, lock, used, hand>>
  BY DEF SplitLink
<1>2. InHand(p) = {x[p], nf} /\ Piece(p) = {nf} /\ nf \in Owned(p)
  BY <1>1 DEF InHand, Piece, Owned
<1>3. Moves(p, "splitfree", b[p], x[p], n[p], i[p], r[p])
  BY <1>1 DEF Sound, Typed, Moves, Go, Places, hand
<1>4. InHand(p)' = InHand(p) /\ Piece(p)' = {}
  BY <1>1, <1>2, <1>3 DEF Moves, InHand, Piece
<1>5. ControlOf(p)'
  BY <1>1, <1>3 DEF Moves, Sound, Control, ControlOf, Allocating
<1> HIDE DEF nf
<1>6. nf \in Addresses /\ next_block[nf] \in Addresses
  BY <1>2, OwnBlock, BlockAt
<1>7. Typed'
  <2>1. ArenaType'
    BY <1>1, <1>6 DEF Sound, Typed, ArenaType
  <2> QED BY <1>3, <2>1, MovesType
<1>8. \A q \in Procs \ {p} : pc'[q] = pc[q]
  BY <1>3 DEF Moves
<1> QED BY <1>1, <1>2, <1>4, <1>5, <1>7, <1>8, LinkStep

(* So does arealloc.                                                       *)
LEMMA KeepLinkStep ==
  ASSUME Sound, NEW p \in Procs, KeepLink(p) PROVE Sound'
<1>1. /\ pc[p] = "keeplink" /\ prev_block' = [prev_block EXCEPT ![next_block[b[p]]] = b[p]]
      /\ Go(p, "mergepool")
      /\ UNCHANGED <<next_block, free_bit, lists, pool, size, lock, used, hand>>
  BY DEF KeepLink
<1>2. InHand(p) = {} /\ Piece(p) = {b[p]} /\ b[p] \in Owned(p) /\ b[p] \in Addresses
  BY <1>1, Working DEF InHand, Piece
<1>3. Moves(p, "mergepool", b[p], x[p], n[p], i[p], r[p])
  BY <1>1 DEF Sound, Typed, Moves, Go, Places, hand
<1>4. InHand(p)' = InHand(p) /\ Piece(p)' = {}
  BY <1>1, <1>2, <1>3 DEF Moves, InHand, Piece
<1>5. ControlOf(p)'
  BY <1>1, <1>3 DEF Moves, Sound, Control, ControlOf, Allocating
<1>6. Typed'
  <2>1. ArenaType'
    BY <1>1, <1>2 DEF Sound, Typed, ArenaType
  <2> QED BY <1>3, <2>1, MovesType
<1>7. \A q \in Procs \ {p} : pc'[q] = pc[q]
  BY <1>3 DEF Moves
<1> QED BY <1>1, <1>2, <1>4, <1>5, <1>6, <1>7, LinkStep

(* The piece that is split off is new.                                     *)
LEMMA NewPiece ==
  ASSUME Sound, NEW a \in Blocks, NEW m \in Nat \ {0}, a + m < next_block[a]
  PROVE  /\ a + m \in Addresses /\ a + m \notin Blocks /\ a + m # 0 /\ used[a + m] = 0
         /\ a + m \notin FreeBlocks /\ a + m \notin Pieces /\ a + m # Null /\ a # a + m /\ a < a + m
         /\ \A q \in Procs : a + m \notin Owned(q)
<1>1. a \in Addresses /\ next_block[a] \in Addresses
  BY BlockAt
<1>2. a + m \in Addresses /\ a < a + m /\ a + m # 0 /\ a + m # Null /\ a # a + m
  <2>1. MaxSize \in Nat /\ a \in Nat /\ next_block[a] \in Nat /\ next_block[a] <= MaxSize
    BY <1>1, MemoryAssumption DEF Addresses
  <2>2. a + m \in Nat /\ a < a + m /\ a + m <= MaxSize
    BY <2>1
  <2> QED BY <2>1, <2>2 DEF Addresses, Null
<1>3. a + m \notin Blocks
  <2> SUFFICES ASSUME a + m \in Blocks PROVE FALSE
    OBVIOUS
  <2>1. next_block[a] <= a + m
    BY <1>2, MemoryAssumption, Inside DEF Sound, Typed, Tiling
  <2> QED BY <1>1, <1>2, <2>1 DEF Addresses
<1>4. used[a + m] \in Nat /\ ~(used[a + m] > 0)
  BY <1>2, <1>3 DEF Sound, Typed, Blocks, Used
<1>5. /\ a + m \notin FreeBlocks /\ \A q \in Procs : a + m \notin Owned(q)
      /\ a + m \notin Pieces
  BY <1>3, BlocksType DEF Sound, Pieces, Blocks
<1> QED BY <1>2, <1>3, <1>4, <1>5

(* What split changes of the links.                                        *)
LEMMA SplitAtLinks ==
  ASSUME Typed, NEW a \in Addresses, NEW m, a + m \in Addresses, a # a + m, SplitAt(a, m)
  PROVE  /\ next_block' \in [Addresses -> Addresses \cup {Null}]
         /\ prev_block' \in [Addresses -> Addresses \cup {Null}]
         /\ next_block'[a] = a + m /\ next_block'[a + m] = next_block[a]
         /\ \A c \in Addresses \ {a, a + m} : next_block'[c] = next_block[c]
         /\ Relinked(prev_block, prev_block', a + m, a)
<1>1. /\ next_block' = [next_block EXCEPT ![a + m] = next_block[a], ![a] = a + m]
      /\ prev_block' = [prev_block EXCEPT ![a + m] = a]
  BY DEF SplitAt
<1>2. next_block[a] \in Addresses \cup {Null}
  BY DEF Typed
<1>3. /\ next_block \in [Addresses -> Addresses \cup {Null}]
      /\ prev_block \in [Addresses -> Addresses \cup {Null}]
  BY DEF Typed
<1>4. /\ prev_block' \in [Addresses -> Addresses \cup {Null}]
      /\ Relinked(prev_block, prev_block', a + m, a)
  BY <1>1, <1>3 DEF Relinked
<1> DEFINE nf == a + m
<1>5. nf \in Addresses /\ a # nf /\ next_block' = [next_block EXCEPT ![nf] = next_block[a], ![a] = nf]
  BY <1>1
<1> HIDE DEF nf
<1>6. /\ next_block' \in [Addresses -> Addresses \cup {Null}]
      /\ next_block'[a] = nf /\ next_block'[nf] = next_block[a]
      /\ \A c \in Addresses \ {a, nf} : next_block'[c] = next_block[c]
  BY <1>2, <1>3, <1>5
<1> QED BY <1>4, <1>6 DEF nf

(* The arena and the lists after it.                                       *)
LEMMA SplitShape ==
  ASSUME Sound, Typed', NEW p \in Procs, NEW a \in Owned(p), NEW m \in Nat \ {0},
         a + m < next_block[a], SplitAt(a, m), UNCHANGED <<lists, pool, size>>,
         Touch(p, {a, a + m}), ControlOf(p)', Piece(p) = {}, Piece(p)' = {a + m},
         used'[a] > 0 \/ a \in Mine(p)', a + m \in Mine(p)'
  PROVE  Blocks' = Blocks \cup {a + m} /\ FreeBlocks' = FreeBlocks /\ Tiling' /\ Linked' /\ Listed'
<1> DEFINE nf == a + m
<1>1. a \in Blocks /\ a \in Addresses /\ a \notin FreeBlocks /\ a \notin Pieces
  BY OwnBlock
<1>2. /\ nf \in Addresses /\ nf \notin Blocks /\ nf \notin FreeBlocks /\ a # nf /\ a < nf
      /\ nf < next_block[a]
  BY <1>1, NewPiece
<1>3. /\ next_block'[a] = nf /\ next_block'[nf] = next_block[a]
      /\ \A c \in Addresses \ {a, nf} : next_block'[c] = next_block[c]
      /\ Relinked(prev_block, prev_block', nf, a)
  BY <1>1, <1>2, SplitAtLinks DEF Sound
<1>4. Touch(p, {a, nf}) /\ Piece(p)' = {nf} /\ nf \in Mine(p)'
  OBVIOUS
<1> HIDE DEF nf
<1>5. Control'
  BY <1>4, Others DEF Sound, Control
<1>6. Blocks' = Blocks \cup {nf}
  <2>1. /\ \A c : c \notin {a, nf} => (c \in Blocks' <=> c \in Blocks)
        /\ \A c \in {a, nf} : c \in Blocks' <=> used'[c] > 0 \/ c \in FreeBlocks' \/ c \in Mine(p)'
    BY <1>4, <1>5, BlocksStep DEF Sound
  <2>2. a \in Blocks' /\ nf \in Blocks'
    BY <1>4, <2>1
  <2>3. \A c : c \in Blocks' <=> c \in Blocks \cup {nf}
    BY <1>1, <2>1, <2>2
  <2> QED BY <2>3
<1>7. FreeBlocks' = FreeBlocks /\ Listed'
  <2>1. \A c \in FreeBlocks : next_block'[c] = next_block[c]
    BY <1>1, <1>2, <1>3, BlocksType DEF Sound
  <2> QED BY <2>1, SameLists DEF Sound
<1>8. Pieces' = Pieces \cup {nf}
  <2>1. Pieces' = (Pieces \ Piece(p)) \cup Piece(p)'
    BY <1>4, PiecesStep DEF Sound
  <2> QED BY <1>4, <2>1
<1>9. /\ MaxSize \in Nat /\ pool \in Addresses /\ Tiled(Blocks, next_block, pool)
      /\ Chained(Blocks, next_block, prev_block, Pieces)
      /\ 0 < pool /\ pool <= size /\ next_block[pool] = Null
  BY MemoryAssumption DEF Sound, Typed, Tiling, Linked
<1>10. \A c \in Blocks \ {a} : next_block'[c] = next_block[c]
  BY <1>2, <1>3, BlockAt
<1>11. Tiled(Blocks \cup {nf}, next_block', pool)
  BY <1>1, <1>2, <1>3, <1>9, <1>10, TilingSplit
<1>12. Chained(Blocks \cup {nf}, next_block', prev_block', Pieces \cup {nf})
  BY <1>1, <1>2, <1>3, <1>9, <1>10, ChainSplit
<1>13. next_block'[pool] = Null
  <2>1. pool # a /\ pool # nf
    BY <1>1, <1>2, <1>9, BlockAt DEF Addresses
  <2> QED BY <1>3, <1>9, <2>1
<1>14. Tiling'
  BY <1>6, <1>9, <1>11, <1>13 DEF Tiling
<1>15. Linked'
  BY <1>6, <1>8, <1>12 DEF Linked
<1> QED BY <1>6, <1>7, <1>14, <1>15 DEF nf

(* split.                                                                  *)
LEMMA SplitStep ==
  ASSUME Sound, NEW p \in Procs, Split(p) PROVE Sound'
<1> DEFINE a == x[p]
           nf == a + n[p]
<1>1. /\ pc[p] = "split" /\ SplitAt(a, n[p]) /\ free_bit' = [free_bit EXCEPT ![nf] = FALSE]
      /\ Go(p, "splitlink") /\ UNCHANGED <<lists, pool, size, lock, used, hand>>
  BY DEF Split
<1>2. /\ Mine(p) = {a} /\ n[p] \in Nat \ {0} /\ Piece(p) = {} /\ r[p] = Null
      /\ b[p] # Null => b[p] \in Owned(p) /\ b[p] \in Addresses /\ used[b[p]] > 0
  BY <1>1, NotFreed DEF Allocating, InHand, Piece, Sizes
<1>3. a \in Owned(p) /\ a # Null /\ nf < next_block[a]
  BY <1>1 DEF Owned, InHand, Sound, Control, ControlOf
<1>4. /\ a \in Blocks /\ a \in Addresses /\ a # 0 /\ a \notin FreeBlocks
      /\ \A q \in Procs \ {p} : a \notin Owned(q)
  BY <1>3, OwnBlock
<1>5. used[a] = 0 /\ b[p] # a
  BY <1>1, <1>3 DEF Sound, Ownership, InHand
<1>6. /\ nf \in Addresses /\ nf \notin Blocks /\ nf # 0 /\ used[nf] = 0
      /\ nf \notin FreeBlocks /\ a # nf /\ \A q \in Procs : nf \notin Owned(q)
  BY <1>2, <1>3, <1>4, NewPiece
<1>7. /\ next_block' \in [Addresses -> Addresses \cup {Null}]
      /\ prev_block' \in [Addresses -> Addresses \cup {Null}]
      /\ next_block'[a] = nf /\ next_block'[nf] = next_block[a]
      /\ \A c \in Addresses \ {a, nf} : next_block'[c] = next_block[c]
  BY <1>1, <1>4, <1>6, SplitAtLinks DEF Sound
<1>8. Moves(p, "splitlink", b[p], x[p], n[p], i[p], r[p])
  BY <1>1 DEF Sound, Typed, Moves, Go, Places, hand
<1>9. /\ free_bit' \in [Addresses -> BOOLEAN] /\ free_bit'[nf] = FALSE
      /\ \A c \in Addresses \ {nf} : free_bit'[c] = free_bit[c]
  BY <1>1, <1>6 DEF Sound, Typed
<1>10. Typed'
  <2>1. ArenaType'
    BY <1>1, <1>7, <1>9 DEF Sound, Typed, ArenaType
  <2> QED BY <1>8, <2>1, MovesType
<1>11. used' = used /\ pc'[p] = "splitlink" /\ b'[p] = b[p] /\ x'[p] = x[p] /\ n'[p] = n[p] /\ r'[p] = r[p]
  BY <1>1, <1>8 DEF Moves
<1>12. ControlOf(p)'
  BY <1>2, <1>3, <1>7, <1>11 DEF ControlOf, Allocating
<1>13. /\ InHand(p)' = {a, nf} /\ Mine(p)' = {a, nf} /\ Piece(p)' = {nf}
       /\ Owned(p)' \subseteq Owned(p) \cup {nf}
  <2>1. Freed(p)' = Freed(p) /\ Freed(p) = {}
    BY <1>1, <1>11, NotFreed DEF Freed, Allocating
  <2>2. InHand(p)' = {a, nf} /\ Piece(p)' = {nf}
    BY <1>11 DEF InHand, Piece
  <2> QED BY <1>3, <1>11, <2>1, <2>2 DEF Mine, Owned
<1>14. FreeBlocks' = FreeBlocks
  BY <1>1 DEF FreeBlocks
<1> HIDE DEF a, nf
<1>15. Touch(p, {a, nf})
  BY <1>2, <1>4, <1>6, <1>7, <1>8, <1>11, <1>13, <1>14 DEF Touch, Moves
<1>16. Blocks' = Blocks \cup {nf} /\ Tiling' /\ Linked' /\ Listed'
  BY <1>1, <1>2, <1>3, <1>10, <1>12, <1>13, <1>15, SplitShape DEF nf
<1>17. \A c \in Blocks' : c # nf => free_bit'[c] = free_bit[c]
  BY <1>9, <1>16, BlockAt
<1>18. free_bit'[a] <=> a \in FreeBlocks'
  BY <1>4, <1>6, <1>9, <1>14 DEF Sound, Marked
<1>19. Owned(p)' \cap FreeBlocks' = {}
  BY <1>6, <1>13, <1>14 DEF Sound, Ownership
<1>20. b'[p] # Null => b'[p] # r'[p] /\ b'[p] \notin InHand(p)'
  <2>1. b[p] # Null => b[p] # nf
    BY <1>2, <1>6
  <2> QED BY <1>2, <1>5, <1>11, <1>13, <2>1
<1> QED BY <1>5, <1>6, <1>9, <1>10, <1>11, <1>12, <1>13, <1>14, <1>15, <1>16, <1>17, <1>18, <1>19, <1>20, Step

(* arealloc keeps a block and splits off what is too much.                 *)
LEMMA KeepSplitStep ==
  ASSUME Sound, NEW p \in Procs, Keep(p), n[p] # SizeOf(b[p]) PROVE Sound'
<1> DEFINE a == b[p]
           nf == a + n[p]
<1>1. /\ pc[p] = "grow" /\ SplitAt(a, n[p]) /\ n[p] <= SizeOf(a)
      /\ free_bit' \in Junk([free_bit EXCEPT ![nf] = FALSE], a, n[p])
      /\ used' = [used EXCEPT ![a] = n[p]]
      /\ b' = [b EXCEPT ![p] = nf] /\ r' = [r EXCEPT ![p] = a] /\ n' = [n EXCEPT ![p] = 0]
      /\ Go(p, "keeplink") /\ UNCHANGED <<lists, pool, size, lock, x, i>>
  BY DEF Keep
<1>2. /\ a # Null /\ a # 0 /\ a \in Owned(p) /\ a \in Blocks /\ a \in Addresses
      /\ a # r[p] /\ a \notin FreeBlocks /\ InHand(p) = {} /\ Piece(p) = {}
      /\ \A q \in Procs \ {p} : a \notin Owned(q)
  BY <1>1, Working, OwnBlock DEF Piece
<1>3. n[p] \in Nat \ {0} /\ n[p] \in 0 .. MaxSize /\ used[a] > 0
  <2>1. n[p] > 0 /\ n[p] \in 0 .. MaxUser /\ used[a] > 0
    BY <1>1 DEF Sound, Typed, Control, ControlOf
  <2> QED BY <2>1, MemoryAssumption
<1>4. nf < next_block[a]
  <2>1. next_block[a] \in Addresses
    BY <1>2, BlockAt
  <2>2. n[p] <= next_block[a] - a /\ n[p] # next_block[a] - a
    BY <1>1 DEF SizeOf
  <2>3. a \in Nat /\ next_block[a] \in Nat
    BY <1>2, <2>1 DEF Addresses
  <2> QED BY <1>3, <2>2, <2>3
<1>5. Mine(p) = {}
  <2>1. used[a] # 0
    BY <1>2, <1>3 DEF Sound, Typed
  <2> QED BY <1>2, <2>1 DEF Mine, Freed
<1>6. /\ nf \in Addresses /\ nf \notin Blocks /\ nf # 0 /\ used[nf] = 0 /\ nf # Null
      /\ nf \notin FreeBlocks /\ a # nf /\ \A q \in Procs : nf \notin Owned(q)
  BY <1>2, <1>3, <1>4, NewPiece
<1>7. /\ next_block' \in [Addresses -> Addresses \cup {Null}]
      /\ prev_block' \in [Addresses -> Addresses \cup {Null}]
      /\ next_block'[a] = nf /\ next_block'[nf] = next_block[a]
      /\ \A c \in Addresses \ {a, nf} : next_block'[c] = next_block[c]
  BY <1>1, <1>2, <1>6, SplitAtLinks DEF Sound
<1> HIDE DEF nf
<1>8. Moves(p, "keeplink", nf, x[p], 0, i[p], a)
  BY <1>1, <1>2, <1>6, MemoryAssumption DEF Sound, Typed, Moves, Go, Places
<1>9. /\ free_bit' \in [Addresses -> BOOLEAN]
      /\ \A c \in Addresses \ {nf} : ~(a < c /\ c < nf) => free_bit'[c] = free_bit[c]
      /\ free_bit'[nf] = FALSE
  <2> DEFINE f == [free_bit EXCEPT ![nf] = FALSE]
  <2>1. f \in [Addresses -> BOOLEAN] /\ f[nf] = FALSE /\ \A c \in Addresses \ {nf} : f[c] = free_bit[c]
    BY <1>6 DEF Sound, Typed
  <2>2. free_bit' \in Junk(f, a, n[p])
    BY <1>1
  <2> HIDE DEF f
  <2>3. /\ free_bit' \in [Addresses -> BOOLEAN]
        /\ \A c \in Addresses : ~(a < c /\ c < nf) => free_bit'[c] = f[c]
    BY <1>2, <2>1, <2>2, JunkOutside DEF nf
  <2>4. ~(nf < nf)
    BY <1>6 DEF Addresses
  <2> QED BY <1>6, <2>1, <2>3, <2>4
<1>10. /\ used' \in [Addresses -> 0 .. MaxSize] /\ used'[a] = n[p]
       /\ \A c \in Addresses \ {a} : used'[c] = used[c]
  BY <1>1, <1>2, <1>3 DEF Sound, Typed
<1>11. Typed'
  <2>1. ArenaType'
    BY <1>1, <1>7, <1>9, <1>10 DEF Sound, Typed, ArenaType
  <2> QED BY <1>8, <2>1, MovesType
<1>12. pc'[p] = "keeplink" /\ b'[p] = nf /\ n'[p] = 0 /\ r'[p] = a /\ used'[nf] = 0 /\ used'[a] > 0
  BY <1>3, <1>6, <1>8, <1>10 DEF Moves
<1>13. ControlOf(p)'
  BY <1>6, <1>12 DEF ControlOf, Allocating
<1>14. /\ InHand(p)' = {} /\ Mine(p)' = {nf} /\ Piece(p)' = {nf}
       /\ Owned(p)' \subseteq {nf, a}
  <2>1. Freed(p)' = {nf}
    BY <1>6, <1>12 DEF Freed
  <2>2. InHand(p)' = {} /\ Piece(p)' = {nf}
    BY <1>12 DEF InHand, Piece
  <2> QED BY <1>12, <2>1, <2>2 DEF Mine, Owned
<1>15. FreeBlocks' = FreeBlocks
  BY <1>1 DEF FreeBlocks
<1> HIDE DEF a
<1>16. Touch(p, {a, nf})
  BY <1>2, <1>5, <1>6, <1>7, <1>8, <1>10, <1>14, <1>15 DEF Touch, Moves
<1>17. Blocks' = Blocks \cup {nf} /\ Tiling' /\ Linked' /\ Listed'
  BY <1>1, <1>2, <1>3, <1>4, <1>11, <1>12, <1>13, <1>14, <1>16, SplitShape DEF nf
<1>18. ASSUME NEW c \in Blocks', c # nf PROVE free_bit'[c] = free_bit[c]
  <2>1. c \in Blocks /\ c \in Addresses /\ next_block[a] \in Addresses
    BY <1>2, <1>17, <1>18, BlockAt
  <2>2. a < c => next_block[a] <= c
    BY <1>2, <2>1, MemoryAssumption, Inside DEF Sound, Typed, Tiling
  <2>3. ~(a < c /\ c < nf)
    BY <1>2, <1>4, <1>6, <2>1, <2>2 DEF Addresses
  <2> QED BY <1>9, <1>18, <2>1, <2>3
<1>19. free_bit'[a] <=> a \in FreeBlocks'
  BY <1>2, <1>6, <1>15, <1>17, <1>18 DEF Sound, Marked
<1>20. Owned(p)' \cap FreeBlocks' = {}
  BY <1>2, <1>6, <1>14, <1>15
<1>21. \A c \in {a, nf} : used'[c] > 0 => c + used'[c] <= next_block'[c]
  <2>1. a + used'[a] <= next_block'[a]
    BY <1>2, <1>3, <1>7, <1>10 DEF nf, Addresses
  <2>2. ~(used'[nf] > 0)
    BY <1>12
  <2> QED BY <2>1, <2>2
<1>22. b'[p] # r'[p] /\ b'[p] \notin InHand(p)'
  BY <1>6, <1>12, <1>14
<1> QED BY <1>2, <1>6, <1>9, <1>11, <1>13, <1>14, <1>15, <1>16, <1>17, <1>18, <1>19, <1>20, <1>21, <1>22, Step

(* split gives the piece away, and amalloc returns the rest.               *)
LEMMA SplitFreeStep ==
  ASSUME Sound, NEW p \in Procs, SplitFree(p) PROVE Sound'
<1> DEFINE a == x[p]
           nf == a + n[p]
           f == [free_bit EXCEPT ![nf] = TRUE]
<1>1. /\ pc[p] = "splitfree" /\ lists' = [lists EXCEPT ![SizeOf(nf)] = <<nf>> \o @]
      /\ Return(p, a, f)
      /\ UNCHANGED <<next_block, prev_block, pool, size, lock>>
  BY DEF SplitFree
<1>2. /\ InHand(p) = {a, nf} /\ Piece(p) = {} /\ Mine(p) = {a, nf}
      /\ a \in Owned(p) /\ nf \in Owned(p)
      /\ n[p] \in Nat \ {0} /\ pc[p] \in Allocating
      /\ b[p] # Null => b[p] \in Owned(p) /\ b[p] \in Addresses
  BY <1>1, NotFreed DEF Owned, InHand, Piece, Allocating, Sizes
<1>3. next_block[a] = nf
  BY <1>1 DEF Sound, Control, ControlOf
<1>4. /\ a \in Blocks /\ a \in Addresses /\ a # 0 /\ a \notin FreeBlocks
      /\ nf \in Blocks /\ nf \in Addresses /\ nf # 0 /\ nf \notin FreeBlocks
      /\ \A q \in Procs \ {p} : a \notin Owned(q) /\ nf \notin Owned(q)
  BY <1>2, OwnBlock
<1>5. a # nf /\ ~(nf < nf)
  BY <1>2, <1>4 DEF Addresses
<1>6. used[a] = 0 /\ used[nf] = 0 /\ b[p] # a /\ b[p] # nf
  BY <1>2, <1>4 DEF Sound, Ownership, Addresses, Null
<1>7. SizeOf(nf) \in Sizes /\ next_block[nf] = nf + SizeOf(nf)
  <2> HIDE DEF nf
  <2>1. next_block[nf] \in Addresses /\ nf < next_block[nf]
    BY <1>4, BlockAt
  <2> QED BY <1>4, <2>1, MemoryAssumption DEF SizeOf, Sizes, Addresses
<1>8. f \in [Addresses -> BOOLEAN] /\ f[nf] = TRUE /\ \A c \in Addresses \ {nf} : f[c] = free_bit[c]
  BY <1>4 DEF Sound, Typed
<1> HIDE DEF f
<1>9. Returned(p, a, f)
  BY <1>1, <1>2, <1>4, <1>6, <1>8, ReturnHands
<1> HIDE DEF nf
<1>10. lists' \in [Sizes -> Seq(Addresses)] /\ FreeBlocks' = FreeBlocks \cup {nf} /\ Listed'
  BY <1>1, <1>4, <1>7, PutOn DEF Sound
<1>11. Typed'
  <2>1. ArenaType'
    BY <1>1, <1>9, <1>10 DEF Sound, Typed, ArenaType, Returned
  <2> QED BY <1>9, <2>1 DEF Returned
<1> HIDE DEF a
<1>12. Touch(p, {a, nf})
  <2>1. \A c \in Addresses \ {a, nf} : next_block'[c] = next_block[c] /\ used'[c] = used[c]
    BY <1>1, <1>9 DEF Returned
  <2>2. Owned(p)' \subseteq Owned(p) \cup {a, nf} /\ Mine(p)' = {}
    BY <1>2, <1>9 DEF Returned
  <2> QED BY <1>2, <1>4, <1>9, <1>10, <2>1, <2>2 DEF Touch, Returned
<1>13. ControlOf(p)' /\ Mine(p)' = {} /\ InHand(p)' = {} /\ Piece(p)' = {} /\ used'[a] > 0 /\ used'[nf] = 0
  BY <1>2, <1>4, <1>5, <1>6, <1>9 DEF Returned
<1>14. Tiling' /\ Linked' /\ Blocks' = Blocks
  BY <1>1, <1>2, <1>4, <1>10, <1>11, <1>12, <1>13, SameBlocks
<1>15. ASSUME NEW c \in Blocks', c # a PROVE free_bit'[c] = f[c]
  <2>1. c \in Blocks /\ c \in Addresses
    BY <1>14, BlockAt
  <2>2. a < c => next_block[a] <= c
    BY <1>4, <2>1, MemoryAssumption, Inside DEF Sound, Typed, Tiling
  <2>3. ~(a < c /\ c < nf)
    BY <1>3, <1>4, <2>1, <2>2 DEF Addresses
  <2>4. ~(a < c /\ c < a + n[p])
    BY <2>3 DEF nf
  <2> QED BY <1>9, <1>15, <2>1, <2>4 DEF Returned
<1>16. \A c \in Blocks' \ {a, nf} : free_bit'[c] = free_bit[c]
  BY <1>8, <1>14, <1>15, BlockAt
<1>17. free_bit'[nf] = TRUE /\ free_bit'[a] = FALSE
  BY <1>4, <1>5, <1>8, <1>9, <1>14, <1>15 DEF Returned
<1>18. Owned(p)' \cap FreeBlocks' = {}
  BY <1>2, <1>4, <1>5, <1>6, <1>9, <1>10 DEF Sound, Ownership, Returned
<1>19. \A c \in {a, nf} : used'[c] > 0 => c + used'[c] <= next_block'[c]
  <2>1. a + used'[a] <= next_block'[a]
    BY <1>1, <1>2, <1>3, <1>4, <1>9 DEF nf, Addresses, Returned
  <2>2. ~(used'[nf] > 0)
    BY <1>13
  <2> QED BY <2>1, <2>2
<1>20. b'[p] # Null => b'[p] # r'[p] /\ b'[p] \notin InHand(p)'
  BY <1>9, <1>13 DEF Returned
<1>21. \A c \in {a, nf} \cap FreeBlocks' : used'[c] = 0
  BY <1>4, <1>5, <1>10, <1>13
<1>22. \A c \in {a, nf} : free_bit'[c] <=> c \in FreeBlocks'
  BY <1>4, <1>5, <1>10, <1>17
<1> QED BY <1>10, <1>11, <1>12, <1>13, <1>14, <1>16, <1>18, <1>19, <1>20, <1>21, <1>22, Step

(* The arena when block c swallows the next one, d.                        *)
LEMMA MergeShape ==
  ASSUME Sound, Typed', NEW p \in Procs, NEW c \in Blocks, NEW d \in Blocks,
         next_block[c] = d, c \notin Pieces, next_block'[c] = next_block[d],
         Relinked(prev_block, prev_block', next_block[d], c),
         UNCHANGED <<pool, size>>, Touch(p, {c, d}), ControlOf(p)',
         Piece(p) = {}, Piece(p)' = {}, used'[c] > 0 \/ c \in Mine(p)',
         used'[d] = 0, d \notin FreeBlocks', d \notin Mine(p)'
  PROVE  Blocks' = Blocks \ {d} /\ Tiling' /\ Linked' /\ c # d
<1>1. Control'
  BY Others DEF Sound, Control
<1>2. c \in Addresses /\ d \in Addresses /\ c < d /\ c # pool /\ d # pool
  BY BlockAt
<1>3. Blocks' = Blocks \ {d}
  <2>1. /\ \A a : a \notin {c, d} => (a \in Blocks' <=> a \in Blocks)
        /\ \A a \in {c, d} : a \in Blocks' <=> used'[a] > 0 \/ a \in FreeBlocks' \/ a \in Mine(p)'
    BY <1>1, BlocksStep DEF Sound
  <2>2. c \in Blocks' /\ d \notin Blocks' /\ c # d
    BY <1>2, <2>1 DEF Addresses
  <2>3. \A a : a \in Blocks' <=> a \in Blocks \ {d}
    BY <2>1, <2>2
  <2> QED BY <2>3
<1>4. Pieces' = Pieces
  <2>1. Pieces' = (Pieces \ Piece(p)) \cup Piece(p)'
    BY PiecesStep DEF Sound
  <2> QED BY <2>1
<1>5. /\ MaxSize \in Nat /\ pool \in Addresses /\ Tiled(Blocks, next_block, pool)
      /\ Chained(Blocks, next_block, prev_block, Pieces)
      /\ 0 < pool /\ pool <= size /\ next_block[pool] = Null
  BY MemoryAssumption DEF Sound, Typed, Tiling, Linked
<1>6. \A a \in Addresses \ {c, d} : next_block'[a] = next_block[a]
  BY DEF Touch
<1>7. \A a \in Blocks \ {c, d} : next_block'[a] = next_block[a]
  BY <1>6, BlockAt
<1>8. Tiled(Blocks \ {d}, next_block', pool) /\ c # d
  BY <1>5, <1>7, TilingMerge
<1>9. Chained(Blocks \ {d}, next_block', prev_block', Pieces)
  BY <1>5, <1>7, ChainMerge
<1>10. next_block'[pool] = Null
  BY <1>2, <1>5, <1>6
<1>11. Tiling'
  BY <1>3, <1>5, <1>8, <1>10 DEF Tiling
<1>12. Linked'
  BY <1>3, <1>4, <1>9 DEF Linked
<1> QED BY <1>3, <1>8, <1>11, <1>12

(* A list contains what it has.                                            *)
LEMMA ContainsSet ==
  ASSUME NEW S, NEW s \in Seq(S), NEW a, Contains(s, a) PROVE a \in ToSet(s)
BY LenProperties DEF Contains, ToSet

(* A block is on no other list than the one it is found on.                *)
LEMMA UnlistedOne ==
  ASSUME Typed, Listed, NEW s \in Sizes, NEW a \in ToSet(lists[s])
  PROVE  Unlisted(a) = [lists EXCEPT ![s] = RemoveFirst(lists[s], a)]
<1>1. ASSUME NEW u \in Sizes \ {s} PROVE RemoveFirst(lists[u], a) = lists[u]
  <2>1. a \notin ToSet(lists[u])
    <3> SUFFICES ASSUME a \in ToSet(lists[u]) PROVE FALSE
      OBVIOUS
    <3>1. next_block[a] = a + s /\ next_block[a] = a + u
      BY DEF Listed
    <3>2. a \in Addresses
      <4>1. lists[s] \in Seq(Addresses)
        BY DEF Typed
      <4>2. PICK k \in DOMAIN lists[s] : lists[s][k] = a
        BY DEF ToSet
      <4> QED BY <4>1, <4>2, LenProperties, ElementOfSeq
    <3> QED BY <3>1, <3>2 DEF Addresses, Sizes
  <2>2. lists[u] \in Seq(Addresses)
    BY DEF Typed
  <2>3. ~ \E j \in 1..Len(lists[u]) : lists[u][j] = a
    BY <2>1, <2>2, LenProperties DEF ToSet
  <2> QED BY <2>3 DEF RemoveFirst
<1> QED BY <1>1 DEF Unlisted, Typed

(* mergeprev: the previous block swallows this one.                        *)
LEMMA MergePrevDoStep ==
  ASSUME Sound, NEW p \in Procs, MergePrevDo(p), free_bit[x[p]], LockedRight(p)
  PROVE  Sound'
<1> DEFINE c == x[p]
           d == b[p]
<1>0. i[p] \in Sizes /\ Contains(lists[i[p]], c)
  BY DEF LockedRight
<1>1. /\ pc[p] = "prevcheck" /\ lists' = Unlisted(c)
      /\ next_block' = [next_block EXCEPT ![c] = next_block[d]]
      /\ free_bit' = [free_bit EXCEPT ![c] = FALSE]
      /\ prev_block' = [prev_block EXCEPT ![next_block[d]] = c]
      /\ b' = [b EXCEPT ![p] = c]
      /\ Go(p, "mergepool") /\ Unlock(p)
      /\ UNCHANGED <<x, n, i, r, pool, size, used>>
  BY DEF MergePrevDo
<1>2. /\ d # Null /\ d # 0 /\ d \in Owned(p) /\ d \in Blocks /\ d \in Addresses
      /\ d # r[p] /\ d \notin FreeBlocks /\ InHand(p) = {} /\ Piece(p) = {}
      /\ r[p] # Null => used[r[p]] > 0
      /\ \A q \in Procs \ {p} : d \notin Owned(q)
  BY <1>1, Working, OwnBlock DEF Piece
<1>3. /\ n[p] = 0 /\ used[d] = 0 /\ c # Null /\ c < d /\ i[p] = d - c /\ c \in Addresses
  BY <1>1 DEF Sound, Typed, Control, ControlOf
<1>4. i[p] \in Sizes /\ c + i[p] = d
  BY <1>2, <1>3, MemoryAssumption DEF Addresses, Sizes
<1>5. lists[i[p]] \in Seq(Addresses) /\ IsInjective(lists[i[p]])
  BY <1>4 DEF Sound, Typed, Listed
<1>6. c \in ToSet(lists[i[p]])
  BY <1>0, <1>5, ContainsSet
<1> DEFINE t == RemoveFirst(lists[i[p]], c)
<1>7. t \in Seq(Addresses) /\ IsInjective(t) /\ ToSet(t) = ToSet(lists[i[p]]) \ {c}
  BY <1>5, RemoveFirstSet
<1>8. lists' = [lists EXCEPT ![i[p]] = t]
  BY <1>1, <1>4, <1>6, UnlistedOne DEF Sound
<1> HIDE DEF t, c, d
<1>9. next_block[c] = d
  BY <1>4, <1>6 DEF Sound, Listed
<1>10. c \in FreeBlocks /\ c \in Blocks
  <2>1. c \in FreeBlocks
    BY <1>4, <1>6 DEF FreeBlocks
  <2> QED BY <2>1, BlocksType DEF Sound
<1>11. c # 0 /\ used[c] = 0 /\ c \notin Pieces /\ c # r[p] /\ \A q \in Procs : c \notin Owned(q)
  <2>1. \A q \in Procs : c \notin Owned(q)
    BY <1>10 DEF Sound, Ownership
  <2>2. c \notin Pieces
    BY <2>1, BlocksType DEF Sound, Pieces
  <2>3. c # r[p]
    BY <1>3, <2>1 DEF Owned
  <2> QED BY <1>10, <2>1, <2>2, <2>3 DEF Sound, Ownership
<1>12. next_block[d] \in Addresses /\ c # d
  BY <1>2, <1>3, BlockAt DEF Addresses
<1>13. /\ next_block' \in [Addresses -> Addresses \cup {Null}] /\ next_block'[c] = next_block[d]
       /\ \A a \in Addresses \ {c} : next_block'[a] = next_block[a]
  BY <1>1, <1>3, <1>12 DEF Sound, Typed
<1>14. /\ prev_block' \in [Addresses -> Addresses \cup {Null}]
       /\ Relinked(prev_block, prev_block', next_block[d], c)
  BY <1>1, <1>3, <1>12 DEF Sound, Typed, Relinked
<1>15. /\ free_bit' \in [Addresses -> BOOLEAN] /\ free_bit'[c] = FALSE
       /\ \A a \in Addresses \ {c} : free_bit'[a] = free_bit[a]
  BY <1>1, <1>3 DEF Sound, Typed
<1>16. \A a \in FreeBlocks \ {c} : next_block'[a] = next_block[a]
  BY <1>13, BlocksType DEF Sound
<1>17. lists' \in [Sizes -> Seq(Addresses)] /\ FreeBlocks' = FreeBlocks \ {c} /\ Listed'
  BY <1>4, <1>6, <1>7, <1>8, <1>16, TakeOff DEF Sound
<1>18. Moves(p, "mergepool", c, x[p], n[p], i[p], r[p])
  BY <1>1, <1>3 DEF Sound, Typed, Moves, Go, Places
<1>19. Typed'
  <2>1. lock' \in [Locks -> Procs \cup {Null}]
    BY <1>1, UnlockType DEF Sound
  <2>2. ArenaType'
    BY <1>1, <1>13, <1>14, <1>15, <1>17, <2>1 DEF Sound, Typed, ArenaType
  <2> QED BY <1>18, <2>2, MovesType
<1>20. pc'[p] = "mergepool" /\ b'[p] = c /\ n'[p] = 0 /\ r'[p] = r[p] /\ used' = used
  BY <1>1, <1>3, <1>18 DEF Moves
<1>21. ControlOf(p)'
  BY <1>2, <1>3, <1>11, <1>20 DEF ControlOf, Allocating
<1>22. /\ InHand(p)' = {} /\ Mine(p)' = {c} /\ Piece(p)' = {} /\ Mine(p) \subseteq {d}
       /\ Owned(p)' \subseteq Owned(p) \cup {c}
  <2>1. Freed(p)' = {c} /\ Freed(p) \subseteq {d}
    BY <1>3, <1>11, <1>20 DEF Freed, d
  <2>2. InHand(p)' = {} /\ Piece(p)' = {}
    BY <1>20 DEF InHand, Piece
  <2> QED BY <1>2, <1>20, <2>1, <2>2 DEF Mine, Owned
<1>23. Touch(p, {c, d})
  <2>1. \A a \in Addresses \ {c, d} : next_block'[a] = next_block[a] /\ used'[a] = used[a]
    BY <1>13, <1>20
  <2>2. FreeBlocks' \ {c, d} = FreeBlocks \ {c, d} /\ Mine(p)' \ {c, d} = Mine(p) \ {c, d}
    BY <1>17, <1>22
  <2> QED BY <1>2, <1>3, <1>11, <1>18, <1>22, <2>1, <2>2 DEF Touch, Moves
<1>24. Blocks' = Blocks \ {d} /\ Tiling' /\ Linked'
  <2>1. used'[d] = 0 /\ d \notin FreeBlocks' /\ d \notin Mine(p)'
    BY <1>2, <1>3, <1>12, <1>17, <1>20, <1>22
  <2>2. UNCHANGED <<pool, size>> /\ c \in Mine(p)'
    BY <1>1, <1>22
  <2> QED BY <1>2, <1>9, <1>10, <1>11, <1>13, <1>14, <1>19, <1>21, <1>22, <1>23, <2>1, <2>2, MergeShape
<1>25. \A a \in Blocks' : a # c => free_bit'[a] = free_bit[a]
  BY <1>15, <1>24, BlockAt
<1>26. Owned(p)' \cap FreeBlocks' = {}
  BY <1>17, <1>22 DEF Sound, Ownership
<1>27. b'[p] # Null => b'[p] # r'[p] /\ b'[p] \notin InHand(p)'
  BY <1>11, <1>20, <1>22
<1>28. \A a \in {c, d} : used'[a] = 0
  BY <1>3, <1>11, <1>20
<1>29. \A a \in Blocks' \cap {c, d} : free_bit'[a] <=> a \in FreeBlocks'
  BY <1>15, <1>17, <1>24
<1>30. \A a \in Blocks' \ {c, d} : free_bit'[a] = free_bit[a]
  BY <1>25
<1>31. \A a \in {c, d} : ~(used'[a] > 0)
  BY <1>28
<1> QED BY <1>17, <1>19, <1>21, <1>22, <1>23, <1>24, <1>26, <1>27, <1>28, <1>29, <1>30, <1>31, Step

(* mergenext: the block swallows the next one.                             *)
LEMMA MergeNextDoStep ==
  ASSUME Sound, NEW p \in Procs, MergeNextDo(p), free_bit[x[p]], LockedRight(p)
  PROVE  Sound'
<1> DEFINE c == b[p]
           d == x[p]
<1>0. i[p] \in Sizes /\ Contains(lists[i[p]], d)
  BY DEF LockedRight
<1>1. /\ pc[p] = "nextcheck" /\ lists' = Unlisted(d)
      /\ prev_block' = [a \in Addresses |-> IF a = d + i[p] THEN c ELSE prev_block[a]]
      /\ next_block' = [next_block EXCEPT ![c] = d + i[p]]
      /\ AfterNext(p) /\ Unlock(p)
      /\ UNCHANGED <<free_bit, hand, pool, size, used>>
  <2>1. Nn(p) = d + i[p]
    BY <1>0, MemoryAssumption DEF Nn, NullList, Sizes
  <2> QED BY <2>1 DEF MergeNextDo, ToldNext
<1>2. /\ c # Null /\ c # 0 /\ c \in Owned(p) /\ c \in Blocks /\ c \in Addresses
      /\ c # r[p] /\ c \notin FreeBlocks /\ InHand(p) = {} /\ Piece(p) = {}
      /\ r[p] # Null => used[r[p]] > 0
      /\ c \notin Pieces /\ \A q \in Procs \ {p} : c \notin Owned(q)
  BY <1>1, Working, OwnBlock DEF Piece
<1>3. /\ d = next_block[c] /\ i[p] \in Sizes /\ n[p] \in Nat
      /\ IF n[p] > 0 THEN used[c] > 0 /\ r[p] = Null ELSE used[c] = 0
  BY <1>0, <1>1, MemoryAssumption DEF Sound, Typed, Control, ControlOf
<1>4. lists[i[p]] \in Seq(Addresses) /\ IsInjective(lists[i[p]])
  BY <1>3 DEF Sound, Typed, Listed
<1>5. d \in ToSet(lists[i[p]])
  BY <1>0, <1>4, ContainsSet
<1> DEFINE t == RemoveFirst(lists[i[p]], d)
<1>6. t \in Seq(Addresses) /\ IsInjective(t) /\ ToSet(t) = ToSet(lists[i[p]]) \ {d}
  BY <1>4, RemoveFirstSet
<1>7. lists' = [lists EXCEPT ![i[p]] = t]
  BY <1>1, <1>3, <1>5, UnlistedOne DEF Sound
<1> HIDE DEF t, c, d
<1>8. next_block[d] = d + i[p]
  BY <1>3, <1>5 DEF Sound, Listed
<1>9. d \in FreeBlocks /\ d \in Blocks
  <2>1. d \in FreeBlocks
    BY <1>3, <1>5 DEF FreeBlocks
  <2> QED BY <2>1, BlocksType DEF Sound
<1>10. d # 0 /\ used[d] = 0 /\ \A q \in Procs : d \notin Owned(q)
  BY <1>9 DEF Sound, Ownership
<1>11. d \in Addresses /\ next_block[d] \in Addresses /\ c # d
  BY <1>2, <1>9, BlockAt
<1>12. /\ next_block' \in [Addresses -> Addresses \cup {Null}] /\ next_block'[c] = next_block[d]
       /\ \A a \in Addresses \ {c} : next_block'[a] = next_block[a]
  BY <1>1, <1>2, <1>8, <1>11 DEF Sound, Typed
<1>13. /\ prev_block' \in [Addresses -> Addresses \cup {Null}]
       /\ Relinked(prev_block, prev_block', next_block[d], c)
  BY <1>1, <1>2, <1>8, <1>11 DEF Sound, Typed, Relinked
<1>14. \A a \in FreeBlocks \ {d} : next_block'[a] = next_block[a]
  BY <1>2, <1>12, BlocksType DEF Sound
<1>15. lists' \in [Sizes -> Seq(Addresses)] /\ FreeBlocks' = FreeBlocks \ {d} /\ Listed'
  BY <1>3, <1>5, <1>6, <1>7, <1>14, TakeOff DEF Sound
<1>16. PICK w \in {"grow", "insert"} :
         Go(p, w) /\ (w = "grow" => n[p] > 0) /\ (w = "insert" => n[p] = 0)
  BY <1>1, <1>3 DEF AfterNext
<1>17. Moves(p, w, c, x[p], n[p], i[p], r[p])
  BY <1>1, <1>16 DEF Sound, Typed, Moves, Go, Places, hand, c
<1>18. Typed'
  <2>1. lock' \in [Locks -> Procs \cup {Null}]
    BY <1>1, UnlockType DEF Sound
  <2>2. ArenaType'
    BY <1>1, <1>12, <1>13, <1>15, <2>1 DEF Sound, Typed, ArenaType
  <2> QED BY <1>17, <2>2, MovesType
<1>19. pc'[p] = w /\ b'[p] = c /\ n'[p] = n[p] /\ r'[p] = r[p] /\ used' = used /\ b[p] = c
  BY <1>1, <1>17 DEF Moves, c
<1>20. ControlOf(p)'
  BY <1>2, <1>3, <1>16, <1>19 DEF ControlOf, Allocating
<1>21. /\ InHand(p)' = {} /\ Mine(p)' = Mine(p) /\ Piece(p)' = {} /\ Mine(p) \subseteq {c}
       /\ Owned(p)' = Owned(p) /\ (used[c] = 0 => c \in Mine(p))
  <2>1. Freed(p)' = Freed(p) /\ Freed(p) \subseteq {c} /\ (used[c] = 0 => c \in Freed(p))
    BY <1>2, <1>19 DEF Freed
  <2>2. InHand(p)' = {} /\ Piece(p)' = {}
    BY <1>16, <1>19 DEF InHand, Piece
  <2> QED BY <1>2, <1>19, <2>1, <2>2 DEF Mine, Owned
<1>22. Touch(p, {c, d})
  <2>1. \A a \in Addresses \ {c, d} : next_block'[a] = next_block[a] /\ used'[a] = used[a]
    BY <1>12, <1>19
  <2>2. FreeBlocks' \ {c, d} = FreeBlocks \ {c, d} /\ Mine(p)' \ {c, d} = Mine(p) \ {c, d}
    BY <1>15, <1>21
  <2> QED BY <1>2, <1>10, <1>11, <1>17, <1>21, <2>1, <2>2 DEF Touch, Moves
<1>23. Blocks' = Blocks \ {d} /\ Tiling' /\ Linked'
  <2>1. used'[d] = 0 /\ d \notin FreeBlocks' /\ d \notin Mine(p)'
    BY <1>10, <1>11, <1>15, <1>19, <1>21
  <2>2. used'[c] > 0 \/ c \in Mine(p)'
    BY <1>3, <1>19, <1>21
  <2>3. UNCHANGED <<pool, size>>
    BY <1>1
  <2> QED BY <1>2, <1>3, <1>9, <1>12, <1>13, <1>18, <1>20, <1>21, <1>22, <2>1, <2>2, <2>3, MergeShape
<1>24. free_bit' = free_bit
  BY <1>1
<1>25. Owned(p)' \cap FreeBlocks' = {}
  BY <1>15, <1>21 DEF Sound, Ownership
<1>26. b'[p] # Null => b'[p] # r'[p] /\ b'[p] \notin InHand(p)'
  BY <1>2, <1>19, <1>21
<1>27. \A a \in {c, d} \cap FreeBlocks' : used'[a] = 0
  BY <1>10, <1>15, <1>19, <1>2
<1>28. \A a \in Blocks' \cap {c, d} : free_bit'[a] <=> a \in FreeBlocks'
  BY <1>2, <1>15, <1>23, <1>24 DEF Sound, Marked
<1>29. \A a \in {c, d} : used'[a] > 0 => a + used'[a] <= next_block'[a]
  <2>1. used[c] > 0 => c + used[c] <= next_block[c]
    BY <1>2 DEF Sound, Fitting, Used
  <2>2. next_block[c] \in Addresses /\ next_block[c] < next_block[d] /\ used[c] \in Nat
    BY <1>2, <1>3, <1>9, BlockAt DEF Sound, Typed
  <2>3. used[c] > 0 => c + used[c] <= next_block[d]
    BY <1>2, <1>11, <2>1, <2>2 DEF Addresses
  <2> QED BY <1>10, <1>12, <1>19, <2>3
<1> QED BY <1>15, <1>18, <1>20, <1>21, <1>22, <1>23, <1>24, <1>25, <1>26, <1>27, <1>28, <1>29, Step

(* A merge leaves types intact, whatever it takes off a list.              *)
LEMMA MergeTypes ==
  ASSUME Sound, NEW p \in Procs, MergePrevDo(p) \/ MergeNextDo(p)
  PROVE  Typed'
<1>1. b[p] \in Addresses /\ x[p] \in Addresses \cup {Null}
  BY Working DEF MergePrevDo, MergeNextDo, Sound, Typed
<1>2. lists' \in [Sizes -> Seq(Addresses)]
  <2>1. ASSUME NEW s \in Sizes PROVE RemoveFirst(lists[s], x[p]) \in Seq(Addresses)
    BY RemoveFirstSet DEF Sound, Typed, Listed
  <2>2. lists' \in {lists, Unlisted(x[p])}
    BY DEF MergePrevDo, MergeNextDo
  <2> QED BY <2>1, <2>2 DEF Unlisted, Sound, Typed
<1>3. lock' \in [Locks -> Procs \cup {Null}]
  BY UnlockType DEF MergePrevDo, MergeNextDo, Sound
<1>4. UNCHANGED <<x, n, i, r, pool, size, used>>
  BY DEF MergePrevDo, MergeNextDo, hand
<1>5. pc' \in [Procs -> Places]
  BY DEF MergePrevDo, MergeNextDo, AfterNext, Go, Places, Sound, Typed
<1>6. /\ next_block' \in [Addresses -> Addresses \cup {Null}]
      /\ prev_block' \in [Addresses -> Addresses \cup {Null}]
      /\ free_bit' \in [Addresses -> BOOLEAN] /\ b' \in [Procs -> Addresses \cup {Null}]
  <2>1. CASE MergePrevDo(p)
    <3>1. next_block[b[p]] \in Addresses \cup {Null}
      BY <1>1 DEF Sound, Typed
    <3>2. next_block' \in [Addresses -> Addresses \cup {Null}]
      BY <2>1, <3>1 DEF MergePrevDo, links, Sound, Typed
    <3>3. prev_block' \in [Addresses -> Addresses \cup {Null}]
      BY <1>1, <2>1 DEF MergePrevDo, links, Sound, Typed
    <3>4. free_bit' \in [Addresses -> BOOLEAN]
      BY <2>1 DEF MergePrevDo, links, Sound, Typed
    <3>5. b' \in [Procs -> Addresses \cup {Null}]
      BY <1>1, <2>1 DEF MergePrevDo, links, Sound, Typed
    <3> QED BY <3>2, <3>3, <3>4, <3>5
  <2>2. CASE MergeNextDo(p)
    <3>1. Nn(p) \in Addresses \cup {Null}
      BY <2>2 DEF MergeNextDo, Sound, Control, ControlOf
    <3>2. ToldNext(p) \in [Addresses -> Addresses \cup {Null}]
      BY <1>1 DEF ToldNext, Sound, Typed
    <3> QED BY <2>2, <3>1, <3>2 DEF MergeNextDo, hand, Sound, Typed
  <2> QED BY <2>1, <2>2
<1> QED BY <1>2, <1>3, <1>4, <1>5, <1>6 DEF Sound, Typed

(* mergepool: the last block becomes the pool.                             *)
LEMMA MergePoolStep ==
  ASSUME Sound, NEW p \in Procs, MergePool(p), next_block[b[p]] = pool PROVE Sound'
<1> DEFINE d == b[p]
<1>1. /\ pc[p] = "mergepool" /\ pool' = d
      /\ next_block' = [next_block EXCEPT ![d] = Null]
      /\ Done(p)
      /\ UNCHANGED <<prev_block, free_bit, lists, size, lock, used>>
  BY DEF MergePool
<1>2. /\ d # Null /\ d # 0 /\ d \in Owned(p) /\ d \in Blocks /\ d \in Addresses
      /\ d \notin FreeBlocks /\ InHand(p) = {} /\ Piece(p) = {} /\ d \notin Pieces
      /\ \A q \in Procs \ {p} : d \notin Owned(q)
  BY <1>1, Working, OwnBlock DEF Piece
<1>3. used[d] = 0
  BY <1>1 DEF Sound, Control, ControlOf
<1>4. Moves(p, "idle", Null, Null, 0, 0, Null)
  BY <1>1, DoneStep DEF Sound
<1> HIDE DEF d
<1>5. /\ next_block' \in [Addresses -> Addresses \cup {Null}] /\ next_block'[d] = Null
      /\ \A c \in Addresses \ {d} : next_block'[c] = next_block[c]
  BY <1>1, <1>2 DEF Sound, Typed
<1>6. Typed'
  <2>1. ArenaType'
    BY <1>1, <1>2, <1>5 DEF Sound, Typed, ArenaType
  <2> QED BY <1>4, <2>1, MovesType
<1>7. pc'[p] = "idle" /\ b'[p] = Null /\ r'[p] = Null /\ used' = used
  BY <1>1, <1>4 DEF Moves
<1>8. ControlOf(p)'
  BY <1>4 DEF Moves, ControlOf, Allocating
<1>9. /\ InHand(p)' = {} /\ Mine(p)' = {} /\ Piece(p)' = {} /\ Owned(p)' = {}
      /\ Mine(p) \subseteq {d}
  <2>1. Freed(p)' = {} /\ Freed(p) \subseteq {d}
    BY <1>7 DEF Freed, d
  <2>2. InHand(p)' = {} /\ Piece(p)' = {}
    BY <1>7 DEF InHand, Piece
  <2> QED BY <1>2, <1>7, <2>1, <2>2 DEF Mine, Owned
<1>10. FreeBlocks' = FreeBlocks /\ Listed'
  <2>1. \A c \in FreeBlocks : next_block'[c] = next_block[c]
    BY <1>2, <1>5, BlocksType DEF Sound
  <2> QED BY <1>1, <2>1, SameLists DEF Sound
<1>11. Touch(p, {d})
  BY <1>2, <1>4, <1>5, <1>7, <1>9, <1>10 DEF Touch, Moves
<1>12. Blocks' = Blocks \ {d}
  <2>1. Control'
    BY <1>8, <1>11, Others DEF Sound, Control
  <2>2. /\ \A c : c \notin {d} => (c \in Blocks' <=> c \in Blocks)
        /\ \A c \in {d} : c \in Blocks' <=> used'[c] > 0 \/ c \in FreeBlocks' \/ c \in Mine(p)'
    BY <1>6, <1>11, <2>1, BlocksStep DEF Sound
  <2>3. d \notin Blocks'
    BY <1>2, <1>3, <1>7, <1>9, <1>10, <2>2
  <2>4. \A c : c \in Blocks' <=> c \in Blocks \ {d}
    BY <2>2, <2>3
  <2> QED BY <2>4
<1>13. Pieces' = Pieces
  <2>1. Pieces' = (Pieces \ Piece(p)) \cup Piece(p)'
    BY <1>11, PiecesStep DEF Sound
  <2> QED BY <1>2, <1>9, <2>1
<1>14. /\ MaxSize \in Nat /\ pool \in Addresses /\ Tiled(Blocks, next_block, pool)
       /\ Chained(Blocks, next_block, prev_block, Pieces) /\ pool <= size /\ size \in Addresses
  BY MemoryAssumption DEF Sound, Typed, Tiling, Linked
<1>15. next_block[d] = pool
  BY DEF d
<1>16. \A c \in Blocks \ {d} : next_block'[c] = next_block[c]
  BY <1>5, BlockAt
<1>17. Tiled(Blocks \ {d}, next_block', d)
  BY <1>2, <1>14, <1>15, <1>16, TilingShrink
<1>18. d < pool
  BY <1>2, BlockAt
<1>19. Tiling'
  <2>1. 0 < d /\ d <= size
    BY <1>2, <1>14, <1>18 DEF Addresses
  <2> QED BY <1>1, <1>5, <1>12, <1>17, <2>1 DEF Tiling
<1>20. Linked'
  <2>1. Chained(Blocks \ {d}, next_block', prev_block, Pieces)
    BY <1>14, <1>16 DEF Chained
  <2> QED BY <1>1, <1>12, <1>13, <2>1 DEF Linked
<1>21. \A c \in {d} : used'[c] = 0 /\ ~(used'[c] > 0)
  BY <1>3, <1>7
<1>22. \A c \in Blocks' \cap {d} : FALSE
  BY <1>12
<1>23. free_bit' = free_bit
  BY <1>1
<1> QED BY <1>6, <1>7, <1>8, <1>9, <1>10, <1>11, <1>19, <1>20, <1>21, <1>22, <1>23, Step

(* getpool chops a block off the pool.                                     *)
LEMMA GetPoolStep ==
  ASSUME Sound, NEW p \in Procs, GetPool(p), ~(pool + n[p] > MaxSize) PROVE Sound'
<1> DEFINE e == pool
           d == pool + n[p]
           f == [free_bit EXCEPT ![d] = FALSE]
<1>1. /\ pc[p] = "pool" /\ size' = IF d > size THEN d ELSE size
      /\ pool' = d
      /\ next_block' = [next_block EXCEPT ![e] = d, ![d] = Null]
      /\ prev_block' = [prev_block EXCEPT ![d] = e]
      /\ Return(p, e, f)
      /\ UNCHANGED <<lists, lock>>
  BY DEF GetPool
<1>2. /\ Mine(p) = {} /\ Piece(p) = {} /\ n[p] \in Nat \ {0} /\ pc[p] \in Allocating
      /\ b[p] # Null => b[p] \in Owned(p) /\ b[p] \in Addresses
  BY <1>1, NotFreed DEF InHand, Piece, Allocating, Sizes
<1>3. /\ MaxSize \in Nat /\ pool \in Addresses /\ Tiled(Blocks, next_block, pool)
      /\ Chained(Blocks, next_block, prev_block, Pieces)
      /\ 0 < pool /\ pool <= size /\ size \in Addresses
  BY MemoryAssumption DEF Sound, Typed, Tiling, Linked
<1>4. e \in Addresses /\ d \in Addresses /\ e < d /\ e # 0 /\ d # 0 /\ e # d
  BY <1>2, <1>3 DEF Addresses
<1>5. e \notin Blocks /\ d \notin Blocks
  BY <1>3, <1>4, BlockAt DEF Addresses
<1>6. /\ e \notin FreeBlocks /\ d \notin FreeBlocks /\ used[e] = 0 /\ used[d] = 0
      /\ e \notin Pieces /\ \A q \in Procs : e \notin Owned(q) /\ d \notin Owned(q)
  <2>1. used[e] \in Nat /\ used[d] \in Nat
    BY <1>4 DEF Sound, Typed
  <2>2. \A q \in Procs : Owned(q) \subseteq Blocks /\ Piece(q) \subseteq Blocks
    BY BlocksType DEF Sound
  <2> QED BY <1>4, <1>5, <2>1, <2>2 DEF Blocks, Used, Pieces
<1>7. e # b[p]
  BY <1>2, <1>4, <1>6 DEF Addresses, Null
<1>8. f \in [Addresses -> BOOLEAN] /\ f[d] = FALSE /\ \A c \in Addresses \ {d} : f[c] = free_bit[c]
  BY <1>4 DEF Sound, Typed
<1> HIDE DEF f
<1>9. Returned(p, e, f)
  BY <1>1, <1>2, <1>4, <1>7, <1>8, ReturnHands
<1>10. d = e + n[p] /\ pool = e
  OBVIOUS
<1> HIDE DEF d, e
<1>11. /\ next_block' \in [Addresses -> Addresses \cup {Null}]
       /\ next_block'[e] = d /\ next_block'[d] = Null
       /\ \A c \in Addresses \ {e, d} : next_block'[c] = next_block[c]
  BY <1>1, <1>4 DEF Sound, Typed
<1>12. /\ prev_block' \in [Addresses -> Addresses \cup {Null}]
       /\ Relinked(prev_block, prev_block', d, e)
  BY <1>1, <1>4 DEF Sound, Typed, Relinked
<1>13. Typed'
  <2>1. size' \in Addresses
    BY <1>1, <1>3, <1>4
  <2>2. ArenaType'
    BY <1>1, <1>4, <1>9, <1>11, <1>12, <2>1 DEF Sound, Typed, ArenaType, Returned
  <2> QED BY <1>9, <2>2 DEF Returned
<1>14. FreeBlocks' = FreeBlocks /\ Listed'
  <2>1. \A c \in FreeBlocks : next_block'[c] = next_block[c]
    BY <1>6, <1>11, BlocksType DEF Sound
  <2> QED BY <1>1, <2>1, SameLists DEF Sound
<1>15. Touch(p, {e, d})
  <2>1. \A c \in Addresses \ {e, d} : next_block'[c] = next_block[c] /\ used'[c] = used[c]
    BY <1>9, <1>11 DEF Returned
  <2>2. Owned(p)' \subseteq Owned(p) \cup {e, d} /\ Mine(p)' = {}
    BY <1>2, <1>9 DEF Returned
  <2> QED BY <1>2, <1>4, <1>6, <1>9, <1>14, <2>1, <2>2 DEF Touch, Returned
<1>16. ControlOf(p)' /\ Mine(p)' = {} /\ InHand(p)' = {} /\ Piece(p)' = {} /\ used'[e] > 0 /\ used'[d] = 0
  BY <1>2, <1>4, <1>6, <1>9 DEF Returned
<1>17. Blocks' = Blocks \cup {e}
  <2>1. Control'
    BY <1>15, <1>16, Others DEF Sound, Control
  <2>2. /\ \A c : c \notin {e, d} => (c \in Blocks' <=> c \in Blocks)
        /\ \A c \in {e, d} : c \in Blocks' <=> used'[c] > 0 \/ c \in FreeBlocks' \/ c \in Mine(p)'
    BY <1>13, <1>15, <2>1, BlocksStep DEF Sound
  <2>3. e \in Blocks' /\ d \notin Blocks'
    BY <1>6, <1>14, <1>16, <2>2
  <2>4. \A c : c \in Blocks' <=> c \in Blocks \cup {e}
    BY <1>5, <2>2, <2>3
  <2> QED BY <2>4
<1>18. Pieces' = Pieces
  <2>1. Pieces' = (Pieces \ Piece(p)) \cup Piece(p)'
    BY <1>15, PiecesStep DEF Sound
  <2> QED BY <1>2, <1>16, <2>1
<1>19. \A c \in Blocks : next_block'[c] = next_block[c]
  BY <1>5, <1>11, BlockAt
<1>20. Tiled(Blocks \cup {e}, next_block', d)
  BY <1>3, <1>4, <1>10, <1>11, <1>19, TilingGrow
<1>21. Tiling'
  <2>1. 0 < d /\ d <= size'
    BY <1>1, <1>3, <1>4 DEF Addresses
  <2> QED BY <1>1, <1>11, <1>17, <1>20, <2>1 DEF Tiling
<1>22. Linked'
  <2>1. Chained(Blocks \cup {e}, next_block', prev_block', Pieces)
    BY <1>3, <1>4, <1>6, <1>10, <1>11, <1>12, <1>19, ChainGrow
  <2> QED BY <1>17, <1>18, <2>1 DEF Linked
<1>23. ASSUME NEW c \in Blocks', c # e PROVE free_bit'[c] = free_bit[c]
  <2>1. c \in Blocks /\ c \in Addresses /\ c < e
    BY <1>10, <1>17, <1>23, BlockAt
  <2>2. ~(e < c) /\ c # d
    BY <1>4, <1>5, <2>1 DEF Addresses
  <2> QED BY <1>8, <1>9, <1>23, <2>1, <2>2 DEF Returned
<1>24. free_bit'[e] = FALSE
  BY <1>9 DEF Returned
<1>25. Owned(p)' \cap FreeBlocks' = {}
  BY <1>2, <1>6, <1>9, <1>14 DEF Sound, Ownership, Returned
<1>26. \A c \in {e, d} : used'[c] > 0 => c + used'[c] <= next_block'[c]
  <2>1. e + used'[e] <= next_block'[e]
    BY <1>2, <1>4, <1>9, <1>10, <1>11 DEF Addresses, Returned
  <2>2. ~(used'[d] > 0)
    BY <1>16
  <2> QED BY <2>1, <2>2
<1>27. b'[p] # Null => b'[p] # r'[p] /\ b'[p] \notin InHand(p)'
  BY <1>9, <1>16 DEF Returned
<1>28. \A c \in Blocks' \cap {e, d} : free_bit'[c] <=> c \in FreeBlocks'
  BY <1>5, <1>6, <1>14, <1>17, <1>24, <1>4
<1>29. \A c \in {e, d} \cap FreeBlocks' : used'[c] = 0
  BY <1>6, <1>14
<1>30. \A c \in Blocks' \ {e, d} : free_bit'[c] = free_bit[c]
  BY <1>23
<1> QED BY <1>13, <1>14, <1>15, <1>16, <1>21, <1>22, <1>25, <1>26, <1>27, <1>28, <1>29, <1>30, Step

-----------------------------------------------------------------------------
(* The invariant.                                                          *)

(* Every step of a call keeps it.                                          *)
LEMMA CallStep ==
  ASSUME IInv, NEW p \in Procs, Call(p) PROVE IInv'
<1>1. Sound /\ torn' = torn /\ torn \in BOOLEAN
  BY DEF Call, IInv, TypeOK
<1>2. Sound'
  BY <1>1, AmallocStep, FreeStep, AreallocStep DEF Call
<1>3. Typed'
  BY <1>2 DEF Sound
<1> QED BY <1>1, <1>2, <1>3 DEF IInv, TypeOK

(* So does a merge, unless it tears a list.                                *)
LEMMA MergeStep ==
  ASSUME Sound, ~torn, torn \in BOOLEAN, NEW p \in Procs, MergePrevDo(p) \/ MergeNextDo(p)
  PROVE  torn' \in BOOLEAN /\ (torn' \/ Sound')
<1>1. CASE ~free_bit[x[p]]
  <2>1. torn' = torn
    BY <1>1 DEF MergePrevDo, MergeNextDo
  <2>2. Sound'
    BY <1>1, MergePrevNotStep, MergeNextNotStep
  <2> QED BY <2>1, <2>2
<1>2. CASE free_bit[x[p]]
  <2>1. torn' = ~LockedRight(p)
    BY <1>2 DEF MergePrevDo, MergeNextDo
  <2> QED BY <1>2, <2>1, MergePrevDoStep, MergeNextDoStep
<1> QED BY <1>1, <1>2

(* So does every step of a processor's work.                               *)
LEMMA WorkStep ==
  ASSUME IInv, NEW p \in Procs, Work(p) PROVE IInv'
<1>0. Sound /\ ~torn /\ torn \in BOOLEAN
  BY DEF Work, IInv, TypeOK
<1> SUFFICES torn' \in BOOLEAN /\ (torn' \/ Sound') /\ Typed'
  BY DEF IInv, TypeOK
<1>1. CASE MergePrevDo(p) \/ MergeNextDo(p)
  BY <1>0, <1>1, MergeStep, MergeTypes
<1>2. CASE ~(MergePrevDo(p) \/ MergeNextDo(p))
  <2>1. torn' = torn
    BY <1>2 DEF Work
  <2>2. Sound'
    <3>1. CASE GetFirst(p)
      BY <1>0, <3>1, GetFirstEmptyStep, GetFirstStep
    <3>2. CASE Search(p)
      BY <1>0, <3>2, SearchStep
    <3>3. CASE GetFree(p)
      BY <1>0, <3>3, GetFreeEmptyStep, GetFreeStep
    <3>4. CASE Split(p) \/ SplitLink(p) \/ SplitFree(p)
      BY <1>0, <3>4, SplitStep, SplitLinkStep, SplitFreeStep
    <3>5. CASE GetPool(p)
      BY <1>0, <3>5, GetPoolFullStep, GetPoolStep
    <3>6. CASE Afree(p)
      BY <1>0, <3>6, AfreeStep
    <3>7. CASE MergePrev(p) \/ MergePrevLock(p)
      BY <1>0, <3>7, MergePrevStep, MergePrevLockStep
    <3>8. CASE MergePool(p)
      BY <1>0, <3>8, MergePoolNotStep, MergePoolStep
    <3>9. CASE MergeNext(p) \/ MergeNextLock(p)
      BY <1>0, <3>9, MergeNextStep, MergeNextLockStep
    <3>10. CASE Insert(p)
      BY <1>0, <3>10, InsertStep
    <3>11. CASE Keep(p)
      BY <1>0, <3>11, KeepExactStep, KeepSplitStep
    <3>12. CASE KeepLink(p) \/ Grow(p)
      BY <1>0, <3>12, KeepLinkStep, GrowStep
    <3> QED BY <1>2, <3>1, <3>2, <3>3, <3>4, <3>5, <3>6, <3>7, <3>8, <3>9, <3>10, <3>11, <3>12 DEF Work
  <2>3. Typed'
    BY <2>2 DEF Sound
  <2> QED BY <1>0, <2>1, <2>2, <2>3
<1> QED BY <1>1, <1>2

(* The block at address 0 and the pool behind it.                          *)
LEMMA InitSound == Init => Sound
<1> SUFFICES ASSUME Init PROVE Sound
  OBVIOUS
<1>1. /\ MaxSize \in Nat /\ 1 \in Addresses /\ 0 \in Addresses /\ InitSize \in Addresses
      /\ MaxUser \in Nat /\ Null \notin Addresses /\ 0 # Null
  BY MemoryAssumption DEF Addresses, Null
<1>2. /\ next_block = [a \in Addresses |-> IF a = 0 THEN 1 ELSE Null]
      /\ prev_block = [a \in Addresses |-> IF a = 1 THEN 0 ELSE Null]
      /\ free_bit = [a \in Addresses |-> FALSE]
      /\ lists = [s \in Sizes |-> <<>>]
      /\ pool = 1 /\ size = InitSize
      /\ lock = [s \in Locks |-> Null]
      /\ used = [a \in Addresses |-> 0]
      /\ pc = [p \in Procs |-> "idle"]
      /\ b = [p \in Procs |-> Null] /\ x = [p \in Procs |-> Null]
      /\ n = [p \in Procs |-> 0] /\ i = [p \in Procs |-> 0]
      /\ r = [p \in Procs |-> Null]
  BY DEF Init
<1>3. Typed
  <2>1. next_block \in [Addresses -> Addresses \cup {Null}] /\ prev_block \in [Addresses -> Addresses \cup {Null}]
    BY <1>1, <1>2
  <2>2. lists \in [Sizes -> Seq(Addresses)]
    BY <1>2
  <2>3. used \in [Addresses -> 0 .. MaxSize] /\ free_bit \in [Addresses -> BOOLEAN]
    BY <1>1, <1>2
  <2>4. /\ pc \in [Procs -> Places] /\ n \in [Procs -> 0 .. MaxUser] /\ i \in [Procs -> 0 .. MaxSize + 1]
        /\ b \in [Procs -> Addresses \cup {Null}] /\ x \in [Procs -> Addresses \cup {Null}]
        /\ r \in [Procs -> Addresses \cup {Null}]
    BY <1>1, <1>2 DEF Places
  <2>5. lock \in [Locks -> Procs \cup {Null}] /\ pool \in Addresses /\ size \in Addresses
    BY <1>1, <1>2
  <2> QED BY <2>1, <2>2, <2>3, <2>4, <2>5 DEF Typed
<1>4. Control
  BY <1>2 DEF Control, ControlOf, Allocating
<1>5. \A p \in Procs : InHand(p) = {} /\ Mine(p) = {} /\ Owned(p) = {} /\ Piece(p) = {}
  BY <1>2 DEF InHand, Mine, Freed, Owned, Piece
<1>6. FreeBlocks = {}
  BY <1>2 DEF FreeBlocks, ToSet
<1>7. Ownership
  BY <1>1, <1>2, <1>5, <1>6 DEF Ownership
<1>8. Blocks = {0}
  <2>1. \A c : c \in Blocks <=> \/ c = 0
                                \/ c \in Addresses /\ used[c] > 0
                                \/ c \in FreeBlocks
                                \/ \E p \in Procs : c \in Mine(p)
    BY DEF Blocks, Used, Mine
  <2>2. \A c \in Addresses : ~(used[c] > 0)
    BY <1>2
  <2>3. \A c : c \in Blocks <=> c = 0
    BY <1>5, <1>6, <2>1, <2>2
  <2> QED BY <2>3
<1>9. next_block[0] = 1 /\ prev_block[1] = 0 /\ next_block[1] = Null /\ free_bit[0] = FALSE
  BY <1>1, <1>2
<1>10. Tiling
  <2>1. 0 < pool /\ pool <= size
    BY <1>2, MemoryAssumption
  <2>2. \A a \in Addresses : a < 1 => 0 <= a
    BY DEF Addresses
  <2>3. Tiled({0}, next_block, 1)
    BY <1>1, <1>9, <2>2 DEF Tiled
  <2> QED BY <1>2, <1>8, <1>9, <2>1, <2>3 DEF Tiling
<1>11. Linked
  BY <1>1, <1>5, <1>8, <1>9 DEF Linked, Chained, Pieces
<1>12. Listed
  BY <1>2 DEF Listed, IsInjective, ToSet
<1>13. Marked
  BY <1>6, <1>8, <1>9 DEF Marked
<1>14. Fitting
  BY <1>2 DEF Fitting, Used
<1> QED BY <1>3, <1>4, <1>7, <1>10, <1>11, <1>12, <1>13, <1>14 DEF Sound

(* The invariant holds in every reachable state.                           *)
THEOREM Invariant == Spec => []IInv
<1>1. Init => IInv
  <2> SUFFICES ASSUME Init PROVE IInv
    OBVIOUS
  <2>1. Sound /\ torn = FALSE
    BY InitSound DEF Init
  <2> QED BY <2>1 DEF IInv, TypeOK, Sound
<1>2. IInv /\ [Next]_vars => IInv'
  <2> SUFFICES ASSUME IInv, [Next]_vars PROVE IInv'
    OBVIOUS
  <2>1. CASE Next
    BY <2>1, CallStep, WorkStep DEF Next
  <2>2. CASE UNCHANGED vars
    <3>1. /\ UNCHANGED <<next_block, prev_block, free_bit, lists, pool, size, lock, used, pc, b, x, n, i, r>>
          /\ torn' = torn
      BY <2>2 DEF vars, links, hand
    <3>2. FreeBlocks' = FreeBlocks /\ Blocks' = Blocks /\ Pieces' = Pieces
      BY <3>1 DEF FreeBlocks, Blocks, Used, InHand, Freed, Pieces, Piece
    <3>3. Typed => Typed'
      BY <3>1 DEF Typed
    <3>4. Control => Control'
      BY <3>1 DEF Control, ControlOf, Nn
    <3>5. Ownership => Ownership'
      BY <3>1, <3>2 DEF Ownership, Owned, InHand
    <3>6. Tiling /\ Linked /\ Listed => Tiling' /\ Linked' /\ Listed'
      BY <3>1, <3>2 DEF Tiling, Linked, Listed
    <3>7. Marked /\ Fitting => Marked' /\ Fitting'
      BY <3>1, <3>2 DEF Marked, Fitting, Used
    <3> QED BY <3>1, <3>3, <3>4, <3>5, <3>6, <3>7 DEF IInv, TypeOK, Sound
  <2> QED BY <2>1, <2>2
<1> QED BY <1>1, <1>2, PTL DEF Spec

(* Every variable of the allocator has its type, always.                   *)
THEOREM TypeCorrect == Spec => []TypeOK
<1>1. IInv => TypeOK
  BY DEF IInv
<1> QED BY <1>1, Invariant, PTL

(* The block that an address is in is the only one.                        *)
LEMMA OneBlock ==
  ASSUME Sound, NEW a \in 0 .. pool - 1
  PROVE  Cardinality({c \in Blocks : c <= a /\ a < next_block[c]}) = 1
<1>1. /\ MaxSize \in Nat /\ pool \in Addresses /\ Tiled(Blocks, next_block, pool)
  BY MemoryAssumption DEF Sound, Typed, Tiling
<1>2. a \in Addresses /\ a < pool
  BY <1>1 DEF Addresses
<1>3. PICK c \in Blocks : c <= a /\ a < next_block[c]
  BY <1>1, <1>2 DEF Tiled
<1>4. ASSUME NEW d \in Blocks, d <= a, a < next_block[d] PROVE d = c
  <2>1. (c < d => next_block[c] <= d) /\ (d < c => next_block[d] <= c)
    BY <1>1, Inside
  <2>2. c \in Addresses /\ d \in Addresses /\ next_block[c] \in Addresses /\ next_block[d] \in Addresses
    BY BlockAt
  <2> QED BY <1>2, <1>3, <1>4, <2>1, <2>2 DEF Addresses
<1>5. {d \in Blocks : d <= a /\ a < next_block[d]} = {c}
  BY <1>3, <1>4
<1> QED BY <1>5, FS_Singleton

(* Until a merge has torn a list, every unit of the arena below the pool   *)
(* is in exactly one block, and every user's block is large enough.        *)
THEOREM UnitsTiled == Spec => []EveryUnitOnce
<1>1. IInv => EveryUnitOnce
  <2> SUFFICES ASSUME Sound PROVE EveryUnitOnce
    BY DEF IInv, EveryUnitOnce
  <2>1. \A a \in 0 .. pool - 1 : Cardinality({c \in Blocks : c <= a /\ a < next_block[c]}) = 1
    BY OneBlock
  <2>2. \A c \in Blocks : c < next_block[c] /\ next_block[c] <= pool
    BY BlockAt
  <2>3. ASSUME NEW a \in Used PROVE used[a] <= SizeOf(a)
    <3>1. a + used[a] <= next_block[a] /\ a \in Addresses /\ used[a] \in Nat
      BY DEF Sound, Fitting, Used, Typed
    <3>2. a \in Blocks
      BY DEF Blocks
    <3>3. next_block[a] \in Addresses
      BY <3>2, BlockAt
    <3> QED BY <3>1, <3>3 DEF SizeOf, Addresses
  <2> QED BY <2>1, <2>2, <2>3 DEF EveryUnitOnce
<1> QED BY <1>1, Invariant, PTL

(* Until a merge has torn a list, a block's free bit is set exactly while  *)
(* it is on the list of its size.                                          *)
THEOREM FreeBits == Spec => []FreeBitTrue
<1>1. IInv => FreeBitTrue
  <2> SUFFICES ASSUME Sound PROVE FreeBitTrue
    BY DEF IInv, FreeBitTrue
  <2>1. \A c \in Blocks : free_bit[c] <=> c \in FreeBlocks
    BY DEF Sound, Marked
  <2>2. ASSUME NEW s \in Sizes PROVE IsInjective(lists[s])
    BY DEF Sound, Listed
  <2>3. ASSUME NEW s \in Sizes, NEW c \in ToSet(lists[s]) PROVE SizeOf(c) = s
    <3>1. next_block[c] = c + s
      BY DEF Sound, Listed
    <3>2. c \in Addresses
      BY BlocksType DEF Sound, FreeBlocks
    <3> QED BY <3>1, <3>2 DEF SizeOf, Addresses, Sizes
  <2> QED BY <2>1, <2>2, <2>3 DEF FreeBitTrue
<1> QED BY <1>1, Invariant, PTL

(* Until a merge has torn a list, afree and arealloc do not find the arena *)
(* corrupt.                                                                *)
THEOREM NeverCorrupt == Spec => []NoCorruption
<1>1. IInv => NoCorruption
  BY DEF IInv, Sound, Control, ControlOf, NoCorruption
<1> QED BY <1>1, Invariant, PTL

-----------------------------------------------------------------------------
(* memory.c implements the heap of memory.h, until a merge has torn a list. *)

(* A step changes at most one user's block, and none when it tears a list. *)
LEMMA OneUserBlock ==
  ASSUME NEW p \in Procs, Call(p) \/ Work(p)
  PROVE  UNCHANGED used \/ (~torn /\ torn' = torn /\ \E a, m : used' = [used EXCEPT ![a] = m])
<1>1. ASSUME Call(p) PROVE UNCHANGED used
  BY <1>1 DEF Call, Amalloc, Free, Arealloc
<1>2. ASSUME NEW a, NEW f, Return(p, a, f) PROVE \E a2, m : used' = [used EXCEPT ![a2] = m]
  BY <1>2 DEF Return
<1>3. CASE MergePrevDo(p) \/ MergeNextDo(p)
  BY <1>3 DEF MergePrevDo, MergeNextDo
<1>4. ASSUME Work(p), ~(MergePrevDo(p) \/ MergeNextDo(p))
      PROVE  UNCHANGED used \/ \E a, m : used' = [used EXCEPT ![a] = m]
  <2>1. CASE GetFirst(p) \/ SplitFree(p) \/ GetPool(p)
    BY <1>2, <2>1 DEF GetFirst, SplitFree, GetPool
  <2>2. CASE Afree(p) \/ Keep(p)
    BY <2>2 DEF Afree, Keep
  <2>3. CASE \/ Search(p) \/ GetFree(p) \/ Split(p) \/ SplitLink(p) \/ MergePrev(p) \/ MergePrevLock(p)
             \/ MergePool(p) \/ MergeNext(p) \/ MergeNextLock(p) \/ Insert(p) \/ KeepLink(p) \/ Grow(p)
    BY <2>3 DEF Search, GetFree, Split, SplitLink, MergePrev, MergePrevLock, MergePool,
                MergeNext, MergeNextLock, Insert, KeepLink, Grow
  <2> QED BY <1>4, <2>1, <2>2, <2>3 DEF Work
<1>5. ASSUME Work(p), ~(MergePrevDo(p) \/ MergeNextDo(p)) PROVE ~torn /\ torn' = torn
  BY <1>5 DEF Work
<1> QED BY <1>1, <1>3, <1>4, <1>5

(* Users' blocks are in the arena and apart.                               *)
UsersApart ==
  \A a \in Addresses : used[a] > 0 =>
    /\ a \in Units /\ a + used[a] - 1 \in Units
    /\ \A c \in Addresses \ {a} : used[c] > 0 => a + used[a] <= c \/ c + used[c] <= a

(* The blocks of the allocator's invariant are.                            *)
LEMMA UserBlocksApart == Sound => UsersApart
<1> SUFFICES ASSUME Sound, NEW a \in Addresses, used[a] > 0
    PROVE  /\ a \in Units /\ a + used[a] - 1 \in Units
           /\ \A c \in Addresses \ {a} : used[c] > 0 => a + used[a] <= c \/ c + used[c] <= a
  BY DEF UsersApart
<1>1. a \in Blocks /\ a + used[a] <= next_block[a]
  BY DEF Blocks, Used, Sound, Fitting
<1>2. MaxSize \in Nat /\ used[a] \in 1 .. MaxSize /\ next_block[a] \in Addresses
  BY <1>1, BlockAt, MemoryAssumption DEF Sound, Typed
<1>3. a \in Units /\ a + used[a] - 1 \in Units
  BY <1>1, <1>2 DEF Addresses, Units
<1>4. ASSUME NEW c \in Addresses \ {a}, used[c] > 0 PROVE a + used[a] <= c \/ c + used[c] <= a
  <2>1. c \in Blocks /\ c + used[c] <= next_block[c] /\ used[c] \in 1 .. MaxSize
    BY <1>4 DEF Blocks, Used, Sound, Fitting, Typed
  <2>2. next_block[c] \in Addresses
    BY <2>1, BlockAt
  <2>3. (a < c => next_block[a] <= c) /\ (c < a => next_block[c] <= a)
    BY <1>1, <1>2, <2>1, Inside DEF Sound, Typed, Tiling
  <2> QED BY <1>1, <1>2, <2>1, <2>2, <2>3 DEF Addresses
<1> QED BY <1>2, <1>3, <1>4

(* A step allocates, resizes or frees one block of the heap, or nothing.   *)
LEMMA StepRefines ==
  ASSUME IInv, IInv', [Next]_vars PROVE [torn \/ H!Next]_UserBlocks
<1>1. CASE UNCHANGED used
  BY <1>1 DEF UserBlocks
<1>2. ASSUME Sound, Sound', NEW a, NEW m, used' = [used EXCEPT ![a] = m] PROVE [H!Next]_UserBlocks
  <2>1. used \in [Addresses -> 0 .. MaxSize] /\ used' \in [Addresses -> 0 .. MaxSize] /\ MaxSize \in Nat
    BY <1>2, MemoryAssumption DEF Sound, Typed
  <2>2. Units \subseteq Addresses
    BY <2>1 DEF Units, Addresses
  <2>3. H!Units = Units
    BY DEF H!Units, Units
  <2>4. CASE a \notin Units
    <3>1. \A c \in Units : used'[c] = used[c]
      BY <1>2, <2>1, <2>2, <2>4
    <3> QED BY <3>1 DEF UserBlocks
  <2>5. CASE a \in Units
    <3>1. a \in Addresses /\ used'[a] = m /\ m \in 0 .. MaxSize /\ used[a] \in 0 .. MaxSize
      BY <1>2, <2>1, <2>2, <2>5
    <3>2. UserBlocks[a] = used[a] /\ UserBlocks' = [UserBlocks EXCEPT ![a] = m]
      <4>1. UserBlocks[a] = used[a]
        BY <2>5 DEF UserBlocks
      <4>2. UserBlocks' = [c \in Units |-> used'[c]]
        BY DEF UserBlocks
      <4>3. \A c \in Units : used'[c] = IF c = a THEN m ELSE used[c]
        BY <1>2, <2>1, <2>2, <2>5
      <4> QED BY <4>1, <4>2, <4>3 DEF UserBlocks
    <3>3. CASE m = 0 /\ used[a] > 0
      <4>1. H!Free(a)
        BY <3>2, <3>3 DEF H!Free
      <4> QED BY <2>3, <2>5, <4>1 DEF H!Next
    <3>4. CASE m = 0 /\ ~(used[a] > 0)
      <4>1. used[a] = 0
        BY <3>1, <3>4
      <4>2. UserBlocks' = UserBlocks
        BY <3>2, <3>4, <4>1 DEF UserBlocks
      <4> QED BY <4>2
    <3>5. CASE m # 0
      <4>1. m \in 1 .. MaxSize /\ used'[a] > 0
        BY <3>1, <3>5
      <4>2. /\ a + m - 1 \in Units
            /\ \A c \in Addresses \ {a} : used'[c] > 0 => a + m <= c \/ c + used'[c] <= a
        <5>1. UsersApart'
          BY <1>2, UserBlocksApart, PTL
        <5> QED BY <3>1, <4>1, <5>1 DEF UsersApart, Addresses, Units
      <4>3. H!Extent(a, m) \subseteq Units
        BY <2>1, <2>5, <4>1, <4>2 DEF H!Extent, H!Units, Units
      <4>4. H!Apart(a, m)
        <5> SUFFICES ASSUME NEW c \in Units \ {a} PROVE H!Extent(a, m) \cap H!Extent(c, UserBlocks[c]) = {}
          BY <2>3 DEF H!Apart
        <5>1. UserBlocks[c] = used[c] /\ used'[c] = used[c] /\ used[c] \in 0 .. MaxSize /\ c \in Addresses
          BY <1>2, <2>1, <2>2 DEF UserBlocks
        <5>2. used[c] > 0 => a + m <= c \/ c + used[c] <= a
          BY <4>2, <5>1
        <5> QED BY <2>1, <2>5, <4>1, <5>1, <5>2 DEF H!Extent, H!Units, Units
      <4>5. CASE used[a] = 0
        <5>1. H!Allocate(a, m)
          <6>1. UserBlocks[a] = 0
            BY <3>2, <4>5
          <6> QED BY <3>2, <4>3, <4>4, <6>1 DEF H!Allocate, H!Units, Units
        <5> QED BY <2>3, <2>5, <4>1, <5>1 DEF H!Next
      <4>6. CASE used[a] # 0
        <5>1. used[a] > 0
          BY <3>1, <4>6
        <5>2. H!Resize(a, m)
          <6>1. UserBlocks[a] > 0
            BY <3>2, <5>1
          <6> QED BY <3>2, <4>3, <4>4, <6>1 DEF H!Resize, H!Units, Units
        <5> QED BY <2>3, <2>5, <4>1, <5>2 DEF H!Next
      <4> QED BY <4>5, <4>6
    <3> QED BY <3>3, <3>4, <3>5
  <2> QED BY <2>4, <2>5
<1>3. UNCHANGED used \/ (~torn /\ torn' = torn /\ \E a, m : used' = [used EXCEPT ![a] = m])
  BY OneUserBlock DEF Next, vars
<1>4. ~torn /\ torn' = torn => Sound /\ Sound'
  BY DEF IInv
<1> QED BY <1>1, <1>2, <1>3, <1>4

(* Until a merge has torn a list, a block that DXAllocate hands out        *)
(* belongs to its user, and overlaps no other user's block, until it is    *)
(* freed.                                                                  *)
THEOREM MemoryRefinesHeap == Spec => ImplementsHeap
<1>1. Init => H!Init
  <2> SUFFICES ASSUME Init PROVE H!Init
    OBVIOUS
  <2>1. used = [a \in Addresses |-> 0] /\ Units \subseteq Addresses
    BY MemoryAssumption DEF Init, Units, Addresses
  <2> QED BY <2>1 DEF H!Init, H!Units, Units, UserBlocks
<1>2. IInv /\ IInv' /\ [Next]_vars => [torn \/ H!Next]_UserBlocks
  BY StepRefines
<1> QED BY <1>1, <1>2, Invariant, PTL DEF Spec, ImplementsHeap
=============================================================================
