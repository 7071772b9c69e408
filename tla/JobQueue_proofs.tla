--------------------------- MODULE JobQueue_proofs ---------------------------
(***************************************************************************)
(* Proofs about JobQueue, for any processors, groups, batches and bound.   *)
(***************************************************************************)
EXTENDS JobQueue, SequenceTheorems, TLAPS

(* What RemoveAt leaves: every element but the i-th, in the same order.    *)
LEMMA RemoveAtProps ==
  ASSUME NEW S, NEW s \in Seq(S), NEW i \in 1..Len(s)
  PROVE  /\ RemoveAt(s, i) \in Seq(S)
         /\ Len(RemoveAt(s, i)) = Len(s) - 1
         /\ \A j \in 1..(Len(s) - 1) : RemoveAt(s, i)[j] = IF j < i THEN s[j] ELSE s[j + 1]
<1> DEFINE l == SubSeq(s, 1, i - 1)
           r == SubSeq(s, i + 1, Len(s))
<1>1. Len(s) \in Nat /\ \A j \in 1..Len(s) : s[j] \in S
  BY LenProperties, ElementOfSeq
<1>2. /\ l \in Seq(S)
      /\ Len(l) = i - 1
      /\ \A j \in 1..(i - 1) : l[j] = s[j]
  <2>1. \A j \in 1..(i - 1) : s[j] \in S
    BY <1>1
  <2> QED BY <1>1, <2>1, SubSeqProperties
<1>3. /\ r \in Seq(S)
      /\ Len(r) = Len(s) - i
      /\ \A j \in 1..(Len(s) - i) : r[j] = s[i + j]
  <2>1. \A j \in (i + 1)..Len(s) : s[j] \in S
    BY <1>1
  <2>2. /\ r \in Seq(S)
        /\ Len(r) = IF i + 1 <= Len(s) THEN Len(s) - (i + 1) + 1 ELSE 0
        /\ \A j \in 1..(Len(s) - (i + 1) + 1) : r[j] = s[(i + 1) + j - 1]
    BY <1>1, <2>1, SubSeqProperties
  <2> HIDE DEF r
  <2> QED BY <1>1, <2>2
<1> HIDE DEF l, r
<1>4. /\ l \o r \in Seq(S)
      /\ Len(l \o r) = Len(l) + Len(r)
      /\ \A j \in 1..(Len(l) + Len(r)) :
           (l \o r)[j] = IF j <= Len(l) THEN l[j] ELSE r[j - Len(l)]
  BY <1>2, <1>3, ConcatProperties
<1>5. RemoveAt(s, i) = l \o r
  BY DEF RemoveAt, l, r
<1>6. Len(RemoveAt(s, i)) = Len(s) - 1
  BY <1>1, <1>2, <1>3, <1>4, <1>5
<1>7. ASSUME NEW j \in 1..(Len(s) - 1)
      PROVE  RemoveAt(s, i)[j] = IF j < i THEN s[j] ELSE s[j + 1]
  <2>1. CASE j < i
    BY <1>1, <1>2, <1>3, <1>4, <1>5, <2>1
  <2>2. CASE j >= i
    <3>1. (l \o r)[j] = r[j - (i - 1)]
      BY <1>1, <1>2, <1>3, <1>4, <2>2
    <3>2. j - (i - 1) \in 1..(Len(s) - i)
      BY <1>1, <2>2
    <3>3. r[j - (i - 1)] = s[i + (j - (i - 1))]
      BY <1>3, <3>2
    <3> QED BY <1>1, <1>5, <2>2, <3>1, <3>3
  <2> QED BY <1>1, <2>1, <2>2
<1> QED BY <1>4, <1>5, <1>6, <1>7

(* c has the elements of s and those of t and no others, and their numbers *)
(* are distinct.                                                           *)
Merged(c, s, t) ==
  /\ c \in Seq(Jobs)
  /\ \A i \in DOMAIN c : \/ \E j \in DOMAIN s : c[i] = s[j]
                         \/ \E j \in DOMAIN t : c[i] = t[j]
  /\ \A j \in DOMAIN s : \E i \in DOMAIN c : c[i] = s[j]
  /\ \A j \in DOMAIN t : \E i \in DOMAIN c : c[i] = t[j]
  /\ \A i, j \in DOMAIN c : c[i].id = c[j].id => i = j

(* The elements of a concatenation are those of its two parts, and have    *)
(* distinct numbers if those of the parts have.                            *)
LEMMA ConcatJobs ==
  ASSUME NEW s \in Seq(Jobs), NEW t \in Seq(Jobs),
         \A i, j \in DOMAIN s : s[i].id = s[j].id => i = j,
         \A i, j \in DOMAIN t : t[i].id = t[j].id => i = j,
         \A i \in DOMAIN s, j \in DOMAIN t : s[i].id # t[j].id
  PROVE  Merged(s \o t, s, t)
<1> DEFINE c == s \o t
<1>1. /\ Len(s) \in Nat /\ Len(t) \in Nat
      /\ DOMAIN s = 1..Len(s) /\ DOMAIN t = 1..Len(t)
  BY LenProperties
<1>2. /\ c \in Seq(Jobs)
      /\ Len(c) = Len(s) + Len(t)
      /\ \A i \in 1..(Len(s) + Len(t)) :
           c[i] = IF i <= Len(s) THEN s[i] ELSE t[i - Len(s)]
  BY ConcatProperties
<1>3. DOMAIN c = 1..(Len(s) + Len(t))
  BY <1>2, LenProperties
<1> HIDE DEF c
<1>4. ASSUME NEW i \in DOMAIN c
      PROVE  \/ i \in DOMAIN s /\ c[i] = s[i]
             \/ i - Len(s) \in DOMAIN t /\ c[i] = t[i - Len(s)] /\ i > Len(s)
  <2>1. CASE i <= Len(s)
    BY <1>1, <1>2, <1>3, <2>1
  <2>2. CASE i > Len(s)
    BY <1>1, <1>2, <1>3, <2>2
  <2> QED BY <1>1, <1>3, <2>1, <2>2
<1>5. ASSUME NEW j \in DOMAIN s PROVE j \in DOMAIN c /\ c[j] = s[j]
  BY <1>1, <1>2, <1>3
<1>6. ASSUME NEW j \in DOMAIN t PROVE Len(s) + j \in DOMAIN c /\ c[Len(s) + j] = t[j]
  <2>1. Len(s) + j \in 1..(Len(s) + Len(t)) /\ ~(Len(s) + j <= Len(s))
    BY <1>1
  <2>2. (Len(s) + j) - Len(s) = j
    BY <1>1
  <2> QED BY <1>2, <1>3, <2>1, <2>2
<1>7. ASSUME NEW i \in DOMAIN c, NEW j \in DOMAIN c, c[i].id = c[j].id
      PROVE  i = j
  <2>1. CASE i \in DOMAIN s /\ c[i] = s[i]
    BY <1>4, <1>7, <2>1
  <2>2. CASE i - Len(s) \in DOMAIN t /\ c[i] = t[i - Len(s)] /\ i > Len(s)
    <3>1. j - Len(s) \in DOMAIN t /\ c[j] = t[j - Len(s)]
      BY <1>4, <1>7, <2>2
    <3>2. i - Len(s) = j - Len(s)
      BY <1>7, <2>2, <3>1
    <3> QED BY <1>1, <1>3, <3>2
  <2> QED BY <1>4, <2>1, <2>2
<1> QED BY <1>2, <1>4, <1>5, <1>6, <1>7 DEF Merged, c

(* The numbers a batch gets: consecutive, after those in use.              *)
LEMMA NumberedJobs ==
  ASSUME NEW b \in Batches, NEW n \in Nat
  PROVE  /\ Numbered(b, n) \in Seq(Jobs)
         /\ DOMAIN Numbered(b, n) = DOMAIN b
         /\ \A i \in DOMAIN b : /\ Numbered(b, n)[i].id = n + i
                                /\ Numbered(b, n)[i].JID = b[i].JID
                                /\ Numbered(b, n)[i].repeat = b[i].repeat
<1>1. b \in Seq(Templates) /\ Len(b) \in Nat /\ DOMAIN b = 1..Len(b)
  BY JobQueueAssumption, LenProperties
<1>2. \A i \in 1..Len(b) : b[i] \in Templates
  BY <1>1, ElementOfSeq
<1>3. \A i \in 1..Len(b) : Numbered(b, n)[i] \in Jobs
  BY <1>1, <1>2 DEF Numbered, Jobs, Templates
<1>4. Numbered(b, n) = [i \in 1..Len(b) |-> Numbered(b, n)[i]]
  BY <1>1 DEF Numbered
<1>5. Numbered(b, n) \in Seq(Jobs)
  BY <1>1, <1>3, <1>4, IsASeq
<1> QED BY <1>5 DEF Numbered

(* The inductive invariant: EachRepetitionOnce alone is not inductive, for  *)
(* a queue with two jobs of one number would hand out a repetition twice.  *)
IInv == TypeOK /\ Consistent /\ EachRepetitionOnce /\ OnItsProcessor

(* An empty queue with an empty history satisfies it.                      *)
LEMMA InitIInv == JQInit => IInv
BY DEF JQInit, IInv, TypeOK, Consistent, EachRepetitionOnce, OnItsProcessor, InQueue, HandedOut

-----------------------------------------------------------------------------
(* A batch joins the queue: the old jobs keep what they had, the new ones  *)
(* have all their repetitions in the queue and none handed out.            *)
LEMMA PutIInv ==
  ASSUME IInv, NEW b \in Batches, Put(b)
  PROVE  IInv'
<1> DEFINE n   == Len(log)
           new == Numbered(b, n)
<1>1. /\ b \in Seq(Templates) /\ log \in Seq(Templates) /\ jobs \in Seq(Jobs)
      /\ ran \subseteq (Nat \ {0}) \X Nat \X Procs
      /\ ran' = ran /\ log' = log \o b
  BY JobQueueAssumption DEF IInv, TypeOK, Put
<1>2. /\ n \in Nat /\ DOMAIN log = 1..n
      /\ Len(b) \in Nat /\ DOMAIN b = 1..Len(b)
  BY <1>1, LenProperties
<1>b. \A i \in 1..Len(b) : b[i].repeat \in Nat
  <2>1. \A i \in 1..Len(b) : b[i] \in Templates
    BY <1>1, <1>2, ElementOfSeq
  <2> QED BY <2>1 DEF Templates
<1>3. /\ new \in Seq(Jobs)
      /\ DOMAIN new = 1..Len(b)
      /\ \A i \in 1..Len(b) : /\ new[i].id = n + i
                              /\ new[i].JID = b[i].JID
                              /\ new[i].repeat = b[i].repeat
  BY <1>2, NumberedJobs
<1>4. /\ log' \in Seq(Templates)
      /\ DOMAIN log' = 1..(n + Len(b))
      /\ \A i \in 1..n : log'[i] = log[i]
      /\ \A i \in 1..Len(b) : log'[n + i] = b[i]
  <2>1. /\ log' \in Seq(Templates)
        /\ Len(log') = n + Len(b)
        /\ \A i \in 1..(n + Len(b)) : log'[i] = IF i <= n THEN log[i] ELSE b[i - n]
    BY <1>1, ConcatProperties
  <2>2. DOMAIN log' = 1..(n + Len(b))
    BY <2>1, LenProperties
  <2>3. \A i \in 1..n : i \in 1..(n + Len(b)) /\ i <= n
    BY <1>2
  <2>4. \A i \in 1..Len(b) : n + i \in 1..(n + Len(b)) /\ ~(n + i <= n) /\ (n + i) - n = i
    BY <1>2
  <2> HIDE DEF n
  <2> QED BY <2>1, <2>2, <2>3, <2>4
<1>5. /\ \A i \in DOMAIN jobs : /\ jobs[i].id \in 1..n
                                /\ jobs[i].JID = log[jobs[i].id].JID
                                /\ jobs[i].repeat <= log[jobs[i].id].repeat
      /\ \A i, j \in DOMAIN jobs : jobs[i].id = jobs[j].id => i = j
      /\ \A r \in ran : r[1] \in 1..n /\ r[2] < log[r[1]].repeat
  BY <1>2 DEF IInv, Consistent
<1>6. jobs' \in {new \o jobs, jobs \o new}
  BY DEF Put
<1> HIDE DEF n, new
<1>7. /\ \A i, j \in DOMAIN new : new[i].id = new[j].id => i = j
      /\ \A i \in DOMAIN new, j \in DOMAIN jobs : new[i].id # jobs[j].id
      /\ \A j \in DOMAIN jobs, i \in DOMAIN new : new[i].id # jobs[j].id
  BY <1>2, <1>3, <1>5
<1>8. Merged(jobs', jobs, new)
  <2>1. jobs \in Seq(Jobs) /\ new \in Seq(Jobs)
    BY <1>1, <1>3
  <2>2. \A i, j \in DOMAIN jobs : jobs[i].id = jobs[j].id => i = j
    BY <1>5
  <2>3. Merged(new \o jobs, new, jobs) /\ Merged(jobs \o new, jobs, new)
    BY <1>7, <2>1, <2>2, ConcatJobs
  <2>4. Merged(new \o jobs, jobs, new)
    BY <2>3 DEF Merged
  <2> QED BY <1>6, <2>3, <2>4
<1>9. TypeOK'
  BY <1>1, <1>4, <1>8 DEF TypeOK, Merged
<1>10. Consistent'
  <2>1. ASSUME NEW i \in DOMAIN jobs'
        PROVE  /\ jobs'[i].id \in DOMAIN log'
               /\ jobs'[i].JID = log'[jobs'[i].id].JID
               /\ jobs'[i].repeat <= log'[jobs'[i].id].repeat
    <3>1. CASE \E j \in DOMAIN jobs : jobs'[i] = jobs[j]
      BY <1>2, <1>4, <1>5, <3>1
    <3>2. CASE \E j \in DOMAIN new : jobs'[i] = new[j]
      <4>1. PICK j \in 1..Len(b) : jobs'[i] = new[j]
        BY <1>3, <3>2
      <4> QED BY <1>b, <1>2, <1>3, <1>4, <4>1
    <3> QED BY <1>8, <3>1, <3>2 DEF Merged
  <2>2. ASSUME NEW r \in ran'
        PROVE  r[1] \in DOMAIN log' /\ r[2] < log'[r[1]].repeat
    BY <1>1, <1>2, <1>4, <1>5
  <2> QED BY <1>8, <2>1, <2>2 DEF Consistent, Merged
<1>11. EachRepetitionOnce'
  <2> SUFFICES ASSUME NEW m \in DOMAIN log', NEW k \in 0..(log'[m].repeat - 1)
               PROVE  /\ InQueue(m, k)' <=> ~HandedOut(m, k)'
                      /\ \A q, r \in ran' :
                           q[1] = m /\ r[1] = m /\ q[2] = k /\ r[2] = k => q = r
    BY DEF EachRepetitionOnce, InQueue, HandedOut
  <2>1. CASE m \in 1..n
    <3>1. /\ InQueue(m, k) <=> ~HandedOut(m, k)
          /\ \A q, r \in ran : q[1] = m /\ r[1] = m /\ q[2] = k /\ r[2] = k => q = r
      BY <1>2, <1>4, <2>1 DEF IInv, EachRepetitionOnce
    <3>2. InQueue(m, k)' <=> InQueue(m, k)
      <4>1. \A i \in DOMAIN new : new[i].id # m
        BY <1>2, <1>3, <2>1
      <4> QED BY <1>8, <4>1 DEF InQueue, Merged
    <3>3. HandedOut(m, k)' <=> HandedOut(m, k)
      BY <1>1 DEF HandedOut
    <3> QED BY <1>1, <3>1, <3>2, <3>3
  <2>2. CASE m \notin 1..n
    <3>1. PICK i \in 1..Len(b) : m = n + i
      <4>1. m - n \in 1..Len(b) /\ m = n + (m - n)
        BY <1>2, <1>4, <2>2
      <4> QED BY <4>1
    <3>2. InQueue(m, k)'
      <4>1. new[i].id = m /\ k < new[i].repeat
        <5>1. log'[m] = b[i] /\ b[i].repeat \in Nat
          BY <1>b, <1>4, <3>1
        <5> QED BY <1>3, <3>1, <5>1
      <4> QED BY <1>3, <1>8, <4>1 DEF InQueue, Merged
    <3>3. \A r \in ran' : r[1] # m
      BY <1>1, <1>5, <2>2
    <3> QED BY <3>2, <3>3 DEF HandedOut
  <2> QED BY <2>1, <2>2
<1>12. OnItsProcessor'
  BY <1>1, <1>4, <1>5 DEF IInv, OnItsProcessor
<1> QED BY <1>9, <1>10, <1>11, <1>12 DEF IInv

-----------------------------------------------------------------------------
(* A repetition leaves the queue: what is left of job i are the            *)
(* repetitions below the one handed out, and no other job changes.         *)
LEMMA TakeIInv ==
  ASSUME IInv, NEW p \in Procs, NEW gid \in Gids, Take(p, gid)
  PROVE  IInv'
<1>1. PICK i \in DOMAIN jobs :
        /\ MayRun(jobs[i], p, gid)
        /\ ran' = ran \cup {<<jobs[i].id, jobs[i].repeat - 1, p>>}
        /\ jobs' = IF jobs[i].repeat = 1
                     THEN RemoveAt(jobs, i)
                     ELSE [jobs EXCEPT ![i].repeat = @ - 1]
        /\ log' = log
  BY DEF Take
<1> DEFINE a == jobs[i].id
           k == jobs[i].repeat - 1
<1>2. /\ jobs \in Seq(Jobs) /\ log \in Seq(Templates)
      /\ ran \subseteq (Nat \ {0}) \X Nat \X Procs
  BY DEF IInv, TypeOK
<1>3. /\ Len(jobs) \in Nat /\ DOMAIN jobs = 1..Len(jobs)
      /\ \A j \in 1..Len(jobs) : jobs[j] \in Jobs
  BY <1>2, LenProperties, ElementOfSeq
<1>4. /\ \A j \in DOMAIN jobs : /\ jobs[j].id \in DOMAIN log
                                /\ jobs[j].JID = log[jobs[j].id].JID
                                /\ jobs[j].repeat <= log[jobs[j].id].repeat
      /\ \A j, m \in DOMAIN jobs : jobs[j].id = jobs[m].id => j = m
      /\ \A r \in ran : r[1] \in DOMAIN log /\ r[2] < log[r[1]].repeat
  BY DEF IInv, Consistent
<1>5. \A n \in DOMAIN log : log[n].repeat \in Nat
  <2>1. \A n \in DOMAIN log : log[n] \in Templates
    BY <1>2, LenProperties, ElementOfSeq
  <2> QED BY <2>1 DEF Templates
<1>6. /\ a \in DOMAIN log /\ a \in Nat \ {0}
      /\ k \in Nat /\ k < log[a].repeat
      /\ jobs[i].repeat = k + 1
  BY <1>3, <1>4, <1>5 DEF Jobs
\* What every job of the new queue was in the old one, and the converse.
<1>7. /\ jobs' \in Seq(Jobs)
      /\ \A j \in DOMAIN jobs' : \E m \in DOMAIN jobs :
           /\ jobs'[j].id = jobs[m].id /\ jobs'[j].JID = jobs[m].JID
           /\ IF m = i THEN jobs'[j].repeat = k ELSE jobs'[j] = jobs[m]
      /\ \A m \in DOMAIN jobs : m # i => \E j \in DOMAIN jobs' : jobs'[j] = jobs[m]
      /\ k > 0 => \E j \in DOMAIN jobs' : jobs'[j].id = a /\ jobs'[j].repeat = k
      /\ \A j, m \in DOMAIN jobs' : jobs'[j].id = jobs'[m].id => j = m
  <2>1. CASE k = 0
    <3>1. jobs' = RemoveAt(jobs, i)
      BY <1>1, <1>6, <2>1
    <3>2. /\ jobs' \in Seq(Jobs)
          /\ Len(jobs') = Len(jobs) - 1
          /\ \A j \in 1..(Len(jobs) - 1) :
               jobs'[j] = IF j < i THEN jobs[j] ELSE jobs[j + 1]
      BY <1>2, <1>3, <3>1, RemoveAtProps
    <3>3. DOMAIN jobs' = 1..(Len(jobs) - 1)
      BY <3>2, LenProperties
    <3>4. ASSUME NEW j \in DOMAIN jobs'
          PROVE  \E m \in DOMAIN jobs : jobs'[j] = jobs[m] /\ m # i
                                        /\ m = IF j < i THEN j ELSE j + 1
      BY <1>3, <3>2, <3>3
    <3>5. ASSUME NEW m \in DOMAIN jobs, m # i
          PROVE  \E j \in DOMAIN jobs' : jobs'[j] = jobs[m]
      <4>1. CASE m < i
        BY <1>3, <3>2, <3>3, <4>1
      <4>2. CASE m > i
        <5>1. m - 1 \in DOMAIN jobs' /\ ~(m - 1 < i) /\ (m - 1) + 1 = m
          BY <1>3, <3>3, <4>2
        <5>2. jobs'[m - 1] = jobs[m]
          BY <3>2, <3>3, <5>1
        <5> QED BY <5>1, <5>2
      <4> QED BY <1>3, <3>5, <4>1, <4>2
    <3>6. ASSUME NEW j \in DOMAIN jobs', NEW m \in DOMAIN jobs', jobs'[j].id = jobs'[m].id
          PROVE  j = m
      <4>1. PICK j1 \in DOMAIN jobs : jobs'[j] = jobs[j1] /\ j1 = IF j < i THEN j ELSE j + 1
        BY <3>4
      <4>2. PICK m1 \in DOMAIN jobs : jobs'[m] = jobs[m1] /\ m1 = IF m < i THEN m ELSE m + 1
        BY <3>4
      <4>3. j1 = m1
        BY <1>4, <3>6, <4>1, <4>2
      <4> QED BY <1>3, <3>3, <4>1, <4>2, <4>3
    <3>7. \A j \in DOMAIN jobs' : \E m \in DOMAIN jobs :
            /\ jobs'[j].id = jobs[m].id /\ jobs'[j].JID = jobs[m].JID
            /\ IF m = i THEN jobs'[j].repeat = k ELSE jobs'[j] = jobs[m]
      BY <3>4
    <3>8. ~(k > 0)
      BY <2>1
    <3> HIDE DEF k
    <3> QED BY <3>2, <3>5, <3>6, <3>7, <3>8
  <2>2. CASE k > 0
    <3>1. jobs' = [jobs EXCEPT ![i].repeat = k]
      BY <1>1, <1>6, <2>2
    <3>2. [jobs[i] EXCEPT !.repeat = k] \in Jobs
      BY <1>3, <1>6, <2>2 DEF Jobs
    <3>3. jobs' = [jobs EXCEPT ![i] = [jobs[i] EXCEPT !.repeat = k]]
      BY <3>1
    <3>4. jobs' \in Seq(Jobs)
      BY <1>2, <1>3, <3>2, <3>3, ExceptSeq
    <3>5. DOMAIN jobs' = DOMAIN jobs
      BY <3>1
    <3>6. /\ jobs'[i].id = jobs[i].id /\ jobs'[i].JID = jobs[i].JID /\ jobs'[i].repeat = k
          /\ \A m \in DOMAIN jobs : m # i => jobs'[m] = jobs[m]
      BY <1>3, <3>3 DEF Jobs
    <3>7. \A m \in DOMAIN jobs : jobs'[m].id = jobs[m].id
      BY <3>6
    <3>8. \A j, m \in DOMAIN jobs' : jobs'[j].id = jobs'[m].id => j = m
      BY <1>4, <3>5, <3>7
    <3>9. \A j \in DOMAIN jobs' :
            /\ jobs'[j].id = jobs[j].id /\ jobs'[j].JID = jobs[j].JID
            /\ IF j = i THEN jobs'[j].repeat = k ELSE jobs'[j] = jobs[j]
      BY <3>5, <3>6
    <3> QED BY <3>4, <3>5, <3>6, <3>8, <3>9
  <2> QED BY <1>6, <2>1, <2>2
<1> HIDE DEF a, k
<1>8. ran' = ran \cup {<<a, k, p>>} /\ log' = log
  BY <1>1 DEF a, k
<1>9. TypeOK'
  BY <1>2, <1>6, <1>7, <1>8 DEF TypeOK
<1>10. Consistent'
  <2>1. ASSUME NEW j \in DOMAIN jobs'
        PROVE  /\ jobs'[j].id \in DOMAIN log'
               /\ jobs'[j].JID = log'[jobs'[j].id].JID
               /\ jobs'[j].repeat <= log'[jobs'[j].id].repeat
    <3>1. PICK m \in DOMAIN jobs :
            /\ jobs'[j].id = jobs[m].id /\ jobs'[j].JID = jobs[m].JID
            /\ IF m = i THEN jobs'[j].repeat = k ELSE jobs'[j] = jobs[m]
      BY <1>7
    <3>2. CASE m = i
      BY <1>4, <1>5, <1>6, <1>8, <3>1, <3>2 DEF a
    <3>3. CASE m # i
      BY <1>4, <1>8, <3>1, <3>3
    <3> QED BY <3>2, <3>3
  <2>2. ASSUME NEW r \in ran' PROVE r[1] \in DOMAIN log' /\ r[2] < log'[r[1]].repeat
    BY <1>4, <1>6, <1>8
  <2> QED BY <1>7, <2>1, <2>2 DEF Consistent
<1>11. EachRepetitionOnce'
  <2> SUFFICES ASSUME NEW n \in DOMAIN log, NEW h \in 0..(log[n].repeat - 1)
               PROVE  /\ InQueue(n, h)' <=> ~HandedOut(n, h)'
                      /\ \A q, r \in ran' :
                           q[1] = n /\ r[1] = n /\ q[2] = h /\ r[2] = h => q = r
    BY <1>8 DEF EachRepetitionOnce, InQueue, HandedOut
  <2>1. /\ InQueue(n, h) <=> ~HandedOut(n, h)
        /\ \A q, r \in ran : q[1] = n /\ r[1] = n /\ q[2] = h /\ r[2] = h => q = r
    BY DEF IInv, EachRepetitionOnce
  <2>2. CASE n = a /\ h = k
    \* The repetition handed out was in the queue, so nobody had it.
    <3>1. InQueue(n, h)
      BY <1>6, <2>2 DEF InQueue, a
    <3>2. ~InQueue(n, h)'
      <4> SUFFICES ASSUME NEW j \in DOMAIN jobs', jobs'[j].id = a, k < jobs'[j].repeat
                   PROVE  FALSE
        BY <2>2 DEF InQueue
      <4>1. PICK m \in DOMAIN jobs :
              /\ jobs'[j].id = jobs[m].id
              /\ IF m = i THEN jobs'[j].repeat = k ELSE jobs'[j] = jobs[m]
        BY <1>7
      <4>2. m = i
        BY <1>4, <4>1 DEF a
      <4> QED BY <1>6, <4>1, <4>2
    <3>3. \A q \in ran' : q[1] = n /\ q[2] = h => q = <<a, k, p>>
      BY <1>8, <2>1, <3>1 DEF HandedOut
    <3>4. HandedOut(n, h)'
      <4>1. <<a, k, p>> \in ran' /\ <<a, k, p>>[1] = n /\ <<a, k, p>>[2] = h
        BY <1>8, <2>2
      <4> QED BY <4>1, Zenon DEF HandedOut
    <3> QED BY <3>2, <3>3, <3>4
  <2>3. CASE ~(n = a /\ h = k)
    <3>1. \A r \in ran' : r[1] = n /\ r[2] = h => r \in ran
      BY <1>8, <2>3
    <3>2. HandedOut(n, h)' <=> HandedOut(n, h)
      BY <1>8, <3>1 DEF HandedOut
    <3>3. ASSUME InQueue(n, h)' PROVE InQueue(n, h)
      <4>1. PICK j \in DOMAIN jobs' : jobs'[j].id = n /\ h < jobs'[j].repeat
        BY <3>3 DEF InQueue
      <4>2. PICK m \in DOMAIN jobs :
              /\ jobs'[j].id = jobs[m].id
              /\ IF m = i THEN jobs'[j].repeat = k ELSE jobs'[j] = jobs[m]
        BY <1>7
      <4>3. h < jobs[m].repeat
        BY <1>5, <1>6, <4>1, <4>2
      <4> QED BY <4>1, <4>2, <4>3 DEF InQueue
    <3>4. ASSUME InQueue(n, h) PROVE InQueue(n, h)'
      <4>1. PICK m \in DOMAIN jobs : jobs[m].id = n /\ h < jobs[m].repeat
        BY <3>4 DEF InQueue
      <4>2. CASE m = i
        <5>1. n = a /\ h < k
          BY <1>5, <1>6, <2>3, <4>1, <4>2 DEF a
        <5>2. PICK j \in DOMAIN jobs' : jobs'[j].id = a /\ jobs'[j].repeat = k
          BY <1>5, <1>6, <1>7, <5>1
        <5> QED BY <5>1, <5>2 DEF InQueue
      <4>3. CASE m # i
        BY <1>7, <4>1, <4>3 DEF InQueue
      <4> QED BY <4>2, <4>3
    <3> QED BY <2>1, <3>1, <3>2, <3>3, <3>4
  <2> QED BY <2>2, <2>3
<1>12. OnItsProcessor'
  <2>1. log[a].JID \in {0, p}
    BY <1>1, <1>4 DEF MayRun, a
  <2> QED BY <1>8, <2>1 DEF IInv, OnItsProcessor
<1> QED BY <1>9, <1>10, <1>11, <1>12 DEF IInv

-----------------------------------------------------------------------------
(* A step that changes no variable keeps the invariant.                    *)
LEMMA StutterIInv == IInv /\ UNCHANGED jqVars => IInv'
BY DEF jqVars, IInv, TypeOK, Consistent, EachRepetitionOnce, OnItsProcessor, InQueue, HandedOut

(* The invariant holds in every state of every behaviour.                  *)
LEMMA Invariance == JQSpec => []IInv
<1>1. JQInit => IInv
  BY InitIInv
<1>2. IInv /\ [JQNext]_jqVars => IInv'
  BY PutIInv, TakeIInv, StutterIInv DEF JQNext
<1> QED BY <1>1, <1>2, PTL DEF JQSpec

(* The queue holds jobs with repetitions to hand out, and nothing else.    *)
THEOREM TypeCorrect == JQSpec => []TypeOK
<1>1. IInv => TypeOK
  BY DEF IInv
<1> QED BY <1>1, Invariance, PTL

(* No repetition of a job is lost and none is handed out twice, whatever   *)
(* the order in which processors put jobs in the queue and take them.      *)
THEOREM NoRepetitionLostOrDoubled == JQSpec => []EachRepetitionOnce
<1>1. IInv => EachRepetitionOnce
  BY DEF IInv
<1> QED BY <1>1, Invariance, PTL

(* A job addressed to one processor is handed out to no other.             *)
THEOREM JobsStayHome == JQSpec => []OnItsProcessor
<1>1. IInv => OnItsProcessor
  BY DEF IInv
<1> QED BY <1>1, Invariance, PTL
==============================================================================
