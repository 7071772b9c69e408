--------------------------- MODULE Dispatch_proofs ---------------------------
(***************************************************************************)
(* Proofs about Dispatch, for any processors, requests and bound.          *)
(***************************************************************************)
EXTENDS Dispatch, FiniteSetTheorems, SequenceTheorems, WellFoundedInduction, TLAPS

-----------------------------------------------------------------------------
(* Sequences without repetition.                                           *)

(* Taking the i-th element out of an injective sequence leaves an          *)
(* injective sequence of the others.                                       *)
LEMMA RemoveAtSet ==
  ASSUME NEW S, NEW s \in Seq(S), IsInjective(s), NEW i \in 1..Len(s)
  PROVE  /\ RemoveAt(s, i) \in Seq(S)
         /\ IsInjective(RemoveAt(s, i))
         /\ Range(RemoveAt(s, i)) = Range(s) \ {s[i]}
<1> DEFINE l == SubSeq(s, 1, i - 1)
           r == SubSeq(s, i + 1, Len(s))
           t == RemoveAt(s, i)
<1>1. Len(s) \in Nat /\ DOMAIN s = 1..Len(s) /\ \A j \in 1..Len(s) : s[j] \in S
  BY LenProperties, ElementOfSeq
<1>2. l \in Seq(S) /\ Len(l) = i - 1 /\ \A j \in 1..(i - 1) : l[j] = s[j]
  <2>1. \A j \in 1..(i - 1) : s[j] \in S
    BY <1>1
  <2> QED BY <1>1, <2>1, SubSeqProperties
<1>3. r \in Seq(S) /\ Len(r) = Len(s) - i /\ \A j \in 1..(Len(s) - i) : r[j] = s[i + j]
  <2>1. \A j \in (i + 1)..Len(s) : s[j] \in S
    BY <1>1
  <2>2. /\ r \in Seq(S)
        /\ Len(r) = IF i + 1 <= Len(s) THEN Len(s) - (i + 1) + 1 ELSE 0
        /\ \A j \in 1..(Len(s) - (i + 1) + 1) : r[j] = s[(i + 1) + j - 1]
    BY <1>1, <2>1, SubSeqProperties
  <2> HIDE DEF l, r, t
  <2>3. ASSUME NEW j \in 1..(Len(s) - i) PROVE r[j] = s[i + j]
    <3>1. j \in 1..(Len(s) - (i + 1) + 1) /\ (i + 1) + j - 1 = i + j
      BY <1>1
    <3>2. r[j] = s[(i + 1) + j - 1]
      BY <2>2, <3>1
    <3> QED BY <3>1, <3>2
  <2>4. Len(r) = Len(s) - i
    <3>1. i \in Nat /\ Len(s) \in Nat /\ i <= Len(s)
      BY <1>1
    <3>2. Len(r) = IF i + 1 <= Len(s) THEN Len(s) - (i + 1) + 1 ELSE 0
      BY <2>2
    <3> QED BY <3>1, <3>2
  <2> QED BY <2>2, <2>3, <2>4
<1>4. t = l \o r
  BY DEF RemoveAt
<1> HIDE DEF l, r, t
<1>5. /\ t \in Seq(S) /\ Len(t) = Len(s) - 1
      /\ \A j \in 1..(Len(l) + Len(r)) : t[j] = IF j <= Len(l) THEN l[j] ELSE r[j - Len(l)]
  <2>1. /\ l \o r \in Seq(S) /\ Len(l \o r) = Len(l) + Len(r)
        /\ \A j \in 1..(Len(l) + Len(r)) : (l \o r)[j] = IF j <= Len(l) THEN l[j] ELSE r[j - Len(l)]
    BY <1>2, <1>3, ConcatProperties
  <2> QED BY <1>1, <1>2, <1>3, <1>4, <2>1
<1>6. DOMAIN t = 1..(Len(s) - 1)
  BY <1>5, LenProperties
<1>7. ASSUME NEW j \in DOMAIN t PROVE t[j] = s[IF j < i THEN j ELSE j + 1]
  <2>1. CASE j < i
    <3>1. j \in 1..(i - 1) /\ j \in 1..(Len(l) + Len(r)) /\ j <= Len(l)
      BY <1>1, <1>2, <1>3, <1>6, <2>1
    <3> QED BY <1>2, <1>5, <2>1, <3>1
  <2>2. CASE j >= i
    <3>1. t[j] = r[j - (i - 1)]
      BY <1>1, <1>2, <1>3, <1>5, <1>6, <2>2
    <3>2. j - (i - 1) \in 1..(Len(s) - i) /\ i + (j - (i - 1)) = j + 1
      BY <1>1, <1>6, <2>2
    <3> QED BY <1>1, <1>3, <1>6, <2>2, <3>1, <3>2
  <2> QED BY <1>1, <1>6, <2>1, <2>2
<1>8. IsInjective(t)
  <2> SUFFICES ASSUME NEW j \in DOMAIN t, NEW m \in DOMAIN t, t[j] = t[m] PROVE j = m
    BY DEF IsInjective
  <2>1. (IF j < i THEN j ELSE j + 1) = (IF m < i THEN m ELSE m + 1)
    <3>1. /\ (IF j < i THEN j ELSE j + 1) \in DOMAIN s
          /\ (IF m < i THEN m ELSE m + 1) \in DOMAIN s
      BY <1>1, <1>6
    <3> QED BY <1>7, <3>1 DEF IsInjective
  <2> QED BY <1>1, <1>6, <2>1
<1>9. Range(t) = Range(s) \ {s[i]}
  <2>1. ASSUME NEW j \in DOMAIN t PROVE t[j] \in Range(s) \ {s[i]}
    <3>1. /\ (IF j < i THEN j ELSE j + 1) \in DOMAIN s
          /\ (IF j < i THEN j ELSE j + 1) # i
      BY <1>1, <1>6
    <3> QED BY <1>1, <1>7, <3>1 DEF Range, IsInjective
  <2>2. ASSUME NEW j \in DOMAIN s, j # i PROVE \E m \in DOMAIN t : t[m] = s[j]
    <3>1. CASE j < i
      BY <1>1, <1>6, <1>7, <3>1
    <3>2. CASE j > i
      <4>1. j - 1 \in DOMAIN t /\ ~(j - 1 < i) /\ (j - 1) + 1 = j
        BY <1>1, <1>6, <3>2
      <4> QED BY <1>7, <4>1
    <3> QED BY <1>1, <2>2, <3>1, <3>2
  <2> QED BY <2>1, <2>2 DEF Range
<1> QED BY <1>5, <1>8, <1>9 DEF t

(* Appending a new element keeps a sequence injective.                     *)
LEMMA AppendSet ==
  ASSUME NEW S, NEW s \in Seq(S), IsInjective(s), NEW a \in S, a \notin Range(s)
  PROVE  /\ Append(s, a) \in Seq(S)
         /\ IsInjective(Append(s, a))
         /\ Range(Append(s, a)) = Range(s) \cup {a}
<1>1. Len(s) \in Nat /\ DOMAIN s = 1..Len(s)
  BY LenProperties
<1>2. /\ Append(s, a) \in Seq(S) /\ DOMAIN Append(s, a) = 1..(Len(s) + 1)
      /\ \A i \in 1..Len(s) : Append(s, a)[i] = s[i]
      /\ Append(s, a)[Len(s) + 1] = a
  BY <1>1
<1>3. IsInjective(Append(s, a))
  BY <1>1, <1>2 DEF IsInjective, Range
<1>4. Range(Append(s, a)) = Range(s) \cup {a}
  <2>1. \A i \in 1..(Len(s) + 1) : i \in 1..Len(s) \/ i = Len(s) + 1
    BY <1>1
  <2>2. (1..Len(s)) \cup {Len(s) + 1} \subseteq 1..(Len(s) + 1)
    BY <1>1
  <2> QED BY <1>1, <1>2, <2>1, <2>2 DEF Range
<1> QED BY <1>2, <1>3, <1>4

(* So does putting one in front.                                           *)
LEMMA ConsSet ==
  ASSUME NEW S, NEW s \in Seq(S), IsInjective(s), NEW a \in S, a \notin Range(s)
  PROVE  /\ <<a>> \o s \in Seq(S)
         /\ IsInjective(<<a>> \o s)
         /\ Range(<<a>> \o s) = Range(s) \cup {a}
<1> DEFINE t == <<a>> \o s
<1>1. Len(s) \in Nat /\ DOMAIN s = 1..Len(s)
  BY LenProperties
<1>2. <<a>> \in Seq(S) /\ Len(<<a>>) = 1 /\ <<a>>[1] = a
  OBVIOUS
<1>3. /\ t \in Seq(S) /\ Len(t) = 1 + Len(s)
      /\ \A i \in 1..(1 + Len(s)) : t[i] = IF i <= 1 THEN <<a>>[i] ELSE s[i - 1]
  BY <1>2, ConcatProperties
<1> HIDE DEF t
<1>4. DOMAIN t = 1..(1 + Len(s))
  BY <1>3, LenProperties
<1>5. t[1] = a /\ \A i \in 2..(1 + Len(s)) : i - 1 \in DOMAIN s /\ t[i] = s[i - 1]
  BY <1>1, <1>2, <1>3
<1>6. \A i \in DOMAIN t : i = 1 \/ i \in 2..(1 + Len(s))
  BY <1>1, <1>4
<1>7. IsInjective(t)
  <2> SUFFICES ASSUME NEW i \in DOMAIN t, NEW j \in DOMAIN t, t[i] = t[j] PROVE i = j
    BY DEF IsInjective
  <2>1. CASE i = 1 \/ j = 1
    BY <1>5, <1>6, <2>1 DEF Range
  <2>2. CASE i # 1 /\ j # 1
    <3>1. i - 1 = j - 1
      BY <1>5, <1>6, <2>2 DEF IsInjective
    <3> QED BY <1>4, <3>1
  <2> QED BY <2>1, <2>2
<1>8. Range(t) = Range(s) \cup {a}
  <2>1. Range(t) \subseteq Range(s) \cup {a}
    BY <1>5, <1>6 DEF Range
  <2>2. a \in Range(t)
    BY <1>1, <1>4, <1>5 DEF Range
  <2>3. ASSUME NEW i \in DOMAIN s PROVE s[i] \in Range(t)
    <3>1. i + 1 \in 2..(1 + Len(s)) /\ (i + 1) - 1 = i /\ i + 1 \in DOMAIN t
      BY <1>1, <1>4
    <3> QED BY <1>5, <3>1 DEF Range
  <2> QED BY <2>1, <2>2, <2>3 DEF Range
<1> QED BY <1>3, <1>7, <1>8 DEF t

(* A set of natural numbers has a least one.                               *)
LEMMA MinIsIn ==
  ASSUME NEW S, S \subseteq Nat, S # {}
  PROVE  Min(S) \in S
<1> DEFINE Below == {ss \in Nat \X Nat : ss[1] < ss[2]}
<1>1. IsWellFoundedOn(Below, Nat)
  BY NatLessThanWellFounded DEF OpToRel
<1>2. \E x \in S : \A y \in S : <<y, x>> \notin Below
  <2> HIDE DEF Below
  <2> QED BY <1>1, WFMin
<1>3. PICK x \in S : \A y \in S : ~(y < x)
  BY <1>2
<1>4. \A y \in S : x <= y
  BY <1>3
<1> QED BY <1>4 DEF Min

-----------------------------------------------------------------------------
(* The inductive invariant.                                                *)

Acts == {"loop", "enter", "find", "empty", "block", "run", "notify", "wait"}
Kinds == {"user", "work", "call", "delete", "msg"}
Jobs == [id : Nat, to : 0..N, kind : Kinds, about : 0..N, graph : BOOLEAN]

\* The types of everything, and who is inside the critical section.
Typed ==
  /\ queue \in Seq(Jobs) /\ cur \in [Procs -> Jobs]
  /\ lock \in 0..N /\ executing \in BOOLEAN
  /\ pipe \in [Procs -> Nat] /\ note \in [Procs -> 0..N] /\ act \in [Procs -> Acts]
  /\ await \in [Procs -> SUBSET Nat]
  /\ posts \in Nat /\ asked \in Nat
  /\ \A p \in Procs : act[p] = "find" <=> lock = p

\* The numbers of jobs that exist have been given; 0 is no job's number.
Numbers ==
  /\ \A j \in Range(queue) : j.id \in 1..posts
  /\ \A p \in Procs : cur[p].id \in 0..posts /\ await[p] \subseteq 1..posts
  /\ \A p \in Procs : cur[p].kind \in {"call", "msg"} => cur[p].id # 0
  /\ ended \subseteq 0..posts

\* A job is at one place in the queue, with one processor, or has ended.
OnePlace ==
  /\ IsInjective(queue) /\ \A j, l \in Range(queue) : j.id = l.id => j = l
  /\ \A j \in Range(queue) : j.id \notin ended /\ \A p \in Procs : cur[p].id # j.id
  /\ \A p \in Procs : cur[p].id # 0 => cur[p].id \notin ended
  /\ \A p, q \in Procs : cur[p].id = cur[q].id /\ cur[p].id # 0 => p = q

\* Who is not in a job has none, and only who announces or waits awaits jobs.
Resting ==
  \A p \in Procs : /\ act[p] \notin {"run", "notify", "wait"} => cur[p] = NoJob
                   /\ act[p] \notin {"notify", "wait"} => await[p] = {}

\* One processor awaits each RunOn job, and what is awaited is one or ended.
Awaited ==
  /\ \A p, q \in Procs : \A n \in Nat : n \in await[p] /\ n \in await[q] => p = q
  /\ \A j \in RunOnJobs : \E p \in Procs : j.id \in await[p]
  /\ \A p \in Procs : \A n \in await[p] : n \in ended \/ \E j \in RunOnJobs : j.id = n

IInv == Typed /\ Numbers /\ OnePlace /\ Resting /\ Awaited

(* Nothing is there to begin with.                                         *)
LEMMA InitIInv == Init => IInv
<1> SUFFICES ASSUME Init PROVE IInv
  OBVIOUS
<1>1. Range(queue) = {} /\ IsInjective(queue) /\ queue \in Seq(Jobs)
  BY EmptySeq DEF Init, Range, IsInjective
<1>2. Typed
  <2>1. NoJob \in Jobs
    BY DispatchAssumption DEF NoJob, Jobs, Kinds
  <2>2. cur \in [Procs -> Jobs] /\ act \in [Procs -> Acts]
    BY <2>1 DEF Init, Acts
  <2>3. N \in Nat /\ \A p \in Procs : p # 0
    BY DispatchAssumption DEF Procs
  <2>4. \A p \in Procs : act[p] = "find" <=> lock = p
    BY <2>3 DEF Init
  <2>5. pipe \in [Procs -> Nat] /\ note \in [Procs -> 0..N] /\ lock \in 0..N
    BY <2>3 DEF Init
  <2>6. await \in [Procs -> SUBSET Nat] /\ executing \in BOOLEAN /\ posts \in Nat /\ asked \in Nat
    BY DEF Init
  <2> QED BY <1>1, <2>2, <2>4, <2>5, <2>6 DEF Typed
<1>3. Numbers /\ OnePlace /\ Resting
  BY <1>1 DEF Init, Numbers, OnePlace, Resting, NoJob
<1>4. RunOnJobs = {}
  BY <1>1 DEF Init, RunOnJobs, NoJob
<1>5. Awaited
  BY <1>4 DEF Init, Awaited
<1> QED BY <1>2, <1>3, <1>5 DEF IInv

(* A job with a new number is put in the queue.                            *)
LEMMA InsertedJob ==
  ASSUME IInv, NEW job \in Jobs, job.id = posts + 1
  PROVE  /\ Inserted(queue, job) \in Seq(Jobs) /\ IsInjective(Inserted(queue, job))
         /\ Range(Inserted(queue, job)) = Range(queue) \cup {job}
<1>1. queue \in Seq(Jobs) /\ IsInjective(queue) /\ posts \in Nat
  BY DEF IInv, Typed, OnePlace
<1>2. job \notin Range(queue)
  BY <1>1 DEF IInv, Numbers
<1> QED BY <1>1, <1>2, AppendSet, ConsSet DEF Inserted

(* A job is taken out of it.                                               *)
LEMMA TakenJob ==
  ASSUME IInv, NEW i \in DOMAIN queue
  PROVE  /\ queue[i] \in Jobs /\ queue[i] \in Range(queue)
         /\ RemoveAt(queue, i) \in Seq(Jobs) /\ IsInjective(RemoveAt(queue, i))
         /\ Range(RemoveAt(queue, i)) = Range(queue) \ {queue[i]}
<1>1. queue \in Seq(Jobs) /\ IsInjective(queue) /\ DOMAIN queue = 1..Len(queue)
  BY LenProperties DEF IInv, Typed, OnePlace
<1>2. queue[i] \in Jobs
  BY <1>1, ElementOfSeq
<1> QED BY <1>1, <1>2, RemoveAtSet DEF Range

-----------------------------------------------------------------------------
(* What a step does to the jobs.                                           *)

(* A new job that is put in the queue, with what p awaits then.            *)
LEMMA PutJob ==
  ASSUME IInv, NEW p \in Procs, NEW job \in Jobs, job.id = posts + 1,
         queue' = Inserted(queue, job), posts' = posts + 1, UNCHANGED <<cur, ended>>
  PROVE  /\ Range(queue') = Range(queue) \cup {job}
         /\ RunOnJobs' = RunOnJobs \cup (IF job.kind \in {"call", "msg"} THEN {job} ELSE {})
         /\ posts \in Nat /\ queue' \in Seq(Jobs)
         /\ OnePlace'
<1>1. /\ queue' \in Seq(Jobs) /\ IsInjective(queue')
      /\ Range(queue') = Range(queue) \cup {job}
  BY InsertedJob
<1>2. posts \in Nat
  BY DEF IInv, Typed
<1>3. RunOnJobs' = RunOnJobs \cup (IF job.kind \in {"call", "msg"} THEN {job} ELSE {})
  BY <1>1 DEF RunOnJobs
<1>4. OnePlace'
  BY <1>1, <1>2 DEF IInv, Numbers, OnePlace
<1> QED BY <1>1, <1>2, <1>3, <1>4

(* Nothing about jobs changes but what the processors do.                  *)
LEMMA StillIInv ==
  ASSUME IInv, UNCHANGED <<queue, cur, await, posts, ended>>, Typed', Resting'
  PROVE  IInv'
<1>1. Numbers' /\ OnePlace'
  BY DEF IInv, Numbers, OnePlace
<1>2. RunOnJobs' = RunOnJobs
  BY DEF RunOnJobs
<1>3. Awaited'
  BY <1>2 DEF IInv, Awaited
<1> QED BY <1>1, <1>3 DEF IInv

(* A processor without a job begins one that has no number.                *)
LEMMA BeginIInv ==
  ASSUME IInv, NEW p \in Procs, cur[p] = NoJob, NEW job \in Jobs, job.id = 0, job.kind = "user",
         cur' = [cur EXCEPT ![p] = job], UNCHANGED <<queue, await, posts, ended>>,
         act' = [act EXCEPT ![p] = "run"], act[p] \notin {"notify", "wait"}, Typed'
  PROVE  IInv'
<1>1. cur'[p] = job /\ \A q \in Procs \ {p} : cur'[q] = cur[q]
  BY DEF IInv, Typed
<1>2. \A q \in Procs : cur'[q].id = cur[q].id
  BY <1>1 DEF NoJob
<1>3. Numbers' /\ OnePlace'
  BY <1>1, <1>2 DEF IInv, Numbers, OnePlace
<1>4. Resting'
  BY <1>1 DEF IInv, Typed, Resting
<1>5. RunOnJobs' = RunOnJobs
  BY <1>1 DEF RunOnJobs, NoJob
<1>6. Awaited'
  BY <1>5 DEF IInv, Awaited
<1> QED BY <1>3, <1>4, <1>6 DEF IInv

(* A processor ends what it does, which has a number or not.               *)
LEMMA FinishIInv ==
  ASSUME IInv, NEW p \in Procs, Finish(p), UNCHANGED executing \/ executing' = FALSE
  PROVE  IInv'
<1>1. /\ act[p] = "run" /\ act' = [act EXCEPT ![p] = "loop"]
      /\ cur' = [cur EXCEPT ![p] = NoJob] /\ ended' = ended \cup {cur[p].id}
      /\ UNCHANGED <<queue, lock, note, await, posts, asked>>
  BY DEF Finish, Goto
<1>2. cur'[p] = NoJob /\ \A q \in Procs \ {p} : cur'[q] = cur[q]
  BY <1>1 DEF IInv, Typed
<1>3. await[p] = {}
  BY <1>1 DEF IInv, Resting
<1>4. Typed'
  <2>1. NoJob \in Jobs
    BY DispatchAssumption DEF NoJob, Jobs, Kinds
  <2>2. pipe' \in [Procs -> Nat]
    <3>1. pipe' \in {pipe, Written(cur[p].about)}
      BY DEF Finish
    <3>2. Written(cur[p].about) \in [Procs -> Nat]
      BY DEF Written, IInv, Typed
    <3> QED BY <3>1, <3>2 DEF IInv, Typed
  <2>3. \A q \in Procs : act'[q] = "find" <=> lock' = q
    BY <1>1 DEF IInv, Typed
  <2>4. act' \in [Procs -> Acts] /\ cur' \in [Procs -> Jobs]
    BY <1>1, <2>1 DEF IInv, Typed, Acts
  <2> QED BY <1>1, <2>2, <2>3, <2>4 DEF IInv, Typed
<1>a. /\ cur'[p].id = 0 /\ cur'[p].kind = "user"
      /\ \A q \in Procs \ {p} : cur'[q].id = cur[q].id /\ cur'[q].kind = cur[q].kind
  BY <1>2 DEF NoJob
<1>5. Numbers'
  <2>0. posts \in Nat
    BY DEF IInv, Typed
  <2>1. \A q \in Procs : cur'[q].id \in 0..posts
    BY <1>a, <2>0 DEF IInv, Numbers
  <2>2. \A q \in Procs : cur'[q].kind \in {"call", "msg"} => cur'[q].id # 0
    BY <1>a DEF IInv, Numbers
  <2>3. ended' \subseteq 0..posts
    BY <1>1 DEF IInv, Numbers
  <2> QED BY <1>1, <2>1, <2>2, <2>3 DEF IInv, Numbers
<1>6. OnePlace'
  <2>1. \A j \in Range(queue) : j.id \notin ended' /\ \A q \in Procs : cur'[q].id # j.id
    BY <1>1, <1>a DEF IInv, OnePlace, Numbers
  <2>2. \A q \in Procs : cur'[q].id # 0 => cur'[q].id \notin ended'
    BY <1>1, <1>a DEF IInv, OnePlace
  <2>3. \A q, r \in Procs : cur'[q].id = cur'[r].id /\ cur'[q].id # 0 => q = r
    BY <1>a DEF IInv, OnePlace
  <2> QED BY <1>1, <2>1, <2>2, <2>3 DEF IInv, OnePlace
<1>7. Resting'
  BY <1>1, <1>2, <1>3 DEF IInv, Resting, Typed
<1>8. /\ RunOnJobs' \subseteq RunOnJobs
      /\ \A j \in RunOnJobs : j \in RunOnJobs' \/ j.id = cur[p].id
  BY <1>1, <1>2 DEF RunOnJobs, NoJob
<1>9. Awaited'
  BY <1>1, <1>8 DEF IInv, Awaited
<1> QED BY <1>4, <1>5, <1>6, <1>7, <1>9 DEF IInv

(* RunOn returns: the jobs it awaited have ended, so that they are no      *)
(* longer queued or running.                                               *)
LEMMA ResumeIInv ==
  ASSUME IInv, NEW p \in Procs, Resume(p)
  PROVE  IInv'
<1>1. /\ act[p] = "wait" /\ await[p] \subseteq ended /\ act' = [act EXCEPT ![p] = "run"]
      /\ await' = [await EXCEPT ![p] = {}]
      /\ UNCHANGED <<queue, lock, pipe, cur, note, executing, posts, asked, ended>>
  BY DEF Resume, Goto
<1>2. await'[p] = {} /\ \A q \in Procs \ {p} : await'[q] = await[q]
  BY <1>1 DEF IInv, Typed
<1>3. Typed'
  <2>1. await' \in [Procs -> SUBSET Nat]
    BY <1>1 DEF IInv, Typed
  <2>2. act' \in [Procs -> Acts] /\ \A q \in Procs : act'[q] = "find" <=> lock' = q
    BY <1>1 DEF IInv, Typed, Acts
  <2> QED BY <1>1, <2>1, <2>2 DEF IInv, Typed
<1>4. Numbers' /\ OnePlace'
  BY <1>1, <1>2 DEF IInv, Numbers, OnePlace
<1>5. Resting'
  BY <1>1, <1>2 DEF IInv, Typed, Resting
<1>6. RunOnJobs' = RunOnJobs
  BY <1>1 DEF RunOnJobs
<1>7. \A j \in RunOnJobs : j.id \notin ended
  BY DEF RunOnJobs, IInv, OnePlace, Numbers
<1>8. Awaited'
  BY <1>1, <1>2, <1>6, <1>7 DEF IInv, Awaited
<1> QED BY <1>3, <1>4, <1>5, <1>8 DEF IInv

(* A processor takes a job out of the queue and begins it.                 *)
LEMMA FindIInv ==
  ASSUME IInv, NEW p \in Procs, Find(p)
  PROVE  IInv'
<1>1. /\ act[p] = "find" /\ lock' = 0
      /\ UNCHANGED <<pipe, note, await, executing, posts, asked, ended>>
  BY DEF Find
<1>2. cur[p] = NoJob /\ lock = p /\ \A q \in Procs : q # 0
  <2>1. cur[p] = NoJob
    BY <1>1 DEF IInv, Resting
  <2>2. lock = p
    BY <1>1 DEF IInv, Typed
  <2> QED BY <2>1, <2>2, DispatchAssumption DEF Procs
<1> DEFINE mine == {i \in DOMAIN queue : MayRun(queue[i], p)}
<1>3. CASE mine = {}
  <2>1. act' = [act EXCEPT ![p] = "empty"] /\ UNCHANGED <<queue, cur>>
    BY <1>3 DEF Find, Goto
  <2>2. Typed'
    <3>1. act' \in [Procs -> Acts] /\ \A q \in Procs : act'[q] = "find" <=> lock' = q
      BY <1>1, <1>2, <2>1 DEF IInv, Typed, Acts
    <3>2. 0 \in 0..N
      BY DispatchAssumption
    <3> QED BY <1>1, <2>1, <3>1, <3>2 DEF IInv, Typed
  <2>3. Resting'
    BY <1>1, <1>2, <2>1 DEF IInv, Typed, Resting
  <2> QED BY <1>1, <2>1, <2>2, <2>3, StillIInv
<1>4. CASE mine # {}
  <2> DEFINE i == Min(mine)
  <2>1. i \in DOMAIN queue
    <3>1. mine \subseteq DOMAIN queue /\ mine \subseteq Nat
      BY LenProperties DEF IInv, Typed
    <3> HIDE DEF mine
    <3> QED BY <1>4, <3>1, MinIsIn
  <2>2. /\ queue' = RemoveAt(queue, i) /\ cur' = [cur EXCEPT ![p] = queue[i]]
        /\ act' = [act EXCEPT ![p] = "run"]
    BY <1>4 DEF Find, Goto
  <2> HIDE DEF i, mine
  <2> DEFINE j == queue[i]
  <2>3. /\ j \in Jobs /\ j \in Range(queue) /\ queue' \in Seq(Jobs) /\ IsInjective(queue')
        /\ Range(queue') = Range(queue) \ {j}
    BY <2>1, <2>2, TakenJob
  <2>4. cur'[p] = j /\ \A q \in Procs \ {p} : cur'[q] = cur[q]
    BY <2>2 DEF IInv, Typed
  <2>5. Typed'
    <3>1. cur' \in [Procs -> Jobs] /\ act' \in [Procs -> Acts]
      BY <2>2, <2>3 DEF IInv, Typed, Acts
    <3>2. \A q \in Procs : act'[q] = "find" <=> lock' = q
      BY <1>1, <1>2, <2>2 DEF IInv, Typed
    <3>3. 0 \in 0..N
      BY DispatchAssumption
    <3> QED BY <1>1, <2>3, <3>1, <3>2, <3>3 DEF IInv, Typed
  <2>6. Resting'
    BY <1>1, <2>2, <2>4 DEF IInv, Typed, Resting
  <2> HIDE DEF j
  <2>7. Numbers'
    <3>1. j.id \in 1..posts
      BY <2>3 DEF IInv, Numbers
    <3>2. j.id \in 0..posts /\ j.id # 0
      BY <3>1 DEF IInv, Typed
    <3>3. \A q \in Procs : cur'[q].id \in 0..posts /\ (cur'[q].kind \in {"call", "msg"} => cur'[q].id # 0)
      BY <2>4, <3>2 DEF IInv, Numbers
    <3> QED BY <1>1, <2>3, <3>3 DEF IInv, Numbers
  <2>8. OnePlace'
    BY <1>1, <2>3, <2>4 DEF IInv, OnePlace
  <2>9. RunOnJobs' = RunOnJobs
    BY <1>2, <2>3, <2>4 DEF RunOnJobs, NoJob
  <2>10. Awaited'
    BY <1>1, <2>9 DEF IInv, Awaited
  <2> QED BY <2>5, <2>6, <2>7, <2>8, <2>10 DEF IInv
<1> QED BY <1>3, <1>4

(* User code has a job put in the queue, and may await it.                 *)
LEMMA PostIInv ==
  ASSUME IInv, NEW p \in Procs, NEW r \in Requests, Post(p, r)
  PROVE  IInv'
<1> DEFINE job == [id |-> posts + 1, to |-> r.to, kind |-> r.kind, about |-> 0, graph |-> r.graph]
           mine == IF r.kind = "call" THEN {posts + 1} ELSE {}
<1>1. /\ act[p] = "run" /\ lock = 0 /\ asked' = asked + 1 /\ posts' = posts + 1
      /\ queue' = Inserted(queue, job) /\ await' = [await EXCEPT ![p] = mine]
      /\ UNCHANGED <<lock, pipe, cur, executing, ended>>
  BY DEF Post
<1>2. \/ r.kind = "delete" /\ UNCHANGED <<note, act>>
      \/ r.kind # "delete" /\ note' = [note EXCEPT ![p] = r.to] /\ act' = [act EXCEPT ![p] = "notify"]
  BY DEF Post, Goto
<1>3. posts \in Nat /\ 0 \in 0..N /\ r.to \in 0..N /\ r.kind \in {"work", "call", "delete"} /\ r.graph \in BOOLEAN
  BY DispatchAssumption DEF IInv, Typed
<1>4. job \in Jobs /\ job.id = posts + 1 /\ (job.kind \in {"call", "msg"} <=> r.kind = "call")
  BY <1>3 DEF Jobs, Kinds
<1>5. /\ mine \subseteq {posts + 1} /\ (r.kind = "call" <=> posts + 1 \in mine)
      /\ await'[p] = mine /\ \A q \in Procs \ {p} : await'[q] = await[q]
  BY <1>1 DEF IInv, Typed
<1> HIDE DEF job, mine
<1>6. /\ Range(queue') = Range(queue) \cup {job} /\ queue' \in Seq(Jobs) /\ OnePlace'
      /\ RunOnJobs' = RunOnJobs \cup (IF job.kind \in {"call", "msg"} THEN {job} ELSE {})
  BY <1>1, <1>4, PutJob
<1>7. await[p] = {}
  BY <1>1 DEF IInv, Resting
<1>8. Typed'
  <2>1. await' \in [Procs -> SUBSET Nat]
    BY <1>1, <1>3, <1>5 DEF IInv, Typed
  <2>2. note' \in [Procs -> 0..N] /\ act' \in [Procs -> Acts]
    BY <1>2, <1>3 DEF IInv, Typed, Acts
  <2>3. \A q \in Procs : act'[q] = "find" <=> lock' = q
    BY <1>1, <1>2 DEF IInv, Typed
  <2>4. asked' \in Nat /\ posts' \in Nat
    BY <1>1 DEF IInv, Typed
  <2> QED BY <1>1, <1>6, <2>1, <2>2, <2>3, <2>4 DEF IInv, Typed
<1>9. Resting'
  BY <1>1, <1>2, <1>5, <1>3 DEF IInv, Resting, Typed
<1>10. Numbers'
  <2>1. \A j \in Range(queue') : j.id \in 1..(posts + 1)
    BY <1>3, <1>4, <1>6 DEF IInv, Numbers
  <2>2. \A q \in Procs : cur[q].id \in 0..(posts + 1) /\ await[q] \subseteq 1..(posts + 1)
    BY <1>3 DEF IInv, Numbers
  <2>4. \A q \in Procs : await'[q] \subseteq 1..(posts + 1)
    <3>1. posts + 1 \in 1..(posts + 1)
      BY <1>3
    <3> QED BY <1>5, <2>2, <3>1
  <2>3. ended \subseteq 0..(posts + 1)
    BY <1>3 DEF IInv, Numbers
  <2> QED BY <1>1, <2>1, <2>2, <2>3, <2>4 DEF IInv, Numbers
<1>11. Awaited'
  <2>1. \A q \in Procs : posts + 1 \notin await[q]
    BY <1>3 DEF IInv, Numbers
  <2>2. \A q, s \in Procs : \A n \in Nat : n \in await'[q] /\ n \in await'[s] => q = s
    BY <1>5, <2>1 DEF IInv, Awaited
  <2>3. \A j \in RunOnJobs' : \E q \in Procs : j.id \in await'[q]
    BY <1>4, <1>5, <1>6, <1>7 DEF IInv, Awaited
  <2>4. \A q \in Procs : \A n \in await'[q] : n \in ended' \/ \E j \in RunOnJobs' : j.id = n
    BY <1>1, <1>4, <1>5, <1>6 DEF IInv, Awaited
  <2> QED BY <2>2, <2>3, <2>4 DEF Awaited
<1> QED BY <1>6, <1>8, <1>9, <1>10, <1>11 DEF IInv

(* A child that cannot announce its job itself asks the parent to, and     *)
(* awaits that as well.                                                    *)
LEMMA AskIInv ==
  ASSUME IInv, NEW p \in Procs, act[p] = "notify",
         NEW job \in Jobs, job.id = posts + 1, job.kind = "msg",
         queue' = Inserted(queue, job), posts' = posts + 1,
         await' = [await EXCEPT ![p] = @ \cup {posts + 1}],
         act' = [act EXCEPT ![p] = "wait"],
         UNCHANGED <<cur, ended>>, Typed'
  PROVE  IInv'
<1>1. /\ Range(queue') = Range(queue) \cup {job} /\ OnePlace' /\ posts \in Nat
      /\ RunOnJobs' = RunOnJobs \cup {job}
  BY PutJob
<1>2. /\ await'[p] = await[p] \cup {posts + 1}
      /\ \A q \in Procs \ {p} : await'[q] = await[q]
  BY DEF IInv, Typed
<1>3. Resting'
  BY <1>2 DEF IInv, Resting, Typed
<1>4. Numbers'
  <2>1. \A j \in Range(queue') : j.id \in 1..(posts + 1)
    BY <1>1 DEF IInv, Numbers
  <2>2. \A q \in Procs : cur[q].id \in 0..(posts + 1) /\ await'[q] \subseteq 1..(posts + 1)
    BY <1>1, <1>2 DEF IInv, Numbers
  <2>3. ended \subseteq 0..(posts + 1)
    BY <1>1 DEF IInv, Numbers
  <2> QED BY <2>1, <2>2, <2>3 DEF IInv, Numbers
<1>5. Awaited'
  <2>1. \A q \in Procs : posts + 1 \notin await[q]
    BY <1>1 DEF IInv, Numbers
  <2>2. \A q, s \in Procs : \A n \in Nat : n \in await'[q] /\ n \in await'[s] => q = s
    BY <1>2, <2>1 DEF IInv, Awaited
  <2>3. \A j \in RunOnJobs' : \E q \in Procs : j.id \in await'[q]
    BY <1>1, <1>2 DEF IInv, Awaited
  <2>4. \A q \in Procs : \A n \in await'[q] : n \in ended' \/ \E j \in RunOnJobs' : j.id = n
    BY <1>1, <1>2 DEF IInv, Awaited
  <2> QED BY <2>2, <2>3, <2>4 DEF Awaited
<1> QED BY <1>1, <1>3, <1>4, <1>5 DEF IInv

(* The announcement of a job, in its three ways.                           *)
LEMMA NotifyIInv ==
  ASSUME IInv, NEW p \in Procs, Notify(p)
  PROVE  IInv'
<1>1. /\ act[p] = "notify" /\ note' = [note EXCEPT ![p] = 0]
      /\ UNCHANGED <<lock, cur, executing, asked, ended>>
  BY DEF Notify
<1>2. N \in Nat /\ 0 \in 0..N /\ 1 \in 0..N /\ 1 \in Procs /\ note[p] \in 0..N
  BY DispatchAssumption DEF Procs, IInv, Typed
<1>3. note' \in [Procs -> 0..N]
  BY <1>1, <1>2 DEF IInv, Typed
<1>4. CASE /\ pipe' \in {Written(note[p]), [pipe EXCEPT ![1] = @ + 1]}
           /\ act' = [act EXCEPT ![p] = Waiting(p, await[p])]
           /\ UNCHANGED <<queue, posts, await>>
  <2>1. pipe' \in [Procs -> Nat]
    <3>1. Written(note[p]) \in [Procs -> Nat]
      BY DEF Written, IInv, Typed
    <3>2. [pipe EXCEPT ![1] = @ + 1] \in [Procs -> Nat]
      BY <1>2 DEF IInv, Typed
    <3> QED BY <1>4, <3>1, <3>2
  <2>2. \/ act' = [act EXCEPT ![p] = "run"] /\ await[p] = {}
        \/ act' = [act EXCEPT ![p] = "wait"]
    BY <1>4 DEF Waiting
  <2>3. act' \in [Procs -> Acts] /\ \A q \in Procs : act'[q] = "find" <=> lock' = q
    BY <1>1, <2>2 DEF IInv, Typed, Acts
  <2>4. Typed'
    BY <1>1, <1>3, <1>4, <2>1, <2>3 DEF IInv, Typed
  <2>5. Resting'
    BY <1>1, <1>4, <2>2 DEF IInv, Typed, Resting
  <2> QED BY <1>1, <1>4, <2>4, <2>5, StillIInv
<1>5. CASE /\ queue' = Inserted(queue, [id |-> posts + 1, to |-> 1, kind |-> "msg",
                                        about |-> note[p], graph |-> cur[p].graph])
           /\ posts' = posts + 1 /\ await' = [await EXCEPT ![p] = @ \cup {posts + 1}]
           /\ pipe' = IF p = 2 THEN [pipe EXCEPT ![1] = @ + 1] ELSE pipe
           /\ act' = [act EXCEPT ![p] = "wait"]
  <2> DEFINE job == [id |-> posts + 1, to |-> 1, kind |-> "msg", about |-> note[p], graph |-> cur[p].graph]
  <2>1. posts \in Nat /\ cur[p].graph \in BOOLEAN
    BY DEF IInv, Typed, Jobs
  <2>2. job \in Jobs /\ job.id = posts + 1 /\ job.kind = "msg"
    BY <1>2, <2>1 DEF Jobs, Kinds
  <2>3. queue' = Inserted(queue, job)
    BY <1>5
  <2> HIDE DEF job
  <2>4. queue' \in Seq(Jobs)
    BY <2>2, <2>3, InsertedJob
  <2>5. await' \in [Procs -> SUBSET Nat]
    BY <1>5, <2>1 DEF IInv, Typed
  <2>6. pipe' \in [Procs -> Nat]
    <3>1. [pipe EXCEPT ![1] = @ + 1] \in [Procs -> Nat]
      BY <1>2 DEF IInv, Typed
    <3> QED BY <1>5, <3>1 DEF IInv, Typed
  <2>7. act' \in [Procs -> Acts] /\ \A q \in Procs : act'[q] = "find" <=> lock' = q
    BY <1>1, <1>5 DEF IInv, Typed, Acts
  <2>8. Typed'
    BY <1>1, <1>3, <1>5, <2>1, <2>4, <2>5, <2>6, <2>7 DEF IInv, Typed
  <2> QED BY <1>1, <1>5, <2>2, <2>3, <2>8, AskIInv
<1> QED BY <1>4, <1>5 DEF Notify, Goto

(* The looks at the queue and the pipes.                                   *)
LEMMA LoopIInv ==
  ASSUME IInv, NEW p \in Procs, Look(p) \/ Enter(p) \/ Idle(p) \/ Wakeup(p)
  PROVE  IInv'
<1>1. UNCHANGED <<queue, cur, note, await, executing, posts, asked, ended>>
  BY DEF Look, Enter, Idle, Wakeup
<1>2. \A q \in Procs : q \in 0..N /\ q # 0
  BY DispatchAssumption DEF Procs
<1>3. /\ act[p] \in {"loop", "enter", "empty", "block"}
      /\ \E x \in {"loop", "enter", "find", "empty", "block"} :
           /\ act' = [act EXCEPT ![p] = x]
           /\ \/ x # "find" /\ lock' = lock
              \/ x = "find" /\ lock = 0 /\ lock' = p
  BY DEF Look, Enter, Idle, Wakeup, Goto
<1>4. pipe' \in [Procs -> Nat]
  <2>1. CASE Look(p) \/ Enter(p)
    BY <2>1 DEF Look, Enter, IInv, Typed
  <2>2. CASE Idle(p)
    BY <2>2 DEF Idle, IInv, Typed
  <2>3. CASE Wakeup(p)
    BY <2>3 DEF Wakeup, IInv, Typed
  <2> QED BY <2>1, <2>2, <2>3
<1>5. act' \in [Procs -> Acts]
  BY <1>3 DEF IInv, Typed, Acts
<1>6. lock' \in 0..N /\ \A q \in Procs : act'[q] = "find" <=> lock' = q
  BY <1>2, <1>3 DEF IInv, Typed
<1>7. Typed'
  BY <1>1, <1>4, <1>5, <1>6 DEF IInv, Typed
<1>8. Resting'
  BY <1>1, <1>3 DEF IInv, Typed, Resting
<1> QED BY <1>1, <1>7, <1>8, StillIInv

(* A command or an event has an idle processor run user code.              *)
LEMMA InputIInv ==
  ASSUME IInv, NEW p \in Procs, (p = 1 /\ StartGraph) \/ Event(p)
  PROVE  IInv'
<1>1. /\ act[p] \in {"loop", "empty", "block"} /\ act' = [act EXCEPT ![p] = "run"]
      /\ asked' = asked + 1 /\ executing' \in BOOLEAN
      /\ UNCHANGED <<queue, lock, pipe, note, await, posts, ended>>
  BY DEF StartGraph, Event, Goto, IInv, Typed
<1>2. /\ NoJob \in Jobs /\ NoJob.id = 0 /\ NoJob.kind = "user"
      /\ [NoJob EXCEPT !.graph = TRUE] \in Jobs
      /\ [NoJob EXCEPT !.graph = TRUE].id = 0 /\ [NoJob EXCEPT !.graph = TRUE].kind = "user"
  <2>1. NoJob \in Jobs /\ NoJob.id = 0 /\ NoJob.kind = "user"
    BY DispatchAssumption DEF NoJob, Jobs, Kinds
  <2>2. [NoJob EXCEPT !.graph = TRUE] \in Jobs
    BY <2>1 DEF Jobs
  <2>3. [NoJob EXCEPT !.graph = TRUE].id = 0 /\ [NoJob EXCEPT !.graph = TRUE].kind = "user"
    BY <2>1 DEF Jobs
  <2> QED BY <2>1, <2>2, <2>3
<1>3. cur' = [cur EXCEPT ![p] = NoJob] \/ cur' = [cur EXCEPT ![p] = [NoJob EXCEPT !.graph = TRUE]]
  BY DEF StartGraph, Event
<1>4. PICK job \in Jobs : job.id = 0 /\ job.kind = "user" /\ cur' = [cur EXCEPT ![p] = job]
  BY <1>2, <1>3
<1>5. cur[p] = NoJob
  BY <1>1 DEF IInv, Resting
<1>6. Typed'
  <2>1. cur' \in [Procs -> Jobs]
    BY <1>4 DEF IInv, Typed
  <2>2. act' \in [Procs -> Acts] /\ \A q \in Procs : act'[q] = "find" <=> lock' = q
    BY <1>1 DEF IInv, Typed, Acts
  <2> QED BY <1>1, <2>1, <2>2 DEF IInv, Typed
<1> QED BY <1>1, <1>4, <1>5, <1>6, BeginIInv

-----------------------------------------------------------------------------
(* The invariant holds in every reachable state.                           *)
THEOREM Invariant == Spec => []IInv
<1>1. IInv /\ [Next]_vars => IInv'
  <2> SUFFICES ASSUME IInv, [Next]_vars PROVE IInv'
    OBVIOUS
  <2>1. ASSUME NEW p \in Procs, Step(p) PROVE IInv'
    <3>1. ASSUME Return(p) \/ EndGraph(p) PROVE IInv'
      BY <3>1, FinishIInv DEF Return, EndGraph
    <3> QED BY <2>1, <3>1, PostIInv, NotifyIInv, ResumeIInv, LoopIInv, FindIInv DEF Step
  <2>2. ASSUME NEW p \in Procs, Event(p) PROVE IInv'
    BY <2>2, InputIInv
  <2>3. CASE StartGraph
    <3>1. 1 \in Procs
      BY DispatchAssumption DEF Procs
    <3> QED BY <2>3, <3>1, InputIInv
  <2>4. CASE UNCHANGED vars
    <3>1. UNCHANGED <<queue, lock, pipe, act, cur, note, await, executing, posts, asked, ended>>
      BY <2>4 DEF vars
    <3>2. Typed' /\ Resting'
      BY <3>1 DEF IInv, Typed, Resting
    <3> QED BY <3>1, <3>2, StillIInv
  <2> QED BY <2>1, <2>2, <2>3, <2>4 DEF Next, Asleep
<1> QED BY <1>1, InitIInv, PTL DEF Spec

(* Every variable has its type, and the critical section of the run queue  *)
(* has the one processor in it that holds the lock.                        *)
THEOREM TypeCorrect == Spec => []TypeOK
<1>1. IInv => TypeOK
  <2> SUFFICES ASSUME IInv PROVE TypeOK
    OBVIOUS
  <2>1. \A i \in DOMAIN queue : queue[i] \in Jobs /\ queue[i] \in Range(queue)
    BY TakenJob
  <2>2. \A i \in DOMAIN queue : queue[i].id \in 1..posts /\ queue[i].to \in 0..N
    BY <2>1 DEF IInv, Numbers, Jobs
  <2> QED BY <2>2 DEF IInv, Typed, TypeOK, Acts
<1> QED BY <1>1, Invariant, PTL

(* A RunOn job, which its sender frees when it has got the done lock, is   *)
(* awaited by one processor as long as it is queued or runs, and nobody    *)
(* awaits a job that is neither on its way nor ended.                      *)
THEOREM RunOnAwaited == Spec => []RunOnJobAwaited
<1>1. IInv => RunOnJobAwaited
  <2> SUFFICES ASSUME IInv PROVE RunOnJobAwaited
    OBVIOUS
  <2>1. ASSUME NEW j \in RunOnJobs
        PROVE  j.id \notin ended /\ Cardinality({p \in Procs : j.id \in await[p]}) = 1
    <3>1. j.id \notin ended
      BY DEF RunOnJobs, IInv, OnePlace, Numbers
    <3>2. PICK p \in Procs : j.id \in await[p]
      BY DEF IInv, Awaited
    <3>3. j.id \in Nat
      BY <3>2 DEF IInv, Typed
    <3>4. {q \in Procs : j.id \in await[q]} = {p}
      BY <3>2, <3>3 DEF IInv, Awaited
    <3> QED BY <3>1, <3>4, FS_Singleton
  <2>2. ASSUME NEW p \in Procs PROVE await[p] \subseteq ended \cup {j.id : j \in RunOnJobs}
    BY DEF IInv, Awaited, Typed
  <2> QED BY <2>1, <2>2 DEF RunOnJobAwaited
<1> QED BY <1>1, Invariant, PTL

=============================================================================
