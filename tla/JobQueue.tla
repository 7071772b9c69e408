------------------------------ MODULE JobQueue ------------------------------
(***************************************************************************)
(* What the run queue of the executive (dpexec/rq.c) promises its callers, *)
(* free of locks, blocks and list pointers.  A job is a function call to   *)
(* be made repeat times, by any processor or only by processor JID, for    *)
(* task group gid (0: for none).  Put inserts a batch of jobs in one step, *)
(* Take hands out one repetition of the first job the caller may run.      *)
(* log and ran are history: every job ever put (its number is its index)   *)
(* and every repetition ever handed out, with the processor that got it.   *)
(***************************************************************************)
EXTENDS Integers, Sequences, SequencesExt

CONSTANTS Procs,      \* processor numbers as JIDs: 1 is the parent
          Gids,       \* task groups a job may belong to, 0 for none
          Batches,    \* the batches of jobs callers enqueue
          MaxJobs     \* bound on the jobs ever enqueued

\* A job as its caller describes it (JID 0: any processor may run it).
Templates == [gid : Gids, JID : Procs \cup {0}, highpri : BOOLEAN, repeat : Nat \ {0}]

ASSUME JobQueueAssumption ==
  /\ Procs \subseteq Nat \ {0}
  /\ 0 \in Gids
  /\ MaxJobs \in Nat
  /\ \A b \in Batches :
       /\ b \in Seq(Templates) /\ Len(b) > 0
       /\ \A i \in DOMAIN b : b[i].highpri = b[1].highpri

VARIABLES jobs, log, ran
jqVars == <<jobs, log, ran>>

JQInit == jobs = << >> /\ log = << >> /\ ran = {}

\* A job in the queue carries its number: it stands for (func, arg).
Numbered(b, n) ==
  [i \in DOMAIN b |-> [gid |-> b[i].gid, JID |-> b[i].JID, highpri |-> b[i].highpri,
                       repeat |-> b[i].repeat, id |-> n + i]]

Put(b) ==
  /\ Len(log) + Len(b) <= MaxJobs
  /\ LET new == Numbered(b, Len(log))
     IN  jobs' = IF b[1].highpri THEN new \o jobs ELSE jobs \o new
  /\ log' = log \o b
  /\ UNCHANGED ran

\* MUTANT of MayRun: any processor runs a job of its group.
MayRunAnywhere(job, p, gid) ==
  \/ gid # 0 /\ job.gid = gid
  \/ (gid = 0 \/ job.highpri) /\ job.JID \in {0, p}

MayRun(job, p, gid) ==
  /\ gid = 0 \/ job.gid = gid \/ job.highpri
  /\ job.JID \in {0, p}

\* MUTANT of Take: the job stays in the queue when its last repetition goes.
TakeKeeps(p, gid) ==
  \E i \in DOMAIN jobs :
    /\ MayRun(jobs[i], p, gid)
    /\ ran' = ran \cup {<<jobs[i].id, jobs[i].repeat - 1, p>>}
    /\ jobs' = [jobs EXCEPT ![i].repeat = @ - 1]
    /\ UNCHANGED log

\* MUTANT of Take: the last repetition goes with the first.
TakeDrops(p, gid) ==
  \E i \in DOMAIN jobs :
    /\ MayRun(jobs[i], p, gid)
    /\ ran' = ran \cup {<<jobs[i].id, jobs[i].repeat - 1, p>>}
    /\ jobs' = RemoveAt(jobs, i)
    /\ UNCHANGED log

\* The repetitions of a job are handed out from repeat - 1 down to 0.
Take(p, gid) ==
  \E i \in DOMAIN jobs :
    /\ MayRun(jobs[i], p, gid)
    /\ \A k \in 1..(i - 1) : ~MayRun(jobs[k], p, gid)
    /\ ran' = ran \cup {<<jobs[i].id, jobs[i].repeat - 1, p>>}
    /\ jobs' = IF jobs[i].repeat = 1
                 THEN RemoveAt(jobs, i)
                 ELSE [jobs EXCEPT ![i].repeat = @ - 1]
    /\ UNCHANGED log

JQNext == \/ \E b \in Batches : Put(b)
          \/ \E p \in Procs, gid \in Gids : Take(p, gid)

JQSpec == JQInit /\ [][JQNext]_jqVars

-----------------------------------------------------------------------------
\* A job in the queue: as its caller described it, with its number.
Jobs == [gid : Gids, JID : Procs \cup {0}, highpri : BOOLEAN, repeat : Nat \ {0},
         id : Nat \ {0}]

(* The jobs of the queue still have a repetition to hand out, and history  *)
(* is about jobs, repetitions and processors.                              *)
TypeOK == /\ jobs \in Seq(Jobs)
          /\ log \in Seq(Templates)
          /\ ran \subseteq (Nat \ {0}) \X Nat \X Procs

\* Repetition k of job n is still to be handed out; has been handed out.
InQueue(n, k)   == \E i \in DOMAIN jobs : jobs[i].id = n /\ k < jobs[i].repeat
HandedOut(n, k) == \E r \in ran : r[1] = n /\ r[2] = k

(* Every repetition of every job is either still in the queue or was       *)
(* handed out, to one processor only: none is lost, none runs twice (the   *)
(* code counts down the repeat field of the job's block).                  *)
EachRepetitionOnce ==
  \A n \in DOMAIN log : \A k \in 0..(log[n].repeat - 1) :
    /\ InQueue(n, k) <=> ~HandedOut(n, k)
    /\ \A q, r \in ran : q[1] = n /\ r[1] = n /\ q[2] = k /\ r[2] = k => q = r

(* A job addressed to one processor runs only there.                       *)
OnItsProcessor == \A r \in ran : log[r[1]].JID \in {0, r[3]}

(* What the code relies on without saying so, and the induction needs:     *)
(* a job is in the queue at most once, as its caller described it but for  *)
(* the repetitions handed out, and nothing ran that was never put there.   *)
Consistent ==
  /\ \A i \in DOMAIN jobs :
       /\ jobs[i].id \in DOMAIN log
       /\ jobs[i].JID = log[jobs[i].id].JID
       /\ jobs[i].repeat <= log[jobs[i].id].repeat
  /\ \A i, j \in DOMAIN jobs : jobs[i].id = jobs[j].id => i = j
  /\ \A r \in ran : r[1] \in DOMAIN log /\ r[2] < log[r[1]].repeat
=============================================================================
