------------------------------ MODULE Dispatch ------------------------------
(***************************************************************************)
(* How processors learn that there is work: the notification half of       *)
(* rq.c's insertions, the wake-up pipes and main loops of dxmain.c, and    *)
(* _dxf_ExRunOn of task.c.  Processor 1 is the parent; it alone can write  *)
(* to the children's pipes, so that a child that puts a job in the queue   *)
(* has the parent do it, with RunOn: a high priority job for the parent    *)
(* whose end the child awaits on the job's done lock without looking at    *)
(* the run queue.  Processor 2 (child 1) has a pipe to the parent.         *)
(*                                                                         *)
(* The queue is the sequence of JobQueue, but count is what unlocked       *)
(* readers see in RunQueue: one too low while somebody is between          *)
(* rq.c:362 and his unlock.  Jobs have one repetition and no group here.   *)
(***************************************************************************)
EXTENDS Integers, Sequences, FiniteSets, SequencesExt

CONSTANTS
  N,           \* processors, the parent included
  Requests,    \* what user code may ask: [from, to, kind, graph]: from a processor,
               \* to a JID; kind: "work" for a job, "call" for RunOn, "delete" for the
               \* deletion of an object while memory is reclaimed; graph: in a job
               \* of the graph or not
  EventProcs,  \* processors with input handlers: they run user code when idle
  MaxPosts     \* bound on the graphs, events and requests together

ASSUME DispatchAssumption ==
  /\ N \in Nat /\ N >= 2
  /\ MaxPosts \in Nat
  /\ EventProcs \subseteq {1, 2}
  /\ Requests \subseteq [from : 1..N, to : 0..N, kind : {"work", "call", "delete"}, graph : BOOLEAN]
  /\ \A r \in Requests : r.kind # "work" => r.to # r.from

Procs == 1..N

VARIABLES
  queue,      \* jobs in the run queue, head first
  lock,       \* the processor inside Dequeue's critical section, or 0
  pipe,       \* per processor: unread bytes in the pipe it waits on
  act, cur,   \* per processor: what it does, and the job it runs
  note,       \* JID of the insertion it has to announce
  await,      \* numbers of the RunOn jobs whose done lock it waits for
  executing,  \* _dxf_ExIsExecuting: the shared context has a program
  posts,      \* jobs numbered so far
  asked,      \* graphs, events and requests so far, bounded by MaxPosts
  ended       \* numbers of the jobs that have run

vars == <<queue, lock, pipe, act, cur, note, await, executing, posts, asked, ended>>

NoJob == [id |-> 0, to |-> 0, kind |-> "user", about |-> 0, graph |-> FALSE]

Init ==
  /\ queue = << >> /\ lock = 0
  /\ pipe = [p \in Procs |-> 0]
  /\ act = [p \in Procs |-> "loop"] /\ cur = [p \in Procs |-> NoJob]
  /\ note = [p \in Procs |-> 0] /\ await = [p \in Procs |-> {}]
  /\ executing = FALSE /\ posts = 0 /\ asked = 0 /\ ended = {}

\* rq->count as an unlocked reader sees it.
Count == Len(queue) - (IF lock = 0 THEN 0 ELSE 1)

Goto(p, a) == act' = [act EXCEPT ![p] = a]

\* High priority jobs (RunOn's, deletions) go to the head.
Inserted(q, job) == IF job.kind = "work" THEN Append(q, job) ELSE <<job>> \o q

-----------------------------------------------------------------------------
(* User code.                                                              *)

\* A command is there, which also ends the parent's select; an input handler
\* runs on an idle processor.
StartGraph ==
  /\ act[1] \in {"loop", "block"} /\ ~executing /\ asked < MaxPosts
  /\ executing' = TRUE
  /\ asked' = asked + 1
  /\ Goto(1, "run")
  /\ cur' = [cur EXCEPT ![1] = [NoJob EXCEPT !.graph = TRUE]]
  /\ UNCHANGED <<queue, lock, pipe, note, await, posts, ended>>

Event(p) ==
  /\ p \in EventProcs /\ act[p] \in {"empty", "block"} /\ asked < MaxPosts
  /\ asked' = asked + 1
  /\ Goto(p, "run")
  /\ cur' = [cur EXCEPT ![p] = NoJob]
  /\ UNCHANGED <<queue, lock, pipe, note, await, executing, posts, ended>>

\* _dxf_ExRQEnqueue, or the same inside _dxf_ExRunOn, up to its unlock.  A
\* processor that is reclaiming memory does not announce what it inserts.
Post(p, r) ==
  /\ act[p] = "run" /\ cur[p].kind \notin {"msg", "delete"} /\ cur[p].graph = r.graph
  /\ r.from = p /\ asked < MaxPosts /\ lock = 0
  /\ asked' = asked + 1 /\ posts' = posts + 1
  /\ queue' = Inserted(queue, [id |-> posts + 1, to |-> r.to, kind |-> r.kind,
                               about |-> 0, graph |-> r.graph])
  /\ await' = [await EXCEPT ![p] = IF r.kind = "call" THEN {posts + 1} ELSE {}]
  /\ IF r.kind = "delete"
     THEN UNCHANGED <<note, act>>
     ELSE note' = [note EXCEPT ![p] = r.to] /\ Goto(p, "notify")
  /\ UNCHANGED <<lock, pipe, cur, executing, ended>>

\* _dxf_child_RQ_message: the parent's pipe is not among those it writes to.
Written(jid) ==
  [q \in Procs |-> IF q # 1 /\ jid \in {0, q} THEN pipe[q] + 1 ELSE pipe[q]]

Waiting(p, ids) == IF ids = {} THEN "run" ELSE "wait"

\* The end of _dxf_ExRQEnqueue and _dxf_ExRQEnqueueMany.  Three ways: the
\* parent writes the pipes; child 1 writes the parent's pipe; any other
\* sender asks the parent with RunOn (nested, so that this second insertion
\* is announced to the parent by child 1 only).
Notify(p) ==
  /\ act[p] = "notify"
  /\ \/ /\ p = 1
        /\ pipe' = Written(note[p])
        /\ Goto(p, Waiting(p, await[p]))
        /\ UNCHANGED <<queue, posts, await>>
     \/ /\ p = 2 /\ note[p] = 1
        /\ pipe' = [pipe EXCEPT ![1] = @ + 1]
        /\ Goto(p, Waiting(p, await[p]))
        /\ UNCHANGED <<queue, posts, await>>
     \/ /\ p # 1 /\ ~(p = 2 /\ note[p] = 1) /\ lock = 0
        /\ queue' = Inserted(queue, [id |-> posts + 1, to |-> 1, kind |-> "msg",
                                     about |-> note[p], graph |-> cur[p].graph])
        /\ posts' = posts + 1
        /\ await' = [await EXCEPT ![p] = @ \cup {posts + 1}]
        /\ pipe' = IF p = 2 THEN [pipe EXCEPT ![1] = @ + 1] ELSE pipe
        /\ Goto(p, "wait")
  /\ note' = [note EXCEPT ![p] = 0]
  /\ UNCHANGED <<lock, cur, executing, asked, ended>>

\* MUTANT of Resume: RunOn does not wait for the done lock.
ResumeAtOnce(p) ==
  /\ act[p] = "wait"
  /\ await' = [await EXCEPT ![p] = {}]
  /\ Goto(p, "run")
  /\ UNCHANGED <<queue, lock, pipe, cur, note, executing, posts, asked, ended>>

\* The done locks are released: back in user code.
Resume(p) ==
  /\ act[p] = "wait" /\ await[p] \subseteq ended
  /\ await' = [await EXCEPT ![p] = {}]
  /\ Goto(p, "run")
  /\ UNCHANGED <<queue, lock, pipe, cur, note, executing, posts, asked, ended>>

\* The function of the current job returns (ExRunOnWorker: done unlocked).
Finish(p) ==
  /\ act[p] = "run"
  /\ pipe' = IF cur[p].kind = "msg" THEN Written(cur[p].about) ELSE pipe
  /\ ended' = ended \cup {cur[p].id}
  /\ cur' = [cur EXCEPT ![p] = NoJob]
  /\ Goto(p, "loop")
  /\ UNCHANGED <<queue, lock, note, await, posts, asked>>

Return(p) == Finish(p) /\ UNCHANGED executing

\* A job that keeps the program going: deletions do not.
OfProgram(job) == job.graph /\ job.kind # "delete"

\* MUTANT of EndGraph: the program ends although jobs of it are queued.
EndGraphEarly(p) ==
  /\ OfProgram(cur[p]) /\ cur[p].kind # "msg" /\ executing
  /\ executing' = FALSE
  /\ Finish(p)

\* The job of the last module finds nothing more to start and deletes the
\* program, on whatever processor it runs.
EndGraph(p) ==
  /\ OfProgram(cur[p]) /\ cur[p].kind # "msg" /\ executing
  /\ \A i \in DOMAIN queue : ~OfProgram(queue[i])
  /\ \A q \in Procs \ {p} : ~OfProgram(cur[q])
  /\ executing' = FALSE
  /\ Finish(p)

-----------------------------------------------------------------------------
(* The main loops: ExMainLoopSlave, ExParallelMaster, _dxf_ExRQDequeue (0).*)

\* The unlocked looks at count.
Look(p) ==
  /\ act[p] = "loop"
  /\ Goto(p, IF Count > 0 THEN "enter" ELSE "empty")
  /\ UNCHANGED <<queue, lock, pipe, cur, note, await, executing, posts, asked, ended>>

\* MUTANT of Enter: the critical section is entered without the lock.
EnterUnlocked(p) ==
  /\ act[p] = "enter"
  /\ IF Count > 0 THEN lock' = p /\ Goto(p, "find")
                  ELSE lock' = lock /\ Goto(p, "empty")
  /\ UNCHANGED <<queue, pipe, cur, note, await, executing, posts, asked, ended>>

Enter(p) ==
  /\ act[p] = "enter" /\ lock = 0
  /\ IF Count > 0 THEN lock' = p /\ Goto(p, "find")
                  ELSE lock' = lock /\ Goto(p, "empty")
  /\ UNCHANGED <<queue, pipe, cur, note, await, executing, posts, asked, ended>>

MayRun(job, p) == job.to \in {0, p}

Find(p) ==
  /\ act[p] = "find"
  /\ lock' = 0
  /\ LET mine == {i \in DOMAIN queue : MayRun(queue[i], p)}
     IN  IF mine = {}
         THEN Goto(p, "empty") /\ UNCHANGED <<queue, cur>>
         ELSE /\ queue' = RemoveAt(queue, Min(mine))
              /\ cur' = [cur EXCEPT ![p] = queue[Min(mine)]]
              /\ Goto(p, "run")
  /\ UNCHANGED <<pipe, note, await, executing, posts, asked, ended>>

\* MUTANT of Idle: the parent blocks in select while a graph executes.
IdleBlocks(p) ==
  /\ act[p] = "empty"
  /\ Goto(p, "block")
  /\ UNCHANGED <<queue, lock, pipe, cur, note, await, executing, posts, asked, ended>>

\* Nothing to run: the parent and child 1 poll their input handlers, which
\* read a byte of the pipe, while a graph executes, and block in select
\* otherwise; the other children block in read.
Idle(p) ==
  /\ act[p] = "empty"
  /\ IF p <= 2 /\ executing
     THEN /\ pipe' = [pipe EXCEPT ![p] = IF @ > 0 THEN @ - 1 ELSE 0]
          /\ Goto(p, "loop")
     ELSE Goto(p, "block") /\ UNCHANGED pipe
  /\ UNCHANGED <<queue, lock, cur, note, await, executing, posts, asked, ended>>

Wakeup(p) ==
  /\ act[p] = "block" /\ pipe[p] > 0
  /\ pipe' = [pipe EXCEPT ![p] = @ - 1]
  /\ Goto(p, "loop")
  /\ UNCHANGED <<queue, lock, cur, note, await, executing, posts, asked, ended>>

Step(p) == \/ \E r \in Requests : Post(p, r)
           \/ Notify(p) \/ Resume(p) \/ Return(p) \/ EndGraph(p)
           \/ Look(p) \/ Enter(p) \/ Find(p) \/ Idle(p) \/ Wakeup(p)

\* Everybody sleeps, with nothing queued but deletions that nobody announced:
\* the system waits for input.
Asleep == /\ \A i \in DOMAIN queue : queue[i].kind = "delete"
          /\ \A p \in Procs : act[p] = "block" /\ pipe[p] = 0
          /\ UNCHANGED vars

Next == \/ \E p \in Procs : Step(p) \/ Event(p)
        \/ StartGraph \/ Asleep

Spec == Init /\ [][Next]_vars

\* A processor reads count as zero although there is a job for it.
Unlucky(p) == Look(p) /\ Count <= 0 /\ \E i \in DOMAIN queue : MayRun(queue[i], p)

\* Every processor is an operating system process that keeps running; DXlock
\* queues its waiters on a semaphore, so that a busy lock is got in the end;
\* and who polls count does not for ever do it within the few instructions in
\* which another processor has it too low.
FairSpec == /\ Spec
            /\ \A p \in Procs : WF_vars(Step(p)) /\ SF_vars(Enter(p)) /\ SF_vars(Notify(p))
            /\ \A p \in Procs : <>[][~Unlucky(p)]_vars

-----------------------------------------------------------------------------
(* Types; the critical section has one processor in it.                    *)
TypeOK ==
  /\ lock \in 0..N /\ executing \in BOOLEAN
  /\ pipe \in [Procs -> Nat] /\ note \in [Procs -> 0..N]
  /\ act \in [Procs -> {"loop", "enter", "find", "empty", "block", "run", "notify", "wait"}]
  /\ \A p \in Procs : act[p] = "find" <=> lock = p
  /\ \A i \in DOMAIN queue : queue[i].id \in 1..posts /\ queue[i].to \in 0..N

\* RunOn jobs that somebody may still look at.
RunOnJobs == {j \in Range(queue) \cup {cur[p] : p \in Procs} : j.kind \in {"call", "msg"}}

(* RunOn frees its job, with the done lock in it, when it gets the lock:   *)
(* as long as the job is queued or running, one processor awaits it, and   *)
(* nobody awaits a job that is neither on its way nor ended.               *)
RunOnJobAwaited ==
  /\ \A j \in RunOnJobs : /\ j.id \notin ended
                          /\ Cardinality({p \in Procs : j.id \in await[p]}) = 1
  /\ \A p \in Procs : await[p] \subseteq ended \cup {j.id : j \in RunOnJobs}

(* Every job that is put in the queue by a job of a graph runs, whatever   *)
(* its processor does when it is put there.  A deletion that memory        *)
(* reclaim asks of the parent is not announced; it runs as long as the     *)
(* graph executes, for then the parent polls.                              *)
QueuedAs(n, kinds) == \E i \in DOMAIN queue : queue[i].id = n /\ queue[i].kind \in kinds

EveryJobRuns ==
  \A n \in 1..(2 * MaxPosts) :
    /\ QueuedAs(n, {"work", "call", "msg"}) ~> (n \in ended)
    /\ QueuedAs(n, {"delete"}) ~> (n \in ended \/ ~executing)

(* A processor that waits in RunOn, which does not look at the run queue,  *)
(* gets its answer.                                                        *)
RunOnReturns == \A p \in Procs : (act[p] = "wait") ~> (act[p] # "wait")

-----------------------------------------------------------------------------
Addressed(q) == \E i \in DOMAIN queue : queue[i].to = q

\* A byte for processor q is on its way: somebody has still to announce a
\* job for it, or the parent has still to run the message that does.
Announcing(q) ==
  \/ \E p \in Procs : act[p] = "notify" /\ note[p] \in {0, q}
  \/ \E j \in RunOnJobs : j.kind = "msg" /\ j.about \in {0, q}
  \/ q = 1 /\ act[2] = "notify"

(* dxmain.c:1792 of the bytes in the pipes: they are sent "so they know    *)
(* there is work on the queue".  No processor sleeps on a job addressed to *)
(* it unless the byte is still to come.                                    *)
NobodySleepsOnAJob ==
  \A q \in Procs :
    act[q] = "block" /\ Addressed(q) => pipe[q] > 0 \/ Announcing(q)
=============================================================================
