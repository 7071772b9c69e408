------------------------------ MODULE TaskGroup ------------------------------
(***************************************************************************)
(* dpexec/task.c: fork and join.  A processor opens a task group, adds     *)
(* tasks, and executes the group: all its repetitions but one go to the    *)
(* run queue, the creator runs that one itself and then alternates between *)
(* reading ntodo and taking jobs of this group until ntodo is zero.  Every *)
(* repetition counts ntodo down when its function has returned and only    *)
(* then, without the lock, looks at sync and stores its error.             *)
(*                                                                         *)
(* Processor 1 is the one that evaluates the graph: its user code runs     *)
(* when its call stack is empty.  The others only serve the run queue.     *)
(* Task groups are memory blocks that are recycled: a group is identified  *)
(* by its block and by the serial number of its creation (serial is        *)
(* history: the code has only the pointer).  The order of the queue is     *)
(* left out here (RunQueue.tla has it), and so are task arguments, work    *)
(* estimates (any task may be the creator's own) and RunOn jobs.           *)
(***************************************************************************)
EXTENDS Integers, Sequences, FiniteSets, SequencesExt

CONSTANTS
  Procs,           \* processors, 1 is the parent
  Tgs,             \* the blocks DXAllocate can return for a task group
  MaxGroups,       \* bound on the groups ever created
  MaxTasks,        \* bound on the DXAddLikeTasks calls
  Repeats,         \* values of repeat in calls that open a task in a group
  RuntimeRepeats,  \* values of repeat in calls from inside a running task
  Syncs,           \* values of sync the callers use
  FreeThreshold    \* FREE_THRESHOLD of task.h

ASSUME TaskGroupAssumption ==
  /\ 1 \in Procs /\ Procs \subseteq Nat /\ IsFiniteSet(Procs)
  /\ MaxGroups \in Nat /\ MaxTasks \in Nat /\ FreeThreshold \in Nat
  /\ Repeats \subseteq Nat \ {0} /\ RuntimeRepeats \subseteq Nat \ {0}
  /\ Syncs \subseteq BOOLEAN

Tasks == 1..MaxTasks

VARIABLES
  grp,        \* [Tgs -> _EXTaskGroup]; st says where the block is
  task,       \* [Tasks -> _EXTask]; g, serial: the group; extra: exdelete
  queued,     \* [Tasks -> repetitions of the task in the run queue]
  doomed,     \* groups whose ExDestroyTaskGroup job is in the run queue
  freeTasks,  \* per processor: its free list
  open,       \* per processor: its stack _tasks of open groups, top first
  stack,      \* per processor: ExProcessTask and ExProcessTaskGroup calls, top last
  created, added,    \* counters behind MaxGroups and MaxTasks
  failed, answer,    \* history: serials with a failed repetition; what Execute returned
  astray      \* history: a late finisher has changed a group that is not its own

vars == <<grp, task, queued, doomed, freeTasks, open, stack, created, added,
          failed, answer, astray>>
history == <<failed, answer, astray>>

NoTask == [st |-> "none", g |-> 0, serial |-> 0, rep |-> 0, extra |-> FALSE]

Init ==
  /\ grp = [g \in Tgs |-> [st |-> "heap", serial |-> 0, sync |-> FALSE,
                           error |-> FALSE, ntodo |-> 0, procId |-> 0]]
  /\ task = [t \in Tasks |-> NoTask]
  /\ queued = [t \in Tasks |-> 0]
  /\ doomed = {}
  /\ freeTasks = [p \in Procs |-> << >>]
  /\ open = [p \in Procs |-> << >>]
  /\ stack = [p \in Procs |-> << >>]
  /\ created = 0 /\ added = 0
  /\ failed = {} /\ answer = [s \in 1..MaxGroups |-> "none"] /\ astray = FALSE

-----------------------------------------------------------------------------
(* Call stacks.  A "task" frame is a call of ExProcessTask, a "wait" frame *)
(* the do loop at the end of ExProcessTaskGroup.                           *)

TaskFrame(t, p) ==
  [k |-> "task", g |-> task[t].g, serial |-> task[t].serial, t |-> t, ph |-> "run",
   depth |-> Len(open[p]), fail |-> FALSE, lastTask |-> FALSE, knt |-> 0]

WaitFrame(g, s) ==
  [k |-> "wait", g |-> g, serial |-> s, t |-> 0, ph |-> "poll",
   depth |-> 0, fail |-> FALSE, lastTask |-> FALSE, knt |-> 0]

\* Once a late finisher has changed a block that is not its group any more the
\* blocks mean nothing, and no step is described but the deletion it asked for.
Top(p) == Last(stack[p])
At(p, ph) == ~astray /\ stack[p] # << >> /\ Top(p).ph = ph

\* User code is running: a task function, or the graph evaluation of the parent.
InUser(p) == ~astray /\ IF stack[p] = << >> THEN p = 1 ELSE Top(p).ph = "run"
Depth(p)  == IF stack[p] = << >> THEN 0 ELSE Top(p).depth

\* The top frame with its fields as in f.
SetTop(p, f) == stack' = [stack EXCEPT ![p] = Append(Front(@), f)]
Pop(p)       == stack' = [stack EXCEPT ![p] = Front(@)]
Push(p, fs)  == stack' = [stack EXCEPT ![p] = @ \o fs]

Members(g, s) == {t \in Tasks : /\ task[t].st = "live" /\ ~task[t].extra
                                /\ task[t].g = g /\ task[t].serial = s}

\* MUTANT of Recycled: the error of the block's former group stays.
RecycledWithError(g) ==
  [grp[g] EXCEPT !.st = "open", !.serial = created + 1, !.sync = FALSE, !.ntodo = 0]

\* A group out of a new block, and out of one from p's free list, which keeps
\* its creator's procId.
NewGroup(p) == [st |-> "open", serial |-> created + 1, sync |-> FALSE,
                  error |-> FALSE, ntodo |-> 0, procId |-> p]
Recycled(g) == [grp[g] EXCEPT !.st = "open", !.serial = created + 1, !.sync = FALSE,
                                !.error = FALSE, !.ntodo = 0]

\* ExDestroyTaskGroup on processor p: keep the block on p's free list while
\* it is short; the array of tasks goes with it.
Destroy(g, p, G) ==
  /\ IF Len(freeTasks[p]) >= FreeThreshold
     THEN /\ grp' = [G EXCEPT ![g].st = "heap"]
          /\ UNCHANGED freeTasks
     ELSE /\ grp' = [G EXCEPT ![g].st = "free"]
          /\ freeTasks' = [freeTasks EXCEPT ![p] = <<g>> \o @]
  /\ task' = [t \in Tasks |-> IF t \in Members(g, G[g].serial) THEN NoTask ELSE task[t]]

-----------------------------------------------------------------------------
(* The calls user code makes.                                              *)

\* MUTANT of DXCreateTaskGroup: a recycled block stays on the free list.
CreateWithoutPop(p) ==
  /\ InUser(p) /\ created < MaxGroups
  /\ created' = created + 1
  /\ \E g \in IF freeTasks[p] = << >> THEN {b \in Tgs : grp[b].st = "heap"}
                                      ELSE {Head(freeTasks[p])} :
       /\ grp' = [grp EXCEPT ![g] = NewGroup(p)]
       /\ open' = [open EXCEPT ![p] = <<g>> \o @]
  /\ UNCHANGED <<task, queued, doomed, freeTasks, stack, added, history>>

DXCreateTaskGroup(p) ==
  /\ InUser(p) /\ created < MaxGroups
  /\ created' = created + 1
  /\ IF freeTasks[p] = << >>
     THEN \E g \in {b \in Tgs : grp[b].st = "heap"} :
            /\ grp' = [grp EXCEPT ![g] = NewGroup(p)]
            /\ open' = [open EXCEPT ![p] = <<g>> \o @]
            /\ UNCHANGED freeTasks
     ELSE LET g == Head(freeTasks[p])
          IN  /\ grp' = [grp EXCEPT ![g] = Recycled(g)]
              /\ open' = [open EXCEPT ![p] = <<g>> \o @]
              /\ freeTasks' = [freeTasks EXCEPT ![p] = Tail(@)]
  /\ UNCHANGED <<task, queued, doomed, stack, added, history>>

\* DXAddLikeTasks with a group open: the task waits in the group's array.
DXAddLikeTasks(p, r) ==
  /\ InUser(p) /\ added < MaxTasks /\ open[p] # << >>
  /\ added' = added + 1
  /\ LET g == Head(open[p])
     IN  task' = [task EXCEPT ![added + 1] =
                    [st |-> "live", g |-> g, serial |-> grp[g].serial, rep |-> r,
                     extra |-> FALSE]]
  /\ UNCHANGED <<grp, queued, doomed, freeTasks, open, stack, created, history>>

\* With none open but a task running, the task joins runningTG, the group of
\* that task: ntodo goes up under the lock, then the job is enqueued.
DXAddLikeTasksRunning(p, r) ==
  /\ InUser(p) /\ added < MaxTasks /\ open[p] = << >> /\ stack[p] # << >>
  /\ added' = added + 1
  /\ LET f == Top(p)
     IN  /\ task' = [task EXCEPT ![added + 1] =
                       [st |-> "live", g |-> f.g, serial |-> f.serial, rep |-> r,
                        extra |-> TRUE]]
         /\ grp' = [grp EXCEPT ![f.g].ntodo = @ + r]
         /\ SetTop(p, [f EXCEPT !.ph = "enqueue", !.knt = added + 1])
  /\ UNCHANGED <<queued, doomed, freeTasks, open, created, history>>

AddEnqueue(p) ==
  /\ At(p, "enqueue")
  /\ LET t == Top(p).knt
     IN  queued' = [queued EXCEPT ![t] = @ + task[t].rep]
  /\ SetTop(p, [Top(p) EXCEPT !.ph = "run", !.knt = 0])
  /\ UNCHANGED <<grp, task, doomed, freeTasks, open, created, added, history>>

DXAbortTaskGroup(p) ==
  /\ InUser(p) /\ Len(open[p]) > Depth(p)
  /\ open' = [open EXCEPT ![p] = Tail(@)]
  /\ Destroy(Head(open[p]), p, grp)
  /\ UNCHANGED <<queued, doomed, stack, created, added, history>>

\* The repetitions of all tasks, when task t has n[t] of them.
Repetitions(n) == UNION {{t} \X (1..n[t]) : t \in Tasks}

\* MUTANT of TotalTodo: the creator's own repetition is forgotten.
TotalQueued(inQueue) == Cardinality(Repetitions(inQueue))

\* MUTANT of TotalTodo: one too many, as if no repetition were the creator's.
TotalTodoTwice(inQueue) == 2 + Cardinality(Repetitions(inQueue))

\* The initial value of ntodo: one, plus every repetition put in the queue.
\* An asynchronous group has no repetition for the one.
TotalTodo(inQueue) == 1 + Cardinality(Repetitions(inQueue))

\* ExProcessTaskGroup up to the end of _dxf_ExRQEnqueueMany.  err: an error
\* is pending in the processor when it is called.
ExProcessTaskGroup(p, sync, err) ==
  /\ InUser(p) /\ Len(open[p]) > Depth(p)
  /\ LET g == Head(open[p])
         m == Members(g, grp[g].serial)
         todo(own) == [t \in Tasks |-> IF t \notin m THEN 0
                                       ELSE IF t = own THEN task[t].rep - 1
                                       ELSE task[t].rep]
         start(own) ==
           /\ grp' = [grp EXCEPT ![g].st = "run", ![g].sync = sync, ![g].error = @ \/ err,
                                 ![g].ntodo = TotalTodo(todo(own))]
           /\ queued' = [t \in Tasks |-> queued[t] + todo(own)[t]]
           /\ failed' = IF err THEN failed \cup {grp[g].serial} ELSE failed
           /\ UNCHANGED <<task, freeTasks>>
     IN  /\ open' = [open EXCEPT ![p] = Tail(@)]
         /\ IF m = {}
            THEN /\ Destroy(g, p, grp)
                 /\ UNCHANGED <<queued, stack, failed>>
            ELSE IF sync
            THEN \E own \in m :
                   /\ start(own)
                   /\ Push(p, <<WaitFrame(g, grp[g].serial),
                                [TaskFrame(own, p) EXCEPT !.depth = Len(open[p]) - 1]>>)
            ELSE start(0) /\ UNCHANGED stack
  /\ UNCHANGED <<doomed, created, added, answer, astray>>

-----------------------------------------------------------------------------
(* ExProcessTask.                                                          *)

\* The task function returns; its error is kept if the group is synchronous.
TaskReturn(p, err) ==
  LET f == Top(p)
  IN  /\ At(p, "run") /\ Len(open[p]) = f.depth
      /\ SetTop(p, [f EXCEPT !.ph = "countdown", !.fail = err /\ grp[f.g].sync])
      /\ failed' = IF err THEN failed \cup {f.serial} ELSE failed
      /\ UNCHANGED <<grp, task, queued, doomed, freeTasks, open, created, added,
                     answer, astray>>

\* Under the lock: one less to do, and was it the last one?
Countdown(p) ==
  LET f == Top(p)
  IN  /\ At(p, "countdown")
      /\ grp' = [grp EXCEPT ![f.g].ntodo = @ - 1]
      /\ SetTop(p, [f EXCEPT !.ph = "post", !.lastTask = grp[f.g].ntodo = 1])
      /\ UNCHANGED <<task, queued, doomed, freeTasks, open, created, added, history>>

\* Without the lock: the last task of an asynchronous group has the group
\* deleted, a task of a synchronous one leaves its error; an extra task block
\* is freed.  The group, and the array with its tasks, may have gone back to
\* DXAllocate in the meantime: their bits can then be anything.
Post(p) ==
  LET f     == Top(p)
      g     == grp[f.g]
      own   == g.st = "run" /\ g.serial = f.serial
      Bit(field, gone) == IF g.st = "heap" /\ gone THEN BOOLEAN ELSE {field}
      inUse == \/ queued[f.t] > 0
               \/ \E q \in Procs \ {p} : \E i \in DOMAIN stack[q] : stack[q][i].t = f.t
  IN  /\ At(p, "post")
      /\ \E sync \in Bit(g.sync, TRUE), error \in Bit(g.error, TRUE),
            extra \in Bit(task[f.t].extra, task[f.t].st = "none") :
           LET delete == ~sync /\ f.lastTask
               stash  == sync /\ f.fail /\ ~error
           IN  /\ doomed' = IF delete THEN doomed \cup {f.g} ELSE doomed
               /\ grp' = IF stash THEN [grp EXCEPT ![f.g].error = TRUE] ELSE grp
               /\ task' = IF extra THEN [task EXCEPT ![f.t] = NoTask] ELSE task
               /\ astray' = (\/ astray
                             \/ ~own /\ (delete \/ stash)
                             \/ extra /\ (inUse \/ task[f.t].st = "none"))
      /\ Pop(p)
      /\ UNCHANGED <<queued, freeTasks, open, created, added, failed, answer>>

-----------------------------------------------------------------------------
(* The creator's loop, and the run queue served at the bottom of a stack.  *)

WaitPoll(p) ==
  /\ At(p, "poll")
  /\ SetTop(p, [Top(p) EXCEPT !.ph = "dequeue", !.knt = grp[Top(p).g].ntodo])
  /\ UNCHANGED <<grp, task, queued, doomed, freeTasks, open, created, added, history>>

\* MUTANT of WaitDequeue: without a job left in the queue the group is done.
WaitForQueue(p) ==
  LET f    == Top(p)
      mine == {t \in Tasks : queued[t] > 0 /\ task[t].g = f.g}
  IN  /\ At(p, "dequeue")
      /\ IF mine = {}
         THEN SetTop(p, [f EXCEPT !.ph = "join"]) /\ UNCHANGED queued
         ELSE \E t \in mine :
                /\ stack' = [stack EXCEPT ![p] =
                               Front(@) \o <<[f EXCEPT !.ph = "poll"], TaskFrame(t, p)>>]
                /\ queued' = [queued EXCEPT ![t] = @ - 1]
      /\ UNCHANGED <<grp, task, doomed, freeTasks, open, created, added, history>>

\* _dxf_ExRQDequeue ((long) tg): a job of this group if there is one.
WaitDequeue(p) ==
  LET f    == Top(p)
      next == [f EXCEPT !.ph = IF f.knt = 0 THEN "join" ELSE "poll"]
      mine == {t \in Tasks : queued[t] > 0 /\ task[t].g = f.g}
  IN  /\ At(p, "dequeue")
      /\ IF mine = {}
         THEN SetTop(p, next) /\ UNCHANGED queued
         ELSE \E t \in mine :
                /\ stack' = [stack EXCEPT ![p] = Front(@) \o <<next, TaskFrame(t, p)>>]
                /\ queued' = [queued EXCEPT ![t] = @ - 1]
      /\ UNCHANGED <<grp, task, doomed, freeTasks, open, created, added, history>>

\* ntodo was zero: report the group's error and destroy the group.
Join(p) ==
  LET f == Top(p)
  IN  /\ At(p, "join")
      /\ answer' = [answer EXCEPT ![f.serial] = IF grp[f.g].error THEN "ERROR" ELSE "OK"]
      /\ Destroy(f.g, p, grp)
      /\ Pop(p)
      /\ UNCHANGED <<queued, doomed, open, created, added, failed, astray>>

Serving(p) == stack[p] = << >> /\ open[p] = << >>

\* MUTANT of ServeTask: a repetition too many, 0 included, is handed out.
ServeOneMore(p) ==
  /\ Serving(p) /\ ~astray
  /\ \E t \in Tasks :
       /\ task[t].st = "live"
       /\ queued' = [queued EXCEPT ![t] = @ - 1]
       /\ Push(p, <<TaskFrame(t, p)>>)
  /\ UNCHANGED <<grp, task, doomed, freeTasks, open, created, added, history>>

ServeTask(p) ==
  /\ Serving(p) /\ ~astray
  /\ \E t \in Tasks :
       /\ queued[t] > 0
       /\ queued' = [queued EXCEPT ![t] = @ - 1]
       /\ Push(p, <<TaskFrame(t, p)>>)
  /\ UNCHANGED <<grp, task, doomed, freeTasks, open, created, added, history>>

ServeDestroy(p) ==
  /\ Serving(p)
  /\ \E g \in doomed : /\ grp[g].procId = p
                       /\ Destroy(g, p, grp)
                       /\ doomed' = doomed \ {g}
  /\ UNCHANGED <<queued, open, stack, created, added, history>>

-----------------------------------------------------------------------------
Step(p) ==
  \/ DXCreateTaskGroup(p)
  \/ \E r \in Repeats : DXAddLikeTasks(p, r)
  \/ \E r \in RuntimeRepeats : DXAddLikeTasksRunning(p, r)
  \/ AddEnqueue(p)
  \/ DXAbortTaskGroup(p)
  \/ \E sync \in Syncs, err \in BOOLEAN : ExProcessTaskGroup(p, sync, err)
  \/ \E err \in BOOLEAN : TaskReturn(p, err)
  \/ Countdown(p) \/ Post(p)
  \/ WaitPoll(p) \/ WaitDequeue(p) \/ Join(p)
  \/ ServeTask(p) \/ ServeDestroy(p)

\* The parent has evaluated everything and the run queue is empty.
Done == /\ \/ astray
           \/ created = MaxGroups /\ \A p \in Procs : Serving(p)
        /\ UNCHANGED vars

Next == (\E p \in Procs : Step(p)) \/ Done

Spec == Init /\ [][Next]_vars

\* Every processor is an operating system process: each keeps running, and the
\* functions of tasks terminate (the bounds make their calls finite).
FairSpec == Spec /\ \A p \in Procs : WF_vars(Step(p))

-----------------------------------------------------------------------------
Calls == UNION {{<<p, i>> : i \in DOMAIN stack[p]} : p \in Procs}
Frame(c) == stack[c[1]][c[2]]

(* Types.                                                                  *)
Groups == [st : {"heap", "free", "open", "run"}, serial : 0..created, sync : BOOLEAN,
           error : BOOLEAN, ntodo : Int, procId : Procs \cup {0}]
TaskBlocks == [st : {"none", "live"}, g : Tgs \cup {0}, serial : 0..created, rep : Nat,
               extra : BOOLEAN]
TaskPhases == {"run", "enqueue", "countdown", "post"}
WaitPhases == {"poll", "dequeue", "join"}
Frames == [k : {"task", "wait"}, g : Tgs, serial : 1..MaxGroups, t : Tasks \cup {0},
           ph : TaskPhases \cup WaitPhases, depth : Nat, fail : BOOLEAN,
           lastTask : BOOLEAN, knt : Int]

TypeOK ==
  /\ grp \in [Tgs -> Groups]
  /\ task \in [Tasks -> TaskBlocks]
  /\ queued \in [Tasks -> Nat]
  /\ doomed \subseteq Tgs
  /\ freeTasks \in [Procs -> Seq(Tgs)] /\ open \in [Procs -> Seq(Tgs)]
  /\ stack \in [Procs -> Seq(Frames)]
  /\ created \in 0..MaxGroups /\ added \in 0..MaxTasks
  /\ failed \subseteq 1..MaxGroups
  /\ answer \in [1..MaxGroups -> {"none", "OK", "ERROR"}] /\ astray \in BOOLEAN

\* Calls of ExProcessTask that have not counted down yet.
Busy(c) == Frame(c).ph \in {"run", "enqueue", "countdown"}

Of(g, r) == r.g = g /\ r.serial = grp[g].serial

\* Tasks that are on their way to the queue with all their repetitions.
Entering == {Frame(c).knt : c \in {c \in Calls : Frame(c).ph = "enqueue"}}

\* Repetitions of the group in block g that are still to count down: in the
\* queue or on their way there, and running.
Left(g) == [t \in Tasks |-> IF ~Of(g, task[t]) THEN 0
                            ELSE IF t \in Entering THEN queued[t] + task[t].rep
                            ELSE queued[t]]
BusyCalls(g)   == {c \in Calls : Of(g, Frame(c)) /\ Busy(c)}
Outstanding(g) == Cardinality(Repetitions(Left(g))) + Cardinality(BusyCalls(g))

(* ntodo is the number of repetitions the creator must still wait for      *)
(* (plus the one that never comes, in an asynchronous group).              *)
NtodoExact ==
  \A g \in Tgs : grp[g].st = "run" /\ ~astray =>
    grp[g].ntodo = Outstanding(g) + (IF grp[g].sync THEN 0 ELSE 1)

(* DXExecuteTaskGroup "waits for the completion of all tasks in this task  *)
(* group" (dx/task.h): as long as a repetition of a group is queued or has *)
(* not counted down, its block still is that group, not destroyed, let     *)
(* alone recycled.                                                         *)
GroupOutlivesItsTasks ==
  astray \/ \A g \in Tgs :
    /\ \A t \in Tasks : queued[t] > 0 /\ task[t].g = g =>
         grp[g].st = "run" /\ Of(g, task[t])
    /\ \A c \in Calls : Frame(c).g = g /\ (Busy(c) \/ Frame(c).k = "wait") =>
         grp[g].st = "run" /\ Of(g, Frame(c))

(* A block is on one free list or one stack of open groups, once, or on    *)
(* none; only its creator ever keeps it ("a free list is maintained per    *)
(* processor", task.c).                                                    *)
Places(g, lists) ==
  UNION {{<<p, i>> : i \in {j \in DOMAIN lists[p] : lists[p][j] = g}} : p \in Procs}

BlocksInOnePlace ==
  astray \/ \A g \in Tgs :
    LET f == Places(g, freeTasks)
        o == Places(g, open)
    IN  /\ Cardinality(f) = IF grp[g].st = "free" THEN 1 ELSE 0
        /\ Cardinality(o) = IF grp[g].st = "open" THEN 1 ELSE 0
        /\ \A c \in f \cup o : grp[g].procId = c[1]

(* An error that DXExecuteTaskGroup reports is an error of this group.     *)
NoForeignError ==
  astray \/ \A s \in 1..MaxGroups : answer[s] = "ERROR" => s \in failed

(* Every DXExecuteTaskGroup returns: a processor that waits takes jobs of  *)
(* its own group only, and groups nest, but they never wait for each other *)
(* in a circle.                                                            *)
ExecuteReturns ==
  \A s \in 1..MaxGroups :
    (\E c \in Calls : Frame(c).k = "wait" /\ Frame(c).serial = s)
      ~> (answer[s] # "none" \/ astray)

-----------------------------------------------------------------------------
(* dx/task.h: DXExecuteTaskGroup "returns OK if all the tasks in the task  *)
(* group completed without error, or returns ERROR ... if any task returns *)
(* an error".                                                              *)
ErrorReported == \A s \in 1..MaxGroups : answer[s] = "OK" => s \notin failed

(* task.c:533: it is the last task of an asynchronous task group that      *)
(* takes care to delete it: what is to be deleted is no group in use.      *)
DeletesOnlyAsync == \A g \in doomed : grp[g].st = "run" /\ ~grp[g].sync

(* task.c:533 again: the last task of an asynchronous task group to finish *)
(* takes care to delete it: one with nothing left to run is about to go.   *)
AsyncGroupDeleted ==
  \A g \in Tgs : /\ grp[g].st = "run" /\ ~grp[g].sync
                 /\ ~\E t \in Tasks : queued[t] > 0 /\ Of(g, task[t])
                 /\ ~\E c \in Calls : Of(g, Frame(c))
                 => g \in doomed

(* task.c:311: a task added from within a task joins the running group; its *)
(* block lives as long as one of its repetitions is queued or running.     *)
ExtraTaskLives ==
  \A t \in Tasks :
    (queued[t] > 0 \/ \E c \in Calls : Frame(c).t = t /\ Busy(c)) => task[t].st = "live"
=============================================================================
