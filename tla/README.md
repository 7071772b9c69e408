# Verification of the Data Explorer executive

The repository is OpenDX, IBM's Open Visualization Data Explorer (`dx-4.4.4`) with
its samples. The part whose correctness depends on orders of events is the
executive, `dx-4.4.4/src/exec/dpexec`: up to several processors, each an operating
system process, share one memory segment and run a data-flow program together.
This directory holds TLA+ models of it, the TLC configurations that check them and
proofs for TLAPS. Paths below are relative to `dx-4.4.4/src/exec` unless they say
otherwise; `rq.c:362` is line 362 of `dpexec/rq.c`.

    tlc -config MCRunQueue.cfg MCRunQueue     # any configuration, see "Runs"
    tlapm DXLock_proofs.tla                   # any module M_proofs, see "Proofs"

## 1. The system

### How it works

The *parent* (processor 1 in the numbering of `JID`s, which starts at 1) reads
commands from the user interface or a script, turns them into graphs and runs the
graph on top of its graph queue. Modules that are ready, tasks that a module forks and functions
to be called on a certain processor become *jobs* in one shared run queue, which all
processors serve. Children sleep in `read` or `select` on a pipe when there is
nothing to do; who inserts jobs is responsible for waking up those who may run them.
Values between modules live in an object cache, which is emptied on demand when an
allocation fails. Graphs may also be spread over *peers* on other hosts.

### Inventory

| component | files | state | operations | hard behaviours |
|---|---|---|---|---|
| Run queue | `dpexec/rq.c` | list and free list of job blocks, `count`, one lock | enqueue one, enqueue many, dequeue for a group or for anybody, pending? | unlocked reads of `count` and `free`; a block is filled between two critical sections; `count` is wrong inside the lock |
| Task groups | `dpexec/task.c`, `task.h` | groups, arrays of tasks, per-processor free lists and stacks of open groups | create, add, abort, execute, the task wrapper | fork and join with nesting; the last task races the creator; recycling of groups; tasks added at run time |
| Wake-up and main loops | `dpexec/dxmain.c`, end of `rq.c`, `_dxf_ExRunOn` of `task.c` | pipes, one input handler table per process, "executing" flag | notify, poll, sleep, wake up, call on a processor | lost wake-ups, calls in both directions, sleeping in a call |
| Locks | `libdx/lock.c`, `libdx/plock.c` | counts of waiters, a pool of semaphores that locks borrow | lock, try, unlock | lost or left-over signals, error paths |
| Dictionary | `dpexec/d.c` | hash table, aging list, free list, one lock | find, insert, delete, evict oldest, iterate | aging list updated outside the lock |
| Cache, reclaim | `dpexec/cache.c`, `swap.c`, `cachegraph.c` | dictionaries, recursion guard | search, insert, delete, evict | called from inside any allocation |
| Executive objects | `dpexec/exobject.c`, `libdx/object.c` | reference counts, free list of gvars | create, reference, delete | last deletion races new references |
| Graph evaluation | `dpexec/evalgraph.c` | gvars, per-program counters and flags | run a module, send values, finish a program | readiness by counting, side effects, caching decisions, cancellation |
| Graph construction | `dpexec/graph.c`, `graph2.c` | programs | translate parse trees | sequential |
| Graph queue, background, sequencer | `dpexec/graphqueue.c`, `background.c`, `vcr.c` | current graph, waiting graphs, state of the sequencer | enqueue, take, finish, cancel | background graphs against user graphs; commands during a frame |
| Input handlers | `dpexec/rih.c` | tables of handlers | register, delete, poll, block | the tables change while they are walked |
| Distributed execution | `dpexec/dist*.c`, `remote.c`, `socket.c`, `packet.c` | peers, packet queues, dictionaries of remote values | connect, send, delete, acknowledge | order across sockets, disconnection |
| Memory allocator | `libdx/memory.c`, `mem.c` | arenas, free lists, small blocks | allocate, free, grow | locks per list, merging |
| Language front end | `dpexec/lex.c`, `yuiif.c`, `command.c`, `function.c`, ... | symbol tables, parse trees | parse, define, load | sequential |
| Modules, data model, renderers | `dxmods`, `libdx`, `hwrender` | - | numerical code | one call at a time |
| DXLink | `../uipp/dxl` | connection, message ids | send, wait for acknowledgement | replies out of order |
| User interface | `../uipp` | windows | GUI events | outside the executive |

### Interactions

* Task groups call the run queue: `ExProcessTaskGroup` enqueues many jobs,
  `DXAddLikeTasks` one, the waiting creator dequeues for its own group; a late
  deletion of a group is a job itself.
* The run queue calls the wake-up code after an insertion; the wake-up code of a
  child calls the run queue again, by `_dxf_ExRunOn (1, ...)`, as only the parent can
  write to the children's pipes.
* Main loops call the run queue; jobs call user code; user code calls all of the above.
* Graph evaluation enqueues modules as jobs and counts those that run; the graph queue
  asks it whether the program is finished.
* The allocator calls the cache when it has no memory, the cache the dictionary, the
  dictionary the object layer, which enqueues a deletion when the object belongs to
  another processor. That insertion is the one that is not announced (`rq.c:175`).

### What makes each component correct

* Run queue: every repetition of every job is handed out once, to a processor that may
  run it, in queue order; blocks never leak nor serve two lists.
* Task groups: `DXExecuteTaskGroup` returns after its last task, with its own error,
  always; asynchronous groups go away by themselves; no group goes before its tasks.
* Wake-up: every job runs, every caller of `_dxf_ExRunOn` gets its answer, and nobody
  sleeps on work that is his.
* Dictionary, cache, objects: a value found is not deleted while it is used; eviction ends.
* Graph evaluation and queue: a module runs once, after its inputs; one foreground graph
  at a time; a cancelled graph stops.
* Distributed execution: a peer has a value before it is told to use it, and not after
  it was told to drop it.

The hazards that follow are listed with their lines in `PROJECT.json`.

## 2. Modules

### `JobQueue` - what the run queue promises

The queue is a sequence of jobs with repetition counts. `Put` inserts a batch in one
step, at the head when it has high priority; `Take` hands one repetition of the first
job the caller may run. `log` (all jobs ever put, whose index is the job's number) and `ran` (which
repetition went to which processor) are history. It is the abstract specification that
`RunQueue` implements.

### `RunQueue` - `rq.c`

Blocks with `next` and `prev`, `head`, `tail`, `free`, `count` and `RQlock` are variables as in the
code. Each processor has a program counter with one step per stretch of code
between two points where others can interfere:

| pc | step | code |
|---|---|---|
| `idle` | `Enqueue`, `EnqueueMany`: look at `free` without the lock, allocate if it is empty | 78-111, 195-224 |
| `take` | `EnqueueTake`: under the lock, take a free block and link it; or allocate after all | 112-173 |
| `takeMany` | `EnqueueManyTake`: under the lock, take what is free, allocate the rest | 224-249 |
| `insert` | `EnqueueInsert`: link what has been filled outside the lock | 253-322 |
| `idle` | `Dequeue`: look at `count` without the lock | 349 |
| `deq` | `DequeueLock`: lock, look again, lower `count` | 352-362 |
| `find` | `DequeueFind`: search, hand out, unlink or restore `count`, unlock | 375-446 |

The lowered `count` is a step of its own, because unlocked readers see it. All other critical
sections are one step: nobody reads their effects before the unlock, except
`count` and `free`, each of which is written once in them. A job's function and argument are its
number. `Walk(f, start)` follows the `next` of blocks with the contents `f`; a block that is unlinked keeps
what else is in it, as in the code, where the free list uses `next` only. The refinement mapping reads the
abstract queue off the linked list; insertions take effect when they are linked, removals in `DequeueFind`.

### `TaskGroup` - `task.c`

Processor 1 evaluates a graph, so its user code may run with an empty call stack; all
others serve the queue. A call stack is a sequence of frames: a `task` frame is a call of `ExProcessTask`
(phases: `run` user code, `enqueue` for an added task, `countdown` under the lock,
`post` without it), a `wait` frame the loop at the end of `ExProcessTaskGroup`
(`poll` reads `ntodo`, `dequeue` serves the group, `join` reports and destroys).
User code may do whatever the API allows at any moment:

| action | code |
|---|---|
| `DXCreateTaskGroup`, `DXAddLikeTasks`, `DXAbortTaskGroup` | the functions of that name |
| `DXAddLikeTasksRunning`, `AddEnqueue` | `DXAddLikeTasks` with no open group in a running task |
| `ExProcessTaskGroup` | `DXExecuteTaskGroup` (`sync` TRUE) and its asynchronous variant, up to the insertion |
| `TaskReturn`, `Countdown`, `Post` | `ExProcessTask` after the task's function |
| `WaitPoll`, `WaitDequeue`, `Join` | the creator's loop |
| `ServeTask`, `ServeDestroy` | a main loop that takes a job from the queue |

Groups are blocks that are recycled over per-processor free lists. The code knows a
group by its address; the history variable `serial` tells apart the groups a block has
been. A block that went back to the allocator can hold anything, so `Post`, which looks at
its group after it has counted down, reads arbitrary bits there. `astray` says that such
a look has changed something that is not the reader's: then the run stops, and the properties
that hold say what is true until then. The code adds `repeat` to `ntodo` task by task; the model counts a set, the
`Repetitions` of the tasks that are added. `runningTG`, the group a running task adds to, is that of the call on top of the
stack: `ExProcessTask` sets it (`task.c:559`) and puts it back when it returns (`task.c:701`). How one gets astray is told in section 6 (`DeletesOnlyAsync`). The
order of jobs in the queue is left to `RunQueue`: any job may come next.

### `Mutex`, `DXLock` - `libdx/lock.c`, `plock.c`

`Mutex` is what `advanced.h` promises: a lock passes from nobody to one process and back. `DXLock`
is the Linux implementation. `knt` counts holder and waiters, `wait` is the number of the
semaphore the waiters sleep on (-1 when nobody waits), `locklock` the guard of all
counts, `sem` the values of the pool of semaphores. A call goes through the places
`lock` (wants the guard), `count` (has it), `asleep` (has given it up and waits for the
semaphore: `Sleep` is its getting the signal), `relock` (wants the guard again), `woken` (has it again and gives the
semaphore back if it is the last), `held`, `unlock`, `drop`; `try` and `trying` are
DXtry_lock. A semaphore that was given back serves another lock next. The
refinement mapping says that a sleeper owns the lock from the moment its semaphore let it go.

### `Heap`, `Memory` - `libdx/memory.c`

`Heap` promises blocks that do not overlap. `Memory` is the arena of large blocks: blocks with
`next_block`, `prev_block` and the free bit, free lists and the pool with a lock each,
and no lock on the links. One step is one stretch of code under one lock, except
that the two loads of the re-check in `mergeprev` and `mergenext` are two. The refinement mapping gives `Heap` the sizes that users
asked for (`UserBlocks`); the block that holds one may be larger. What a user writes
into his block may look like a free bit: merges look at the neighbour before they know
whether it is one. Sizes count the smallest block, so each list holds one size.

When another processor splits and frees between those two loads, the merge sees a free bit but has locked another list than
the one the block is on. The code goes on: it takes the block off that list and swallows everything up to the end it knew, which others may
own. `MergePrevDo` and `MergeNextDo` do that, and set the history variable `torn`. What follows in the code is undefined behaviour of its
users (one piece of memory handed out twice, two writers of one list), so the model stops
there for all processors, and all properties of the module say "until `torn`". `mergenext` computes a size from `next_block` of a block that may have become
the pool by then, where it is NULL: `MergeNext` then locks `NullList`, a list of its own that no block is on.

| action | code |
|---|---|
| `GetFirst`, `Search`, `GetFree`, `GetPool`, `Split`, `SplitLink`, `SplitFree` | `getfree`, `getpool`, `split` and the allocation that calls them |
| `Afree`, `MergePrev`, `MergePrevLock`, `MergePrevDo`, `MergePool`, `MergeNext`, `MergeNextLock`, `MergeNextDo`, `Insert` | `afree` with `mergeprev`, `mergenext` |
| `Arealloc`, `Grow`, `Keep`, `KeepLink` | `arealloc` with its check: in place when the next block is free, else by a copy |

### `Cache` - `cache.c`, `d.c`, `swap.c`, counts of `exobject.h`

The sorted dictionary with its hash table, free list and aging list, one lock; gvars with reference
counts; and the reclaim that runs inside an allocation that failed, walks the aging list by
a saved pointer without the lock and deletes its victims by key. `InsertSearch`,
`InsertAllocate`, `InsertFill`, `InsertLink` are the stretches of `_dxf_ExDictionaryInsert` between
lock and unlock; `BeginIterateSorted` to `ReclaimEnable` are the reclaim, `CacheFlush` to `EndIterate` the
flush, which alone holds the lock over several steps.

After a replacement the element is made the newest in the aging list *when the dictionary has been unlocked*: `LateNewest` finds that it is the
newest or begins the move, `LateMoved` ends it. The move is a row of pointer writes. Another edit of the list that
overlaps it sets the history variable `mislinked`. From then on the list may have lost entries or lead in
circles: the model describes it no longer, and the reclaim that walks it may come to any element that exists. That entries, references and
elements stay exact nevertheless is a result of the checks and proofs. `astray` is set when an element is given back to the allocator that is
or may be in use; the model stops there, as the code then writes into somebody else's memory.

### `GraphQueue` - `graphqueue.c`, `background.c`, `vcr.c`, evaluation, the parent's loop

A graph has an origin (statement, background, sequencer) and a shape: an assignment, modules at
the top, or a call of a macro with modules in it. `queue` and `curr` are the queue and its slot, `ctx` the context
all processors share (`program`, `subp[0]`), `vcr` and `bg` the sequencer and the
background statement with the graph each has made in advance, `jobs` the run queue.

| actions | code |
|---|---|
| `Round`, `BeginInput`, `EndInput`, `NoJob`, `Idling`, `Wake` | `ExParallelMaster`, with the context saved before parsing and put back after it |
| `Run`, `Play`, `Step`, `Direction`, `Halt`, `Kill`, `SetKill`, `Redo`, `BackgroundCommand` | what the parser calls: `_dxf_ExVCRCommand`, `KillGraph`, `_dxf_ExBackgroundRedo`, `_dxf_ExBackgroundCommand` |
| `Enqueue`, `Dequeue`, `NoDequeue`, `Decrement` | `graphqueue.c` |
| `CheckBackground`, `CheckVCR`, `QueueFrame`, `CallBack` | polling of background statement and sequencer, end of a frame |
| `ParentFails`, `ModuleEnd`, `PauseTask` | `ExExecError` (`evalgraph.c:1634`) and `VCRCommandTask`: a module that fails pauses a sequencer that runs |
| `QueueGraph`, `Starts`, `Ends`, `Wait` | `_dxf_ExQueueGraph`, `ExStartModules`, `_dxf_ExWaitOnSlaves` |
| `Macro`, `Sub`, `CleanUp`, `Module`, `ModuleEnd` | `_execGnode`, `ExQueueSubGraph` |

The count `runable` of a graph is raised for each module that is required and once more for a macro
call, and lowered in the graph and in the top level program of the context. A macro call that finds the graph killed has none of
its modules run. When the count
is not zero as the graph ends, the slot is freed and the graph is only marked `deleted`, for the macro
call to end it again. That is where the code goes wrong (finding 3): from then on
two graphs may be executing, each lowering the other's count. The history variable `early` says that it has
happened. The properties are conditional on it, and what they say is true of every graph that
is not a macro call, and of macro calls whose modules outlast the call. `owed` is history too: a running sequencer
was stopped or paused, by the user interface or because a module failed, and "stop" is to be sent.

A module that fails on the parent pauses the sequencer at once (`ParentFails`); one that fails on a child queues a job `VCRCommandTask` for the parent.
`vcr.pauses` counts these jobs. `PauseTask` may take one at any time at which the parent serves the run queue: their order among the
parent's other jobs is left open, and a child queues one in the step in which its module ends.

### `Dispatch` - notification, main loops, `_dxf_ExRunOn`

The queue is a sequence of jobs here (`RunQueue` shows that it is), but `Count` is what unlocked
readers see: one too low while a processor is inside `_dxf_ExRQDequeue`. `pipe[p]` counts
unread bytes in the pipe `p` waits on. Each processor goes through `loop` (look at the
count), `enter` (the lock), `find`, `run` (user code, or a message to write pipes),
`notify` (insertion done, not yet announced), `wait` (`_dxf_ExRunOn`), `empty` (poll the input handlers) and `block`
(sleep). The parent writes to the children's pipes; child 1 (processor 2) writes to the parent's;
other announcements are jobs for the parent, awaited. `Requests` says what user code may ask:
a job (`work`), a call (`call`) or a deletion made while memory is reclaimed (`delete`), which
is not announced; its target is always the parent (`graph.c:255-283`, `EX_PIN_PROC`). `StartGraph` and `Event` stand
for commands and input handlers; `EndGraph` is the return of the job that finds no other job of the program left,
on any processor, and deletes the program. Deletions do not keep a program going, so one may still be queued then.

### How the modules relate

`RunQueue` implements `JobQueue` (`ImplementsJobQueue`, checked and proved). `TaskGroup` uses less than what `JobQueue`
promises: no order and no target processors, except for deletions. `Dispatch` and `GraphQueue` use `JobQueue`
with targets and order, `Dispatch` also the unlocked `count` of `RunQueue`. `DXLock` implements `Mutex`
and `Memory` implements `Heap` (checked and proved). A section between `DXlock` and `DXunlock` is one step
in the other modules wherever nobody sees its parts: `DXLock` is why that is sound.

## 3. Runs

All were made with TLC; the bounds are CONSTANTS in the configurations.

| run | what it shows | bounds |
|---|---|---|
| `job_queue` | the promises hold of the abstract queue | 2 processors, 4 jobs out of 4 kinds of batches |
| `run_queue` | five invariants of the lists, and the refinement | 2 processors, 3 jobs, 3 blocks |
| `task_group` | counter, life time, free lists and errors of groups; every execute returns | 2 processors, 2 groups, 2 tasks of up to 2 repetitions, added before or while the group runs |
| `dispatch` | each awaited call has one waiter; one processor in the critical section | 3 processors, 5 requests |
| `dispatch_graph` | while a graph executes every job runs and every call returns | 3 processors, 3 requests |
| `dx_lock` | counts and signals are exact, `lock.c` implements `Mutex`, every DXlock returns | 3 processes, 2 locks, 2 semaphores |
| `memory` | until a merge has torn a list: every unit has one owner, `memory.c` implements `Heap`, calls return | 2 processors, arena of 3 units that grows to 4, blocks of up to 3 |
| `cache` | counts of references are exact, one entry per key, no element lost, whatever becomes of the aging list; every entry in that list until `mislinked` | 2 processors, 2 keys, 3 elements, 3 gvars |
| `graph_queue` | one graph at a time, exact count of frames, every queued graph ends, every stop is answered | 2 processors, 2 graphs of up to 1 module, 3 commands of 10 kinds |
| `task_error_lost`, `permanent_evicted`, `graph_freed` | see "Findings" | as above, smaller |

What the properties say:

* `JobQueue`: `EachRepetitionOnce` - a repetition is in the queue or was handed out, to one
  processor; `OnItsProcessor`.
* `RunQueue`: `ListWellFormed` - `prev` inverts `next`, no cycles, `head` and `tail` are the ends; `CountExact`
  - the count differs from the repetitions in the list by exactly those who are inside
  the critical section; `BlocksOwnedOnce` - no block leaks or is in two places, over all interleavings
  of the unlocked looks; `NoEmptyWithCount` - internal error 8320 is unreachable; `ImplementsJobQueue`.
* `TaskGroup`: `NtodoExact` - `ntodo` is the number of repetitions queued, running or about to be
  queued by a running task; `GroupOutlivesItsTasks`; `BlocksInOnePlace` - also that a block never moves
  to another processor's free list; `NoForeignError` - recycling resets the error; `ExecuteReturns`.
* `Dispatch`: `RunOnJobAwaited` - the waiter frees the job with the lock inside, so there must
  be exactly one as long as the job exists; `EveryJobRuns`, `RunOnReturns`.
* `DXLock`: `KntExact` - the count is that of holder and sleepers; `OneToken` - a wanted lock is held or has one signal
  pending, and no signal of an earlier use is left; `SemaphoreNeeded`; `ImplementsMutex`; `LockReturns`.
* `Memory`, all until `torn`: `EveryUnitOnce`, `FreeBitTrue` - the bit agrees with the lists although merges first read it without the right lock;
  `NoCorruption` - internal error 12140 is unreachable; `ImplementsHeap`; `CallsReturn`, which also excepts a
  processor that grows a block while others keep taking and freeing the block after it.
* `Cache`: `RefsExact` - nobody who found an object loses it; `OneEntryPerKey`; `ElementsInOnePlace` - no element
  is lost or in two places, and every entry is in the aging list once until `mislinked`, so the reclaim can find it.
* `GraphQueue`: `OneGraphAtATime` - who executes or is to execute works on the graph in the slot; `NgraphsExact`
  - `vcr->ngraphs` is the number of frames between the queue and their call back; `GraphsEnd`, killed graphs included; `StopTold`;
  its `TypeOK` says also that the queue, the slot and the pending graphs name different graphs that are not deleted.

### Bounds, and why they are enough

* Two processors suffice to interleave in `RunQueue`: every step concerns one processor and the
  shared list. Three blocks give a list with a head, a middle and a tail, and a free
  list that runs empty between the unlocked look and the lock.
* `TaskGroup` has two groups, so that one is nested in the other or one block becomes the
  other group; two tasks are one in each group, two in one, or one that is added at run time by the other;
  with two repetitions a task runs on both processors at once. `FreeThreshold` is 1 (2 in the code) so that
  blocks go both ways, to the free list and to the allocator, with two groups.
* `Dispatch` has three processors because the three kinds of announcers differ: parent, child 1,
  other children. `MaxPosts` counts graphs, events and requests together; announcements by messages come on top.
* `DXLock`: with three processes a lock has a holder and two sleepers, and the second lock takes over a semaphore the
  first gave back.
* `Memory`: four units give a block, its two neighbours and the pool, or three blocks to merge into one; one unit of growth makes the pool
  move while a block is merged with it.
* `Cache`: three elements for two keys leave one that is being filled, or freed and still pointed at; three gvars let one be
  replaced while another is found and a third evicted.
* `GraphQueue`: two graphs give one that executes and one that waits in the queue, with the sequencer or the background statement,
  or that starts before the first is quite gone; one module per graph separates a macro with nothing to run from one
  with something, and lets a failing one pause the sequencer on either processor. The run has 1.5 million states.
* `Max...` constants bound counters that are unbounded in the code only by its running time.
* For the invariants and for the three refinements the bounds do not decide: section 4 proves them for all values of the
  constants. They do for the liveness properties.

`CHECK_DEADLOCK FALSE` is set where the system may stop: in `MCJobQueue.cfg`, where the queue ends empty when `MaxJobs`
are used up; in `MCDispatch.cfg`, as calls in both directions between parent and child really stop the
system (section 6); in `MCMemory.cfg` and `MCCache*.cfg`, which stop at `torn` and at `astray`; in
`MCGraphQueue*.cfg`, where the parent blocks for input when the commands are used up. In `TaskGroup` and
`Dispatch` the action for rest (`Done`, `Asleep`) is enabled only where the program may
rest, so that TLC's deadlock check means something; an `Execute` that waits for ever is not rest.

### Fairness

Processors are operating system processes: a processor that can take a step eventually does
(`WF_vars(Step(p))`), which includes that user functions return. `Dispatch` adds two assumptions. `Enter` and
`Notify` need a lock and get strong fairness: `DXlock` queues its waiters on a
semaphore. And a processor that polls does not hit, for ever, the few instructions in which
another has `count` too low (`<>[][~Unlucky(p)]_vars`): the other goes on to sleep or to
other work, but both may poll in lock step as far as the code is concerned. `EveryJobRuns` is checked while a graph
executes, when the parent and child 1 poll; between graphs see "Nobody sleeps on a job" in section 6. A deletion that
is still queued when the graph ends waits for the next input, and the property says so.

`DXLock` has weak fairness of what a process does inside (`Inside`) and of its giving a lock back (`Unlocks`), and strong fairness of
getting a semaphore (`Enter`, `Sleep`): the kernel queues those who wait for one. `Memory` takes this over as
strong fairness of `Work(p)`, whose only guards are locks. `GraphQueue` has weak fairness of the parent's loop and of each
processor's work; no command is ever fair. `RunQueue`, `Cache` and `JobQueue` are checked for safety only.


## 4. Proofs

Every safety invariant of the passing runs, and the three refinements, are theorems of the specifications, for all values of
the constants that satisfy the assumption named in the module. Each component has a module `X_proofs` that is laid
out in the same order: facts about sequences, sets and counts; the inductive invariant `IInv`; what kinds of steps do to each part
of it; one lemma per action, or per group of actions that change the same things; `Init` and `Next`; the theorems. Each such module
states the facts on sequences that it needs itself, so that it can be read and checked without the others. The inductive
invariants were given to TLC, as invariants of the configurations of section 3, before they were proved.

| module | theorem | states, of its specification |
|---|---|---|
| `JobQueue_proofs` | `TypeCorrect` | `[]TypeOK` |
| | `NoRepetitionLostOrDoubled` | `[]EachRepetitionOnce` |
| | `JobsStayHome` | `[]OnItsProcessor` |
| `RunQueue_proofs` | `Invariant`, `TypeCorrect` | `[]IInv`, `[]TypeOK` |
| | `ListsWellFormed`, `CountsExact` | `[]ListWellFormed`, `[]CountExact` |
| | `BlocksOnce`, `NeverEmptyWithCount` | `[]BlocksOwnedOnce`, `[]NoEmptyWithCount` |
| | `RunQueueImplementsJobQueue` | `ImplementsJobQueue` |
| `TaskGroup_proofs` | `Invariant`, `TypeCorrect` | `[]IInv`, `[]TypeOK` |
| | `TodoExact`, `GroupsOutlive` | `[]NtodoExact`, `[]GroupOutlivesItsTasks` |
| | `OnePlace`, `NoForeign` | `[]BlocksInOnePlace`, `[]NoForeignError` |
| `Dispatch_proofs` | `Invariant`, `TypeCorrect`, `RunOnAwaited` | `[]IInv`, `[]TypeOK`, `[]RunOnJobAwaited` |
| `DXLock_proofs` | `TypeCorrect`, `CountsExact`, `SignalsExact`, `SemaphoresReturned` | the invariants of the run |
| | `LocksExclude` | `[]MutualExclusion`, where a holder holds from the moment it gets its signal |
| | `NoInternalError` | `[]NoUnlockError`: no "Unlocking an unlocked lock?" for callers that pair their calls |
| | `LockRefinesMutex` | `ImplementsMutex` |
| `Memory_proofs` | `Invariant`, `TypeCorrect` | `[]IInv`, `[]TypeOK` |
| | `UnitsTiled`, `FreeBits`, `NeverCorrupt` | `[]EveryUnitOnce`, `[]FreeBitTrue`, `[]NoCorruption`, each until `torn` |
| | `MemoryRefinesHeap` | `ImplementsHeap`: every step up to the one that sets `torn` |
| `Cache_proofs` | `Invariant`, `TypeCorrect` | `[]IInv`, `[]TypeOK` |
| | `CountsAreExact`, `OneEntry`, `OnePlace` | `[]RefsExact`, `[]OneEntryPerKey`, `[]ElementsInOnePlace` (its part on the aging list until `mislinked`) |
| `GraphQueue_proofs` | `Invariant`, `TypeCorrect` | `[]IInv`, `[]TypeOK` |
| | `OneGraph`, `FramesCounted` | `[]OneGraphAtATime`, `[]NgraphsExact` |

### JobQueue

Assumed: processors are positive numbers, there is a group 0, batches are not empty and of one priority (`JobQueueAssumption`).
`EachRepetitionOnce` is not inductive: from a state in which two jobs of the queue have one number, or
a job has more repetitions left than it was put with, `Take` hands out a repetition twice.
`Consistent` excludes these. `PutIInv` rests on `NumberedJobs` and `ConcatJobs` (numbers of
a concatenation stay distinct), `TakeIInv` on `RemoveAtProps` (which elements are left, and where).

### RunQueue

Assumed (`RunQueueAssumption`): there is a group 0, batches are not empty and of one priority, blocks are finitely many, and `Null` and `NoProc` are no block and no
processor.
The invariant has eight parts:

* `Lists`: the queue is doubly linked from `head` to `tail`, the free list is linked; `Alive`: a queued block has repetitions left;
* `Chains`: a processor has a batch from its entry on, and a block for each job of it when it comes to link them;
* `Apart`: a block is with the allocator, on the free list, in the queue or with one processor;
* `Locked`: the lock is held over a step exactly between the claim and the unlock in `_dxf_ExRQDequeue`;
* `Counted`: `count` is the number of repetitions in the queue, less the claimed one, and is not negative;
* `Budget`: what was put and what is on its way to be put is what was issued. It bounds the length of `log`, which
  is the guard of `Put` in `JobQueue`.

`CountExact` alone is not inductive because `Unlink` and `Splice` keep it only on a list without cycles; the lists are well formed
only as long as the blocks that are filled outside the lock are nobody else's (`Apart`), and those come from unlocked looks at
`free` that are repeated under the lock (`EnqueueTakeKeeps`, `EnqueueManyTakeKeeps`).

`Walk` is a recursive function, and what it returns is the one fact here that needs an induction. `WalkIs` proves that on a linked list `s` it
returns `s`: among the indices at which it would leave `s` there would be a least one (`Least`). From there on, lists are sequences:
`SpliceIs` and `UnlinkIs` say what the pointer assignments of the code do to them, `InsertGives` and `FindGives` what an insertion and the end
of a dequeue do to list, count and blocks; `RepsOfBatch` and `RepsLess` are the counting. The refinement (`StepRefines`) maps the steps that
link blocks to `Put` (`InsertPuts`), `DequeueFind` to `Take` of the same job (`FoundFirst`, `FindTakes`) and everything else to a stutter.

### TaskGroup

Assumed: finitely many processors, numbers, among them 1; repetitions are positive. `IInv` is the types and, until `astray`, seven parts:

* `PlacesOK`: the free list and the stack of open groups of each processor hold exactly the blocks in that state that it created, once each;
* `TasksOK`, `CallsOK`: what is queued, and every call that has not counted down, is of a group that executes;
* `WaitsOK`: a group is waited for by its creator, once, and found empty only when `ntodo` is 0;
* `EnteringOK`: a task on its way into the queue is new and of the group of its call;
* `EndsOK`: only groups that are waited for count down to zero, and errors are of groups that had one;
* `NtodoExact`.

`NtodoExact` needs all of it: the count is right only if no call counts down in a block that has become another group, that is, if a
group is not destroyed before all calls have counted down, that is, if its creator alone destroys it and `ntodo` is exact.
`Post` is the only step that can break this, when it reads the `sync` of a block that is another group by then:
`PostIInv` is the proof that it either sets `astray` or keeps the invariant. The theorems say what the formulas do: until `astray`.

### Dispatch

Assumed: at least two processors, requests between existing ones, and that no processor asks for a call to itself (`_dxf_ExRunOn` runs
those at once). With `Typed` (who has the lock is who searches) come `Numbers` and `OnePlace` (a job is in the queue once, with one processor or has
ended), `Resting` (who is in no job has none) and `Awaited`: each `RunOn` job is awaited by exactly one processor, and what is awaited
exists or has ended. `ResumeIInv` is the step that matters: who resumes awaited only jobs that have ended.

### DXLock

Assumed: finitely many processes, semaphores have numbers, `Nobody` and `NoLock` are no process and no lock. The invariant is that of the run with `LockKnown` (a process that is not
idle has a lock), `Guarded` (the
guard is taken by exactly the process that is inside) and the two that make signals meaningful: `SleepersInLine` (a sleeper waits on the semaphore
of its lock) and `SemaphoresApart` (no two locks share one). Without the last, a signal for one lock could
wake a sleeper of another. `TakeIInv`, `TryFailsIInv`, `CountTakenIInv`, `SleepIInv`, `WakeIInv` and `DropIInv` are
the induction, one per action that changes counts; `KntAfter` counts the interested processes after one joins or
leaves. The refinement rests on `OwnersStep`: a step adds one owner to a lock without one, or takes the one away.

### Memory

Assumed: sizes are numbers with `0 < InitSize <= MaxSize` and `MaxUser <= MaxSize`. The invariant is `TypeOK /\ (torn \/ Sound)`: the
step that tears a list keeps the types and nothing else, and there is none after it. `Sound` has these parts:

* `Tiling`: `next_block` leads from each block to the next, up to the pool, without a gap;
* `Linked`: `prev_block` leads back, except to a piece that was just split off and that the block after it does not know yet;
* `Ownership`: a block is kept, a user's, on a free list or with one processor;
* `Listed`, `Marked`: lists hold blocks of their size once, and the free bit says which blocks those are;
* `Control`, `Fitting`: what a processor has found out so far still holds; users' blocks are large enough.

The delicate part is that links are read without a lock. `Linked` says how wrong a back link may be (it leads to an earlier block), and a
neighbour that is read that way matters only once it was looked at again under the lock of its list. Where that look, in two loads, takes a
block off under the lock of another list (`TakenUnderItsLock`, section 6), the step sets `torn`: `MergeTypes` shows that it keeps the types, `MergeStep` and
`UnlistedOne` that a merge which has locked the right list changes that list only and keeps `Sound`.
`SplitShape` and `MergeShape` give the arena after a split and a merge, `OneUserBlock` and `StepRefines` the refinement.

### Cache

Assumed: finitely many processors and elements, `None` is none of them. `Control` (a processor has what its place says), `Entered` (entries are
filled in), `InOnePlace` (an element is an entry, free, the allocator's or in one processor's hands), `Aged` (the aging list has nothing twice and, until
`mislinked`, every entry) and the types join the properties of the run. `RefsExact` counts references of entries, of processors and of victims of reclaims; each is the fiber of a function, and
`FiberAdded`, `FiberRemoved` and `FiberChanged` say how its size changes. `HeldIsLive` is what makes `_dxf_ExReference` safe: an object that somebody refers to has a count to raise.
`MadeNewest` and `Relinked` are what edits of the aging list do to it, overlapping ones included, and `SeenType` covers a reclaim that looks at it during one: nothing but
the list itself depends on it, since the reclaim deletes by key and under the lock.
Keys, gvars and reclaims may be infinitely many. `astray` needs no exception here: the model stops in the step that sets it.

### GraphQueue

Assumed: at least one processor, bounds are numbers, shapes and commands are those of the model. Nine parts hold always: the types (`TypeOK`), where each processor can be and
what it refers to (`PlacesOK`, `NamesOK`, `ContextsOK`), new and pending graphs (`StatementOK`, `OriginsOK`, `StartOK`, `FreshOK`) and the steps of the
sequencer (`StepsOK`). Seven hold until `early`:

* `AboutCurr`, `OneChain`: all jobs and all processors but the waiting macro call are about the graph in the slot, and it is in one place;
* `CountOK`: its `runable` covers the modules still to run, one for the macro and one for a call that has not returned;
* `TopOK`: the contexts that will be used, the saved ones included, have it as top level program;
* `CallBackOK`, `NotDeleted`, `FramesOK`: a frame is called back once, no graph is left marked, and `ngraphs` is the number of frames on their way.

`OneGraphAtATime` is inductive neither alone nor with the counts: `DECR_RUNABLE` lowers the count of the *context's* program, so `TopOK` is needed to
know that this is the graph's own, and `CountOK` to know that it does not get to 0 before the call returns. Where it does, the step sets `early`, the premise of the theorems (finding 3).
`FailureSteps` covers the pauses of failing modules, which drop the frame that waits but touch neither the slot nor the counts of the graph in it.

### What is not proved

The liveness properties `ExecuteReturns`, `EveryJobRuns`, `RunOnReturns`, `LockReturns`, `CallsReturn`, `GraphsEnd` and `StopTold` are model-checked only: the
prover does not reason about `ENABLED`, which fairness is made of. Nor are the formulas of sections 5 and 6 that the code violates. Library theorems that take an operator as a
parameter, induction among them, cannot be used with the provers at hand; the proofs go through least elements of sets of numbers instead.

## 5. Findings

Each is a run in which TLC finds the counterexample; `PROJECT.json` quotes the
documents.

1. `task_error_lost`: `ExProcessTask` counts down before it stores the task's error,
   so that `DXExecuteTaskGroup` can return `OK` for a group with a failed task.
2. `permanent_evicted`: the reclaim reads its victim's cost without the lock and deletes by key; a permanent entry
   that came under that key in between is thrown away.
3. `graph_freed`: `DECR_RUNABLE` (`evalgraph.c:119`) lowers the count of the context's program besides that of its own. A worker that returns to
   the macro call of a graph that was ended in the meantime takes the extra reference of the *next*
   graph, which is then deleted while its own macro call is still to return to it.

## 6. Promises the code does not keep, without a run

These formulas are in the modules, each with its comment, and are checked by no configuration here: each is
violated when it is put in one.

* `Dispatch`, `NobodySleepsOnAJob` (`rq.c:362`): a processor that has just been woken may see `count` too low, while another is searching,
  and go back to sleep with its job in the queue and the byte in its pipe consumed.
* `TaskGroup`, `DeletesOnlyAsync` (`task.c:664`): a task that has counted down reads `sync` of a block that may be another group
  by then, and has that one deleted while it is in use.
* `TaskGroup`, `AsyncGroupDeleted` (`task.c:830`): the counter of an asynchronous group starts one too high, so it is never deleted.
* `TaskGroup`, `ExtraTaskLives` (`task.c:699`): a task with several repetitions that is added at run time is freed by the first of them to finish.
* Calls in both directions (`task.c:1039`): `_dxf_ExRunOn` does not serve the queue; a parent that awaits a child that awaits the parent
  waits for ever. `RunOnReturns` holds while a graph executes because only children call then.
* `Memory`, `TakenUnderItsLock` (`memory.c:611`): between the two loads of its re-check a merge may take a block off a list under
  the lock of another. It then writes links of a block that is not its own and swallows what was split off after it, which others may own: that memory
  can be handed out a second time, and a later `afree` may find the links wrong (error 12140). This is why the properties of `Memory` end at `torn`.
* `memory.c:743`, no formula: the "size" of the pool, the distance from it to NULL, selects the list that is locked. With 64-bit addresses that list
  is beyond the array of lists. The model gives it a lock of its own.
* `Cache`, outside any formula: after a replacement the element is moved in the aging list when the dictionary is unlocked (`d.c:414`), so the list
  can lose entries or be linked wrongly (`mislinked`), an evicted element may be in it, or a freed one be written to (`astray`). `swap.c:220` unlocks the dictionary
  at the end of an iteration that has not locked it: on Linux that is the internal error of `lock.c:936`, which leaves the guard of all locks taken;
  `Cache` takes a lock that is not harmed by it.
* `GraphQueue`, `StopToldAlways` (`vcr.c:188`, `DXExecCtl.C:111` waits for "stop"): a frame whose macro has nothing to run ends twice and is
  counted off twice, `ngraphs` gets negative and "stop" is never sent. This needs one processor only.
  A step whose frame is dropped by a pause or a stop before it was queued has the same effect for the interface (`vcr.c:455`, no formula).
* `GraphQueue`, `KillAimed` (`command.c:1235`): the kill flag is set after the check, without the lock: the graph may have ended and reset the flag before, and
  the next graph is killed. It holds with one processor.
* `GraphQueue`, `NoFrameForgotten` (`dxmain.c:2418-2475`): the graph a frame waits for may end between the check of the sequencer and that for
  idleness; the parent blocks with the last frame pending. It holds with one processor.
* `GraphQueue`, `ContextAlive` (`dxmain.c:2364`): a graph that ends while the parent parses leaves its deleted program in the restored context: the
  parent takes a graph to be executing (`_dxf_ExIsExecuting`) and polls, instead of blocking, until another graph has been there.
* `lock.c:830`, `874`, not modelled: every process has its own count of the locks it has created in the shared array, and the test for its end is off by one.

## 7. Not modelled

`PROJECT.json` lists all components with their status. In the modules there are:

* `RunQueue`: failure of `DXAllocate` (returns ERROR before anything was changed), the timing marks.
* `TaskGroup`: `m_fork` emulation, copies of arguments, the sort by estimated work (any member may be the creator's
  own), allocation failures, the per-task context, `_dxf_ExRunOn` (in `Dispatch`).
* `Dispatch`: start-up and termination, jobs with several repetitions or groups (in `RunQueue`), the
  commands, graphs and sequencer of the parent's loop (in `GraphQueue`).
* `DXLock`: creation and destruction, `DXfetch_and_add`, a pool of semaphores that is used up, the versions for other systems.
* `Memory`: the arena of small blocks, which does not merge; dead blocks and growth that is not contiguous; debugging aids; what becomes of
  an arena after a torn merge.
* `Cache`: tags sent to peers, `cachegraph.c`, reclaims nested in a reclaim or a flush of the same processor, the free list of gvars; what happens after
  `astray`. A section under the dictionary's lock is one step, so that the spurious unlock of `swap.c:220` can end a flush's section early but not
  a section of one step (`Relink` and `Seen` do let an unlocked move, and the reclaim's unlocked look, fall in the middle of one's edit of the aging list).
* `GraphQueue`: which modules are required and what is cached, switches, routes, loops and nested macros; frame numbers, the loop and palindrome
  flags and the replacement of the sequencer's tree (it has one from the start); graphs that cannot be made; pending commands; the licence;
  slaves on other hosts, whose answer is taken to be there; the pauses of the sequencer that switches and routes (`evalgraph.c:1897`, `2020`) and
  slaves send when they fail; that the memory of a deleted graph is used again.

Components without a module: input handlers (one process walks its own table; the hazards are listed), graph construction and the language
front end (sequential translations of trees), distributed execution and DXLink (protocols between hosts and programs, the next candidates), and everything
in `dxmods`, `hwrender`, most of `libdx` and `uipp`: numerical code, one call at a time, or a graphical
interface. They make up nearly all of the repository's lines: what is modelled is the part where the order of events decides.

## 8. Plan

1. Proofs: steps that never happen (action properties), and how far the properties of section 6 hold, under the conditions that
   exclude the counterexamples.
2. `EvalGraph`: which modules are required, caching and reference counts of gvars, composed with `Cache`.
3. `Distributed` and `DXLink`: message protocols over channels.
4. `InputHandlers`: the table that changes while it is walked, composed with `Dispatch`.
