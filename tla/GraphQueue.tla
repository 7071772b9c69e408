------------------------------ MODULE GraphQueue ------------------------------
(***************************************************************************)
(* dpexec: what the master loop does with graphs.  A statement, the        *)
(* background statement and the sequencer (VCR) make graphs; one of them   *)
(* executes at a time, module after module, on whichever processor takes   *)
(* the module from the run queue; the processor that finds nothing left to *)
(* start ends the graph: it waits for the parent, takes the graph out of   *)
(* its slot, deletes it and tells the sequencer.  Meanwhile the parent     *)
(* reads commands: play, stop, kill...                                     *)
(*                                                                         *)
(* Abstractions: frames, variables and parse trees are left out; a graph   *)
(* is an assignment (no functions), plain (modules at the top) or a macro  *)
(* call with modules inside; the run queue hands out jobs as JobQueue      *)
(* does; a critical section is one step, and a try_lock may fail whenever  *)
(* another processor is about to be inside.  Memory of a deleted graph is  *)
(* not reused.  What a processor does after it has used a deleted graph is *)
(* not modelled: it stops there.                                           *)
(***************************************************************************)
EXTENDS Integers, Sequences, SequencesExt, FiniteSets

CONSTANTS N,           \* number of processors; processor 1 is the parent
          Commands,    \* commands that may be read
          MaxCommands, \* bound on how many are
          MaxGraphs,   \* bound on how many graphs are made
          MaxModules,  \* bound on the modules a graph executes
          Shapes       \* \subseteq {"assign", "plain", "macro"}

ASSUME GraphAssumption ==
  /\ N \in Nat \ {0} /\ MaxCommands \in Nat /\ MaxGraphs \in Nat /\ MaxModules \in Nat
  /\ Shapes \subseteq {"assign", "plain", "macro"}
  /\ Commands \subseteq {"run", "play", "step", "dir", "stop", "pause", "kill", "redo",
                         "background", "cancel"}

VARIABLES
  queue, curr,      \* gq_head .. gq_tail; *gq_curr
  kill,             \* *_dxd_exKillGraph
  ctx,              \* *_dxd_exContext: program (top level or macro), subp[0]
  graph, made,      \* the graphs, and how many were made
  vcr, bg,          \* sequencer (pauses: VCRCommandTasks in the run queue that
                    \* pause it) and background statement
  jobs,             \* the run queue
  pc, act, saved,   \* of each processor: where it is, what it works on, saved context
  stmt,             \* graph of the statement being handled
  left,             \* commands that may still be read
  owed, early       \* history: "stop" promised to the user interface; a graph
                    \* was ended while its macro call was still counted

qvars == <<queue, curr, kill>>
vars  == <<queue, curr, kill, ctx, graph, made, vcr, bg, jobs, pc, act, saved, stmt, left,
           owed, early>>

Procs  == 1..N
Parent == 1
Graphs == 1..MaxGraphs
None   == 0
GraphOrNone == Graphs \cup {None}

NoCtx == [prog |-> None, inMacro |-> FALSE, top |-> None]
Idle  == [g |-> None, then |-> "job", by |-> Parent]

Init ==
  /\ queue = << >> /\ curr = None /\ kill = FALSE /\ ctx = NoCtx
  /\ graph = << >> /\ made = 0
  /\ vcr = [mode |-> "stop", dir |-> 1, steps |-> 0, ngraphs |-> 0, graph |-> None,
            change |-> TRUE, pauses |-> 0]
  /\ bg = [tree |-> FALSE, change |-> FALSE, graph |-> None]
  /\ jobs = << >>
  /\ pc = [p \in Procs |-> IF p = Parent THEN "top" ELSE "loop"]
  /\ act = [p \in Procs |-> Idle] /\ saved = [p \in Procs |-> NoCtx]
  /\ stmt = None /\ left = MaxCommands /\ owed = FALSE /\ early = FALSE

-----------------------------------------------------------------------------
(* Graphs, the queue and the run queue.                                    *)

Home(p) == IF p = Parent THEN "top" ELSE "loop"
\* MUTANT of AllDone: only the slot is looked at.
AllDoneSlot == curr = None
AllDone == queue = << >> /\ curr = None                    \* _dxf_ExGQAllDone
Playing(mode) == mode \in {"step", "play"}                 \* neither STOP nor PAUSE
HasFuncs(g) == graph[g].shape # "assign"                   \* SIZE_LIST(funcs) # 0

\* A graph as ExGraph leaves it; todo counts the modules that will be required.
NewGraph(origin, shape, mods) ==
  [origin |-> origin, shape |-> shape, todo |-> mods, runable |-> 0, inMacro |-> FALSE,
   deleted |-> FALSE, waited |-> FALSE, complete |-> FALSE, freed |-> FALSE]

\* The graphs that a parse tree of some origin may give.
Made(origin) ==
  {NewGraph(origin, s, m) :
     s \in IF origin = "statement" THEN Shapes ELSE Shapes \ {"assign"}, m \in 0..MaxModules}
  \ {NewGraph(origin, "assign", m) : m \in 1..MaxModules}

\* The graphs f without g, which was waiting to be queued.
Free(f, g) == IF g = None THEN f ELSE [f EXCEPT ![g].freed = TRUE]

\* DECR_RUNABLE: a program and the top level program of the context.
Decr(f, g) == IF g # None /\ f[g].runable > 0 THEN [f EXCEPT ![g].runable = @ - 1] ELSE f
DecrTop(f, g, c) == IF c.top = g THEN Decr(f, g) ELSE Decr(Decr(f, g), c.top)

Job(kind, g, to, by) == [kind |-> kind, g |-> g, to |-> to, by |-> by]
Mine(p)   == {i \in DOMAIN jobs : jobs[i].to \in {None, p}}
First(p)  == CHOOSE i \in Mine(p) : \A j \in Mine(p) : i <= j
TheJob(p) == jobs[First(p)]
Rest(p)   == RemoveAt(jobs, First(p))

\* _dxf_ExRQDequeue gives p a job of this kind.
Takes(p, kind) ==
  /\ pc[p] = IF p = Parent THEN "jobs" ELSE "loop"
  /\ Mine(p) # {} /\ TheJob(p).kind = kind

-----------------------------------------------------------------------------
(* ExStartModules and the end of a graph.                                  *)

\* p is done with what a says: it returns to the graph queue check of the
\* master loop, to its own loop, or to the macro call that asked for it.
Continue(p, a) ==
  LET place == IF a.then # "queue" THEN Home(p) ELSE IF stmt # None THEN "background" ELSE "top"
      goes  == [pc EXCEPT ![p] = place]
  IN  pc' = IF a.then = "sub" THEN [goes EXCEPT ![a.by] = "cleanup"] ELSE goes

\* Nothing is left to start in g: p asks the parent whether the slaves are
\* done, once, and goes to the graph queue.
Ends(p, g, f, js) ==
  LET asks == f[g].shape # "assign" /\ ~f[g].deleted /\ ~f[g].waited
  IN  /\ graph' = IF asks THEN [f EXCEPT ![g].waited = TRUE] ELSE f
      /\ jobs' = IF asks /\ p # Parent THEN <<Job("wait", g, Parent, p)>> \o js ELSE js
      /\ pc' = [pc EXCEPT ![p] = IF asks /\ p # Parent THEN "slaves" ELSE "decrement"]

\* Start the next module of g, or end its macro and g, or g.  f, c and js are
\* the graphs, the context and the run queue so far, a what p does it for.
Starts(p, g, f, c, js, a) ==
  /\ act' = [act EXCEPT ![p] = a]
  /\ IF f[g].todo > 0
     THEN /\ jobs' = Append(js, Job("module", g, None, None))
          /\ graph' = [f EXCEPT ![g].todo = @ - 1]
          /\ Continue(p, a) /\ ctx' = c
     ELSE IF f[g].inMacro
     THEN /\ Ends(p, g, [DecrTop(f, g, c) EXCEPT ![g].inMacro = FALSE], js)
          /\ ctx' = [c EXCEPT !.prog = g, !.inMacro = FALSE]
     ELSE Ends(p, g, f, js) /\ ctx' = c

For(g, then, by) == [g |-> g, then |-> then, by |-> by]

\* _dxf_ExGQDecrement: free the slot; delete the graph unless it is counted.
Decrement(p) ==
  LET g     == act[p].g
      mine  == curr = g
      count == graph[g].runable > 0
  IN  /\ pc[p] = "decrement" /\ ~graph[g].freed
      /\ curr' = IF mine THEN None ELSE curr
      /\ IF count
         THEN /\ graph' = [graph EXCEPT ![g].deleted = TRUE]
              /\ early' = TRUE /\ UNCHANGED <<ctx, kill>>
         ELSE /\ graph' = [graph EXCEPT ![g].complete = TRUE, ![g].freed = TRUE]
              /\ ctx' = IF ctx.prog = g /\ ~ctx.inMacro THEN NoCtx ELSE ctx
              /\ kill' = (kill /\ ~(mine /\ queue = << >>))
              /\ UNCHANGED early
      /\ IF graph[g].origin = "vcr"
         THEN pc' = [pc EXCEPT ![p] = "callback"]
         ELSE Continue(p, act[p])
      /\ UNCHANGED <<queue, made, vcr, bg, jobs, act, saved, stmt, left, owed>>

\* The parent holds the sequencer's lock, for a stop or a pause.
Killing == pc[Parent] \in {"killing", "pausing"}

\* MUTANT of CallBack: a paused sequencer is not announced.
CallBackOnStop(p) ==
  /\ pc[p] = "callback" /\ ~Killing
  /\ vcr' = [vcr EXCEPT !.ngraphs = @ - 1]
  /\ owed' = (owed /\ ~(vcr'.ngraphs = 0 /\ vcr.mode = "stop"))
  /\ Continue(p, act[p])
  /\ UNCHANGED <<qvars, ctx, graph, made, bg, jobs, act, saved, stmt, left, early>>

\* _dxf_ExVCRCallBack, under the lock of the sequencer.
CallBack(p) ==
  /\ pc[p] = "callback" /\ ~Killing
  /\ vcr' = [vcr EXCEPT !.ngraphs = @ - 1]
  /\ owed' = (owed /\ ~(vcr'.ngraphs = 0 /\ ~Playing(vcr.mode)))
  /\ Continue(p, act[p])
  /\ UNCHANGED <<qvars, ctx, graph, made, bg, jobs, act, saved, stmt, left, early>>

-----------------------------------------------------------------------------
(* Jobs of the run queue.                                                  *)

\* ExQueueSubGraph, always on the parent: the modules inside the macro are
\* counted in the top level program of the context.
SubGraph(g, f, js, by) ==
  Starts(Parent, g, [f EXCEPT ![ctx.top].runable = @ + f[g].todo, ![g].inMacro = TRUE],
         [ctx EXCEPT !.prog = g, !.inMacro = TRUE], js, For(g, "sub", by))

\* _execGnode on a macro call.  A killed call fails and starts none of the
\* modules inside; otherwise it takes an extra reference and has the parent
\* start them.
Macro(p) ==
  /\ Takes(p, "macro")
  /\ LET g == TheJob(p).g
         f == [graph EXCEPT ![g].runable = @ + 1]
     IN  IF kill
         THEN Starts(p, g, [DecrTop(graph, g, ctx) EXCEPT ![g].todo = 0], ctx, Rest(p),
                     For(g, "job", None))
         ELSE IF p = Parent
         THEN ctx.top # None /\ SubGraph(g, f, Rest(p), p)
         ELSE /\ graph' = f
              /\ act' = [act EXCEPT ![p] = For(g, "sub", p)]
              /\ jobs' = <<Job("sub", g, Parent, p)>> \o Rest(p)
              /\ pc' = [pc EXCEPT ![p] = "waiting"] /\ UNCHANGED ctx
  /\ UNCHANGED <<qvars, made, vcr, bg, saved, stmt, left, owed, early>>

Sub ==
  /\ Takes(Parent, "sub") /\ ctx.top # None
  /\ SubGraph(TheJob(Parent).g, graph, Rest(Parent), TheJob(Parent).by)
  /\ UNCHANGED <<qvars, made, vcr, bg, saved, stmt, left, owed, early>>

\* The macro call drops its extra reference; when the graph was ended in the
\* meantime, it is ended again.
CleanUp(p) ==
  LET g == act[p].g
      f == DecrTop(graph, g, ctx)
  IN  /\ pc[p] = "cleanup" /\ ~graph[g].freed /\ ctx.top # None
      /\ IF f[g].runable = 0 /\ f[g].deleted
         THEN Starts(p, g, f, ctx, jobs, For(g, "job", None))
         ELSE /\ graph' = f /\ pc' = [pc EXCEPT ![p] = Home(p)]
              /\ UNCHANGED <<ctx, jobs, act>>
      /\ UNCHANGED <<qvars, made, vcr, bg, saved, stmt, left, owed, early>>

\* The module has run or was skipped: it is counted off, the next one starts.
Finish(p, g, c, js) ==
  Starts(p, g, IF graph[g].inMacro THEN Decr(graph, c.top) ELSE DecrTop(graph, g, c), c, js,
         For(g, "job", None))

\* _execGnode on a module; the context is saved while the module runs.
Module(p) ==
  /\ Takes(p, "module")
  /\ LET g == TheJob(p).g
     IN  IF kill
         THEN Finish(p, g, ctx, Rest(p)) /\ UNCHANGED saved
         ELSE /\ act' = [act EXCEPT ![p] = For(g, "job", None)]
              /\ saved' = [saved EXCEPT ![p] = ctx]
              /\ jobs' = Rest(p) /\ pc' = [pc EXCEPT ![p] = "module"]
              /\ UNCHANGED <<ctx, graph>>
  /\ UNCHANGED <<qvars, made, vcr, bg, stmt, left, owed, early>>

\* It may have failed: then a sequencer that runs is paused, by a job for the
\* parent (ExExecError).
ModuleEnd(p) ==
  /\ pc[p] = "module" /\ ~graph[act[p].g].freed
  /\ Finish(p, act[p].g, saved[p], jobs)
  /\ \/ UNCHANGED vcr
     \/ p # Parent /\ Playing(vcr.mode) /\ vcr' = [vcr EXCEPT !.pauses = @ + 1]
  /\ UNCHANGED <<qvars, made, bg, saved, stmt, left, owed, early>>

\* Every command to the sequencer deletes the frame that waits.
Dropped == Free(graph, vcr.graph)

\* The sequencer after a stop or a pause.
Halted(v, c) == [v EXCEPT !.graph = None, !.mode = c, !.steps = IF c = "stop" THEN 0 ELSE @]

\* A module that fails on the parent pauses the sequencer before it ends.
ParentFails ==
  /\ pc[Parent] = "module" /\ ~graph[act[Parent].g].freed /\ Playing(vcr.mode)
  /\ vcr' = Halted(vcr, "pause") /\ graph' = Dropped
  /\ kill' = (kill \/ ~AllDone)
  /\ owed' = (vcr.ngraphs # 0)
  /\ UNCHANGED <<queue, curr, ctx, made, bg, jobs, pc, act, saved, stmt, left, early>>

\* _dxf_ExWaitOnSlaves on the parent, for the processor that ends a graph.
Wait ==
  /\ Takes(Parent, "wait")
  /\ pc' = [pc EXCEPT ![TheJob(Parent).by] = "decrement", ![Parent] = "top"]
  /\ jobs' = Rest(Parent)
  /\ UNCHANGED <<qvars, ctx, graph, made, vcr, bg, act, saved, stmt, left, owed, early>>

-----------------------------------------------------------------------------
(* The master loop, ExParallelMaster.                                      *)

At(place)    == pc[Parent] = place
Goto(place)  == pc' = [pc EXCEPT ![Parent] = place]
rest == <<jobs, act>>                  \* what no command touches
hist == <<owed, early>>

\* Go round the loop without looking for input...
Round ==
  /\ At("top") /\ stmt' = None /\ Goto("graphs")
  /\ UNCHANGED <<qvars, ctx, graph, made, vcr, bg, rest, saved, left, hist>>

\* ... or parse what there is: the context is saved while yyparse runs.
BeginInput ==
  /\ At("top") /\ left > 0
  /\ left' = left - 1 /\ stmt' = None
  /\ saved' = [saved EXCEPT ![Parent] = ctx]
  /\ Goto("parse")
  /\ UNCHANGED <<qvars, ctx, graph, made, vcr, bg, rest, hist>>

Reads(c) == At("parse") /\ c \in Commands
Add(f, n) == Append(f, n)

\* A statement to execute: its graph is made.
Run ==
  /\ Reads("run") /\ made < MaxGraphs
  /\ \E n \in Made("statement") : graph' = Add(graph, n)
  /\ made' = made + 1 /\ stmt' = made + 1
  /\ Goto("endinput")
  /\ UNCHANGED <<qvars, ctx, vcr, bg, rest, saved, left, hist>>

\* Input that gives no graph: an error, or a definition.
Nothing ==
  /\ At("parse") /\ Goto("endinput")
  /\ UNCHANGED <<qvars, ctx, graph, made, vcr, bg, rest, saved, stmt, left, hist>>

Play ==
  /\ Reads("play")
  /\ vcr' = [vcr EXCEPT !.graph = None, !.mode = "play", !.steps = 0]
  /\ graph' = Dropped /\ owed' = FALSE
  /\ Goto("endinput")
  /\ UNCHANGED <<qvars, ctx, made, bg, rest, saved, stmt, left, early>>

Step ==
  LET steps == vcr.steps + vcr.dir
  IN  /\ Reads("step")
      /\ vcr' = [vcr EXCEPT !.graph = None, !.steps = steps,
                            !.mode = IF steps = 0 THEN "stop" ELSE "step"]
      /\ graph' = Dropped
      /\ owed' = (owed /\ steps = 0 /\ ~(vcr.ngraphs = 0 /\ Playing(vcr.mode)))
      /\ Goto("endinput")
      /\ UNCHANGED <<qvars, ctx, made, bg, rest, saved, stmt, left, early>>

Direction ==
  /\ Reads("dir")
  /\ vcr' = [vcr EXCEPT !.graph = None, !.dir = -@]
  /\ graph' = Dropped
  /\ Goto("endinput")
  /\ UNCHANGED <<qvars, ctx, made, bg, rest, saved, stmt, left, hist>>

\* A sequencer that runs kills what executes, and says "stop" now when none of its
\* graphs is left, or when the last one ends.
Halts(kills, done) ==
  /\ graph' = Dropped
  /\ IF ~Playing(vcr.mode) THEN Goto(done) /\ UNCHANGED owed
     ELSE IF AllDone THEN Goto(done) /\ owed' = (vcr.ngraphs # 0)
     ELSE Goto(kills) /\ owed' = TRUE
  /\ UNCHANGED <<qvars, ctx, made, bg, rest, saved, stmt, left, early>>

\* Stop or pause.
Halt(c) ==
  /\ c \in {"stop", "pause"} /\ Reads(c)
  /\ vcr' = Halted(vcr, c)
  /\ Halts("killing", "endinput")

\* VCRCommandTask: the pause of a module that has failed elsewhere.  Among the
\* other jobs of the parent it may be taken early or late.
PauseTask ==
  /\ At("jobs") /\ vcr.pauses > 0
  /\ vcr' = [Halted(vcr, "pause") EXCEPT !.pauses = @ - 1]
  /\ Halts("pausing", "top")

\* KillGraph looks whether there is something to kill...
Kill ==
  /\ Reads("kill")
  /\ Goto(IF AllDone THEN "endinput" ELSE "kill")
  /\ UNCHANGED <<qvars, ctx, graph, made, vcr, bg, rest, saved, stmt, left, hist>>

\* ... and then says so, without the lock of the queue; what stop and pause
\* found executing may be gone when the command itself looks again.
SetKill ==
  /\ At("kill") \/ Killing
  /\ kill' \in {TRUE} \cup (IF Killing /\ AllDone THEN {kill} ELSE {})
  /\ owed' = (owed /\ ~(Killing /\ vcr.ngraphs = 0))
  /\ Goto(IF At("pausing") THEN "top" ELSE "endinput")
  /\ UNCHANGED <<queue, curr, ctx, graph, made, vcr, bg, rest, saved, stmt, left, early>>

\* A macro was redefined: the graphs that wait are out of date.
Redo ==
  /\ Reads("redo")
  /\ vcr' = [vcr EXCEPT !.graph = None, !.change = TRUE]
  /\ bg' = IF bg.tree THEN [bg EXCEPT !.graph = None, !.change = TRUE] ELSE bg
  /\ graph' = Free(Dropped, bg.graph)
  /\ Goto("endinput")
  /\ UNCHANGED <<qvars, ctx, made, rest, saved, stmt, left, hist>>

\* _dxf_ExBackgroundCommand: BG_STATEMENT, BG_CANCEL.
BackgroundCommand(c) ==
  /\ c \in {"background", "cancel"} /\ Reads(c)
  /\ bg' = [tree |-> c = "background", change |-> FALSE, graph |-> None]
  /\ graph' = Free(graph, bg.graph)
  /\ Goto("endinput")
  /\ UNCHANGED <<qvars, ctx, made, vcr, rest, saved, stmt, left, hist>>

\* The context is restored, whatever became of its graph.
EndInput ==
  /\ At("endinput")
  /\ ctx' = saved[Parent]
  /\ Goto(IF stmt # None THEN "enqueue" ELSE "top")
  /\ UNCHANGED <<qvars, graph, made, vcr, bg, rest, saved, stmt, left, hist>>

Enqueue ==
  /\ At("enqueue")
  /\ queue' = Append(queue, stmt)
  /\ Goto("graphs")
  /\ UNCHANGED <<curr, kill, ctx, graph, made, vcr, bg, rest, saved, stmt, left, hist>>

\* MUTANT of SlotFree: any graph may start beside the one that executes.
SlotForAny == queue # << >>

\* A graph may start when the slot is free; an assignment at any time.
SlotFree == queue # << >> /\ (curr = None \/ ~HasFuncs(Head(queue)))

\* ExCheckGraphQueue: take a graph, if nobody holds the lock of the queue...
Dequeue ==
  /\ At("graphs") \/ At("again")
  /\ SlotFree
  /\ queue' = Tail(queue)
  /\ curr' = IF curr = None THEN Head(queue) ELSE curr
  /\ act' = [act EXCEPT ![Parent] = For(Head(queue), IF At("again") THEN "again" ELSE "queue",
                                        None)]
  /\ Goto("start")
  /\ UNCHANGED <<kill, ctx, graph, made, vcr, bg, jobs, saved, stmt, left, hist>>

NoDequeue ==
  /\ At("graphs") \/ At("again")
  /\ ~SlotFree \/ \E q \in Procs : pc[q] = "decrement"
  /\ Goto(IF At("graphs") THEN "background" ELSE IF stmt # None THEN "top" ELSE "jobs")
  /\ UNCHANGED <<qvars, ctx, graph, made, vcr, bg, rest, saved, stmt, left, hist>>

\* ... and start it: _dxf_ExQueueGraph.  An assignment changes variables.
QueueGraph ==
  LET g == act[Parent].g
      c == IF HasFuncs(g) THEN [prog |-> g, inMacro |-> FALSE, top |-> g] ELSE ctx
      f == [graph EXCEPT ![g].runable = IF graph[g].shape = "macro" THEN 1 ELSE @ + graph[g].todo]
  IN  /\ At("start")
      /\ IF graph[g].shape = "macro"
         THEN /\ jobs' = Append(jobs, Job("macro", g, None, None))
              /\ graph' = f /\ ctx' = c /\ Continue(Parent, act[Parent]) /\ UNCHANGED act
         ELSE Starts(Parent, g, f, c, jobs, act[Parent])
      /\ vcr' = [vcr EXCEPT !.change = @ \/ ~HasFuncs(g)]
      /\ bg' = [bg EXCEPT !.change = @ \/ (bg.tree /\ ~HasFuncs(g))]
      /\ UNCHANGED <<qvars, made, saved, stmt, left, hist>>

NextPlace(queued) == Goto(IF queued THEN "again" ELSE IF stmt # None THEN "top" ELSE "jobs")

\* _dxf_ExCheckBackground: make the graph of a background statement that has
\* changed; queue it when all is done.
CheckBackground ==
  /\ At("background")
  /\ LET makes == bg.tree /\ bg.graph = None /\ bg.change /\ made < MaxGraphs
         g     == IF makes THEN made + 1 ELSE bg.graph
         puts  == bg.tree /\ g # None /\ AllDone
     IN  /\ IF makes THEN \E n \in Made("background") : graph' = Add(graph, n)
            ELSE UNCHANGED graph
         /\ made' = IF makes THEN made + 1 ELSE made
         /\ bg' = [bg EXCEPT !.graph = IF puts THEN None ELSE g,
                             !.change = @ /\ ~puts]
         /\ queue' = IF puts THEN Append(queue, g) ELSE queue
         /\ Goto(IF puts THEN "again" ELSE "vcr")
  /\ UNCHANGED <<curr, kill, ctx, vcr, rest, saved, stmt, left, hist>>

\* On to the next frame: the last step stops the sequencer, and so does the
\* end of the sequence when it does not loop.
Advanced(v, atEnd) ==
  LET steps == IF v.mode # "step" THEN v.steps ELSE v.steps + (IF v.steps < 0 THEN 1 ELSE -1)
      stops == atEnd \/ (v.mode = "step" /\ steps = 0)
  IN  [v EXCEPT !.steps = steps, !.mode = IF stops THEN "stop" ELSE @]

\* MUTANT of QueueFrame: the frame is queued but not counted.
QueueFrameUncounted(v, f) ==
  LET puts == v.graph # None /\ AllDone
  IN  /\ vcr' = IF puts THEN [v EXCEPT !.graph = None] ELSE v
      /\ queue' = IF puts THEN Append(queue, v.graph) ELSE queue
      /\ graph' = f
      /\ NextPlace(puts)

\* MUTANT of QueueFrame: the frame stays pending.
QueueFrameKept(v, f) ==
  LET puts == v.graph # None /\ AllDone
  IN  /\ vcr' = IF puts THEN [v EXCEPT !.ngraphs = @ + 1] ELSE v
      /\ queue' = IF puts THEN Append(queue, v.graph) ELSE queue
      /\ graph' = f
      /\ NextPlace(puts)

\* The graph of the next frame is put in the queue when all is done.
QueueFrame(v, f) ==
  LET puts == v.graph # None /\ AllDone
  IN  /\ vcr' = IF puts THEN [v EXCEPT !.ngraphs = @ + 1, !.graph = None] ELSE v
      /\ queue' = IF puts THEN Append(queue, v.graph) ELSE queue
      /\ graph' = f
      /\ NextPlace(puts)

\* _dxf_ExCheckVCR: while the sequencer runs it makes the graph of the next
\* frame when none waits, and again when variables have changed (advancing if
\* those were the ones of the frame).
CheckVCR ==
  /\ At("vcr")
  /\ IF Playing(vcr.mode) /\ made < MaxGraphs /\ (vcr.graph = None \/ vcr.change)
     THEN \E n \in Made("vcr"), advances \in {vcr.graph = None, TRUE}, atEnd \in BOOLEAN :
            /\ QueueFrame([(IF advances THEN Advanced(vcr, atEnd) ELSE vcr)
                             EXCEPT !.graph = made + 1, !.change = FALSE],
                          Add(Dropped, n))
            /\ made' = made + 1
     ELSE QueueFrame(vcr, graph) /\ UNCHANGED made
  /\ UNCHANGED <<curr, kill, ctx, bg, rest, saved, stmt, left, hist>>

\* Somebody has the sequencer's lock.
VCRBusy ==
  /\ At("vcr") /\ \E q \in Procs : pc[q] = "callback"
  /\ NextPlace(FALSE)
  /\ UNCHANGED <<qvars, ctx, graph, made, vcr, bg, rest, saved, stmt, left, hist>>

NoJob ==
  /\ At("jobs") /\ Mine(Parent) = {} /\ vcr.pauses = 0 /\ Goto("idle")
  /\ UNCHANGED <<qvars, ctx, graph, made, vcr, bg, rest, saved, stmt, left, hist>>

\* The parent blocks when nothing is queued or executes, the sequencer does
\* not run and there is no input.
Quiet == AllDone /\ ~Playing(vcr.mode) /\ ctx.prog = None

Idling ==
  /\ At("idle")
  /\ \/ Quiet /\ Goto("blocked")
     \/ (~Quiet \/ left > 0) /\ Goto("top")
  /\ UNCHANGED <<qvars, ctx, graph, made, vcr, bg, rest, saved, stmt, left, hist>>

Wake ==
  /\ At("blocked") /\ (left > 0 \/ Mine(Parent) # {} \/ vcr.pauses > 0) /\ Goto("top")
  /\ UNCHANGED <<qvars, ctx, graph, made, vcr, bg, rest, saved, stmt, left, hist>>

MasterLoop ==
  \/ Round \/ BeginInput \/ EndInput \/ Enqueue \/ SetKill
  \/ Run \/ Nothing \/ Play \/ Step \/ Direction \/ Kill \/ Redo
  \/ \E c \in Commands : Halt(c) \/ BackgroundCommand(c)
  \/ Dequeue \/ NoDequeue \/ QueueGraph \/ CheckBackground \/ CheckVCR \/ VCRBusy
  \/ NoJob \/ Idling \/ Wake \/ Sub \/ Wait \/ PauseTask

Works(p) ==
  \/ Macro(p) \/ CleanUp(p) \/ Module(p) \/ ModuleEnd(p) \/ Decrement(p) \/ CallBack(p)
  \/ p = Parent /\ ParentFails

Next == MasterLoop \/ \E p \in Procs : Works(p)
Spec == Init /\ [][Next]_vars

\* Every processor goes on with what it does.
FairSpec == Spec /\ WF_vars(MasterLoop) /\ \A p \in Procs : WF_vars(Works(p))

-----------------------------------------------------------------------------
(* Properties.                                                             *)

Places == {"top", "parse", "endinput", "enqueue", "kill", "killing", "pausing", "graphs", "again",
           "start", "background", "vcr", "jobs", "idle", "blocked",
           "loop", "waiting", "cleanup", "module", "slaves", "decrement", "callback"}
Contexts == [prog : GraphOrNone, inMacro : BOOLEAN, top : GraphOrNone]

Origins == {"statement", "background", "vcr"}
GraphStates == [origin : Origins, shape : Shapes, todo : 0..MaxModules, runable : Nat,
                inMacro : BOOLEAN, deleted : BOOLEAN, waited : BOOLEAN, complete : BOOLEAN,
                freed : BOOLEAN]
Jobs == [kind : {"module", "macro", "sub", "wait"}, g : Graphs, to : {None, Parent},
         by : Procs \cup {None}]
Acts == [g : GraphOrNone, then : {"job", "sub", "queue", "again"}, by : Procs \cup {None}]

\* Graph g was made and not deleted, and is not in the queue.
Pending(g) == g \in 1..made /\ ~graph[g].freed /\ g \notin Range(queue)

\* Types; in particular the slot, the queue and the waiting graphs name graphs
\* that were made and not deleted, and no graph is queued twice.
TypeOK ==
  /\ graph \in Seq(GraphStates) /\ made = Len(graph) /\ made <= MaxGraphs
  /\ queue \in Seq(1..made) /\ IsInjective(queue)
  /\ \A g \in Range(queue) : ~graph[g].freed
  /\ \A g \in {curr, vcr.graph, bg.graph} \ {None} : Pending(g)
  /\ curr # None => curr \notin {vcr.graph, bg.graph}
  /\ vcr.graph # None => vcr.graph # bg.graph
  /\ kill \in BOOLEAN /\ owed \in BOOLEAN /\ early \in BOOLEAN
  /\ ctx \in Contexts /\ saved \in [Procs -> Contexts]
  /\ vcr \in [mode : {"stop", "pause", "step", "play"}, dir : {-1, 1},
              steps : -MaxCommands..MaxCommands, ngraphs : Int, graph : GraphOrNone,
              change : BOOLEAN, pauses : Nat]
  /\ bg \in [tree : BOOLEAN, change : BOOLEAN, graph : GraphOrNone]
  /\ jobs \in Seq(Jobs) /\ act \in [Procs -> Acts] /\ pc \in [Procs -> Places]
  /\ left \in 0..MaxCommands /\ stmt \in GraphOrNone

\* The processors that hold graph g to execute or end it.
HeldBy(p) == pc[p] \in {"waiting", "cleanup", "module", "slaves", "decrement"}

\* The graphs with functions that somebody works on or has queued a job for.
InExecution ==
  {g \in {jobs[i].g : i \in DOMAIN jobs} \cup {act[p].g : p \in {q \in Procs : HeldBy(q)}} :
     HasFuncs(g)}

\* One graph executes at a time, the one in the slot, until a graph is ended
\* while its macro call is still counted (evalgraph.c:1397).
OneGraphAtATime == early \/ InExecution \subseteq {curr}

\* vcr->ngraphs, the "number of outstanding graphs", is the number of frames
\* that are queued, execute or are about to be called back; see early above.
NgraphsExact ==
  LET frames == {g \in DOMAIN graph : graph[g].origin = "vcr"}
      queued == {g \in frames : (\E i \in DOMAIN queue : queue[i] = g) \/ curr = g}
      ending == {g \in frames : \E p \in Procs : pc[p] = "callback" /\ act[p].g = g}
  IN  early \/ vcr.ngraphs = Cardinality(queued \cup ending)

\* A user interface whose running sequencer was stopped or paused is told
\* "stop", unless it starts the sequencer again or early as above.
StopTold == owed ~> (~owed \/ early)

\* Every graph that is queued is executed to its end, whoever is killed,
\* stopped or paused in between, unless early as above.
GraphsEnd ==
  \A g \in Graphs : (\E i \in DOMAIN queue : queue[i] = g)
                    ~> (early \/ (g \in DOMAIN graph /\ graph[g].complete))

\* evalgraph.c:1397: the extra reference of a macro call is "to make sure that
\* the graph does not get deleted before returning to this routine".
NotDeletedBeforeReturning ==
  \A p \in Procs : pc[p] \in {"waiting", "cleanup"} => ~graph[act[p].g].freed

(* Promises the code does not keep; no run checks them, see README.md.     *)

\* The interface is told "stop" whatever ends early (with one processor a
\* macro with nothing to run already ends twice and is counted off twice).
StopToldAlways == owed ~> ~owed

\* The kill flag is set only while there is something to kill: it is set
\* without the lock, so the graph may have ended and the next one is killed.
KillAimed == kill => ~AllDone

\* The parent does not block while a frame waits: the graph it waits for may
\* end after the sequencer was checked.
NoFrameForgotten == pc[Parent] = "blocked" => vcr.graph = None

\* The context names no deleted graph: it is restored after parsing.
ContextAlive == ctx.prog # None => ~graph[ctx.prog].freed
===============================================================================
