--------------------------- MODULE GraphQueue_proofs ---------------------------
(***************************************************************************)
(* One graph executes at a time, and the sequencer's count of frames is    *)
(* exact, for any number of processors, commands, graphs and modules.      *)
(***************************************************************************)
EXTENDS GraphQueue, FiniteSetTheorems, SequenceTheorems, WellFoundedInduction, TLAPS

-----------------------------------------------------------------------------
(* The inductive invariant.                                                *)

\* A graph that is not started yet: queued, pending, or made for a statement.
Fresh == pc[Parent] \in {"endinput", "enqueue"}
Waits(g) == \/ g \in Range(queue)
            \/ g = vcr.graph \/ g = bg.graph \/ (Fresh /\ g = stmt)
Started(g) == g \in 1..made /\ ~Waits(g)

CommandPlaces == {"top", "parse", "endinput", "enqueue", "kill", "killing", "pausing", "graphs",
                  "again", "background", "vcr", "jobs", "idle", "blocked"}

\* Where each processor may be: only the parent reads commands, and it serves
\* whoever waits for it.
PlacesOK ==
  /\ pc[Parent] \in CommandPlaces \cup {"start", "cleanup", "module", "decrement", "callback"}
  /\ \A p \in Procs \ {Parent} :
       /\ pc[p] \in {"loop", "waiting", "cleanup", "module", "slaves", "decrement", "callback"}
       /\ ~early /\ pc[p] \in {"module", "slaves", "decrement", "callback"} => act[p].then # "sub"

\* What processors and jobs are about was started; nothing refers to it as
\* pending any more.
Busy(p) == HeldBy(p) \/ pc[p] \in {"callback", "start"}
NamesOK ==
  /\ \A p \in Procs : act[p].g # None => Started(act[p].g)
  /\ \A p \in Procs : Busy(p) => act[p].g # None
  /\ \A p \in Procs \ {Parent} : (act[p].g # None => HasFuncs(act[p].g)) /\ act[p].then # "queue"
  /\ \A p \in Procs : act[p].then = "sub" => /\ act[p].by # None /\ act[act[p].by].g # None
                                             /\ p # Parent => act[p].by = p
  /\ \A p \in Procs :
       act[p].then = "sub" \/ pc[p] \in {"waiting", "cleanup", "module", "slaves"} =>
         act[p].g # None /\ HasFuncs(act[p].g)
  /\ \A j \in Range(jobs) : Started(j.g) /\ HasFuncs(j.g)
  /\ \A j \in Range(jobs) : j.kind \in {"sub", "wait"} =>
                              j.by \notin {None, Parent} /\ act[j.by].g # None

\* A context names graphs that were made, with functions.
Names(c) == /\ c.prog # None => c.prog \in 1..made /\ HasFuncs(c.prog)
            /\ c.top # None => c.top \in 1..made /\ HasFuncs(c.top)
ContextsOK == Names(ctx) /\ \A p \in Procs : Names(saved[p])

\* The graph of a statement is new until it is queued.
StatementOK ==
  /\ pc[Parent] \in {"parse", "kill", "killing"} => stmt = None
  /\ pc[Parent] = "enqueue" => stmt # None
  /\ Fresh /\ stmt # None =>
       /\ Pending(stmt) /\ stmt \notin {curr, vcr.graph, bg.graph}
       /\ graph[stmt].origin = "statement"

\* Only the sequencer's frames are counted; assignments have nothing to run.
OriginsOK ==
  /\ vcr.graph # None => graph[vcr.graph].origin = "vcr"
  /\ bg.graph # None => bg.tree /\ graph[bg.graph].origin = "background"
  /\ \A g \in 1..made : ~HasFuncs(g) => /\ graph[g].origin = "statement"
                                        /\ graph[g].todo = 0 /\ ~graph[g].inMacro

\* The graph about to be started is in the slot, or is an assignment.
StartOK ==
  pc[Parent] = "start" =>
    LET g == act[Parent].g
    IN  /\ HasFuncs(g) => curr = g
        /\ act[Parent].then # "sub"
        /\ ~graph[g].inMacro
        /\ \A j \in Range(jobs) : j.g # g
        /\ \A p \in Procs \ {Parent} : act[p].g # g

\* A graph that is not started is in no macro.
FreshOK == \A g \in 1..made : Waits(g) => ~graph[g].inMacro

\* The bound on commands bounds the steps of the sequencer.
Spare == left + (IF pc[Parent] = "parse" THEN 1 ELSE 0)
StepsOK == /\ vcr.steps + Spare <= MaxCommands /\ Spare - vcr.steps <= MaxCommands
           /\ vcr.mode = "step" => vcr.steps # 0

-----------------------------------------------------------------------------
(* ... and the part of it that holds until early.                          *)

\* A processor that executes a graph with functions; one that waits for the
\* macro call it has made, the parent included that makes one itself.
Chain(p)  == pc[p] \in {"module", "slaves", "decrement"} /\ HasFuncs(act[p].g)
Caller(p) == \/ pc[p] \in {"waiting", "cleanup"}
             \/ pc[p] = "decrement" /\ act[p].then = "sub" /\ act[p].by = p
Called    == \E p \in Procs : Caller(p)
Queued(kind) == \E j \in Range(jobs) : j.kind = kind
InModule  == Queued("module") \/ \E p \in Procs : pc[p] = "module"
Ending    == \E p \in Procs : pc[p] \in {"slaves", "decrement"} /\ HasFuncs(act[p].g)

\* All jobs and processors are about the graph in the slot.
AboutCurr ==
  /\ \A j \in Range(jobs) : j.g = curr
  /\ \A p \in Procs : HeldBy(p) => act[p].g = curr \/ (p = Parent /\ pc[p] = "decrement"
                                                      /\ ~HasFuncs(act[p].g)
                                                      /\ act[p].then # "sub")

\* It is in one place: a job, or with one processor.
OneChain ==
  /\ Len(jobs) <= 1
  /\ \A p, q \in Procs : Chain(p) /\ Chain(q) => p = q
  /\ \A p, q \in Procs : Caller(p) /\ Caller(q) => p = q
  /\ \A j \in Range(jobs) : j.kind # "wait" => \A p \in Procs : ~Chain(p)
  /\ \A j \in Range(jobs) : j.kind = "wait" => pc[j.by] = "slaves"
  /\ \A j \in Range(jobs) : j.kind = "sub"  => pc[j.by] = "waiting"
  /\ \A p \in Procs : pc[p] = "decrement" /\ act[p].then = "sub" =>
                       act[p].by = p \/ pc[act[p].by] = "waiting"

\* Its count is at least what is still to be counted off.
CountOK ==
  curr # None =>
    LET R == graph[curr].runable
        M == graph[curr].inMacro
    IN  /\ Queued("macro") => ~Called /\ R >= 1 /\ ~M
        /\ Queued("sub") => R >= 2 /\ ~M
        /\ InModule /\ M => R >= graph[curr].todo + 2
        /\ InModule /\ M /\ Called => R >= graph[curr].todo + 3
        /\ InModule /\ ~M => ~Called
        /\ Ending => ~M /\ (Called => R >= 1)

\* The contexts that will be used name it.
Reading == {"parse", "kill", "killing", "endinput"}
TopOK ==
  curr # None /\ HasFuncs(curr) /\ ~(pc[Parent] = "start" /\ act[Parent].g = curr) =>
    /\ ctx.top = curr
    /\ pc[Parent] \in Reading => saved[Parent].top = curr
    /\ \A p \in Procs : pc[p] = "module" => saved[p].top = curr

\* A frame that is called back was deleted, and is called back once.
CallBackOK ==
  /\ \A p \in Procs : pc[p] = "callback" =>
       graph[act[p].g].freed /\ graph[act[p].g].origin = "vcr" /\ act[p].then # "sub"
  /\ \A p, q \in Procs : pc[p] = "callback" /\ pc[q] = "callback" /\ act[p].g = act[q].g => p = q

NotDeleted == \A g \in 1..made : ~graph[g].deleted

Frames == {g \in 1..made :
             /\ graph[g].origin = "vcr"
             /\ \/ g \in Range(queue)
                \/ curr = g
                \/ \E p \in Procs : pc[p] = "callback" /\ act[p].g = g}
FramesOK == vcr.ngraphs = Cardinality(Frames)

Always == /\ TypeOK /\ PlacesOK /\ NamesOK /\ ContextsOK /\ StatementOK /\ OriginsOK /\ StartOK
          /\ FreshOK /\ StepsOK
UntilEarly == ~early => /\ AboutCurr /\ OneChain /\ CountOK /\ TopOK /\ CallBackOK /\ NotDeleted
                        /\ FramesOK
IInv == Always /\ UntilEarly
-----------------------------------------------------------------------------
(* Sequences and least elements.                                            *)

(* What RemoveAt leaves: every element but the i-th, in the same order.    *)
LEMMA RemoveAtProps ==
  ASSUME NEW S, NEW s \in Seq(S), NEW i \in 1..Len(s)
  PROVE  /\ RemoveAt(s, i) \in Seq(S)
         /\ Len(RemoveAt(s, i)) = Len(s) - 1
         /\ \A j \in 1..(Len(s) - 1) : RemoveAt(s, i)[j] = IF j < i THEN s[j] ELSE s[j + 1]
<1> DEFINE l == SubSeq(s, 1, i - 1)
           r == SubSeq(s, i + 1, Len(s))
<1>1. Len(s) \in Nat /\ \A j \in 1..Len(s) : s[j] \in S
  BY LenProperties, ElementOfSeq
<1>2. /\ l \in Seq(S)
      /\ Len(l) = i - 1
      /\ \A j \in 1..(i - 1) : l[j] = s[j]
  <2>1. \A j \in 1..(i - 1) : s[j] \in S
    BY <1>1
  <2> QED BY <1>1, <2>1, SubSeqProperties
<1>3. /\ r \in Seq(S)
      /\ Len(r) = Len(s) - i
      /\ \A j \in 1..(Len(s) - i) : r[j] = s[i + j]
  <2>1. \A j \in (i + 1)..Len(s) : s[j] \in S
    BY <1>1
  <2>2. /\ r \in Seq(S)
        /\ Len(r) = IF i + 1 <= Len(s) THEN Len(s) - (i + 1) + 1 ELSE 0
        /\ \A j \in 1..(Len(s) - (i + 1) + 1) : r[j] = s[(i + 1) + j - 1]
    BY <1>1, <2>1, SubSeqProperties
  <2> HIDE DEF r
  <2> QED BY <1>1, <2>2
<1> HIDE DEF l, r
<1>4. /\ l \o r \in Seq(S)
      /\ Len(l \o r) = Len(l) + Len(r)
      /\ \A j \in 1..(Len(l) + Len(r)) :
           (l \o r)[j] = IF j <= Len(l) THEN l[j] ELSE r[j - Len(l)]
  BY <1>2, <1>3, ConcatProperties
<1>5. RemoveAt(s, i) = l \o r
  BY DEF RemoveAt, l, r
<1>6. Len(RemoveAt(s, i)) = Len(s) - 1
  BY <1>1, <1>2, <1>3, <1>4, <1>5
<1>7. ASSUME NEW j \in 1..(Len(s) - 1)
      PROVE  RemoveAt(s, i)[j] = IF j < i THEN s[j] ELSE s[j + 1]
  <2>1. CASE j < i
    BY <1>1, <1>2, <1>3, <1>4, <1>5, <2>1
  <2>2. CASE j >= i
    <3>1. (l \o r)[j] = r[j - (i - 1)]
      BY <1>1, <1>2, <1>3, <1>4, <2>2
    <3>2. j - (i - 1) \in 1..(Len(s) - i)
      BY <1>1, <2>2
    <3>3. r[j - (i - 1)] = s[i + (j - (i - 1))]
      BY <1>3, <3>2
    <3> QED BY <1>1, <1>5, <2>2, <3>1, <3>3
  <2> QED BY <1>1, <2>1, <2>2
<1> QED BY <1>4, <1>5, <1>6, <1>7

(* Appending a new element keeps a sequence injective.                     *)
LEMMA AppendSet ==
  ASSUME NEW S, NEW s \in Seq(S), IsInjective(s), NEW a \in S, a \notin Range(s)
  PROVE  /\ Append(s, a) \in Seq(S)
         /\ IsInjective(Append(s, a))
         /\ Range(Append(s, a)) = Range(s) \cup {a}
<1>1. Len(s) \in Nat /\ DOMAIN s = 1..Len(s)
  BY LenProperties
<1>2. /\ Append(s, a) \in Seq(S) /\ DOMAIN Append(s, a) = 1..(Len(s) + 1)
      /\ \A i \in 1..Len(s) : Append(s, a)[i] = s[i]
      /\ Append(s, a)[Len(s) + 1] = a
  BY <1>1
<1>3. IsInjective(Append(s, a))
  BY <1>1, <1>2 DEF IsInjective, Range
<1>4. Range(Append(s, a)) = Range(s) \cup {a}
  <2>1. \A i \in 1..(Len(s) + 1) : i \in 1..Len(s) \/ i = Len(s) + 1
    BY <1>1
  <2>2. (1..Len(s)) \cup {Len(s) + 1} \subseteq 1..(Len(s) + 1)
    BY <1>1
  <2> QED BY <1>1, <1>2, <2>1, <2>2 DEF Range
<1> QED BY <1>2, <1>3, <1>4

(* A set of natural numbers has a least one.                               *)
LEMMA MinIsIn ==
  ASSUME NEW S, S \subseteq Nat, S # {}
  PROVE  Min(S) \in S
<1> DEFINE Below == {ss \in Nat \X Nat : ss[1] < ss[2]}
<1>1. IsWellFoundedOn(Below, Nat)
  BY NatLessThanWellFounded DEF OpToRel
<1>2. \E x \in S : \A y \in S : <<y, x>> \notin Below
  <2> HIDE DEF Below
  <2> QED BY <1>1, WFMin
<1>3. PICK x \in S : \A y \in S : ~(y < x)
  BY <1>2
<1>4. \A y \in S : x <= y
  BY <1>3
<1> QED BY <1>4 DEF Min

(* A sequence with one more element in front.                              *)
LEMMA ConsProps ==
  ASSUME NEW S, NEW s \in Seq(S), NEW a \in S
  PROVE  /\ <<a>> \o s \in Seq(S) /\ Len(<<a>> \o s) = Len(s) + 1
         /\ Range(<<a>> \o s) = Range(s) \cup {a}
<1> DEFINE t == <<a>> \o s
<1>1. Len(s) \in Nat /\ DOMAIN s = 1..Len(s)
  BY LenProperties
<1>2. <<a>> \in Seq(S) /\ Len(<<a>>) = 1 /\ <<a>>[1] = a
  OBVIOUS
<1>3. /\ t \in Seq(S) /\ Len(t) = 1 + Len(s)
      /\ \A i \in 1..(1 + Len(s)) : t[i] = IF i <= 1 THEN <<a>>[i] ELSE s[i - 1]
  BY <1>2, ConcatProperties
<1> HIDE DEF t
<1>4. DOMAIN t = 1..(1 + Len(s))
  BY <1>3, LenProperties
<1>5. t[1] = a /\ \A i \in 2..(1 + Len(s)) : i - 1 \in DOMAIN s /\ t[i] = s[i - 1]
  BY <1>1, <1>2, <1>3
<1>6. \A i \in DOMAIN t : i = 1 \/ i \in 2..(1 + Len(s))
  BY <1>1, <1>4
<1>7. Range(t) \subseteq Range(s) \cup {a}
  BY <1>5, <1>6 DEF Range
<1>8. a \in Range(t)
  BY <1>1, <1>4, <1>5 DEF Range
<1>9. ASSUME NEW i \in DOMAIN s PROVE s[i] \in Range(t)
  <2>1. i + 1 \in 2..(1 + Len(s)) /\ (i + 1) - 1 = i /\ i + 1 \in DOMAIN t
    BY <1>1, <1>4
  <2> QED BY <1>5, <2>1 DEF Range
<1>10. Range(t) = Range(s) \cup {a}
  BY <1>7, <1>8, <1>9 DEF Range
<1> QED BY <1>1, <1>3, <1>10 DEF t

(* A sequence with one more element at the end.                            *)
LEMMA AppendProps ==
  ASSUME NEW S, NEW s \in Seq(S), NEW a \in S
  PROVE  /\ Append(s, a) \in Seq(S) /\ Len(Append(s, a)) = Len(s) + 1
         /\ Range(Append(s, a)) = Range(s) \cup {a}
<1>1. Len(s) \in Nat /\ DOMAIN s = 1..Len(s)
  BY LenProperties
<1>2. /\ Append(s, a) \in Seq(S) /\ DOMAIN Append(s, a) = 1..(Len(s) + 1)
      /\ Len(Append(s, a)) = Len(s) + 1
      /\ \A i \in 1..Len(s) : Append(s, a)[i] = s[i]
      /\ Append(s, a)[Len(s) + 1] = a
  BY <1>1
<1>3. \A i \in 1..(Len(s) + 1) : i \in 1..Len(s) \/ i = Len(s) + 1
  BY <1>1
<1>4. (1..Len(s)) \cup {Len(s) + 1} \subseteq 1..(Len(s) + 1)
  BY <1>1
<1> QED BY <1>1, <1>2, <1>3, <1>4 DEF Range

(* Head and tail of a sequence without repetition.                         *)
LEMMA TailSet ==
  ASSUME NEW S, NEW s \in Seq(S), IsInjective(s), s # << >>
  PROVE  /\ Head(s) \in S /\ Head(s) \in Range(s) /\ Tail(s) \in Seq(S)
         /\ IsInjective(Tail(s)) /\ Range(Tail(s)) = Range(s) \ {Head(s)}
<1>1. /\ Head(s) = s[1] /\ Tail(s) \in Seq(S) /\ Len(s) \in Nat /\ Len(s) >= 1
      /\ DOMAIN s = 1..Len(s) /\ DOMAIN Tail(s) = 1..(Len(s) - 1)
      /\ \A i \in 1..(Len(s) - 1) : Tail(s)[i] = s[i + 1]
  OBVIOUS
<1>2. 1 \in DOMAIN s /\ s[1] \in S
  BY <1>1, ElementOfSeq
<1>3. \A i \in DOMAIN Tail(s) : i + 1 \in DOMAIN s /\ i + 1 # 1 /\ Tail(s)[i] = s[i + 1]
  BY <1>1
<1>4. IsInjective(Tail(s))
  BY <1>1, <1>3 DEF IsInjective
<1>5. ASSUME NEW i \in DOMAIN s, s[i] # s[1] PROVE s[i] \in Range(Tail(s))
  <2>1. i - 1 \in DOMAIN Tail(s) /\ (i - 1) + 1 = i
    BY <1>1, <1>5
  <2> QED BY <1>3, <2>1 DEF Range
<1>6. Range(Tail(s)) \subseteq Range(s) \ {s[1]}
  BY <1>2, <1>3 DEF Range, IsInjective
<1>7. Range(s) \ {s[1]} \subseteq Range(Tail(s))
  BY <1>5 DEF Range
<1>8. s[1] \in Range(s)
  BY <1>2 DEF Range
<1> QED BY <1>1, <1>2, <1>4, <1>6, <1>7, <1>8

(* Taking an element out leaves some of the others.                        *)
LEMMA RestProps ==
  ASSUME NEW S, NEW s \in Seq(S), NEW k \in 1..Len(s)
  PROVE  /\ RemoveAt(s, k) \in Seq(S) /\ Len(RemoveAt(s, k)) = Len(s) - 1
         /\ Range(RemoveAt(s, k)) \subseteq Range(s)
<1>1. /\ RemoveAt(s, k) \in Seq(S) /\ Len(RemoveAt(s, k)) = Len(s) - 1
      /\ \A j \in 1..(Len(s) - 1) : RemoveAt(s, k)[j] = IF j < k THEN s[j] ELSE s[j + 1]
  BY RemoveAtProps
<1>2. Len(s) \in Nat /\ DOMAIN s = 1..Len(s) /\ DOMAIN RemoveAt(s, k) = 1..(Len(s) - 1)
  BY <1>1, LenProperties
<1>3. ASSUME NEW j \in 1..(Len(s) - 1) PROVE \E m \in DOMAIN s : RemoveAt(s, k)[j] = s[m]
  BY <1>1, <1>2
<1> QED BY <1>1, <1>2, <1>3 DEF Range

-----------------------------------------------------------------------------
(* Graphs.                                                                 *)

(* Processors, graphs and places.                                          *)
LEMMA Basics ==
  ASSUME TypeOK
  PROVE  /\ Parent \in Procs /\ None \notin Procs /\ made \in Nat /\ None \notin 1..made
         /\ 1..made \subseteq Graphs /\ DOMAIN graph = 1..made
         /\ \A g \in 1..made : graph[g] \in GraphStates
         /\ Range(queue) \subseteq 1..made
<1>1. N \in Nat \ {0} /\ MaxGraphs \in Nat
  BY GraphAssumption
<1>2. graph \in Seq(GraphStates) /\ made = Len(graph) /\ made <= MaxGraphs /\ queue \in Seq(1..made)
  BY DEF TypeOK
<1>3. made \in Nat /\ DOMAIN graph = 1..made
  BY <1>2, LenProperties
<1>4. Parent \in Procs /\ None \notin Procs /\ None \notin 1..made /\ 1..made \subseteq Graphs
  BY <1>1, <1>2, <1>3 DEF Parent, Procs, None, Graphs
<1>5. \A g \in 1..made : graph[g] \in GraphStates
  BY <1>2, <1>3, ElementOfSeq
<1>6. Range(queue) \subseteq 1..made
  BY <1>2, ElementOfSeq, LenProperties DEF Range
<1> QED BY <1>3, <1>4, <1>5, <1>6

\* Graph g is as it was, but for being freed, waited for or complete.
Alike(r, s) == /\ r.origin = s.origin /\ r.shape = s.shape /\ r.todo = s.todo
               /\ r.runable = s.runable /\ r.inMacro = s.inMacro /\ r.deleted = s.deleted

\* A graph as it is made.
NewOne(r) == /\ r \in GraphStates /\ ~r.freed /\ ~r.inMacro /\ ~r.deleted
             /\ r.shape = "assign" => r.origin = "statement" /\ r.todo = 0

(* A graph that is made is new.                                            *)
LEMMA MadeNew ==
  ASSUME NEW origin \in Origins, NEW n \in Made(origin)
  PROVE  NewOne(n) /\ n.origin = origin
<1>1. PICK s \in Shapes, m \in 0..MaxModules :
        /\ n = NewGraph(origin, s, m)
        /\ s = "assign" => origin = "statement" /\ m = 0
  BY DEF Made, NewGraph
<1>2. n = [origin |-> origin, shape |-> s, todo |-> m, runable |-> 0, inMacro |-> FALSE,
           deleted |-> FALSE, waited |-> FALSE, complete |-> FALSE, freed |-> FALSE]
  BY <1>1 DEF NewGraph
<1> QED BY <1>1, <1>2 DEF NewOne, GraphStates

(* Freeing a graph that waits.                                             *)
LEMMA FreeProps ==
  ASSUME NEW f \in Seq(GraphStates), NEW x \in GraphOrNone
  PROVE  /\ Free(f, x) \in Seq(GraphStates) /\ Len(Free(f, x)) = Len(f)
         /\ \A h \in 1..Len(f) : /\ Alike(Free(f, x)[h], f[h])
                                 /\ Free(f, x)[h].freed = (f[h].freed \/ (h = x))
<1>1. Len(f) \in Nat /\ DOMAIN f = 1..Len(f) /\ \A h \in 1..Len(f) : f[h] \in GraphStates
  BY LenProperties, ElementOfSeq
<1>2. CASE x = None
  <2>1. \A h \in 1..Len(f) : h # x
    BY <1>2, <1>1 DEF None
  <2> QED BY <1>1, <1>2, <2>1 DEF Free, Alike, GraphStates
<1>3. CASE x # None
  <2>1. Free(f, x) = [f EXCEPT ![x].freed = TRUE]
    BY <1>3 DEF Free
  <2>2. /\ DOMAIN Free(f, x) = 1..Len(f)
        /\ \A h \in 1..Len(f) : Free(f, x)[h] = IF h = x THEN [f[h] EXCEPT !.freed = TRUE] ELSE f[h]
    BY <1>1, <2>1
  <2>3. \A h \in 1..Len(f) : Free(f, x)[h] \in GraphStates
    BY <1>1, <2>2 DEF GraphStates
  <2>4. Free(f, x) \in Seq(GraphStates) /\ Len(Free(f, x)) = Len(f)
    <3>1. CASE x \in 1..Len(f)
      <4>1. [f[x] EXCEPT !.freed = TRUE] \in GraphStates
        BY <1>1, <3>1 DEF GraphStates
      <4>2. Free(f, x) = [f EXCEPT ![x] = [f[x] EXCEPT !.freed = TRUE]]
        BY <2>1
      <4> QED BY <3>1, <4>1, <4>2, ExceptSeq
    <3>2. CASE x \notin 1..Len(f)
      <4>1. Free(f, x) = f
        BY <1>1, <2>1, <3>2
      <4> QED BY <4>1
    <3> QED BY <3>1, <3>2
  <2>5. \A h \in 1..Len(f) : /\ Alike(Free(f, x)[h], f[h])
                             /\ Free(f, x)[h].freed = (f[h].freed \/ (h = x))
    BY <1>1, <2>2 DEF Alike, GraphStates
  <2> QED BY <2>4, <2>5
<1> QED BY <1>2, <1>3

(* Adding a graph.                                                         *)
LEMMA AddProps ==
  ASSUME NEW f \in Seq(GraphStates), NEW n \in GraphStates
  PROVE  /\ Add(f, n) \in Seq(GraphStates) /\ Len(Add(f, n)) = Len(f) + 1
         /\ \A h \in 1..Len(f) : Add(f, n)[h] = f[h]
         /\ Add(f, n)[Len(f) + 1] = n
BY DEF Add

\* The graphs of D are freed, and perhaps one is made.
Grown(D) ==
  /\ graph' \in Seq(GraphStates) /\ made' = Len(graph') /\ made' \in {made, made + 1}
  /\ made' <= MaxGraphs
  /\ \A h \in 1..made : Alike(graph'[h], graph[h]) /\ graph'[h].freed = (graph[h].freed \/ (h \in D))
  /\ made' = made + 1 => NewOne(graph'[made'])

(* What happens to the graphs in a step of the master loop.                *)
LEMMA SameGrown ==
  ASSUME TypeOK, UNCHANGED <<graph, made>> PROVE Grown({})
<1>1. \A h \in 1..made : graph'[h] = graph[h] /\ graph[h].freed \in BOOLEAN
  BY Basics DEF GraphStates
<1> QED BY <1>1, Basics DEF TypeOK, Grown, Alike

(* One pending graph is freed.                                             *)
LEMMA FreeGrown ==
  ASSUME TypeOK, NEW x \in GraphOrNone, graph' = Free(graph, x), made' = made
  PROVE  Grown({x})
<1>1. graph \in Seq(GraphStates) /\ made = Len(graph) /\ made <= MaxGraphs /\ made \in Nat
  BY Basics DEF TypeOK
<1> QED BY <1>1, FreeProps DEF Grown

(* Two pending graphs are freed.                                           *)
LEMMA FreeTwoGrown ==
  ASSUME TypeOK, NEW x \in GraphOrNone, NEW y \in GraphOrNone,
         graph' = Free(Free(graph, x), y), made' = made
  PROVE  Grown({x, y})
<1>1. graph \in Seq(GraphStates) /\ made = Len(graph) /\ made <= MaxGraphs /\ made \in Nat
  BY Basics DEF TypeOK
<1> DEFINE f == Free(graph, x)
<1>2. /\ f \in Seq(GraphStates) /\ Len(f) = made
      /\ \A h \in 1..made : Alike(f[h], graph[h]) /\ f[h].freed = (graph[h].freed \/ (h = x))
  BY <1>1, FreeProps
<1> HIDE DEF f
<1>3. graph' = Free(f, y)
  BY DEF f
<1>4. /\ graph' \in Seq(GraphStates) /\ Len(graph') = made
      /\ \A h \in 1..made : Alike(graph'[h], f[h]) /\ graph'[h].freed = (f[h].freed \/ (h = y))
  BY <1>2, <1>3, FreeProps
<1>5. \A h \in 1..made : Alike(graph'[h], graph[h])
  BY <1>2, <1>4 DEF Alike
<1>6. \A h \in 1..made : graph'[h].freed = (graph[h].freed \/ (h \in {x, y}))
  BY <1>2, <1>4
<1> QED BY <1>1, <1>4, <1>5, <1>6 DEF Grown

(* One is freed and another one made.                                      *)
LEMMA AddGrown ==
  ASSUME TypeOK, NEW x \in GraphOrNone, NEW n, NewOne(n), made < MaxGraphs,
         graph' = Add(Free(graph, x), n), made' = made + 1
  PROVE  Grown({x}) /\ graph'[made + 1] = n
<1>1. graph \in Seq(GraphStates) /\ made = Len(graph) /\ made <= MaxGraphs /\ made \in Nat
      /\ MaxGraphs \in Nat
  BY Basics, GraphAssumption DEF TypeOK
<1> DEFINE f == Free(graph, x)
<1>2. /\ f \in Seq(GraphStates) /\ Len(f) = made
      /\ \A h \in 1..made : Alike(f[h], graph[h]) /\ f[h].freed = (graph[h].freed \/ (h = x))
  BY <1>1, FreeProps
<1> HIDE DEF f
<1>3. /\ graph' \in Seq(GraphStates) /\ Len(graph') = made + 1
      /\ \A h \in 1..made : graph'[h] = f[h]
      /\ graph'[made + 1] = n
  BY <1>2, AddProps DEF f, NewOne
<1> QED BY <1>1, <1>2, <1>3 DEF Grown

-----------------------------------------------------------------------------
(* Steps of the master loop that touch neither jobs nor what executes.     *)

\* The parent goes to place, or stays in its module, frees the graphs of D and
\* may make one.
CommandStep(D, place) ==
  /\ UNCHANGED <<jobs, act, curr, early>>
  /\ \/ pc[Parent] \in CommandPlaces /\ place \in CommandPlaces
     \/ pc[Parent] = "module" /\ place = "module"
  /\ pc' = [pc EXCEPT ![Parent] = place]
  /\ Grown(D)
  /\ ctx' = ctx \/ (pc[Parent] = "endinput" /\ ctx' = saved[Parent])
  /\ \/ saved' = saved /\ (place \in Reading => pc[Parent] \in Reading)
     \/ saved' = [saved EXCEPT ![Parent] = ctx]

(* Where processors are after such a step.                                 *)
LEMMA CommandPlace ==
  ASSUME TypeOK, NEW D, NEW place, CommandStep(D, place)
  PROVE  /\ pc'[Parent] = place /\ \A p \in Procs \ {Parent} : pc'[p] = pc[p]
         /\ \A p \in Procs : /\ pc'[p] \notin CommandPlaces <=> pc[p] \notin CommandPlaces
                             /\ pc'[p] \notin CommandPlaces => pc'[p] = pc[p]
<1>1. pc \in [Procs -> Places] /\ Parent \in Procs
  BY Basics DEF TypeOK
<1>2. pc'[Parent] = place /\ \A p \in Procs \ {Parent} : pc'[p] = pc[p]
  BY <1>1 DEF CommandStep
<1> QED BY <1>1, <1>2 DEF CommandStep

(* Such a step changes nothing about those who execute.                    *)
LEMMA CommandAlways ==
  ASSUME IInv, NEW D, NEW place, CommandStep(D, place),
         \A g \in 1..made : Waits(g)' => Waits(g)
  PROVE  PlacesOK' /\ NamesOK' /\ ContextsOK' /\ StartOK' /\ FreshOK'
<1>1. TypeOK
  BY DEF IInv, Always
<1>2. /\ Parent \in Procs /\ made \in Nat /\ None \notin 1..made /\ 1..made \subseteq 1..made'
      /\ made' \in {made, made + 1}
  BY <1>1, Basics DEF CommandStep, Grown
<1>3. \A g \in 1..made : /\ HasFuncs(g)' <=> HasFuncs(g)
                         /\ graph'[g].inMacro = graph[g].inMacro
  BY DEF CommandStep, Grown, Alike, HasFuncs
<1>4. jobs' = jobs /\ act' = act /\ curr' = curr
  BY DEF CommandStep
<1>5. PlacesOK'
  BY <1>1, <1>2, <1>4, CommandPlace DEF IInv, Always, PlacesOK, CommandStep
<1>6. \A g : Started(g) => Started(g)'
  BY <1>2 DEF Started
<1>7. NamesOK'
  <2>1. \A p \in Procs : Busy(p)' => Busy(p)
    BY <1>1, <1>4, CommandPlace DEF Busy, HeldBy, CommandPlaces
  <2>2. \A j \in Range(jobs) : Started(j.g)' /\ HasFuncs(j.g)'
    BY <1>3, <1>6 DEF IInv, Always, NamesOK, Started
  <2>3. \A p \in Procs : pc'[p] \in {"waiting", "cleanup", "module", "slaves"} => pc'[p] = pc[p]
    BY <1>1, CommandPlace DEF CommandPlaces
  <2>4. \A p \in Procs :
          act[p].then = "sub" \/ pc[p] \in {"waiting", "cleanup", "module", "slaves"} =>
            act[p].g # None /\ act'[p].g \in 1..made /\ HasFuncs(act'[p].g)
    BY <1>4 DEF IInv, Always, NamesOK, Started
  <2>6. \A p \in Procs \ {Parent} : act'[p].g # None => HasFuncs(act'[p].g) /\ act'[p].g \in 1..made
    BY <1>4 DEF IInv, Always, NamesOK, Started
  <2>5. \A p \in Procs : act'[p].g \in 1..made /\ HasFuncs(act'[p].g) => HasFuncs(act[p].g)'
    BY <1>3 DEF HasFuncs
  <2> QED BY <1>4, <1>6, <2>1, <2>2, <2>3, <2>4, <2>5, <2>6 DEF IInv, Always, NamesOK
<1>8. ContextsOK'
  <2>1. \A c : Names(c) => Names(c)'
    BY <1>2, <1>3 DEF Names
  <2>2. saved \in [Procs -> Contexts] /\ Names(ctx) /\ \A p \in Procs : Names(saved[p])
    BY <1>1 DEF IInv, Always, ContextsOK, TypeOK
  <2>3. ctx' = ctx \/ ctx' = saved[Parent]
    BY DEF CommandStep
  <2>4. \A p \in Procs : saved'[p] = saved[p] \/ saved'[p] = ctx
    BY <2>2 DEF CommandStep
  <2> QED BY <1>2, <2>1, <2>2, <2>3, <2>4 DEF ContextsOK
<1>9. StartOK'
  BY <1>1, CommandPlace DEF StartOK, CommandPlaces, CommandStep
<1>10. FreshOK'
  <2> SUFFICES ASSUME NEW g \in 1..made', Waits(g)' PROVE ~graph'[g].inMacro
    BY DEF FreshOK
  <2>1. CASE g \in 1..made
    BY <1>3, <2>1 DEF IInv, Always, FreshOK
  <2>2. CASE g \notin 1..made
    <3>1. g = made' /\ made' = made + 1
      BY <1>2, <2>2
    <3> QED BY <3>1 DEF CommandStep, Grown, NewOne
  <2> QED BY <2>1, <2>2
<1> QED BY <1>5, <1>7, <1>8, <1>9, <1>10

(* The graph in the slot goes on as before.                                *)
LEMMA CommandExec ==
  ASSUME IInv, ~early, NEW D, NEW place, CommandStep(D, place)
  PROVE  AboutCurr' /\ OneChain' /\ CountOK' /\ TopOK' /\ CallBackOK' /\ NotDeleted'
<1>1. TypeOK /\ NamesOK /\ UntilEarly /\ PlacesOK
  BY DEF IInv, Always
<1>2. /\ Parent \in Procs /\ made \in Nat /\ None \notin 1..made /\ 1..made \subseteq 1..made'
      /\ made' \in {made, made + 1} /\ 0 \notin Procs
  BY <1>1, Basics DEF CommandStep, Grown, None
<1>3. \A g \in 1..made : /\ HasFuncs(g)' <=> HasFuncs(g)
                         /\ Alike(graph'[g], graph[g]) /\ (graph[g].freed => graph'[g].freed)
  BY DEF CommandStep, Grown, Alike, HasFuncs
<1>4. jobs' = jobs /\ act' = act /\ curr' = curr
  BY DEF CommandStep
<1>5. \A p \in Procs : /\ HeldBy(p)' <=> HeldBy(p)
                       /\ HeldBy(p) \/ pc[p] = "callback" => act[p].g \in 1..made
                       /\ \A s \in {"waiting", "cleanup", "module", "slaves", "decrement", "callback"} :
                            pc'[p] = s <=> pc[p] = s
  BY <1>1, <1>4, CommandPlace DEF HeldBy, CommandPlaces, NamesOK, Busy, Started
<1>6. AboutCurr /\ OneChain /\ CountOK /\ TopOK /\ CallBackOK /\ NotDeleted
  BY <1>1 DEF UntilEarly
<1>7. AboutCurr'
  BY <1>3, <1>4, <1>5, <1>6 DEF AboutCurr, HeldBy
<1>8. \A p \in Procs : (Chain(p)' <=> Chain(p)) /\ (Caller(p)' <=> Caller(p))
  BY <1>3, <1>4, <1>5 DEF Chain, Caller, HeldBy
<1>9. \A j \in Range(jobs) : (j.kind \in {"wait", "sub"} => j.by \in Procs)
  <2>1. \A j \in Range(jobs) : j \in Jobs
    BY <1>1, ElementOfSeq, LenProperties DEF TypeOK, Range
  <2> QED BY <1>1, <2>1 DEF NamesOK, Jobs
<1>15. \A p \in Procs : act[p].then = "sub" => act[p].by \in Procs
  <2>1. \A p \in Procs : act[p] \in Acts
    BY <1>1 DEF TypeOK
  <2> QED BY <1>1, <2>1 DEF NamesOK, Acts
<1>10. OneChain'
  <2>1. \A p \in Procs : pc'[p] = "decrement" /\ act[p].then = "sub" =>
                           act[p].by = p \/ pc'[act[p].by] = "waiting"
    BY <1>5, <1>6, <1>15 DEF OneChain
  <2> QED BY <1>4, <1>5, <1>6, <1>8, <1>9, <2>1 DEF OneChain
<1>11. CountOK'
  <2> SUFFICES ASSUME curr # None
      PROVE  LET R == graph'[curr].runable
                 M == graph'[curr].inMacro
             IN  /\ Queued("macro")' => ~Called' /\ R >= 1 /\ ~M
                 /\ Queued("sub")' => R >= 2 /\ ~M
                 /\ InModule' /\ M => R >= graph'[curr].todo + 2
                 /\ InModule' /\ M /\ Called' => R >= graph'[curr].todo + 3
                 /\ InModule' /\ ~M => ~Called'
                 /\ Ending' => ~M /\ (Called' => R >= 1)
    BY <1>4 DEF CountOK
  <2>1. Alike(graph'[curr], graph[curr])
    BY <1>1, <1>3 DEF TypeOK, Pending
  <2>2. \A k : Queued(k)' <=> Queued(k)
    BY <1>4 DEF Queued
  <2>3. Called' <=> Called
    BY <1>8 DEF Called
  <2>4. InModule' <=> InModule
    BY <1>5, <2>2 DEF InModule
  <2>5. Ending' <=> Ending
    BY <1>3, <1>4, <1>5 DEF Ending, HeldBy
  <2> QED BY <1>6, <2>1, <2>2, <2>3, <2>4, <2>5 DEF CountOK, Alike
<1>12. TopOK'
  <2> SUFFICES ASSUME curr # None, HasFuncs(curr)
      PROVE  /\ ctx'.top = curr
             /\ pc'[Parent] \in Reading => saved'[Parent].top = curr
             /\ \A p \in Procs : pc'[p] = "module" => saved'[p].top = curr
    <3>1. curr # None => (HasFuncs(curr)' <=> HasFuncs(curr))
      BY <1>1, <1>3, <1>4 DEF TypeOK, Pending, HasFuncs, Alike
    <3> QED BY <1>4, <3>1 DEF TopOK
  <2>1. pc[Parent] \in CommandPlaces \cup {"module"} /\ pc'[Parent] = place
    BY <1>1, CommandPlace DEF CommandStep
  <2>2. /\ ctx.top = curr
        /\ pc[Parent] \in Reading => saved[Parent].top = curr
        /\ \A p \in Procs : pc[p] = "module" => saved[p].top = curr
    BY <1>6, <2>1 DEF TopOK, CommandPlaces
  <2>3. ctx'.top = curr
    BY <2>2 DEF CommandStep, Reading
  <2>4. CASE saved' = saved /\ (place \in Reading => pc[Parent] \in Reading)
    BY <1>5, <2>1, <2>2, <2>3, <2>4
  <2>5. CASE saved' = [saved EXCEPT ![Parent] = ctx]
    <3>1. \A p \in Procs : saved'[p] = saved[p] \/ saved'[p] = ctx
      BY <1>1, <2>5 DEF TypeOK
    <3>2. saved'[Parent] = ctx
      BY <1>1, <1>2, <2>5 DEF TypeOK
    <3> QED BY <1>5, <2>2, <2>3, <3>1, <3>2
  <2> QED BY <2>3, <2>4, <2>5 DEF CommandStep
<1>13. CallBackOK'
  BY <1>3, <1>4, <1>5, <1>6 DEF CallBackOK, Alike
<1>14. NotDeleted'
  <2> SUFFICES ASSUME NEW g \in 1..made' PROVE ~graph'[g].deleted
    BY DEF NotDeleted
  <2>1. CASE g \in 1..made
    BY <1>3, <1>6, <2>1 DEF NotDeleted, Alike
  <2>2. CASE g \notin 1..made
    <3>1. g = made' /\ made' = made + 1
      BY <1>2, <2>2
    <3> QED BY <3>1 DEF CommandStep, Grown, NewOne
  <2> QED BY <2>1, <2>2
<1> QED BY <1>7, <1>10, <1>11, <1>12, <1>13, <1>14

(* The frames that are counted.                                            *)
LEMMA FramesFinite ==
  ASSUME TypeOK PROVE IsFiniteSet(Frames) /\ Cardinality(Frames) \in Nat
<1>1. made \in Nat /\ Frames \subseteq 1..made
  BY Basics DEF Frames
<1>2. IsFiniteSet(1..made)
  BY <1>1, FS_Interval
<1>3. IsFiniteSet(Frames)
  BY <1>1, <1>2, FS_Subset
<1> QED BY <1>3, FS_CardinalityType

(* A step that puts no frame in the queue.                                 *)
LEMMA CommandFrames ==
  ASSUME IInv, NEW D, NEW place, CommandStep(D, place), vcr'.ngraphs = vcr.ngraphs,
         \A g \in 1..made' : graph'[g].origin = "vcr" => (g \in Range(queue') <=> g \in Range(queue))
  PROVE  early \/ FramesOK'
<1>1. TypeOK /\ NamesOK /\ UntilEarly
  BY DEF IInv, Always
<1>2. /\ made \in Nat /\ None \notin 1..made /\ 1..made \subseteq 1..made'
      /\ made' \in {made, made + 1} /\ Range(queue) \subseteq 1..made
  BY <1>1, Basics DEF CommandStep, Grown
<1>3. \A g \in 1..made : graph'[g].origin = graph[g].origin
  BY DEF CommandStep, Grown, Alike
<1>4. \A p \in Procs : /\ pc'[p] = "callback" <=> pc[p] = "callback"
                       /\ pc[p] = "callback" => act[p].g \in 1..made
  BY <1>1, CommandPlace DEF CommandPlaces, NamesOK, Busy, Started
<1>5. curr' = curr /\ act' = act /\ (curr # None => curr \in 1..made)
  BY <1>1 DEF CommandStep, TypeOK, Pending
<1>6. None \notin 1..made'
  BY <1>2 DEF None
<1>7. \A g \in 1..made' : g \in Range(queue) \/ curr = g
                          \/ (\E p \in Procs : pc[p] = "callback" /\ act[p].g = g) => g \in 1..made
  BY <1>2, <1>4, <1>5, <1>6
<1>8. \A g : g \in Frames' <=> g \in Frames
  <2>1. \A g : g \in Frames' <=>
          g \in 1..made' /\ graph'[g].origin = "vcr"
          /\ (g \in Range(queue') \/ curr = g \/ \E p \in Procs : pc'[p] = "callback" /\ act[p].g = g)
    BY <1>5 DEF Frames
  <2>2. \A g : g \in Frames <=>
          g \in 1..made /\ graph[g].origin = "vcr"
          /\ (g \in Range(queue) \/ curr = g \/ \E p \in Procs : pc[p] = "callback" /\ act[p].g = g)
    BY DEF Frames
  <2>3. \A g : g \in Frames' => g \in 1..made
    BY <1>4, <1>7, <2>1
  <2> QED BY <1>2, <1>3, <1>4, <2>1, <2>2, <2>3
<1>9. Frames' = Frames
  BY <1>8
<1> QED BY <1>1, <1>9 DEF UntilEarly, FramesOK

(* So it keeps the invariant, when its own part does.                      *)
LEMMA CommandIInv ==
  ASSUME IInv, NEW D, NEW place, CommandStep(D, place),
         \A g \in 1..made : Waits(g)' => Waits(g),
         TypeOK', StatementOK', StepsOK',
         vcr'.graph # None => graph'[vcr'.graph].origin = "vcr",
         bg'.graph # None => bg'.tree /\ graph'[bg'.graph].origin = "background",
         early \/ FramesOK'
  PROVE  IInv'
<1>1. PlacesOK' /\ NamesOK' /\ ContextsOK' /\ StartOK' /\ FreshOK'
  BY CommandAlways
<1>2. OriginsOK'
  <2> SUFFICES ASSUME NEW g \in 1..made', ~HasFuncs(g)'
      PROVE graph'[g].origin = "statement" /\ graph'[g].todo = 0 /\ ~graph'[g].inMacro
    BY DEF OriginsOK
  <2>1. made \in Nat /\ made' \in {made, made + 1} /\ TypeOK /\ OriginsOK
    BY Basics DEF CommandStep, Grown, IInv, Always
  <2>2. CASE g \in 1..made
    BY <2>1, <2>2 DEF CommandStep, Grown, Alike, HasFuncs, OriginsOK
  <2>3. CASE g \notin 1..made
    <3>1. g = made' /\ made' = made + 1
      BY <2>1, <2>3
    <3> QED BY <3>1 DEF CommandStep, Grown, NewOne, HasFuncs
  <2> QED BY <2>2, <2>3
<1>3. Always'
  BY <1>1, <1>2 DEF Always
<1>4. early' = early
  BY DEF CommandStep
<1>5. CASE early
  BY <1>3, <1>4, <1>5 DEF IInv, UntilEarly
<1>6. CASE ~early
  <2>1. AboutCurr' /\ OneChain' /\ CountOK' /\ TopOK' /\ CallBackOK' /\ NotDeleted'
    BY <1>6, CommandExec
  <2> QED BY <1>3, <1>6, <2>1 DEF IInv, UntilEarly
<1> QED BY <1>5, <1>6

(* A step that leaves graphs, queue, sequencer and background alone.       *)
LEMMA QuietIInv ==
  ASSUME IInv, NEW place \in CommandPlaces,
         UNCHANGED <<queue, curr, graph, made, vcr, bg, jobs, act, early>>,
         pc[Parent] \in CommandPlaces, pc' = [pc EXCEPT ![Parent] = place],
         kill' \in BOOLEAN, owed' \in BOOLEAN, left' \in 0..MaxCommands,
         ctx' = ctx \/ (pc[Parent] = "endinput" /\ ctx' = saved[Parent]),
         \/ saved' = saved /\ (place \in Reading => pc[Parent] \in Reading)
         \/ saved' = [saved EXCEPT ![Parent] = ctx],
         stmt' = None \/ (stmt' = stmt /\ (place \in {"endinput", "enqueue"} => Fresh)),
         place \in {"parse", "kill", "killing"} => stmt' = None,
         place = "enqueue" => stmt' # None,
         left' + (IF place = "parse" THEN 1 ELSE 0) <= Spare
  PROVE  IInv'
<1>1. TypeOK /\ StatementOK /\ StepsOK /\ OriginsOK /\ UntilEarly
  BY DEF IInv, Always
<1>2. Parent \in Procs /\ made \in Nat /\ None \notin 1..made /\ MaxCommands \in Nat
  BY <1>1, Basics, GraphAssumption
<1>3. pc'[Parent] = place
  BY <1>1, <1>2 DEF TypeOK
<1>4. Grown({})
  BY <1>1, SameGrown
<1>5. CommandStep({}, place)
  BY <1>4 DEF CommandStep
<1>6. TypeOK'
  <2>1. pc' \in [Procs -> Places]
    BY <1>1, <1>2 DEF TypeOK, CommandPlaces, Places
  <2>2. ctx' \in Contexts /\ saved' \in [Procs -> Contexts]
    BY <1>1, <1>2 DEF TypeOK
  <2>3. stmt' \in GraphOrNone
    BY <1>1 DEF TypeOK, GraphOrNone
  <2>4. \A g : Pending(g)' <=> Pending(g)
    BY DEF Pending
  <2> QED BY <1>1, <2>1, <2>2, <2>3, <2>4 DEF TypeOK
<1>7. \A g \in 1..made : Waits(g)' => Waits(g)
  BY <1>2, <1>3 DEF Waits, Fresh
<1>8. StatementOK'
  <2>1. (Fresh)' /\ stmt' # None => Fresh /\ stmt' = stmt
    BY <1>3 DEF Fresh
  <2>2. \A g : Pending(g)' <=> Pending(g)
    BY DEF Pending
  <2> QED BY <1>1, <1>3, <2>1, <2>2 DEF StatementOK
<1>9. StepsOK'
  <2>1. Spare' <= Spare /\ Spare' \in Int /\ Spare \in Int
    <3>1. Spare' = left' + (IF place = "parse" THEN 1 ELSE 0)
      BY <1>3 DEF Spare
    <3>2. Spare \in Int
      BY <1>1, <1>2 DEF Spare, TypeOK
    <3>3. Spare' \in Int
      BY <1>2, <3>1
    <3> QED BY <3>1, <3>2, <3>3
  <2>2. vcr.steps \in Int
    BY <1>1, <1>2 DEF TypeOK
  <2> QED BY <1>1, <1>2, <2>1, <2>2 DEF StepsOK
<1>10. early \/ FramesOK'
  BY <1>5, CommandFrames
<1>11. /\ vcr'.graph # None => graph'[vcr'.graph].origin = "vcr"
       /\ bg'.graph # None => bg'.tree /\ graph'[bg'.graph].origin = "background"
  BY <1>1 DEF OriginsOK
<1> QED BY <1>5, <1>6, <1>7, <1>8, <1>9, <1>10, <1>11, CommandIInv

(* The quiet steps, by name.                                               *)
LEMMA QuietSteps ==
  ASSUME IInv, \/ Round \/ BeginInput \/ Nothing \/ Kill \/ SetKill \/ EndInput \/ NoDequeue
               \/ VCRBusy \/ NoJob \/ Idling \/ Wake
  PROVE  IInv'
<1>1. /\ TypeOK /\ StatementOK /\ left \in 0..MaxCommands /\ MaxCommands \in Nat /\ kill \in BOOLEAN
      /\ owed \in BOOLEAN
  BY GraphAssumption DEF IInv, Always, TypeOK
<1>2. Spare = left + (IF pc[Parent] = "parse" THEN 1 ELSE 0)
  BY DEF Spare
<1>3. CASE Round
  BY <1>1, <1>2, <1>3, QuietIInv DEF Round, At, Goto, CommandPlaces, Reading, rest, hist, qvars
<1>4. CASE BeginInput
  BY <1>1, <1>2, <1>4, QuietIInv DEF BeginInput, At, Goto, CommandPlaces, Reading, rest, hist, qvars
<1>5. CASE Nothing
  BY <1>1, <1>2, <1>5, QuietIInv DEF Nothing, At, Goto, CommandPlaces, Reading, rest, hist, qvars, StatementOK
<1>6. CASE Kill
  <2>1. PICK place \in {"endinput", "kill"} : Goto(place)
    BY <1>6 DEF Kill
  <2>2. /\ place \in CommandPlaces /\ pc[Parent] \in CommandPlaces /\ pc' = [pc EXCEPT ![Parent] = place]
        /\ place # "parse" /\ (IF place = "parse" THEN 1 ELSE 0) = 0
        /\ stmt = None /\ (place \in Reading => pc[Parent] \in Reading)
        /\ place # "enqueue" /\ ctx' = ctx
    BY <1>6, <2>1, <1>1 DEF Kill, Reads, StatementOK, At, Goto, CommandPlaces, Reading, Fresh
  <2>3. left + 0 <= Spare
    BY <1>1, <1>2
  <2>4. /\ UNCHANGED <<queue, curr, graph, made, vcr, bg, jobs, act, early>>
        /\ UNCHANGED <<kill, owed, left, stmt, saved>>
    BY <1>6 DEF Kill, rest, hist, qvars
  <2> QED BY <1>1, <1>6, <2>1, <2>2, <2>3, <2>4, QuietIInv DEF Kill
<1>7. CASE SetKill
  <2>1. kill' \in BOOLEAN /\ owed' \in BOOLEAN
    BY <1>1, <1>7 DEF SetKill
  <2>2. PICK place \in {"endinput", "top"} :
          /\ Goto(place)
          /\ place = "endinput" => pc[Parent] \in {"kill", "killing"}
    BY <1>7 DEF SetKill, At, Killing
  <2>3. /\ place \in CommandPlaces /\ pc[Parent] \in CommandPlaces /\ pc' = [pc EXCEPT ![Parent] = place]
        /\ place # "parse" /\ (IF place = "parse" THEN 1 ELSE 0) = 0
        /\ place \in Reading => pc[Parent] \in Reading
        /\ place = "endinput" => stmt = None
    BY <1>1, <1>7, <2>2 DEF SetKill, At, Goto, Killing, CommandPlaces, Reading, StatementOK
  <2>4. left + 0 <= Spare
    BY <1>1, <1>2
  <2>5. /\ UNCHANGED <<queue, curr, graph, made, vcr, bg, jobs, act, early>>
        /\ UNCHANGED <<left, stmt, saved, ctx>>
    BY <1>7 DEF SetKill, rest
  <2> QED BY <1>1, <2>1, <2>2, <2>3, <2>4, <2>5, QuietIInv
<1>8. CASE EndInput
  <2>1. PICK place \in {"enqueue", "top"} : Goto(place) /\ (place = "enqueue" => stmt # None)
    BY <1>8 DEF EndInput
  <2>2. /\ place \in CommandPlaces /\ pc[Parent] \in CommandPlaces /\ pc' = [pc EXCEPT ![Parent] = place]
        /\ place # "parse" /\ (IF place = "parse" THEN 1 ELSE 0) = 0
        /\ place \notin Reading /\ Fresh /\ ctx' = saved[Parent] /\ pc[Parent] = "endinput"
    BY <1>8, <2>1 DEF EndInput, At, Goto, CommandPlaces, Reading, Fresh
  <2>3. left + 0 <= Spare
    BY <1>1, <1>2
  <2>4. /\ UNCHANGED <<queue, curr, graph, made, vcr, bg, jobs, act, early>>
        /\ UNCHANGED <<kill, owed, left, stmt, saved>>
    BY <1>8 DEF EndInput, rest, hist, qvars
  <2> QED BY <1>1, <1>8, <2>1, <2>2, <2>3, <2>4, QuietIInv DEF EndInput
<1>9. CASE NoDequeue
  <2>1. PICK place \in {"background", "top", "jobs"} : Goto(place)
    BY <1>9 DEF NoDequeue
  <2>2. /\ place \in CommandPlaces /\ pc[Parent] \in CommandPlaces /\ pc' = [pc EXCEPT ![Parent] = place]
        /\ place # "parse" /\ (IF place = "parse" THEN 1 ELSE 0) = 0
        /\ place \notin Reading /\ place \notin {"endinput", "enqueue"} /\ ctx' = ctx
    BY <1>9, <2>1 DEF NoDequeue, At, Goto, CommandPlaces, Reading, Fresh
  <2>3. left + 0 <= Spare
    BY <1>1, <1>2
  <2>4. /\ UNCHANGED <<queue, curr, graph, made, vcr, bg, jobs, act, early>>
        /\ UNCHANGED <<kill, owed, left, stmt, saved>>
    BY <1>9 DEF NoDequeue, rest, hist, qvars
  <2> QED BY <1>1, <1>9, <2>1, <2>2, <2>3, <2>4, QuietIInv DEF NoDequeue
<1>10. CASE VCRBusy
  <2>1. PICK place \in {"top", "jobs"} : Goto(place)
    BY <1>10 DEF VCRBusy, NextPlace
  <2>2. /\ place \in CommandPlaces /\ pc[Parent] \in CommandPlaces /\ pc' = [pc EXCEPT ![Parent] = place]
        /\ place # "parse" /\ (IF place = "parse" THEN 1 ELSE 0) = 0
        /\ place \notin Reading /\ place \notin {"endinput", "enqueue"} /\ ctx' = ctx
    BY <1>10, <2>1 DEF VCRBusy, At, Goto, CommandPlaces, Reading, Fresh
  <2>3. left + 0 <= Spare
    BY <1>1, <1>2
  <2>4. /\ UNCHANGED <<queue, curr, graph, made, vcr, bg, jobs, act, early>>
        /\ UNCHANGED <<kill, owed, left, stmt, saved>>
    BY <1>10 DEF VCRBusy, rest, hist, qvars
  <2> QED BY <1>1, <1>10, <2>1, <2>2, <2>3, <2>4, QuietIInv DEF VCRBusy
<1>11. CASE NoJob
  BY <1>1, <1>2, <1>11, QuietIInv DEF NoJob, At, Goto, CommandPlaces, Reading, rest, hist, qvars
<1>12. CASE Idling
  <2>1. PICK place \in {"blocked", "top"} : Goto(place)
    BY <1>12 DEF Idling
  <2> QED BY <1>1, <1>2, <1>12, <2>1, QuietIInv DEF Idling, At, Goto, CommandPlaces, Reading, rest, hist, qvars
<1>13. CASE Wake
  BY <1>1, <1>2, <1>13, QuietIInv DEF Wake, At, Goto, CommandPlaces, Reading, rest, hist, qvars
<1> QED BY <1>3, <1>4, <1>5, <1>6, <1>7, <1>8, <1>9, <1>10, <1>11, <1>12, <1>13

-----------------------------------------------------------------------------
(* Commands to the sequencer and the background statement.                 *)

VCRs == [mode : {"stop", "pause", "step", "play"}, dir : {-1, 1},
         steps : -MaxCommands..MaxCommands, ngraphs : Int, graph : GraphOrNone, change : BOOLEAN,
         pauses : Nat]
BGs == [tree : BOOLEAN, change : BOOLEAN, graph : GraphOrNone]

(* A command, a pause for a module that failed elsewhere, or a module that *)
(* fails on the parent frees the graphs that wait and no others.           *)
LEMMA DropIInv ==
  ASSUME IInv, NEW D, NEW place,
         \/ pc[Parent] = "parse" /\ place \in {"endinput", "killing"}
         \/ pc[Parent] = "jobs" /\ place \in {"top", "pausing"}
         \/ pc[Parent] = "module" /\ place = "module",
         UNCHANGED <<queue, curr, ctx, jobs, act, saved, stmt, left, early>>,
         pc' = [pc EXCEPT ![Parent] = place], owed' \in BOOLEAN, kill' \in BOOLEAN,
         Grown(D), made' = made, D \subseteq {None, vcr.graph, bg.graph},
         vcr' \in VCRs, bg' \in BGs, vcr'.ngraphs = vcr.ngraphs,
         vcr'.graph = None \/ (vcr'.graph = vcr.graph /\ vcr.graph \notin D),
         bg'.graph = None \/ (bg'.graph = bg.graph /\ bg'.tree = bg.tree /\ bg.graph \notin D),
         vcr'.steps + left <= MaxCommands, left - vcr'.steps <= MaxCommands,
         vcr'.mode = "step" => vcr'.steps # 0
  PROVE  IInv'
<1>1. TypeOK /\ StatementOK /\ StepsOK /\ OriginsOK /\ UntilEarly
  BY DEF IInv, Always
<1>2. /\ Parent \in Procs /\ made \in Nat /\ None \notin 1..made /\ MaxCommands \in Nat
      /\ Range(queue) \subseteq 1..made
  BY <1>1, Basics, GraphAssumption
<1>3. pc'[Parent] = place
  BY <1>1, <1>2 DEF TypeOK
<1>4. CommandStep(D, place)
  BY DEF CommandStep, CommandPlaces, Reading
<1>5. (Fresh)' \/ pc'[Parent] \in {"kill", "killing"} => stmt = None
  BY <1>1, <1>3 DEF StatementOK, Fresh
<1>6. \A g \in 1..made : g \notin D => (Pending(g) => Pending(g)')
  BY DEF Pending, Grown
<1>7. TypeOK'
  <2>1. pc' \in [Procs -> Places]
    BY <1>1, <1>2 DEF TypeOK, Places
  <2>2. \A g \in Range(queue) : g \notin D
    BY <1>1, <1>2 DEF TypeOK, Pending
  <2>3. \A g \in Range(queue) : ~graph'[g].freed
    BY <1>1, <1>2, <2>2 DEF TypeOK, Grown
  <2>4. curr # None => curr \notin D
    BY <1>1 DEF TypeOK
  <2>5. \A g \in {curr, vcr'.graph, bg'.graph} \ {None} : g \notin D /\ Pending(g)
    BY <1>1, <2>4 DEF TypeOK
  <2>6. \A g \in {curr', vcr'.graph, bg'.graph} \ {None} : Pending(g)'
    BY <1>6, <2>5 DEF Pending
  <2>7. /\ curr' # None => curr' \notin {vcr'.graph, bg'.graph}
        /\ vcr'.graph # None => vcr'.graph # bg'.graph
    BY <1>1 DEF TypeOK
  <2>8. graph' \in Seq(GraphStates) /\ made' = Len(graph') /\ made' <= MaxGraphs
    BY DEF Grown
  <2> QED BY <1>1, <2>1, <2>3, <2>6, <2>7, <2>8 DEF TypeOK, VCRs, BGs
<1>8. \A g \in 1..made : Waits(g)' => Waits(g)
  BY <1>2, <1>5 DEF Waits
<1>9. StatementOK'
  <2>1. pc'[Parent] # "parse" /\ pc'[Parent] # "enqueue" /\ stmt' = stmt
    BY <1>3
  <2> QED BY <1>5, <2>1 DEF StatementOK
<1>10. StepsOK'
  <2>1. Spare' = left
    BY <1>1, <1>3 DEF Spare, TypeOK
  <2>2. vcr'.steps \in Int /\ left \in Int
    BY <1>1, <1>2 DEF VCRs, TypeOK
  <2> QED BY <1>2, <2>1, <2>2 DEF StepsOK
<1>11. early \/ FramesOK'
  BY <1>4, CommandFrames
<1>12. /\ vcr'.graph # None => graph'[vcr'.graph].origin = "vcr"
       /\ bg'.graph # None => bg'.tree /\ graph'[bg'.graph].origin = "background"
  BY <1>1, <1>2 DEF OriginsOK, Grown, Alike, TypeOK, Pending
<1> QED BY <1>4, <1>7, <1>8, <1>9, <1>10, <1>11, <1>12, CommandIInv

(* What is known when a command is read.                                   *)
LEMMA AtParse ==
  ASSUME IInv, pc[Parent] = "parse"
  PROVE  /\ TypeOK /\ stmt = None /\ MaxCommands \in Nat /\ left \in Nat
         /\ vcr \in VCRs /\ bg \in BGs /\ vcr.steps \in Int /\ owed \in BOOLEAN
         /\ vcr.graph \in GraphOrNone /\ bg.graph \in GraphOrNone
         /\ vcr.steps + left + 1 <= MaxCommands /\ left + 1 - vcr.steps <= MaxCommands
         /\ vcr.mode = "step" => vcr.steps # 0
         /\ vcr.graph # bg.graph \/ vcr.graph = None
<1>1. TypeOK /\ StatementOK /\ StepsOK /\ MaxCommands \in Nat
  BY GraphAssumption DEF IInv, Always
<1>2. /\ left \in Nat /\ vcr \in VCRs /\ bg \in BGs /\ owed \in BOOLEAN /\ stmt = None
      /\ vcr.graph # bg.graph \/ vcr.graph = None
  BY <1>1 DEF TypeOK, StatementOK, VCRs, BGs
<1>3. vcr.steps \in Int /\ vcr.graph \in GraphOrNone /\ bg.graph \in GraphOrNone
  BY <1>1, <1>2 DEF VCRs, BGs
<1>4. Spare = left + 1
  BY DEF Spare
<1>5. vcr.steps + left + 1 <= MaxCommands /\ left + 1 - vcr.steps <= MaxCommands
  BY <1>1, <1>2, <1>3, <1>4 DEF StepsOK
<1> QED BY <1>1, <1>2, <1>3, <1>5 DEF StepsOK

(* The commands, by name.                                                  *)
LEMMA SequencerSteps ==
  ASSUME IInv, Play \/ Step \/ Direction \/ \E c \in Commands : Halt(c)
  PROVE  IInv'
<1>1. pc[Parent] = "parse"
  BY DEF Play, Step, Direction, Halt, Reads, At
<1>2. /\ TypeOK /\ stmt = None /\ MaxCommands \in Nat /\ left \in Nat
      /\ vcr \in VCRs /\ bg \in BGs /\ vcr.steps \in Int /\ owed \in BOOLEAN
      /\ vcr.graph \in GraphOrNone /\ bg.graph \in GraphOrNone
      /\ vcr.steps + left + 1 <= MaxCommands /\ left + 1 - vcr.steps <= MaxCommands
      /\ vcr.mode = "step" => vcr.steps # 0
      /\ vcr.graph # bg.graph \/ vcr.graph = None
  BY <1>1, AtParse
<1>3. None \in GraphOrNone
  BY DEF GraphOrNone
<1>4. /\ graph' = Free(graph, vcr.graph) /\ made' = made /\ bg' = bg
      /\ UNCHANGED <<queue, curr, kill, ctx, jobs, act, saved, stmt, left, early>>
  BY DEF Play, Step, Direction, Halt, Halts, Dropped, qvars, rest, hist
<1>5. Grown({vcr.graph})
  BY <1>2, <1>4, FreeGrown
<1>6. bg'.graph = None \/ (bg'.graph = bg.graph /\ bg'.tree = bg.tree /\ bg.graph \notin {vcr.graph})
  BY <1>2, <1>4
<1> DEFINE Fine == /\ vcr' \in VCRs /\ vcr'.ngraphs = vcr.ngraphs /\ vcr'.graph = None
                   /\ vcr'.steps + left <= MaxCommands /\ left - vcr'.steps <= MaxCommands
                   /\ vcr'.mode = "step" => vcr'.steps # 0
                   /\ owed' \in BOOLEAN
                   /\ \E place \in {"endinput", "killing"} : pc' = [pc EXCEPT ![Parent] = place]
<1>7. ASSUME Play PROVE Fine
  <2>1. vcr' = [vcr EXCEPT !.graph = None, !.mode = "play", !.steps = 0]
    BY <1>7 DEF Play
  <2>2. left + 0 <= MaxCommands /\ left - 0 <= MaxCommands /\ 0 \in -MaxCommands..MaxCommands
    BY <1>2
  <2>3. vcr' \in VCRs /\ vcr'.graph = None /\ vcr'.ngraphs = vcr.ngraphs /\ vcr'.mode = "play"
        /\ vcr'.steps = 0
    BY <1>2, <1>3, <2>1, <2>2 DEF VCRs
  <2>4. owed' \in BOOLEAN /\ pc' = [pc EXCEPT ![Parent] = "endinput"]
    BY <1>7 DEF Play, Goto
  <2> QED BY <1>2, <2>2, <2>3, <2>4
<1>8. ASSUME Step PROVE Fine
  <2> DEFINE steps == vcr.steps + vcr.dir
  <2>1. vcr' = [vcr EXCEPT !.graph = None, !.steps = steps,
                           !.mode = IF steps = 0 THEN "stop" ELSE "step"]
    BY <1>8 DEF Step
  <2>2. vcr.dir \in {-1, 1}
    BY <1>2 DEF VCRs
  <2>3. steps \in -MaxCommands..MaxCommands /\ steps + left <= MaxCommands /\ left - steps <= MaxCommands
    BY <1>2, <2>2
  <2>4. owed' \in BOOLEAN /\ pc' = [pc EXCEPT ![Parent] = "endinput"]
    BY <1>2, <1>8 DEF Step, Goto
  <2> HIDE DEF steps
  <2> QED BY <1>2, <1>3, <2>1, <2>3, <2>4 DEF VCRs
<1>9. ASSUME Direction PROVE Fine
  <2>1. vcr' = [vcr EXCEPT !.graph = None, !.dir = -@]
    BY <1>9 DEF Direction
  <2>2. vcr.dir \in {-1, 1} /\ -vcr.dir \in {-1, 1}
    BY <1>2 DEF VCRs
  <2>3. vcr.steps + left <= MaxCommands /\ left - vcr.steps <= MaxCommands
    BY <1>2
  <2>4. owed' \in BOOLEAN /\ pc' = [pc EXCEPT ![Parent] = "endinput"]
    BY <1>2, <1>9 DEF Direction, Goto, hist
  <2> QED BY <1>2, <1>3, <2>1, <2>2, <2>3, <2>4 DEF VCRs
<1>10. ASSUME NEW c \in Commands, Halt(c) PROVE Fine
  <2>1. vcr' = [vcr EXCEPT !.graph = None, !.mode = c, !.steps = IF c = "stop" THEN 0 ELSE @]
        /\ c \in {"stop", "pause"}
    BY <1>10 DEF Halt, Halted
  <2>2. vcr.steps + left <= MaxCommands /\ left - vcr.steps <= MaxCommands
        /\ 0 + left <= MaxCommands /\ left - 0 <= MaxCommands /\ 0 \in -MaxCommands..MaxCommands
    BY <1>2
  <2>3. vcr' \in VCRs /\ vcr'.graph = None /\ vcr'.ngraphs = vcr.ngraphs /\ vcr'.mode = c
        /\ vcr'.steps \in {0, vcr.steps}
    BY <1>2, <1>3, <2>1, <2>2 DEF VCRs
  <2>4. owed' \in BOOLEAN /\ \E place \in {"endinput", "killing"} : pc' = [pc EXCEPT ![Parent] = place]
    BY <1>2, <1>10 DEF Halt, Halts, Goto
  <2> QED BY <2>1, <2>2, <2>3, <2>4
<1>11. Fine
  BY <1>7, <1>8, <1>9, <1>10
<1>12. PICK place \in {"endinput", "killing"} : pc' = [pc EXCEPT ![Parent] = place]
  BY <1>11
<1>13. bg' \in BGs /\ kill' \in BOOLEAN
  BY <1>2, <1>4 DEF TypeOK
<1> QED BY <1>1, <1>4, <1>5, <1>6, <1>11, <1>12, <1>13, DropIInv

(* The sequencer is paused because a module has failed, elsewhere or on    *)
(* the parent.                                                             *)
LEMMA FailureSteps ==
  ASSUME IInv, PauseTask \/ ParentFails
  PROVE  IInv'
<1>1. /\ TypeOK /\ StepsOK /\ MaxCommands \in Nat /\ pc[Parent] \in {"jobs", "module"}
  BY GraphAssumption DEF IInv, Always, PauseTask, ParentFails, At
<1>2. /\ vcr \in VCRs /\ bg \in BGs /\ left \in Nat /\ kill \in BOOLEAN /\ owed \in BOOLEAN
      /\ vcr.graph # bg.graph \/ vcr.graph = None
  BY <1>1 DEF TypeOK, VCRs, BGs
<1>3. /\ vcr.graph \in GraphOrNone /\ vcr.steps \in Int /\ None \in GraphOrNone
      /\ vcr.pauses \in Nat
  BY <1>1, <1>2 DEF VCRs, GraphOrNone
<1>4. vcr.steps + left <= MaxCommands /\ left - vcr.steps <= MaxCommands
  <2>1. Spare = left
    BY <1>1, <1>2 DEF Spare
  <2> QED BY <1>1, <2>1 DEF StepsOK
<1>5. /\ graph' = Free(graph, vcr.graph) /\ made' = made /\ bg' = bg
      /\ UNCHANGED <<queue, curr, ctx, jobs, act, saved, stmt, left, early>>
  BY DEF PauseTask, ParentFails, Halts, Dropped, qvars, rest
<1>6. kill' \in BOOLEAN /\ owed' \in BOOLEAN
  BY <1>2 DEF PauseTask, ParentFails, Halts, qvars
<1>7. /\ vcr' \in VCRs /\ vcr'.ngraphs = vcr.ngraphs /\ vcr'.graph = None
      /\ vcr'.steps = vcr.steps /\ vcr'.mode = "pause"
  <2>1. CASE PauseTask
    <3>1. vcr.pauses - 1 \in Nat
      BY <1>3, <2>1 DEF PauseTask
    <3>2. vcr' = [vcr EXCEPT !.graph = None, !.mode = "pause", !.pauses = vcr.pauses - 1]
      BY <1>2, <2>1 DEF PauseTask, Halted, VCRs
    <3> QED BY <1>2, <1>3, <3>1, <3>2 DEF VCRs
  <2>2. CASE ParentFails
    <3>1. vcr' = [vcr EXCEPT !.graph = None, !.mode = "pause"]
      BY <1>2, <2>2 DEF ParentFails, Halted, VCRs
    <3> QED BY <1>2, <1>3, <3>1 DEF VCRs
  <2> QED BY <2>1, <2>2
<1>8. PICK place : /\ pc' = [pc EXCEPT ![Parent] = place]
                   /\ \/ pc[Parent] = "jobs" /\ place \in {"top", "pausing"}
                      \/ pc[Parent] = "module" /\ place = "module"
  <2>1. CASE PauseTask
    BY <2>1 DEF PauseTask, Halts, At, Goto
  <2>2. CASE ParentFails
    <3>1. pc' = [pc EXCEPT ![Parent] = "module"]
      BY <1>1, <2>2, Basics DEF ParentFails, TypeOK
    <3> QED BY <2>2, <3>1 DEF ParentFails
  <2> QED BY <2>1, <2>2
<1>9. Grown({vcr.graph})
  BY <1>1, <1>3, <1>5, FreeGrown
<1>10. /\ bg' \in BGs
       /\ bg'.graph = None \/ (bg'.graph = bg.graph /\ bg'.tree = bg.tree /\ bg.graph \notin {vcr.graph})
  BY <1>2, <1>5
<1> QED BY <1>4, <1>5, <1>6, <1>7, <1>8, <1>9, <1>10, DropIInv

(* Redo, and the commands to the background statement.                     *)
LEMMA BackgroundSteps ==
  ASSUME IInv, Redo \/ \E c \in Commands : BackgroundCommand(c)
  PROVE  IInv'
<1>1. pc[Parent] = "parse"
  BY DEF Redo, BackgroundCommand, Reads, At
<1>2. /\ TypeOK /\ stmt = None /\ MaxCommands \in Nat /\ left \in Nat
      /\ vcr \in VCRs /\ bg \in BGs /\ vcr.steps \in Int /\ owed \in BOOLEAN
      /\ vcr.graph \in GraphOrNone /\ bg.graph \in GraphOrNone
      /\ vcr.steps + left + 1 <= MaxCommands /\ left + 1 - vcr.steps <= MaxCommands
      /\ vcr.mode = "step" => vcr.steps # 0
      /\ vcr.graph # bg.graph \/ vcr.graph = None
  BY <1>1, AtParse
<1>3. None \in GraphOrNone
  BY DEF GraphOrNone
<1>4. /\ made' = made /\ owed' = owed /\ pc' = [pc EXCEPT ![Parent] = "endinput"]
      /\ UNCHANGED <<queue, curr, kill, ctx, jobs, act, saved, stmt, left, early>>
  BY DEF Redo, BackgroundCommand, Goto, qvars, rest, hist
<1>5. /\ vcr.steps + left <= MaxCommands /\ left - vcr.steps <= MaxCommands
      /\ kill' \in BOOLEAN
  BY <1>2, <1>4 DEF TypeOK
<1>6. CASE Redo
  <2>1. /\ vcr' = [vcr EXCEPT !.graph = None, !.change = TRUE]
        /\ bg' = IF bg.tree THEN [bg EXCEPT !.graph = None, !.change = TRUE] ELSE bg
        /\ graph' = Free(Free(graph, vcr.graph), bg.graph)
    BY <1>6 DEF Redo, Dropped
  <2>2. vcr' \in VCRs /\ vcr'.graph = None /\ vcr'.ngraphs = vcr.ngraphs /\ vcr'.steps = vcr.steps
        /\ vcr'.mode = vcr.mode
    BY <1>2, <1>3, <2>1 DEF VCRs
  <2>3. bg' \in BGs /\ bg'.graph = None
    <3>1. bg.tree \/ bg.graph = None
      BY DEF IInv, Always, OriginsOK
    <3> QED BY <1>2, <1>3, <2>1, <3>1 DEF BGs
  <2>4. Grown({vcr.graph, bg.graph})
    BY <1>2, <1>4, <2>1, FreeTwoGrown
  <2> QED BY <1>1, <1>2, <1>4, <1>5, <2>2, <2>3, <2>4, DropIInv
<1>7. CASE \E c \in Commands : BackgroundCommand(c)
  <2>1. PICK c \in Commands : BackgroundCommand(c)
    BY <1>7
  <2>2. /\ bg' = [tree |-> c = "background", change |-> FALSE, graph |-> None]
        /\ graph' = Free(graph, bg.graph) /\ vcr' = vcr
    BY <2>1 DEF BackgroundCommand
  <2>3. bg' \in BGs /\ bg'.graph = None
    BY <1>3, <2>2 DEF BGs
  <2>4. Grown({bg.graph})
    BY <1>2, <1>4, <2>2, FreeGrown
  <2>5. vcr'.graph = None \/ (vcr'.graph = vcr.graph /\ vcr.graph \notin {bg.graph})
    BY <1>2, <2>2
  <2>6. vcr' \in VCRs /\ vcr'.ngraphs = vcr.ngraphs /\ vcr'.steps = vcr.steps /\ vcr'.mode = vcr.mode
    BY <1>2, <2>2
  <2> QED BY <1>1, <1>2, <1>4, <1>5, <2>3, <2>4, <2>5, <2>6, DropIInv
<1> QED BY <1>6, <1>7

-----------------------------------------------------------------------------
(* Graphs are made and queued.                                             *)

(* What waits goes on waiting while graphs are made.                       *)
LEMMA GrownKeeps ==
  ASSUME TypeOK, NEW D, Grown(D)
  PROVE  /\ made \in Nat /\ made' \in Nat /\ 1..made \subseteq 1..made' /\ MaxGraphs \in Nat
         /\ made' \in 1..made' \/ made' = made
         /\ queue \in Seq(1..made') /\ IsInjective(queue) /\ Range(queue) \subseteq 1..made
         /\ \A g \in 1..made : g \notin D /\ ~graph[g].freed => ~graph'[g].freed
<1>1. /\ made \in Nat /\ made' \in {made, made + 1} /\ MaxGraphs \in Nat
      /\ Range(queue) \subseteq 1..made
  BY Basics, GraphAssumption DEF Grown
<1>2. 1..made \subseteq 1..made' /\ (made' \in 1..made' \/ made' = made) /\ made' \in Nat
  BY <1>1
<1>3. queue \in Seq(1..made') /\ IsInjective(queue)
  BY <1>2, SeqMonotonic DEF TypeOK
<1> QED BY <1>1, <1>2, <1>3 DEF Grown

(* A statement is read and its graph made.                                 *)
LEMMA RunIInv ==
  ASSUME IInv, Run PROVE IInv'
<1>1. pc[Parent] = "parse"
  BY DEF Run, Reads, At
<1>2. /\ TypeOK /\ stmt = None /\ MaxCommands \in Nat /\ left \in Nat
      /\ vcr.steps + left + 1 <= MaxCommands /\ left + 1 - vcr.steps <= MaxCommands
      /\ vcr.mode = "step" => vcr.steps # 0
      /\ vcr.steps \in Int
  BY <1>1, AtParse
<1>3. PICK n \in Made("statement") : graph' = Add(graph, n)
  BY DEF Run
<1>4. /\ made < MaxGraphs /\ made' = made + 1 /\ stmt' = made + 1
      /\ pc' = [pc EXCEPT ![Parent] = "endinput"]
      /\ UNCHANGED <<queue, curr, kill, ctx, vcr, bg, jobs, act, saved, left, owed, early>>
  BY DEF Run, Goto, qvars, rest, hist
<1>5. NewOne(n) /\ n.origin = "statement"
  BY MadeNew DEF Origins
<1>6. Grown({None}) /\ graph'[made + 1] = n
  <2>1. Free(graph, None) = graph /\ None \in GraphOrNone
    BY DEF Free, GraphOrNone
  <2> QED BY <1>2, <1>3, <1>4, <1>5, <2>1, AddGrown
<1>7. /\ made \in Nat /\ made' \in Nat /\ 1..made \subseteq 1..made' /\ MaxGraphs \in Nat
      /\ queue \in Seq(1..made') /\ IsInjective(queue) /\ Range(queue) \subseteq 1..made
      /\ \A g \in 1..made : g \notin {None} /\ ~graph[g].freed => ~graph'[g].freed
      /\ None \notin 1..made /\ Parent \in Procs
  BY <1>2, <1>6, GrownKeeps, Basics
<1>8. CommandStep({None}, "endinput")
  BY <1>1, <1>4, <1>6 DEF CommandStep, CommandPlaces, Reading
<1>9. pc'[Parent] = "endinput"
  BY <1>2, <1>4, <1>7 DEF TypeOK
<1>10. TypeOK'
  <2>1. \A g \in 1..made : Pending(g) => Pending(g)'
    BY <1>4, <1>7 DEF Pending
  <2>2. \A g \in {curr, vcr.graph, bg.graph} \ {None} : Pending(g)'
    BY <1>2, <2>1 DEF TypeOK, Pending
  <2>3. pc' \in [Procs -> Places]
    BY <1>2, <1>4, <1>7 DEF TypeOK, Places
  <2>4. stmt' \in GraphOrNone
    BY <1>4, <1>7 DEF GraphOrNone, Graphs
  <2>5. \A g \in Range(queue) : ~graph'[g].freed
    BY <1>2, <1>7 DEF TypeOK
  <2>6. graph' \in Seq(GraphStates) /\ made' = Len(graph') /\ made' <= MaxGraphs
    BY <1>6 DEF Grown
  <2> QED BY <1>2, <1>4, <1>7, <2>2, <2>3, <2>4, <2>5, <2>6 DEF TypeOK
<1>11. \A g \in 1..made : Waits(g)' => Waits(g)
  BY <1>4, <1>7 DEF Waits
<1>12. StatementOK'
  <2>1. Pending(stmt)'
    <3>1. stmt' \in 1..made' /\ stmt' \notin Range(queue)
      BY <1>4, <1>7
    <3>2. ~graph'[stmt'].freed
      BY <1>4, <1>5, <1>6 DEF NewOne
    <3> QED BY <1>4, <3>1, <3>2 DEF Pending
  <2>2. stmt' \notin {curr', vcr'.graph, bg'.graph}
    <3>1. \A g \in {curr, vcr.graph, bg.graph} \ {None} : g \in 1..made
      BY <1>2 DEF TypeOK, Pending
    <3>2. stmt' \notin 1..made /\ stmt' # None
      BY <1>4, <1>7 DEF None
    <3> QED BY <1>4, <3>1, <3>2
  <2>3. graph'[stmt'].origin = "statement"
    BY <1>4, <1>5, <1>6
  <2> QED BY <1>9, <2>1, <2>2, <2>3 DEF StatementOK
<1>13. StepsOK'
  <2>1. Spare' = left
    BY <1>2, <1>4, <1>9 DEF Spare
  <2> QED BY <1>2, <1>4, <2>1 DEF StepsOK
<1>14. early \/ FramesOK'
  BY <1>4, <1>8, CommandFrames
<1>15. /\ vcr'.graph # None => graph'[vcr'.graph].origin = "vcr"
       /\ bg'.graph # None => bg'.tree /\ graph'[bg'.graph].origin = "background"
  BY <1>2, <1>4, <1>6 DEF IInv, Always, OriginsOK, Grown, Alike, TypeOK, Pending
<1> QED BY <1>8, <1>10, <1>11, <1>12, <1>13, <1>14, <1>15, CommandIInv

(* The graph of a statement is queued.                                     *)
LEMMA EnqueueIInv ==
  ASSUME IInv, Enqueue PROVE IInv'
<1>1. TypeOK /\ StatementOK /\ StepsOK /\ OriginsOK /\ UntilEarly
  BY DEF IInv, Always
<1>2. /\ pc[Parent] = "enqueue" /\ queue' = Append(queue, stmt)
      /\ pc' = [pc EXCEPT ![Parent] = "graphs"]
      /\ UNCHANGED <<curr, kill, ctx, graph, made, vcr, bg, jobs, act, saved, stmt, left, owed, early>>
  BY DEF Enqueue, At, Goto, rest, hist
<1>3. /\ Parent \in Procs /\ made \in Nat /\ None \notin 1..made
      /\ Range(queue) \subseteq 1..made
  BY <1>1, Basics
<1>4. /\ stmt # None /\ stmt \in 1..made /\ ~graph[stmt].freed /\ stmt \notin Range(queue)
      /\ stmt \notin {curr, vcr.graph, bg.graph} /\ graph[stmt].origin = "statement"
  BY <1>1, <1>2 DEF StatementOK, Fresh, Pending
<1>5. /\ queue' \in Seq(1..made) /\ IsInjective(queue') /\ Range(queue') = Range(queue) \cup {stmt}
  BY <1>1, <1>2, <1>4, AppendSet DEF TypeOK
<1>6. CommandStep({}, "graphs")
  BY <1>1, <1>2, SameGrown DEF CommandStep, CommandPlaces, Reading
<1>7. pc'[Parent] = "graphs"
  BY <1>1, <1>2, <1>3 DEF TypeOK
<1>8. TypeOK'
  <2>1. \A g \in {curr, vcr.graph, bg.graph} \ {None} : Pending(g)'
    BY <1>1, <1>2, <1>4, <1>5 DEF TypeOK, Pending
  <2>2. pc' \in [Procs -> Places]
    BY <1>1, <1>2, <1>3 DEF TypeOK, Places
  <2>3. \A g \in Range(queue') : ~graph[g].freed
    BY <1>1, <1>4, <1>5 DEF TypeOK
  <2> QED BY <1>1, <1>2, <1>5, <2>1, <2>2, <2>3 DEF TypeOK
<1>9. \A g \in 1..made : Waits(g)' => Waits(g)
  BY <1>2, <1>5, <1>7 DEF Waits, Fresh
<1>10. StatementOK'
  BY <1>7 DEF StatementOK, Fresh
<1>11. StepsOK'
  <2>1. Spare' = Spare
    BY <1>1, <1>2, <1>7 DEF Spare, TypeOK
  <2> QED BY <1>1, <1>2, <2>1 DEF StepsOK
<1>12. early \/ FramesOK'
  <2>1. \A g \in 1..made' : graph'[g].origin = "vcr" => (g \in Range(queue') <=> g \in Range(queue))
    BY <1>2, <1>4, <1>5
  <2> QED BY <1>2, <1>6, <2>1, CommandFrames
<1>13. /\ vcr'.graph # None => graph'[vcr'.graph].origin = "vcr"
       /\ bg'.graph # None => bg'.tree /\ graph'[bg'.graph].origin = "background"
  BY <1>1, <1>2 DEF OriginsOK
<1> QED BY <1>6, <1>8, <1>9, <1>10, <1>11, <1>12, <1>13, CommandIInv

(* The background statement's graph is made and queued.                    *)
LEMMA CheckBackgroundIInv ==
  ASSUME IInv, CheckBackground PROVE IInv'
<1> DEFINE makes == bg.tree /\ bg.graph = None /\ bg.change /\ made < MaxGraphs
           x     == IF makes THEN made + 1 ELSE bg.graph
           puts  == bg.tree /\ x # None /\ AllDone
           place == IF puts THEN "again" ELSE "vcr"
<1>1. TypeOK /\ StatementOK /\ StepsOK /\ OriginsOK /\ UntilEarly
  BY DEF IInv, Always
<1>2. /\ pc[Parent] = "background"
      /\ IF makes THEN \E n \in Made("background") : graph' = Add(graph, n) ELSE graph' = graph
      /\ made' = IF makes THEN made + 1 ELSE made
      /\ bg' = [bg EXCEPT !.graph = IF puts THEN None ELSE x, !.change = @ /\ ~puts]
      /\ queue' = IF puts THEN Append(queue, x) ELSE queue
      /\ pc' = [pc EXCEPT ![Parent] = place]
      /\ UNCHANGED <<curr, kill, ctx, vcr, jobs, act, saved, stmt, left, owed, early>>
  BY DEF CheckBackground, At, Goto, rest, hist
<1>3. /\ Parent \in Procs /\ made \in Nat /\ None \notin 1..made /\ Range(queue) \subseteq 1..made
      /\ None = 0 /\ None \in GraphOrNone
  BY <1>1, Basics DEF None, GraphOrNone
<1>4. /\ Grown({None})
      /\ x # None => /\ x \in 1..made' /\ ~graph'[x].freed /\ graph'[x].origin = "background"
                     /\ x \notin Range(queue) /\ x \notin {curr, vcr.graph} /\ bg.tree
                     /\ x \in 1..made => x = bg.graph
  <2>1. CASE makes
    <3>1. PICK n \in Made("background") : graph' = Add(graph, n)
      BY <1>2, <2>1
    <3>2. NewOne(n) /\ n.origin = "background"
      BY MadeNew DEF Origins
    <3>3. Grown({None}) /\ graph'[made + 1] = n
      <4>1. Free(graph, None) = graph
        BY DEF Free
      <4> QED BY <1>1, <1>2, <1>3, <2>1, <3>1, <3>2, <4>1, AddGrown
    <3>4. x = made + 1 /\ made' = made + 1 /\ x \in 1..made' /\ x \notin 1..made
      BY <1>2, <1>3, <2>1
    <3>5. x \notin {curr, vcr.graph} /\ x \notin Range(queue)
      BY <1>1, <1>3, <3>4 DEF TypeOK, Pending
    <3> QED BY <2>1, <3>2, <3>3, <3>4, <3>5 DEF NewOne
  <2>2. CASE ~makes
    <3>1. x = bg.graph /\ UNCHANGED <<graph, made>>
      BY <1>2, <2>2
    <3>2. Grown({None})
      <4>1. \A h \in 1..made : h \notin {None}
        BY <1>3
      <4>2. Grown({})
        BY <1>1, <3>1, SameGrown
      <4> QED BY <4>1, <4>2 DEF Grown
    <3> QED BY <1>1, <3>1, <3>2 DEF TypeOK, Pending, OriginsOK
  <2> QED BY <2>1, <2>2
<1>5. /\ made' \in Nat /\ 1..made \subseteq 1..made' /\ MaxGraphs \in Nat
      /\ queue \in Seq(1..made') /\ IsInjective(queue)
      /\ \A g \in 1..made : g \notin {None} /\ ~graph[g].freed => ~graph'[g].freed
  BY <1>1, <1>4, GrownKeeps
<1>7. place \in {"again", "vcr"} /\ pc'[Parent] = place
  BY <1>1, <1>2, <1>3 DEF TypeOK
<1>10. puts => x # None
  OBVIOUS
<1>19. IF puts THEN queue' = Append(queue, x) ELSE queue' = queue
  BY <1>2
<1>20. bg' = [bg EXCEPT !.graph = IF puts THEN None ELSE x, !.change = @ /\ ~puts] /\ bg \in BGs
  BY <1>1, <1>2 DEF TypeOK, BGs
<1>21. puts \in BOOLEAN
  OBVIOUS
<1>22. /\ pc[Parent] = "background" /\ pc' = [pc EXCEPT ![Parent] = place]
       /\ UNCHANGED <<curr, kill, ctx, vcr, jobs, act, saved, stmt, left, owed, early>>
  BY <1>2
<1> HIDE DEF makes, x, puts, place
<1>6. /\ queue' \in Seq(1..made') /\ IsInjective(queue')
      /\ puts => Range(queue') = Range(queue) \cup {x}
      /\ ~puts => Range(queue') = Range(queue)
  <2>1. CASE puts
    <3>1. x \in 1..made' /\ x \notin Range(queue) /\ queue' = Append(queue, x)
      BY <1>4, <1>10, <1>19, <2>1
    <3> QED BY <1>5, <2>1, <3>1, AppendSet
  <2>2. CASE ~puts
    BY <1>5, <1>19, <2>2
  <2> QED BY <2>1, <2>2
<1>8. /\ bg'.tree = bg.tree /\ bg'.graph = IF puts THEN None ELSE x
      /\ x \in GraphOrNone
  <2>1. x # None => x \in Graphs
    BY <1>3, <1>4, <1>5 DEF Graphs, Grown
  <2>2. x \in GraphOrNone
    BY <2>1 DEF GraphOrNone, None
  <2> QED BY <1>20, <2>2 DEF BGs
<1>9. bg' \in BGs
  BY <1>3, <1>8, <1>20, <1>21 DEF BGs
<1>11. CommandStep({None}, place)
  BY <1>4, <1>7, <1>22 DEF CommandStep, CommandPlaces, Reading
<1>12. TypeOK'
  <2>1. \A g \in 1..made : Pending(g) /\ g # x => Pending(g)'
    BY <1>3, <1>5, <1>6 DEF Pending
  <2>2. \A g \in {curr, vcr.graph} \ {None} : Pending(g)'
    BY <1>1, <1>4, <2>1 DEF TypeOK, Pending
  <2>3. ASSUME NEW g, g = bg'.graph, g # None PROVE Pending(g)'
    <3>1. ~puts /\ g = x /\ x # None
      BY <1>8, <2>3
    <3>2. g \in 1..made' /\ ~graph'[g].freed /\ g \notin Range(queue')
      BY <1>4, <1>6, <3>1
    <3> QED BY <3>2 DEF Pending
  <2>8. \A g \in {curr', vcr'.graph, bg'.graph} \ {None} : Pending(g)'
    BY <1>22, <2>2, <2>3
  <2>4. pc' \in [Procs -> Places]
    BY <1>1, <1>3, <1>7, <1>22 DEF TypeOK, Places
  <2>5. \A g \in Range(queue') : ~graph'[g].freed
    BY <1>1, <1>3, <1>4, <1>5, <1>6, <1>10 DEF TypeOK
  <2>6. graph' \in Seq(GraphStates) /\ made' = Len(graph') /\ made' <= MaxGraphs
    BY <1>4 DEF Grown
  <2>7. /\ curr # None => curr \notin {vcr.graph, bg'.graph}
        /\ vcr.graph # None => vcr.graph # bg'.graph
    BY <1>1, <1>4, <1>8 DEF TypeOK
  <2> QED BY <1>1, <1>6, <1>9, <1>22, <2>4, <2>5, <2>6, <2>7, <2>8 DEF TypeOK, BGs
<1>13. \A g \in 1..made : Waits(g)' => Waits(g)
  BY <1>3, <1>4, <1>6, <1>7, <1>8, <1>10, <1>22 DEF Waits, Fresh
<1>14. StatementOK'
  BY <1>7 DEF StatementOK, Fresh
<1>15. StepsOK'
  <2>1. Spare' = Spare
    BY <1>1, <1>7, <1>22 DEF Spare, TypeOK
  <2> QED BY <1>1, <1>22, <2>1 DEF StepsOK
<1>16. early \/ FramesOK'
  <2>1. \A g \in 1..made' : graph'[g].origin = "vcr" => (g \in Range(queue') <=> g \in Range(queue))
    BY <1>4, <1>6, <1>10
  <2> QED BY <1>11, <1>22, <2>1, CommandFrames
<1>17. vcr'.graph # None => graph'[vcr'.graph].origin = "vcr"
  BY <1>1, <1>4, <1>22 DEF OriginsOK, TypeOK, Pending, Grown, Alike
<1>18. bg'.graph # None => bg'.tree /\ graph'[bg'.graph].origin = "background"
  BY <1>4, <1>8
<1> QED BY <1>11, <1>12, <1>13, <1>14, <1>15, <1>16, <1>17, <1>18, CommandIInv

(* A frame is queued or kept: x is it, D what is freed.                    *)
LEMMA FrameIInv ==
  ASSUME IInv, NEW D, NEW x \in GraphOrNone, NEW puts \in BOOLEAN, NEW place \in {"again", "top", "jobs"},
         pc[Parent] = "vcr", pc' = [pc EXCEPT ![Parent] = place],
         UNCHANGED <<curr, kill, ctx, bg, jobs, act, saved, stmt, left, owed, early>>,
         Grown(D), D \subseteq {None, vcr.graph}, x \notin D \ {None},
         x # None => /\ x \in 1..made' /\ ~graph'[x].freed /\ graph'[x].origin = "vcr"
                     /\ x \notin Range(queue) /\ x \notin {curr, bg.graph}
                     /\ x \in 1..made => x = vcr.graph,
         puts => x # None,
         queue' = IF puts THEN Append(queue, x) ELSE queue,
         vcr' \in VCRs, vcr'.graph = IF puts THEN None ELSE x,
         vcr'.ngraphs = IF puts THEN vcr.ngraphs + 1 ELSE vcr.ngraphs,
         vcr'.steps + left <= MaxCommands, left - vcr'.steps <= MaxCommands,
         vcr'.mode = "step" => vcr'.steps # 0
  PROVE  IInv'
<1>1. TypeOK /\ NamesOK /\ StatementOK /\ StepsOK /\ OriginsOK /\ UntilEarly
  BY DEF IInv, Always
<1>2. /\ Parent \in Procs /\ made \in Nat /\ None \notin 1..made /\ Range(queue) \subseteq 1..made
      /\ None = 0 /\ None \in GraphOrNone /\ MaxCommands \in Nat /\ left \in Nat
  BY <1>1, Basics, GraphAssumption DEF None, GraphOrNone, TypeOK
<1>3. /\ made' \in Nat /\ 1..made \subseteq 1..made' /\ MaxGraphs \in Nat
      /\ queue \in Seq(1..made') /\ IsInjective(queue)
      /\ \A g \in 1..made : g \notin D /\ ~graph[g].freed => ~graph'[g].freed
  BY <1>1, GrownKeeps
<1>4. /\ queue' \in Seq(1..made') /\ IsInjective(queue')
      /\ puts => Range(queue') = Range(queue) \cup {x}
      /\ ~puts => Range(queue') = Range(queue)
  <2>1. CASE puts
    <3>1. x \in 1..made' /\ x \notin Range(queue) /\ queue' = Append(queue, x)
      BY <2>1
    <3> QED BY <1>3, <2>1, <3>1, AppendSet
  <2>2. CASE ~puts
    BY <1>3, <2>2
  <2> QED BY <2>1, <2>2
<1>5. pc'[Parent] = place
  BY <1>1, <1>2 DEF TypeOK
<1>6. CommandStep(D, place)
  BY DEF CommandStep, CommandPlaces, Reading
<1>7. /\ \A g \in Range(queue) : g \in 1..made /\ g \notin D
      /\ \A g \in {curr, bg.graph} \ {None} : g \in 1..made /\ g \notin D
  BY <1>1, <1>2 DEF TypeOK, Pending
<1>8. TypeOK'
  <2>1. \A g \in 1..made \ D : Pending(g) /\ g # x => Pending(g)'
    BY <1>2, <1>3, <1>4 DEF Pending
  <2>2. \A g \in {curr, bg.graph} \ {None} : Pending(g)'
    BY <1>1, <1>7, <2>1 DEF TypeOK
  <2>3. ASSUME NEW g, g = vcr'.graph, g # None PROVE Pending(g)'
    <3>1. ~puts /\ g = x /\ x # None
      BY <2>3
    <3>2. g \in 1..made' /\ ~graph'[g].freed /\ g \notin Range(queue')
      BY <1>4, <3>1
    <3> QED BY <3>2 DEF Pending
  <2>8. \A g \in {curr', vcr'.graph, bg'.graph} \ {None} : Pending(g)'
    BY <2>2, <2>3
  <2>4. pc' \in [Procs -> Places]
    BY <1>1, <1>2 DEF TypeOK, Places
  <2>5. \A g \in Range(queue') : ~graph'[g].freed
    BY <1>1, <1>3, <1>4, <1>7 DEF TypeOK
  <2>6. graph' \in Seq(GraphStates) /\ made' = Len(graph') /\ made' <= MaxGraphs
    BY DEF Grown
  <2>7. /\ curr # None => curr \notin {vcr'.graph, bg.graph}
        /\ vcr'.graph # None => vcr'.graph # bg.graph
    BY <1>1 DEF TypeOK
  <2> QED BY <1>1, <1>4, <2>4, <2>5, <2>6, <2>7, <2>8 DEF TypeOK, VCRs
<1>9. \A g \in 1..made : Waits(g)' => Waits(g)
  <2> SUFFICES ASSUME NEW g \in 1..made, Waits(g)' PROVE Waits(g)
    OBVIOUS
  <2>1. ~(Fresh)'
    BY <1>5 DEF Fresh
  <2>2. g \in Range(queue') \/ g = vcr'.graph \/ g = bg.graph
    BY <2>1 DEF Waits
  <2>3. g \in Range(queue) \/ g = x \/ g = bg.graph
    BY <1>2, <1>4, <2>2
  <2> QED BY <1>2, <2>3 DEF Waits
<1>10. StatementOK'
  BY <1>5 DEF StatementOK, Fresh
<1>11. StepsOK'
  <2>1. Spare' = left
    BY <1>2, <1>5 DEF Spare
  <2>2. vcr'.steps \in Int
    BY <1>2 DEF VCRs
  <2> QED BY <1>2, <2>1, <2>2 DEF StepsOK
<1>12. early \/ FramesOK'
  <2>1. CASE ~puts
    BY <1>4, <1>6, <2>1, CommandFrames
  <2>2. CASE puts /\ ~early
    <3>1. \A g \in 1..made : graph'[g].origin = graph[g].origin
      BY DEF Grown, Alike
    <3>2. \A p \in Procs : /\ pc'[p] = "callback" <=> pc[p] = "callback"
                           /\ pc[p] = "callback" => act[p].g \in 1..made /\ act[p].g # vcr.graph
      BY <1>1, <1>6, CommandPlace DEF CommandPlaces, NamesOK, Busy, Started, Waits
    <3>3. x # None /\ x \notin Frames
      BY <2>2, <3>2 DEF Frames
    <3>4. \A g : g \in Frames' <=> g \in Frames \cup {x}
      <4>1. \A g : g \in Frames' <=>
              g \in 1..made' /\ graph'[g].origin = "vcr"
              /\ (g \in Range(queue') \/ curr = g \/ \E p \in Procs : pc'[p] = "callback" /\ act[p].g = g)
        BY DEF Frames
      <4>2. \A g : g \in Frames <=>
              g \in 1..made /\ graph[g].origin = "vcr"
              /\ (g \in Range(queue) \/ curr = g \/ \E p \in Procs : pc[p] = "callback" /\ act[p].g = g)
        BY DEF Frames
      <4>3. None \notin 1..made'
        BY <1>2, <1>3
      <4>4. \A g \in Frames' : g = x \/ g \in 1..made
        BY <1>4, <1>7, <2>2, <3>2, <4>1, <4>3
      <4>5. x \in Frames'
        BY <1>4, <2>2, <3>3, <4>1
      <4>6. \A g \in Frames : g \in Frames'
        BY <1>3, <1>4, <2>2, <3>1, <3>2, <4>1, <4>2
      <4>7. \A g \in Frames' : g # x => g \in Frames
        BY <1>4, <2>2, <3>1, <3>2, <4>1, <4>2, <4>4
      <4> QED BY <4>5, <4>6, <4>7
    <3>5. Frames' = Frames \cup {x}
      BY <3>4
    <3>6. Cardinality(Frames') = Cardinality(Frames) + 1
      BY <1>1, <3>3, <3>5, FramesFinite, FS_AddElement
    <3>7. FramesOK
      BY <1>1, <2>2 DEF UntilEarly
    <3> QED BY <2>2, <3>6, <3>7 DEF FramesOK
  <2> QED BY <2>1, <2>2
<1>13. vcr'.graph # None => graph'[vcr'.graph].origin = "vcr"
  OBVIOUS
<1>14. bg'.graph # None => bg'.tree /\ graph'[bg'.graph].origin = "background"
  BY <1>1, <1>7 DEF OriginsOK, Grown, Alike
<1> QED BY <1>6, <1>8, <1>9, <1>10, <1>11, <1>12, <1>13, <1>14, CommandIInv


(* A sequencer that advances comes nearer to its last step.                *)
LEMMA AdvancedProps ==
  ASSUME NEW v \in VCRs, NEW atEnd \in BOOLEAN, NEW k \in Nat, MaxCommands \in Nat,
         v.steps + k <= MaxCommands, k - v.steps <= MaxCommands, v.mode = "step" => v.steps # 0
  PROVE  LET w == Advanced(v, atEnd)
         IN  /\ w \in VCRs /\ w.ngraphs = v.ngraphs
             /\ w.steps + k <= MaxCommands /\ k - w.steps <= MaxCommands
             /\ w.mode = "step" => w.steps # 0
<1> DEFINE steps == IF v.mode # "step" THEN v.steps ELSE v.steps + (IF v.steps < 0 THEN 1 ELSE -1)
           stops == atEnd \/ (v.mode = "step" /\ steps = 0)
           w == [v EXCEPT !.steps = steps, !.mode = IF stops THEN "stop" ELSE @]
<1>1. w = Advanced(v, atEnd)
  BY DEF Advanced
<1>2. v.steps \in -MaxCommands..MaxCommands /\ v.steps \in Int
  BY DEF VCRs
<1>3. /\ steps \in -MaxCommands..MaxCommands /\ steps + k <= MaxCommands
      /\ k - steps <= MaxCommands
  <2>1. CASE v.mode # "step"
    BY <1>2, <2>1
  <2>2. CASE v.mode = "step" /\ v.steps < 0
    BY <1>2, <2>2
  <2>3. CASE v.mode = "step" /\ v.steps > 0
    BY <1>2, <2>3
  <2> QED BY <1>2, <2>1, <2>2, <2>3
<1>4. ~stops /\ v.mode = "step" => steps # 0
  OBVIOUS
<1> HIDE DEF steps, stops
<1>5. w.steps = steps /\ w.mode = (IF stops THEN "stop" ELSE v.mode) /\ w \in VCRs
      /\ w.ngraphs = v.ngraphs
  BY <1>3 DEF VCRs
<1> HIDE DEF w
<1>6. w.mode = "step" => w.steps # 0
  BY <1>4, <1>5
<1> QED BY <1>1, <1>3, <1>5, <1>6

(* The sequencer is checked.                                               *)
LEMMA CheckVCRIInv ==
  ASSUME IInv, CheckVCR PROVE IInv'
<1>1. TypeOK /\ StepsOK /\ OriginsOK
  BY DEF IInv, Always
<1>2. /\ pc[Parent] = "vcr"
      /\ UNCHANGED <<curr, kill, ctx, bg, jobs, act, saved, stmt, left, owed, early>>
  BY DEF CheckVCR, At, rest, hist
<1>3. /\ made \in Nat /\ None \notin 1..made /\ Range(queue) \subseteq 1..made
      /\ None = 0 /\ None \in GraphOrNone /\ MaxCommands \in Nat /\ MaxGraphs \in Nat
      /\ left \in Nat /\ vcr \in VCRs
  BY <1>1, Basics, GraphAssumption DEF None, GraphOrNone, TypeOK, VCRs
<1>4. /\ vcr.steps \in Int /\ vcr.steps + left <= MaxCommands /\ left - vcr.steps <= MaxCommands
      /\ vcr.mode = "step" => vcr.steps # 0
      /\ vcr.graph \in GraphOrNone /\ vcr.ngraphs \in Int
  <2>1. Spare = left
    BY <1>2, <1>3 DEF Spare
  <2> QED BY <1>1, <1>3, <2>1 DEF StepsOK, VCRs
<1>5. PICK v, f : /\ QueueFrame(v, f)
                  /\ \/ /\ made < MaxGraphs /\ made' = made + 1
                        /\ \E n \in Made("vcr"), advances \in BOOLEAN, atEnd \in BOOLEAN :
                             /\ v = [(IF advances THEN Advanced(vcr, atEnd) ELSE vcr)
                                       EXCEPT !.graph = made + 1, !.change = FALSE]
                             /\ f = Add(Dropped, n)
                     \/ v = vcr /\ f = graph /\ made' = made
  BY DEF CheckVCR
<1> DEFINE puts == v.graph # None /\ AllDone
<1>6. /\ vcr' = IF puts THEN [v EXCEPT !.ngraphs = @ + 1, !.graph = None] ELSE v
      /\ queue' = IF puts THEN Append(queue, v.graph) ELSE queue
      /\ graph' = f
  BY <1>5 DEF QueueFrame
<1>7. PICK place \in {"again", "top", "jobs"} : pc' = [pc EXCEPT ![Parent] = place]
  BY <1>5 DEF QueueFrame, NextPlace, Goto
<1>8. puts \in BOOLEAN /\ (puts => v.graph # None)
  OBVIOUS
<1> HIDE DEF puts
<1> DEFINE Fine == /\ v \in VCRs /\ v.ngraphs = vcr.ngraphs
                   /\ v.steps + left <= MaxCommands /\ left - v.steps <= MaxCommands
                   /\ v.mode = "step" => v.steps # 0
           New(x) == x # None => /\ x \in 1..made' /\ ~graph'[x].freed /\ graph'[x].origin = "vcr"
                                 /\ x \notin Range(queue) /\ x \notin {curr, bg.graph}
                                 /\ x \in 1..made => x = vcr.graph
<1>9. ASSUME Fine
      PROVE  /\ vcr' \in VCRs /\ vcr'.graph = (IF puts THEN None ELSE v.graph)
             /\ vcr'.ngraphs = (IF puts THEN vcr.ngraphs + 1 ELSE vcr.ngraphs)
             /\ vcr'.steps + left <= MaxCommands /\ left - vcr'.steps <= MaxCommands
             /\ vcr'.mode = "step" => vcr'.steps # 0
             /\ v.graph \in GraphOrNone
  <2>1. v.ngraphs + 1 \in Int
    BY <1>9 DEF VCRs
  <2> QED BY <1>3, <1>6, <1>8, <1>9, <2>1 DEF VCRs
<1>10. ASSUME Fine, NEW D, Grown(D), D \subseteq {None, vcr.graph}, v.graph \notin D \ {None}, New(v.graph)
       PROVE  IInv'
  <2> HIDE DEF Fine
  <2> QED BY <1>2, <1>6, <1>7, <1>8, <1>9, <1>10, FrameIInv
<1>11. CASE v = vcr /\ f = graph /\ made' = made
  <2>1. Fine
    BY <1>3, <1>4, <1>11
  <2>2. Grown({})
    BY <1>1, <1>6, <1>11, SameGrown
  <2>3. New(v.graph)
    BY <1>1, <1>3, <1>6, <1>11 DEF TypeOK, Pending, OriginsOK
  <2> HIDE DEF Fine, New
  <2> QED BY <1>10, <2>1, <2>2, <2>3
<1>12. CASE ~(v = vcr /\ f = graph /\ made' = made)
  <2>1. PICK n \in Made("vcr"), advances \in BOOLEAN, atEnd \in BOOLEAN :
          /\ v = [(IF advances THEN Advanced(vcr, atEnd) ELSE vcr)
                    EXCEPT !.graph = made + 1, !.change = FALSE]
          /\ f = Add(Dropped, n) /\ made < MaxGraphs /\ made' = made + 1
    BY <1>5, <1>12
  <2> DEFINE w == IF advances THEN Advanced(vcr, atEnd) ELSE vcr
  <2>2. /\ w \in VCRs /\ w.ngraphs = vcr.ngraphs
        /\ w.steps + left <= MaxCommands /\ left - w.steps <= MaxCommands
        /\ w.mode = "step" => w.steps # 0
    <3>1. CASE advances
      BY <1>3, <1>4, <3>1, AdvancedProps
    <3>2. CASE ~advances
      BY <1>3, <1>4, <3>2
    <3> QED BY <3>1, <3>2
  <2>3. v = [w EXCEPT !.graph = made + 1, !.change = FALSE]
    BY <2>1
  <2> HIDE DEF w
  <2>4. made + 1 \in GraphOrNone /\ made + 1 # None /\ made + 1 \notin 1..made
        /\ made + 1 \in 1..(made + 1)
    BY <1>3, <2>1 DEF GraphOrNone, Graphs
  <2>5. Fine /\ v.graph = made + 1
    BY <2>2, <2>3, <2>4 DEF VCRs
  <2>6. NewOne(n) /\ n.origin = "vcr"
    BY MadeNew DEF Origins
  <2>7. Grown({vcr.graph}) /\ graph'[made + 1] = n
    BY <1>1, <1>4, <1>6, <2>1, <2>6, AddGrown DEF Dropped
  <2>8. v.graph \notin Range(queue) /\ v.graph \notin {curr, bg.graph} /\ v.graph # vcr.graph
    BY <1>1, <1>3, <2>4, <2>5 DEF TypeOK, Pending
  <2>9. New(v.graph)
    BY <2>1, <2>4, <2>5, <2>6, <2>7, <2>8 DEF NewOne
  <2> HIDE DEF Fine, New
  <2> QED BY <1>10, <2>5, <2>7, <2>8, <2>9
<1> QED BY <1>11, <1>12

(* Whoever is waited for is a processor.                                   *)
LEMMA ByTyped ==
  ASSUME TypeOK, NamesOK
  PROVE  /\ \A j \in Range(jobs) : j \in Jobs /\ (j.kind \in {"sub", "wait"} => j.by \in Procs \ {Parent})
         /\ \A p \in Procs : act[p] \in Acts /\ (act[p].then = "sub" => act[p].by \in Procs)
<1>1. \A j \in Range(jobs) : j \in Jobs
  BY ElementOfSeq, LenProperties DEF TypeOK, Range
<1>2. \A p \in Procs : act[p] \in Acts
  BY DEF TypeOK
<1> QED BY <1>1, <1>2 DEF NamesOK, Jobs, Acts

(* A graph is taken from the queue to be started.                          *)
LEMMA DequeueIInv ==
  ASSUME IInv, Dequeue PROVE IInv'
<1> DEFINE g == Head(queue)
<1>1. /\ TypeOK /\ PlacesOK /\ NamesOK /\ ContextsOK /\ StatementOK /\ OriginsOK /\ StartOK
      /\ FreshOK /\ StepsOK /\ UntilEarly
  BY DEF IInv, Always
<1>2. PICK then \in {"again", "queue"} : act' = [act EXCEPT ![Parent] = For(g, then, None)]
  BY DEF Dequeue
<1>3. /\ pc[Parent] \in {"graphs", "again"} /\ pc' = [pc EXCEPT ![Parent] = "start"]
      /\ queue # << >> /\ (curr = None \/ ~HasFuncs(g))
      /\ queue' = Tail(queue) /\ (IF curr = None THEN curr' = g ELSE curr' = curr)
      /\ UNCHANGED <<kill, ctx, graph, made, vcr, bg, jobs, saved, stmt, left, owed, early>>
  BY DEF Dequeue, At, Goto, SlotFree, hist
<1>4. /\ Parent \in Procs /\ None \notin Procs /\ made \in Nat /\ None \notin 1..made
      /\ 1..made \subseteq Graphs /\ Range(queue) \subseteq 1..made
  BY <1>1, Basics
<1>5. /\ g \in 1..made /\ g \in Range(queue) /\ queue' \in Seq(1..made) /\ IsInjective(queue')
      /\ Range(queue') = Range(queue) \ {g}
  BY <1>1, <1>3, TailSet DEF TypeOK
<1> HIDE DEF g
<1>6. ~graph[g].freed /\ g # None /\ \A h \in {curr, vcr.graph, bg.graph} \ {None} : h # g
  BY <1>1, <1>4, <1>5 DEF TypeOK, Pending
<1>7. pc'[Parent] = "start" /\ \A p \in Procs \ {Parent} : pc'[p] = pc[p]
  BY <1>1, <1>3, <1>4 DEF TypeOK
<1>8. /\ act'[Parent].g = g /\ act'[Parent].then \in {"again", "queue"} /\ act'[Parent].by = None
      /\ \A p \in Procs \ {Parent} : act'[p] = act[p]
  BY <1>1, <1>2, <1>4 DEF TypeOK, For
<1>9. TypeOK'
  <2>1. act' \in [Procs -> Acts]
    <3>1. For(g, then, None) \in Acts
      BY <1>4, <1>5 DEF For, Acts, GraphOrNone
    <3> QED BY <1>1, <1>2, <1>4, <3>1 DEF TypeOK
  <2>2. pc' \in [Procs -> Places]
    BY <1>1, <1>3, <1>4 DEF TypeOK, Places
  <2>3. \A h : Pending(h) => Pending(h)'
    BY <1>3, <1>5 DEF Pending
  <2>4. \A h \in {curr', vcr.graph, bg.graph} \ {None} : Pending(h)'
    <3>1. \A h : h = g => Pending(h)'
      BY <1>3, <1>5, <1>6 DEF Pending
    <3> QED BY <1>1, <1>3, <2>3, <3>1 DEF TypeOK
  <2>5. \A h \in Range(queue') : ~graph[h].freed
    BY <1>1, <1>5 DEF TypeOK
  <2>6. curr' # None => curr' \notin {vcr.graph, bg.graph}
    BY <1>1, <1>3, <1>6 DEF TypeOK
  <2> QED BY <1>1, <1>3, <1>5, <2>1, <2>2, <2>4, <2>5, <2>6 DEF TypeOK
<1>10. /\ \A h : Waits(h)' => Waits(h)
       /\ \A h : h = g => ~Waits(h)'
  <2>1. ~(Fresh)' /\ ~Fresh
    BY <1>3, <1>7 DEF Fresh
  <2>2. \A h : Waits(h)' <=> h \in Range(queue') \/ h = vcr.graph \/ h = bg.graph
    BY <1>3, <2>1 DEF Waits
  <2>3. \A h : Waits(h) <=> h \in Range(queue) \/ h = vcr.graph \/ h = bg.graph
    BY <2>1 DEF Waits
  <2> QED BY <1>5, <1>6, <2>2, <2>3
<1>11. PlacesOK'
  BY <1>1, <1>3, <1>7, <1>8 DEF PlacesOK
<1>12. /\ \A h : Started(h) => Started(h)'
       /\ \A h : h = g => Started(h)'
  BY <1>3, <1>5, <1>10 DEF Started
<1>13. \A h : HasFuncs(h)' <=> HasFuncs(h)
  BY <1>3 DEF HasFuncs
<1>14. NamesOK'
  <2>1. \A p \in Procs \ {Parent} : /\ Busy(p)' <=> Busy(p)
                                    /\ act[p].g # None => Started(act[p].g)
    BY <1>1, <1>7 DEF Busy, HeldBy, NamesOK
  <2>2. \A p \in Procs : act'[p].g # None => Started(act[p].g)'
    BY <1>5, <1>6, <1>8, <1>12, <2>1
  <2>3. \A p \in Procs : Busy(p)' => act'[p].g # None
    BY <1>1, <1>6, <1>8, <2>1 DEF NamesOK
  <2>4. \A p \in Procs : act'[p].then = "sub" \/ pc'[p] \in {"waiting", "cleanup", "module", "slaves"} =>
                           p # Parent /\ act'[p].g # None /\ HasFuncs(act[p].g)
    BY <1>1, <1>7, <1>8 DEF NamesOK
  <2>5. \A p \in Procs : act'[p].then = "sub" => /\ p # Parent /\ act'[p].by # None
                                                 /\ act'[act'[p].by].g # None /\ act'[p].by = p
    BY <1>1, <1>6, <1>8, ByTyped DEF NamesOK
  <2>6. \A j \in Range(jobs) : Started(j.g)' /\ HasFuncs(j.g)'
    BY <1>1, <1>12, <1>13 DEF NamesOK
  <2>7. \A j \in Range(jobs) : j.kind \in {"sub", "wait"} => j.by \notin {None, Parent} /\ act'[j.by].g # None
    BY <1>1, <1>6, <1>8, ByTyped DEF NamesOK
  <2>8. \A p \in Procs \ {Parent} : HasFuncs(act[p].g) => HasFuncs(act[p].g)'
    BY <1>8, <1>13
  <2>9. \A p \in Procs \ {Parent} : act'[p].g # None => HasFuncs(act[p].g)'
    BY <1>1, <1>8, <2>8 DEF NamesOK
  <2>10. \A p \in Procs \ {Parent} : act'[p].then # "queue"
    BY <1>1, <1>8 DEF NamesOK
  <2> QED BY <1>3, <2>2, <2>3, <2>4, <2>5, <2>6, <2>7, <2>8, <2>9, <2>10 DEF NamesOK
<1>15. ContextsOK'
  BY <1>1, <1>3 DEF ContextsOK, Names, HasFuncs
<1>16. StatementOK'
  BY <1>7 DEF StatementOK, Fresh
<1>17. OriginsOK'
  BY <1>1, <1>3 DEF OriginsOK, HasFuncs
<1>18. StartOK'
  <2>1. (HasFuncs(g) => curr' = g) /\ ~graph[g].inMacro
    BY <1>1, <1>3, <1>5 DEF FreshOK, Waits
  <2>2. \A h : Started(h) => h # g
    BY <1>5 DEF Started, Waits
  <2>3. \A j \in Range(jobs) : j.g # g
    BY <1>1, <2>2 DEF NamesOK
  <2>4. \A p \in Procs \ {Parent} : act'[p].g # g
    BY <1>1, <1>6, <1>8, <2>2 DEF NamesOK
  <2>5. curr' = curr \/ curr' = g
    BY <1>3
  <2> QED BY <1>3, <1>8, <2>1, <2>3, <2>4 DEF StartOK, HasFuncs
<1>19. FreshOK'
  BY <1>1, <1>3, <1>10 DEF FreshOK
<1>20. StepsOK'
  <2>1. Spare' = Spare
    BY <1>1, <1>3, <1>7 DEF Spare, TypeOK
  <2> QED BY <1>1, <1>3, <2>1 DEF StepsOK
<1>21. Always'
  BY <1>9, <1>11, <1>14, <1>15, <1>16, <1>17, <1>18, <1>19, <1>20 DEF Always
<1>22. ASSUME ~early PROVE AboutCurr' /\ OneChain' /\ CountOK' /\ TopOK' /\ CallBackOK' /\ NotDeleted' /\ FramesOK'
  <2>1. AboutCurr /\ OneChain /\ CountOK /\ TopOK /\ CallBackOK /\ NotDeleted /\ FramesOK
    BY <1>1, <1>22 DEF UntilEarly
  <2>2. pc[Parent] \in CommandPlaces
    BY <1>3 DEF CommandPlaces
  <2>3. \A p \in Procs : \A s \in {"waiting", "cleanup", "module", "slaves", "decrement", "callback"} :
          (pc'[p] = s <=> pc[p] = s) /\ (pc[p] = s => p # Parent /\ act'[p] = act[p])
    BY <1>7, <1>8, <2>2 DEF CommandPlaces
  <2>4. \A p \in Procs : HeldBy(p) => p # Parent /\ act[p].g = curr /\ act[p].g # None
    BY <1>1, <2>1, <2>3 DEF AboutCurr, HeldBy, NamesOK, Busy
  <2>5. \A j \in Range(jobs) : j.g = curr /\ j.g # None
    BY <1>1, <1>4, <2>1 DEF AboutCurr, NamesOK, Started
  <2>6. \A p \in Procs : HeldBy(p)' <=> HeldBy(p)
    BY <2>3 DEF HeldBy
  <2>7. curr # None => curr' = curr
    BY <1>3
  <2>8. AboutCurr'
    BY <1>3, <2>3, <2>4, <2>5, <2>6, <2>7 DEF AboutCurr, HeldBy
  <2>9. \A p \in Procs : (Chain(p)' <=> Chain(p)) /\ (Caller(p)' <=> Caller(p))
    BY <1>3, <1>13, <2>3 DEF Chain, Caller, HasFuncs
  <2>10. /\ \A j \in Range(jobs) : j.kind \in {"wait", "sub"} => j.by \in Procs
         /\ \A p \in Procs : act[p].then = "sub" => act[p].by \in Procs
    BY <1>1, ByTyped
  <2>12. OneChain'
    BY <1>3, <2>1, <2>3, <2>9, <2>10 DEF OneChain
  <2>13. CountOK'
    <3>1. \A k : Queued(k)' <=> Queued(k)
      BY <1>3 DEF Queued
    <3>2. (Called' <=> Called) /\ (InModule' <=> InModule) /\ (Ending' <=> Ending)
      BY <1>3, <2>3, <2>9, <3>1 DEF Called, InModule, Ending, HasFuncs
    <3>3. CASE curr # None
      BY <1>3, <2>1, <2>7, <3>1, <3>2, <3>3 DEF CountOK
    <3>4. CASE curr = None
      <4>1. ~Queued("macro") /\ ~Queued("sub") /\ ~Queued("module")
        BY <2>5, <3>4 DEF Queued
      <4>2. ~InModule /\ ~Ending
        BY <2>4, <3>4, <4>1 DEF InModule, Ending, HeldBy
      <4> QED BY <3>1, <3>2, <4>1, <4>2 DEF CountOK
    <3> QED BY <3>3, <3>4
  <2>14. TopOK'
    BY <1>3, <1>7, <1>8, <1>13, <2>1, <2>2, <2>3 DEF TopOK, CommandPlaces, Reading, HasFuncs
  <2>15. CallBackOK'
    BY <1>3, <2>1, <2>3 DEF CallBackOK
  <2>16. NotDeleted'
    BY <1>3, <2>1 DEF NotDeleted
  <2>17. FramesOK'
    <3>1. graph[g].origin = "vcr" => curr' = g
      BY <1>1, <1>3, <1>5 DEF OriginsOK
    <3>2. \A h \in 1..made : (h \in Range(queue') \/ curr' = h) /\ graph[h].origin = "vcr"
                            <=> (h \in Range(queue) \/ curr = h) /\ graph[h].origin = "vcr"
      BY <1>3, <1>4, <1>5, <3>1
    <3>3. \A h : (\E p \in Procs : pc'[p] = "callback" /\ act'[p].g = h)
               <=> (\E p \in Procs : pc[p] = "callback" /\ act[p].g = h)
      BY <2>3
    <3>4. \A h : h \in Frames' <=> h \in Frames
      BY <1>3, <3>2, <3>3 DEF Frames
    <3>5. Frames' = Frames
      BY <3>4
    <3> QED BY <1>3, <2>1, <3>5 DEF FramesOK
  <2> QED BY <2>8, <2>12, <2>13, <2>14, <2>15, <2>16, <2>17
<1> QED BY <1>3, <1>21, <1>22 DEF IInv, UntilEarly

-----------------------------------------------------------------------------
(* Steps of the processors that execute.                                   *)

\* Processor p works on graph g: what becomes of the graphs...
WorkedGraphs(g) ==
  /\ UNCHANGED <<queue, made, stmt, left>>
  /\ kill' \in BOOLEAN /\ owed' \in BOOLEAN /\ early' \in BOOLEAN /\ (early => early')
  /\ curr' = curr \/ (curr = g /\ curr' = None)
  /\ vcr' \in VCRs /\ vcr'.graph = vcr.graph /\ vcr'.steps = vcr.steps /\ vcr'.mode = vcr.mode
  /\ bg' \in BGs /\ bg'.graph = bg.graph /\ bg'.tree = bg.tree
  /\ graph' \in Seq(GraphStates) /\ Len(graph') = made
  /\ \A h \in 1..made : /\ graph'[h].origin = graph[h].origin /\ graph'[h].shape = graph[h].shape
                        /\ h # g => /\ graph'[h].freed = graph[h].freed
                                    /\ graph'[h].inMacro = graph[h].inMacro
                        /\ ~HasFuncs(h) => /\ graph'[h].todo = graph[h].todo
                                           /\ graph'[h].inMacro = graph[h].inMacro
  /\ graph'[g].freed => graph[g].freed \/ curr' # g

\* ... of the jobs, of what processors work on and of the contexts...
WorkedNames(p, g) ==
  /\ jobs' \in Seq(Jobs)
  /\ \A j \in Range(jobs') :
       \/ j \in Range(jobs)
       \/ /\ j.g = g /\ HasFuncs(g)
          /\ j.kind \in {"sub", "wait"} => p # Parent /\ j.by = p /\ act'[p].g = g
  /\ p # Parent => HasFuncs(g) /\ act'[p].then # "queue"
  /\ act' \in [Procs -> Acts]
  /\ \A q \in Procs : act'[q] = act[q] \/ (q = p /\ act'[p].g = g)
  /\ act'[p].then = "sub" => /\ act'[p].by \in Procs /\ act'[act'[p].by].g # None
                             /\ act'[p].g # None /\ HasFuncs(act'[p].g)
                             /\ p # Parent => act'[p].by = p
  /\ ctx' \in Contexts /\ Names(ctx')
  /\ saved' \in [Procs -> Contexts] /\ \A q \in Procs : Names(saved'[q])

\* ... and where they go.
WorkedPlaces(p) ==
  /\ pc' \in [Procs -> Places]
  /\ p = Parent => pc[Parent] \in {"jobs", "start", "cleanup", "module", "decrement", "callback"}
                   /\ pc'[Parent] # "start"
  /\ \A q \in Procs :
       \/ pc'[q] = pc[q] /\ act'[q] = act[q]
       \/ /\ q = Parent => p = Parent /\ pc'[q] \in {"top", "background", "cleanup", "module",
                                                     "decrement", "callback"}
          /\ q # Parent => /\ pc'[q] \in {"loop", "waiting", "cleanup", "module", "slaves",
                                          "decrement", "callback"}
                           /\ ~early' /\ pc'[q] \in {"module", "slaves", "decrement", "callback"} =>
                                act'[q].then # "sub"
          /\ pc'[q] \notin {"loop", "top", "background"} => act'[q].g # None
          /\ pc'[q] \in {"waiting", "cleanup", "module", "slaves"} => HasFuncs(act'[q].g)

(* Such a step keeps the part of the invariant that always holds.          *)
LEMMA WorkAlways ==
  ASSUME IInv, NEW p \in Procs, NEW g, Started(g), WorkedGraphs(g), WorkedNames(p, g),
         WorkedPlaces(p), p # Parent /\ pc[Parent] = "start" => act[Parent].g # g
  PROVE  Always'
<1>1. /\ TypeOK /\ PlacesOK /\ NamesOK /\ ContextsOK /\ StatementOK /\ OriginsOK /\ StartOK
      /\ FreshOK /\ StepsOK
  BY DEF IInv, Always
<1>2. /\ Parent \in Procs /\ None \notin Procs /\ made \in Nat /\ None \notin 1..made
      /\ g \in 1..made /\ g # None /\ ~Waits(g)
  BY <1>1, Basics DEF Started
<1>3. /\ UNCHANGED <<queue, made, stmt, left>> /\ vcr'.graph = vcr.graph /\ bg'.graph = bg.graph
      /\ vcr'.steps = vcr.steps /\ vcr'.mode = vcr.mode /\ bg'.tree = bg.tree
  BY DEF WorkedGraphs
<1>4. /\ pc'[Parent] = pc[Parent] \/ pc'[Parent] \in {"top", "background", "cleanup", "module",
                                                      "decrement", "callback"}
      /\ p = Parent => pc[Parent] \notin {"parse", "endinput", "enqueue", "kill", "killing"}
  BY <1>2 DEF WorkedPlaces
<1>5. \A h : Waits(h)' => Waits(h)
  BY <1>3, <1>4 DEF Waits, Fresh
<1>6. \A h : Started(h) => Started(h)'
  BY <1>3, <1>5 DEF Started
<1>7. \A h \in 1..made : HasFuncs(h)' <=> HasFuncs(h)
  BY DEF WorkedGraphs, HasFuncs
<1>8. TypeOK'
  <2>1. \A h \in Range(queue) : h # g /\ ~graph'[h].freed
    BY <1>1, <1>2, Basics DEF Waits, WorkedGraphs, TypeOK
  <2>2. vcr.graph # g /\ bg.graph # g
    BY <1>2 DEF Waits
  <2>3. curr' # None => curr' = curr
    BY DEF WorkedGraphs
  <2>4. \A h \in {curr', vcr'.graph, bg'.graph} \ {None} : Pending(h)'
    <3>1. ASSUME NEW h \in {curr', vcr'.graph, bg'.graph} \ {None} PROVE Pending(h)'
      <4>1. h \in {curr, vcr.graph, bg.graph} \ {None}
        BY <1>3, <2>3
      <4>2. h \in 1..made /\ ~graph[h].freed /\ h \notin Range(queue)
        BY <1>1, <4>1 DEF TypeOK, Pending
      <4>3. ~graph'[h].freed
        BY <1>3, <2>2, <4>2 DEF WorkedGraphs
      <4> QED BY <1>3, <4>2, <4>3 DEF Pending
    <3> QED BY <3>1
  <2>5. /\ curr' # None => curr' \notin {vcr'.graph, bg'.graph}
        /\ vcr'.graph # None => vcr'.graph # bg'.graph
    BY <1>1, <1>3, <2>3 DEF TypeOK
  <2>6. graph' \in Seq(GraphStates) /\ made' = Len(graph') /\ made' <= MaxGraphs
    BY <1>1, <1>3 DEF WorkedGraphs, TypeOK
  <2>7. /\ kill' \in BOOLEAN /\ owed' \in BOOLEAN /\ early' \in BOOLEAN
        /\ vcr' \in VCRs /\ bg' \in BGs
    BY DEF WorkedGraphs
  <2>8. /\ jobs' \in Seq(Jobs) /\ act' \in [Procs -> Acts] /\ pc' \in [Procs -> Places]
        /\ ctx' \in Contexts /\ saved' \in [Procs -> Contexts]
    BY DEF WorkedNames, WorkedPlaces
  <2> QED BY <1>1, <1>3, <2>1, <2>4, <2>5, <2>6, <2>7, <2>8 DEF TypeOK, VCRs, BGs
<1>9. PlacesOK'
  <2>1. ASSUME NEW q \in Procs \ {Parent}
        PROVE  /\ pc'[q] \in {"loop", "waiting", "cleanup", "module", "slaves", "decrement", "callback"}
               /\ ~early' /\ pc'[q] \in {"module", "slaves", "decrement", "callback"} => act'[q].then # "sub"
    <3>1. early => early'
      BY DEF WorkedGraphs
    <3> QED BY <1>1, <3>1 DEF PlacesOK, WorkedPlaces
  <2>2. pc'[Parent] \in CommandPlaces \cup {"start", "cleanup", "module", "decrement", "callback"}
    BY <1>1, <1>4 DEF PlacesOK, CommandPlaces
  <2> QED BY <2>1, <2>2 DEF PlacesOK
<1>10. \A q \in Procs : act'[q].g = act[q].g \/ act'[q].g = g
  BY DEF WorkedNames
<1>11. NamesOK'
  <2>1. \A q \in Procs : act'[q].g # None => Started(act'[q].g) /\ Started(act[q].g)'
    <3>1. \A q \in Procs : act'[q].g # None => Started(act'[q].g)
      BY <1>1, <1>10 DEF NamesOK
    <3> QED BY <1>6, <3>1
  <2>2. \A q \in Procs : Busy(q)' => act'[q].g # None
    BY <1>1 DEF Busy, HeldBy, NamesOK, WorkedPlaces
  <2>3. \A q \in Procs : act[q].g # None => act'[q].g # None
    BY <1>2, <1>10
  <2>4. \A q \in Procs : act'[q].then = "sub" => /\ act'[q].by # None /\ act'[act'[q].by].g # None
                                                 /\ q # Parent => act'[q].by = q
    <3>1. \A q \in Procs : q # p => act'[q] = act[q]
      BY DEF WorkedNames
    <3> QED BY <1>1, <1>2, <2>3, <3>1, ByTyped DEF NamesOK, WorkedNames
  <2>5. \A q \in Procs :
          act'[q].then = "sub" \/ pc'[q] \in {"waiting", "cleanup", "module", "slaves"} =>
            act'[q].g # None /\ HasFuncs(act[q].g)'
    <3>1. ASSUME NEW q \in Procs,
                 act'[q].then = "sub" \/ pc'[q] \in {"waiting", "cleanup", "module", "slaves"}
          PROVE  act'[q].g # None /\ HasFuncs(act'[q].g)
      <4>1. CASE act'[q] = act[q] /\ pc'[q] = pc[q]
        BY <1>1, <3>1, <4>1 DEF NamesOK
      <4>2. CASE act'[q].then = "sub" /\ q = p
        BY <4>2 DEF WorkedNames
      <4>3. CASE act'[q].then = "sub" /\ q # p
        <5>1. act'[q] = act[q]
          BY <4>3 DEF WorkedNames
        <5> QED BY <1>1, <4>3, <5>1 DEF NamesOK
      <4>4. CASE pc'[q] \in {"waiting", "cleanup", "module", "slaves"} /\ ~(act'[q] = act[q] /\ pc'[q] = pc[q])
        BY <4>4 DEF WorkedPlaces
      <4> QED BY <3>1, <4>1, <4>2, <4>3, <4>4
    <3>2. \A q \in Procs : act'[q].g # None => act'[q].g \in 1..made
      BY <2>1 DEF Started
    <3> QED BY <1>7, <3>1, <3>2
  <2>6. ASSUME NEW j \in Range(jobs')
        PROVE  /\ Started(j.g) /\ HasFuncs(j.g)
               /\ j.kind \in {"sub", "wait"} => j.by \in Procs \ {Parent} /\ act'[j.by].g # None
    <3>1. CASE j \in Range(jobs)
      BY <1>1, <2>3, <3>1, ByTyped DEF NamesOK
    <3>2. CASE /\ j.g = g /\ HasFuncs(g)
               /\ j.kind \in {"sub", "wait"} => p # Parent /\ j.by = p /\ act'[p].g = g
      BY <1>2, <3>2
    <3> QED BY <3>1, <3>2 DEF WorkedNames
  <2>7. \A j \in Range(jobs') : Started(j.g)' /\ HasFuncs(j.g)'
    BY <1>6, <1>7, <2>6 DEF Started
  <2>8. \A q \in Procs \ {Parent} : act'[q].g # None => HasFuncs(act[q].g)'
    <3>1. \A q \in Procs \ {Parent} : act'[q].g # None => HasFuncs(act'[q].g) /\ act'[q].g \in 1..made
      BY <1>1, <2>1 DEF NamesOK, WorkedNames, Started
    <3> QED BY <1>7, <3>1
  <2>9. \A q \in Procs \ {Parent} : act'[q].then # "queue"
    BY <1>1 DEF NamesOK, WorkedNames
  <2> QED BY <1>2, <2>1, <2>2, <2>4, <2>5, <2>6, <2>7, <2>8, <2>9 DEF NamesOK
<1>12. ContextsOK'
  <2>1. \A c : Names(c) => Names(c)'
    BY <1>3, <1>7 DEF Names
  <2>2. \A q \in Procs : Names(saved[q])'
    BY <2>1 DEF WorkedNames
  <2> QED BY <2>1, <2>2 DEF ContextsOK, WorkedNames
<1>13. StatementOK'
  <2>1. pc'[Parent] \in {"parse", "kill", "killing", "enqueue", "endinput"} =>
          pc'[Parent] = pc[Parent]
    BY <1>4
  <2>2. (Fresh)' /\ stmt # None => stmt # g /\ curr' \in {curr, None}
    BY <1>2, <2>1 DEF Fresh, Waits, WorkedGraphs
  <2>3. \A h : h # g /\ Pending(h) => Pending(h)'
    BY <1>3 DEF Pending, WorkedGraphs
  <2>4. (Fresh)' => Fresh
    BY <2>1 DEF Fresh
  <2>5. (Fresh)' /\ stmt # None => /\ Pending(stmt)
                                   /\ stmt \notin {curr', vcr.graph, bg.graph}
                                   /\ graph'[stmt].origin = "statement"
    BY <1>1, <2>2, <2>4 DEF StatementOK, Pending, WorkedGraphs
  <2>6. (Fresh)' /\ stmt' # None => Pending(stmt)'
    BY <1>3, <2>2, <2>3, <2>5
  <2> QED BY <1>1, <1>3, <2>1, <2>5, <2>6 DEF StatementOK
<1>14. OriginsOK'
  <2>1. vcr.graph # None => vcr.graph \in 1..made
    BY <1>1 DEF TypeOK, Pending
  <2>2. bg.graph # None => bg.graph \in 1..made
    BY <1>1 DEF TypeOK, Pending
  <2> QED BY <1>1, <1>3, <1>7, <2>1, <2>2 DEF OriginsOK, WorkedGraphs
<1>15. StartOK'
  <2> SUFFICES ASSUME pc'[Parent] = "start"
               PROVE  LET g0 == act'[Parent].g
                      IN  /\ (HasFuncs(act[Parent].g))' => curr' = g0
                          /\ act'[Parent].then # "sub"
                          /\ ~graph'[g0].inMacro
                          /\ \A j \in Range(jobs') : j.g # g0
                          /\ \A q \in Procs \ {Parent} : act'[q].g # g0
    BY DEF StartOK
  <2>1. pc[Parent] = "start" /\ p # Parent /\ act'[Parent] = act[Parent]
    BY <1>2, <1>4 DEF WorkedPlaces, WorkedNames
  <2>2. act[Parent].g # g /\ act[Parent].g \in 1..made
    BY <1>1, <1>2, <2>1 DEF NamesOK, Busy, Started
  <2>3. HasFuncs(act[Parent].g) => curr' = act[Parent].g
    BY <1>1, <2>1, <2>2 DEF StartOK, WorkedGraphs
  <2>4. ~graph'[act[Parent].g].inMacro
    BY <1>1, <2>1, <2>2 DEF StartOK, WorkedGraphs
  <2>5. \A j \in Range(jobs') : j.g # act[Parent].g
    BY <1>1, <2>1, <2>2 DEF StartOK, WorkedNames
  <2>6. \A q \in Procs \ {Parent} : act'[q].g # act[Parent].g
    BY <1>1, <2>1, <2>2 DEF StartOK, WorkedNames
  <2>7. (HasFuncs(act[Parent].g))' => HasFuncs(act[Parent].g)
    BY <1>7, <2>1, <2>2
  <2>8. act'[Parent].then # "sub"
    BY <1>1, <2>1 DEF StartOK
  <2> QED BY <2>1, <2>3, <2>4, <2>5, <2>6, <2>7, <2>8
<1>16. FreshOK'
  BY <1>1, <1>2, <1>3, <1>5 DEF FreshOK, WorkedGraphs
<1>17. StepsOK'
  <2>1. Spare' = Spare
    BY <1>1, <1>2, <1>3, <1>4 DEF Spare, TypeOK, WorkedPlaces
  <2> QED BY <1>1, <1>3, <2>1 DEF StepsOK
<1> QED BY <1>8, <1>9, <1>11, <1>12, <1>13, <1>14, <1>15, <1>16, <1>17 DEF Always

(* The job that a processor takes.                                         *)
LEMMA TakeProps ==
  ASSUME IInv, NEW p \in Procs, NEW kind, Takes(p, kind)
  PROVE  LET j == TheJob(p)
         IN  /\ j \in Range(jobs) /\ j \in Jobs /\ j.kind = kind /\ j.to \in {None, p}
             /\ Started(j.g) /\ j.g \in 1..made /\ HasFuncs(j.g)
             /\ Rest(p) \in Seq(Jobs) /\ Len(Rest(p)) = Len(jobs) - 1 /\ Len(jobs) >= 1
             /\ Range(Rest(p)) \subseteq Range(jobs)
             /\ pc[p] = IF p = Parent THEN "jobs" ELSE "loop"
             /\ p # Parent /\ pc[Parent] = "start" => act[Parent].g # j.g
<1>1. TypeOK /\ NamesOK /\ StartOK /\ jobs \in Seq(Jobs)
  BY DEF IInv, Always, TypeOK
<1>2. Len(jobs) \in Nat /\ DOMAIN jobs = 1..Len(jobs) /\ Mine(p) \subseteq 1..Len(jobs) /\ Mine(p) # {}
  BY <1>1, LenProperties DEF Mine, Takes
<1>3. First(p) \in Mine(p)
  <2>1. Min(Mine(p)) \in Mine(p)
    BY <1>2, MinIsIn
  <2> QED BY <2>1 DEF Min, First
<1>4. First(p) \in 1..Len(jobs) /\ TheJob(p).to \in {None, p}
  BY <1>2, <1>3 DEF Mine, TheJob
<1>5. TheJob(p) \in Range(jobs) /\ TheJob(p) \in Jobs
  BY <1>1, <1>2, <1>4, ElementOfSeq DEF TheJob, Range
<1>6. /\ Rest(p) \in Seq(Jobs) /\ Len(Rest(p)) = Len(jobs) - 1
      /\ Range(Rest(p)) \subseteq Range(jobs)
  BY <1>1, <1>4, RestProps DEF Rest
<1>7. /\ Started(TheJob(p).g) /\ HasFuncs(TheJob(p).g)
      /\ pc[Parent] = "start" => TheJob(p).g # act[Parent].g
  BY <1>1, <1>5 DEF NamesOK, StartOK
<1>8. Len(jobs) >= 1
  BY <1>2, <1>4
<1> QED BY <1>4, <1>5, <1>6, <1>7, <1>8 DEF Takes, Started

\* The graphs f differ from graph as executing g may change them.
LikeGraph(f, g) ==
  /\ f \in Seq(GraphStates) /\ Len(f) = made
  /\ \A h \in 1..made : /\ f[h].origin = graph[h].origin /\ f[h].shape = graph[h].shape
                        /\ f[h].freed = graph[h].freed /\ f[h].deleted = graph[h].deleted
                        /\ h # g => /\ f[h].inMacro = graph[h].inMacro
                                    /\ f[h].todo = graph[h].todo
                        /\ ~HasFuncs(h) => /\ f[h].todo = graph[h].todo
                                           /\ f[h].inMacro = graph[h].inMacro

(* Changing one graph.                                                     *)
LEMMA LikeSelf ==
  ASSUME TypeOK, NEW g PROVE LikeGraph(graph, g)
BY DEF LikeGraph, TypeOK

(* ... to a state with the same origin, shape and marks.                   *)
LEMMA LikeSet ==
  ASSUME TypeOK, NEW g \in 1..made, NEW f, LikeGraph(f, g), NEW h \in 1..made, NEW r,
         r \in GraphStates, r.origin = f[h].origin, r.shape = f[h].shape, r.freed = f[h].freed,
         r.deleted = f[h].deleted,
         h # g \/ ~HasFuncs(g) => r.inMacro = f[h].inMacro /\ r.todo = f[h].todo
  PROVE  /\ LikeGraph([f EXCEPT ![h] = r], g) /\ [f EXCEPT ![h] = r][h] = r
         /\ \A i \in 1..made : i # h => [f EXCEPT ![h] = r][i] = f[i]
<1> DEFINE f2 == [f EXCEPT ![h] = r]
<1>1. f \in Seq(GraphStates) /\ Len(f) = made /\ made \in Nat /\ h \in 1..Len(f)
  BY Basics DEF LikeGraph
<1>2. f2 \in Seq(GraphStates) /\ Len(f2) = Len(f)
  BY <1>1, ExceptSeq
<1>3. DOMAIN f = 1..made
  BY <1>1, LenProperties
<1>4. f2[h] = r /\ \A i \in 1..made : i # h => f2[i] = f[i]
  BY <1>3
<1> HIDE DEF f2
<1>5. LikeGraph(f2, g)
  BY <1>1, <1>2, <1>4 DEF LikeGraph
<1> QED BY <1>4, <1>5 DEF f2

(* Such graphs are typed.                                                  *)
LEMMA LikeElement ==
  ASSUME TypeOK, NEW g, NEW f, LikeGraph(f, g), NEW h \in 1..made
  PROVE  f[h] \in GraphStates
<1>1. f \in Seq(GraphStates) /\ h \in 1..Len(f)
  BY DEF LikeGraph
<1> QED BY <1>1, ElementOfSeq

(* Counting off keeps every graph but its count.                           *)
LEMMA DecrProps ==
  ASSUME TypeOK, NEW g \in 1..made, NEW f, LikeGraph(f, g), NEW h, h # None => h \in 1..made
  PROVE  /\ LikeGraph(Decr(f, h), g)
         /\ \A i \in 1..made : /\ Decr(f, h)[i].todo = f[i].todo
                               /\ Decr(f, h)[i].inMacro = f[i].inMacro
                               /\ i # h => Decr(f, h)[i] = f[i]
                               /\ i = h => Decr(f, h)[i].runable =
                                             IF f[i].runable > 0 THEN f[i].runable - 1 ELSE 0
<1>1. \A i \in 1..made : f[i] \in GraphStates
  BY LikeElement
<1>2. CASE h # None /\ f[h].runable > 0
  <2> DEFINE r == [f[h] EXCEPT !.runable = @ - 1]
  <2>1. r \in GraphStates
    BY <1>1, <1>2 DEF GraphStates
  <2>2. /\ r.origin = f[h].origin /\ r.shape = f[h].shape /\ r.freed = f[h].freed
        /\ r.deleted = f[h].deleted /\ r.inMacro = f[h].inMacro /\ r.todo = f[h].todo
        /\ r.runable = f[h].runable - 1
    BY <1>1, <1>2 DEF GraphStates
  <2>3. Decr(f, h) = [f EXCEPT ![h] = r]
    BY <1>2 DEF Decr
  <2> HIDE DEF r
  <2>5. h \in 1..made
    BY <1>2
  <2>6. /\ LikeGraph([f EXCEPT ![h] = r], g) /\ [f EXCEPT ![h] = r][h] = r
        /\ \A i \in 1..made : i # h => [f EXCEPT ![h] = r][i] = f[i]
    BY <2>1, <2>2, <2>5, LikeSet
  <2>4. /\ LikeGraph(Decr(f, h), g) /\ Decr(f, h)[h] = r
        /\ \A i \in 1..made : i # h => Decr(f, h)[i] = f[i]
    BY <2>3, <2>6
  <2> QED BY <1>2, <2>2, <2>4
<1>3. CASE ~(h # None /\ f[h].runable > 0)
  <2>1. Decr(f, h) = f
    BY <1>3 DEF Decr
  <2>2. \A i \in 1..made : f[i].runable \in Nat
    BY <1>1 DEF GraphStates
  <2>3. None \notin 1..made
    BY Basics
  <2> QED BY <1>3, <2>1, <2>2, <2>3
<1> QED BY <1>2, <1>3

(* Counting off in the program on top as well.                             *)
LEMMA DecrTopProps ==
  ASSUME TypeOK, NEW g \in 1..made, NEW f, LikeGraph(f, g), NEW c \in Contexts, Names(c)
  PROVE  /\ LikeGraph(DecrTop(f, g, c), g)
         /\ \A i \in 1..made : /\ DecrTop(f, g, c)[i].todo = f[i].todo
                               /\ DecrTop(f, g, c)[i].inMacro = f[i].inMacro
         /\ c.top = g => DecrTop(f, g, c)[g].runable =
                           IF f[g].runable > 0 THEN f[g].runable - 1 ELSE 0
<1>1. None \notin 1..made /\ (c.top # None => c.top \in 1..made)
  BY Basics DEF Names
<1>2. CASE c.top = g
  <2>1. DecrTop(f, g, c) = Decr(f, g)
    BY <1>2 DEF DecrTop
  <2> QED BY <1>2, <2>1, DecrProps
<1>3. CASE c.top # g
  <2> DEFINE f1 == Decr(f, g)
  <2>1. DecrTop(f, g, c) = Decr(f1, c.top)
    BY <1>3 DEF DecrTop
  <2>2. LikeGraph(f1, g) /\ \A i \in 1..made : f1[i].todo = f[i].todo /\ f1[i].inMacro = f[i].inMacro
    BY DecrProps
  <2> HIDE DEF f1
  <2>3. LikeGraph(Decr(f1, c.top), g)
        /\ \A i \in 1..made : /\ Decr(f1, c.top)[i].todo = f1[i].todo
                              /\ Decr(f1, c.top)[i].inMacro = f1[i].inMacro
    BY <1>1, <2>2, DecrProps
  <2> QED BY <1>3, <2>1, <2>2, <2>3
<1> QED BY <1>2, <1>3

\* What Starts may do: the next module is queued...
GoesOn(p, g, f, js, a) ==
  /\ HasFuncs(g) /\ f[g].todo > 0 /\ jobs' = Append(js, Job("module", g, None, None))
  /\ Continue(p, a)
  /\ graph'[g].todo = f[g].todo - 1 /\ graph'[g].runable = f[g].runable
  /\ graph'[g].inMacro = f[g].inMacro

\* ... or p ends the graph, after the slaves or at once.
EndsIt(p, g, f, c, js) ==
  /\ graph'[g].todo = 0 /\ ~graph'[g].inMacro
  /\ ~f[g].inMacro => graph'[g].runable = f[g].runable
  /\ f[g].inMacro /\ c.top = g =>
       graph'[g].runable = IF f[g].runable > 0 THEN f[g].runable - 1 ELSE 0
  /\ \/ jobs' = js /\ pc' = [pc EXCEPT ![p] = "decrement"]
     \/ /\ p # Parent /\ HasFuncs(g)
        /\ jobs' = <<Job("wait", g, Parent, p)>> \o js /\ pc' = [pc EXCEPT ![p] = "slaves"]

(* The end of a graph.                                                     *)
LEMMA EndsProps ==
  ASSUME TypeOK, NEW p \in Procs, NEW g \in 1..made, NEW f, LikeGraph(f, g), NEW js, Ends(p, g, f, js)
  PROVE  /\ LikeGraph(graph', g)
         /\ graph'[g].todo = f[g].todo /\ graph'[g].inMacro = f[g].inMacro
         /\ graph'[g].runable = f[g].runable
         /\ \/ jobs' = js /\ pc' = [pc EXCEPT ![p] = "decrement"]
            \/ /\ p # Parent /\ HasFuncs(g)
               /\ jobs' = <<Job("wait", g, Parent, p)>> \o js /\ pc' = [pc EXCEPT ![p] = "slaves"]
<1> DEFINE asks == f[g].shape # "assign" /\ ~f[g].deleted /\ ~f[g].waited
           r == [f[g] EXCEPT !.waited = TRUE]
<1>1. /\ graph' = IF asks THEN [f EXCEPT ![g].waited = TRUE] ELSE f
      /\ jobs' = IF asks /\ p # Parent THEN <<Job("wait", g, Parent, p)>> \o js ELSE js
      /\ pc' = [pc EXCEPT ![p] = IF asks /\ p # Parent THEN "slaves" ELSE "decrement"]
  BY DEF Ends
<1>2. f[g] \in GraphStates
  BY LikeElement
<1>3. /\ r \in GraphStates /\ r.origin = f[g].origin /\ r.shape = f[g].shape /\ r.freed = f[g].freed
      /\ r.deleted = f[g].deleted /\ r.inMacro = f[g].inMacro /\ r.todo = f[g].todo
      /\ r.runable = f[g].runable
  BY <1>2 DEF GraphStates
<1>4. asks => HasFuncs(g)
  BY DEF HasFuncs, LikeGraph
<1>5. asks => graph' = [f EXCEPT ![g] = r]
  BY <1>1
<1> HIDE DEF asks, r
<1>6. /\ LikeGraph([f EXCEPT ![g] = r], g) /\ [f EXCEPT ![g] = r][g] = r
  BY <1>3, LikeSet
<1>7. /\ LikeGraph(graph', g)
      /\ graph'[g].todo = f[g].todo /\ graph'[g].inMacro = f[g].inMacro
      /\ graph'[g].runable = f[g].runable
  <2>1. CASE asks
    BY <1>3, <1>5, <1>6, <2>1
  <2>2. CASE ~asks
    BY <1>1, <2>2
  <2> QED BY <2>1, <2>2
<1>8. CASE asks /\ p # Parent
  BY <1>1, <1>4, <1>7, <1>8
<1>9. CASE ~(asks /\ p # Parent)
  <2>1. jobs' = js /\ pc' = [pc EXCEPT ![p] = "decrement"]
    BY <1>1, <1>9
  <2> QED BY <1>7, <2>1
<1> QED BY <1>8, <1>9

(* ExStartModules starts a module or ends the graph.                       *)
LEMMA StartsOutcome ==
  ASSUME TypeOK, OriginsOK, NEW p \in Procs, NEW g \in 1..made, NEW f, LikeGraph(f, g),
         NEW c \in Contexts, Names(c), NEW js, NEW a, Starts(p, g, f, c, js, a)
  PROVE  /\ act' = [act EXCEPT ![p] = a] /\ LikeGraph(graph', g)
         /\ ctx' \in Contexts /\ Names(ctx') /\ ctx'.top = c.top
         /\ GoesOn(p, g, f, js, a) \/ EndsIt(p, g, f, c, js)
<1>1. f[g] \in GraphStates /\ f[g].todo \in 0..MaxModules /\ MaxModules \in Nat
  BY LikeElement, GraphAssumption DEF GraphStates
<1>2. f[g].todo > 0 \/ f[g].inMacro => HasFuncs(g)
  BY DEF LikeGraph, OriginsOK
<1>3. act' = [act EXCEPT ![p] = a]
  BY DEF Starts
<1>4. CASE f[g].todo > 0
  <2> DEFINE r == [f[g] EXCEPT !.todo = @ - 1]
  <2>1. /\ jobs' = Append(js, Job("module", g, None, None)) /\ Continue(p, a) /\ ctx' = c
        /\ graph' = [f EXCEPT ![g] = r]
    BY <1>4 DEF Starts
  <2>2. /\ r \in GraphStates /\ r.origin = f[g].origin /\ r.shape = f[g].shape
        /\ r.freed = f[g].freed /\ r.deleted = f[g].deleted /\ r.inMacro = f[g].inMacro
        /\ r.runable = f[g].runable /\ r.todo = f[g].todo - 1
    BY <1>1, <1>4 DEF GraphStates
  <2> HIDE DEF r
  <2>3. /\ LikeGraph([f EXCEPT ![g] = r], g) /\ [f EXCEPT ![g] = r][g] = r
    BY <1>2, <1>4, <2>2, LikeSet
  <2>4. GoesOn(p, g, f, js, a)
    BY <1>2, <1>4, <2>1, <2>2, <2>3 DEF GoesOn
  <2> QED BY <1>3, <2>1, <2>3, <2>4
<1>5. CASE f[g].todo = 0 /\ f[g].inMacro
  <2> DEFINE f1 == DecrTop(f, g, c)
             r  == [f1[g] EXCEPT !.inMacro = FALSE]
             f2 == [f1 EXCEPT ![g] = r]
  <2>1. Ends(p, g, f2, js) /\ ctx' = [c EXCEPT !.prog = g, !.inMacro = FALSE]
    BY <1>5 DEF Starts
  <2>2. LikeGraph(f1, g) /\ f1[g].todo = 0
        /\ (c.top = g => f1[g].runable = IF f[g].runable > 0 THEN f[g].runable - 1 ELSE 0)
    BY <1>5, DecrTopProps
  <2>3. f1[g] \in GraphStates
    BY <2>2, LikeElement
  <2> HIDE DEF f1
  <2>4. /\ r \in GraphStates /\ r.origin = f1[g].origin /\ r.shape = f1[g].shape
        /\ r.freed = f1[g].freed /\ r.deleted = f1[g].deleted /\ ~r.inMacro
        /\ r.runable = f1[g].runable /\ r.todo = f1[g].todo
    BY <2>3 DEF GraphStates
  <2>5. HasFuncs(g)
    BY <1>2, <1>5
  <2> HIDE DEF r
  <2>6. LikeGraph(f2, g) /\ f2[g] = r
    BY <2>2, <2>4, <2>5, LikeSet
  <2> HIDE DEF f2
  <2>7. /\ LikeGraph(graph', g)
        /\ graph'[g].todo = f2[g].todo /\ graph'[g].inMacro = f2[g].inMacro
        /\ graph'[g].runable = f2[g].runable
        /\ \/ jobs' = js /\ pc' = [pc EXCEPT ![p] = "decrement"]
           \/ /\ p # Parent /\ HasFuncs(g)
              /\ jobs' = <<Job("wait", g, Parent, p)>> \o js /\ pc' = [pc EXCEPT ![p] = "slaves"]
    BY <2>1, <2>6, EndsProps
  <2>8. EndsIt(p, g, f, c, js)
    BY <1>5, <2>2, <2>4, <2>6, <2>7 DEF EndsIt
  <2>9. ctx' \in Contexts /\ Names(ctx') /\ ctx'.top = c.top
    <3>1. g \in GraphOrNone
      BY Basics DEF GraphOrNone
    <3> QED BY <2>1, <2>5, <3>1 DEF Contexts, Names
  <2> QED BY <1>3, <2>7, <2>8, <2>9
<1>6. CASE f[g].todo = 0 /\ ~f[g].inMacro
  <2>1. Ends(p, g, f, js) /\ ctx' = c
    BY <1>6 DEF Starts
  <2>2. /\ LikeGraph(graph', g)
        /\ graph'[g].todo = f[g].todo /\ graph'[g].inMacro = f[g].inMacro
        /\ graph'[g].runable = f[g].runable
        /\ \/ jobs' = js /\ pc' = [pc EXCEPT ![p] = "decrement"]
           \/ /\ p # Parent /\ HasFuncs(g)
              /\ jobs' = <<Job("wait", g, Parent, p)>> \o js /\ pc' = [pc EXCEPT ![p] = "slaves"]
    BY <2>1, EndsProps
  <2>3. EndsIt(p, g, f, c, js)
    BY <1>6, <2>2 DEF EndsIt
  <2> QED BY <1>3, <2>1, <2>2, <2>3
<1> QED BY <1>1, <1>4, <1>5, <1>6

(* It keeps what always holds.                                             *)
LEMMA StartsAlways ==
  ASSUME IInv, NEW p \in Procs, NEW g, Started(g), NEW f, LikeGraph(f, g),
         NEW c \in Contexts, Names(c), NEW js \in Seq(Jobs), Range(js) \subseteq Range(jobs),
         NEW a \in Acts, a.g = g, Starts(p, g, f, c, js, a),
         a.then = "sub" => /\ p = Parent /\ HasFuncs(g)
                           /\ a.by = p \/ (a.by \in Procs \ {Parent} /\ act[a.by].g # None),
         a.then = "queue" => p = Parent, p # Parent => HasFuncs(g),
         p = Parent => pc[Parent] \in {"jobs", "start", "cleanup", "module"},
         p # Parent /\ pc[Parent] = "start" => act[Parent].g # g,
         UNCHANGED <<queue, curr, kill, made, saved, stmt, left, owed, early>>,
         vcr' \in VCRs, vcr'.graph = vcr.graph, vcr'.steps = vcr.steps, vcr'.mode = vcr.mode,
         bg' \in BGs, bg'.graph = bg.graph, bg'.tree = bg.tree
  PROVE  Always'
<1>1. TypeOK /\ OriginsOK /\ NamesOK /\ ContextsOK /\ PlacesOK
  BY DEF IInv, Always
<1>2. /\ Parent \in Procs /\ made \in Nat /\ None \notin 1..made /\ 1..made \subseteq Graphs
      /\ g \in 1..made /\ g # None /\ g \in Graphs /\ None \notin Procs
  BY <1>1, Basics DEF Started
<1>3. /\ act' = [act EXCEPT ![p] = a] /\ LikeGraph(graph', g)
      /\ ctx' \in Contexts /\ Names(ctx') /\ ctx'.top = c.top
      /\ GoesOn(p, g, f, js, a) \/ EndsIt(p, g, f, c, js)
  BY <1>1, <1>2, StartsOutcome
<1>4. act'[p] = a /\ act' \in [Procs -> Acts] /\ \A q \in Procs \ {p} : act'[q] = act[q]
  BY <1>1, <1>3 DEF TypeOK
<1>5. WorkedGraphs(g)
  <2>1. kill' \in BOOLEAN /\ owed' \in BOOLEAN /\ early' \in BOOLEAN
    BY <1>1 DEF TypeOK
  <2>2. /\ graph' \in Seq(GraphStates) /\ Len(graph') = made
        /\ \A h \in 1..made : /\ graph'[h].origin = graph[h].origin /\ graph'[h].shape = graph[h].shape
                              /\ graph'[h].freed = graph[h].freed
                              /\ h # g => graph'[h].inMacro = graph[h].inMacro
                              /\ ~HasFuncs(h) => /\ graph'[h].todo = graph[h].todo
                                                 /\ graph'[h].inMacro = graph[h].inMacro
    BY <1>3 DEF LikeGraph
  <2>3. graph'[g].freed = graph[g].freed
    BY <1>2, <2>2
  <2> QED BY <2>1, <2>2, <2>3 DEF WorkedGraphs
<1>6. jobs' \in Seq(Jobs) /\ \A j \in Range(jobs') :
        \/ j \in Range(jobs)
        \/ /\ j.g = g /\ HasFuncs(g)
           /\ j.kind \in {"sub", "wait"} => p # Parent /\ j.by = p /\ act'[p].g = g
  <2>1. CASE GoesOn(p, g, f, js, a)
    <3> DEFINE j == Job("module", g, None, None)
    <3>1. j \in Jobs /\ j.g = g /\ j.kind = "module" /\ jobs' = Append(js, j) /\ HasFuncs(g)
      BY <1>2, <2>1 DEF Job, Jobs, GoesOn
    <3> HIDE DEF j
    <3>2. jobs' \in Seq(Jobs) /\ Range(jobs') = Range(js) \cup {j}
      BY <3>1, AppendProps
    <3> QED BY <3>1, <3>2
  <2>2. CASE jobs' = js
    BY <2>2
  <2>3. CASE p # Parent /\ HasFuncs(g) /\ jobs' = <<Job("wait", g, Parent, p)>> \o js
    <3> DEFINE j == Job("wait", g, Parent, p)
    <3>1. j \in Jobs /\ j.g = g /\ j.by = p /\ jobs' = <<j>> \o js
      BY <1>2, <2>3 DEF Job, Jobs
    <3> HIDE DEF j
    <3>2. jobs' \in Seq(Jobs) /\ Range(jobs') = Range(js) \cup {j}
      BY <3>1, ConsProps
    <3> QED BY <1>4, <2>3, <3>1, <3>2
  <2> QED BY <1>3, <2>1, <2>2, <2>3 DEF EndsIt
<1>7. WorkedNames(p, g)
  <2>1. act'[p].then = "sub" => /\ act'[p].by \in Procs /\ act'[act'[p].by].g # None
                                /\ act'[p].g # None /\ HasFuncs(act'[p].g)
    BY <1>2, <1>4
  <2>2. saved' \in [Procs -> Contexts] /\ \A q \in Procs : Names(saved'[q])
    BY <1>1 DEF TypeOK, ContextsOK
  <2> QED BY <1>3, <1>4, <1>6, <2>1, <2>2 DEF WorkedNames
<1>8. WorkedPlaces(p)
  <2>1. pc \in [Procs -> Places]
    BY <1>1 DEF TypeOK
  <2>2. CASE GoesOn(p, g, f, js, a)
    <3>1. ASSUME NEW q \in Procs
          PROVE  pc'[q] = IF a.then = "sub" /\ q = a.by THEN "cleanup"
                          ELSE IF q # p THEN pc[q]
                          ELSE IF a.then # "queue" THEN Home(p)
                          ELSE IF stmt # None THEN "background" ELSE "top"
      BY <2>1, <2>2 DEF GoesOn, Continue
    <3>2. ASSUME NEW q \in Procs
          PROVE  \/ pc'[q] = "cleanup" /\ a.then = "sub" /\ q = a.by
                 \/ q = p /\ p = Parent /\ pc'[q] \in {"background", "top"}
                 \/ q = p /\ p # Parent /\ pc'[q] = "loop"
                 \/ q # p /\ pc'[q] = pc[q]
      BY <3>1 DEF Home
    <3>3. pc' \in [Procs -> Places]
      <4>1. \A q \in Procs : pc'[q] \in Places
        BY <2>1, <3>2 DEF Places
      <4>2. pc' \in [Procs -> {pc'[q] : q \in Procs}]
        BY <2>1, <2>2 DEF GoesOn, Continue
      <4> QED BY <4>1, <4>2
    <3>4. p = Parent => pc'[Parent] # "start"
      BY <1>2, <3>2
    <3>5. ASSUME NEW q \in Procs
          PROVE  \/ pc'[q] = pc[q] /\ act'[q] = act[q]
                 \/ /\ q = Parent => p = Parent /\ pc'[q] \in {"top", "background", "cleanup"}
                    /\ q # Parent => pc'[q] \in {"loop", "cleanup"}
                    /\ pc'[q] = "cleanup" => act'[q].g # None /\ HasFuncs(act'[q].g)
      <4>1. CASE pc'[q] = "cleanup" /\ a.then = "sub" /\ q = a.by /\ q # p
        <5>1. act'[q] = act[q] /\ q # Parent /\ act[q].g # None
          BY <1>4, <4>1
        <5> QED BY <1>1, <4>1, <5>1 DEF NamesOK
      <4>2. CASE pc'[q] = "cleanup" /\ a.then = "sub" /\ q = a.by /\ q = p
        BY <1>2, <1>4, <4>2
      <4>3. CASE q = p /\ pc'[q] \in {"background", "top", "loop"} /\ (q = Parent <=> pc'[q] # "loop")
        BY <4>3
      <4>4. CASE q # p /\ pc'[q] = pc[q]
        BY <1>4, <4>4
      <4> QED BY <3>2, <4>1, <4>2, <4>3, <4>4
    <3> QED BY <3>3, <3>4, <3>5 DEF WorkedPlaces
  <2>3. CASE EndsIt(p, g, f, c, js)
    <3>1. PICK place \in {"slaves", "decrement"} : /\ pc' = [pc EXCEPT ![p] = place]
                                                   /\ place = "slaves" => p # Parent /\ HasFuncs(g)
      BY <2>3 DEF EndsIt
    <3>2. pc' \in [Procs -> Places] /\ pc'[p] = place /\ \A q \in Procs \ {p} : pc'[q] = pc[q]
      BY <2>1, <3>1 DEF Places
    <3> QED BY <1>2, <1>4, <3>1, <3>2 DEF WorkedPlaces
  <2> QED BY <1>3, <2>2, <2>3
<1> QED BY <1>5, <1>7, <1>8, WorkAlways

(* Where no frame comes or goes.                                           *)
LEMMA SameFrames ==
  ASSUME IInv, ~early, NEW g, LikeGraph(graph', g), UNCHANGED <<queue, curr, made>>,
         vcr'.ngraphs = vcr.ngraphs,
         \A q \in Procs : /\ pc'[q] = "callback" <=> pc[q] = "callback"
                          /\ pc[q] = "callback" => act'[q] = act[q]
  PROVE  CallBackOK' /\ NotDeleted' /\ FramesOK'
<1>1. TypeOK /\ NamesOK /\ CallBackOK /\ NotDeleted /\ FramesOK
  BY DEF IInv, Always, UntilEarly
<1>2. \A h \in 1..made : /\ graph'[h].origin = graph[h].origin /\ graph'[h].freed = graph[h].freed
                         /\ graph'[h].deleted = graph[h].deleted
  BY DEF LikeGraph
<1>3. \A q \in Procs : pc[q] = "callback" => act[q].g \in 1..made
  BY <1>1 DEF NamesOK, Busy, Started
<1>4. CallBackOK'
  BY <1>1, <1>2, <1>3 DEF CallBackOK
<1>5. NotDeleted'
  BY <1>1, <1>2 DEF NotDeleted
<1>6. \A h : h \in Frames' <=> h \in Frames
  <2>1. \A h : (\E q \in Procs : pc'[q] = "callback" /\ act'[q].g = h)
               <=> (\E q \in Procs : pc[q] = "callback" /\ act[q].g = h)
    OBVIOUS
  <2> QED BY <1>2, <2>1 DEF Frames
<1>7. Frames' = Frames
  BY <1>6
<1> QED BY <1>1, <1>4, <1>5, <1>7 DEF FramesOK

(* A run queue with one job.                                               *)
LEMMA OneJob ==
  ASSUME NEW j PROVE Len(<<j>>) = 1 /\ Range(<<j>>) = {j}
BY DEF Range

\* Who waits for its macro call once p works for a.
Calls(q, p, a) == IF q = p THEN a.then = "sub" /\ a.by = p ELSE Caller(q)

(* ExStartModules keeps the rest of the invariant, when p is the one that  *)
(* executes the graph in the slot.                                         *)
LEMMA StartsExec ==
  ASSUME IInv, ~early, NEW p \in Procs, NEW g, Started(g), HasFuncs(g), curr = g,
         NEW f, LikeGraph(f, g), NEW c \in Contexts, Names(c), c.top = g,
         NEW a \in Acts, a.g = g, Starts(p, g, f, c, << >>, a),
         a.then = "sub" => p = Parent /\ (a.by = p \/ (a.by \in Procs \ {p} /\ pc[a.by] = "waiting")),
         a.then = "queue" => p = Parent,
         pc[p] # "callback", p = Parent => pc[Parent] \notin Reading,
         p # Parent /\ pc[Parent] = "start" => act[Parent].g # g,
         \A q \in Procs \ {p} : ~Chain(q),
         \A q, r \in Procs : Calls(q, p, a) /\ Calls(r, p, a) => q = r,
         f[g].inMacro => f[g].runable >= f[g].todo + 1,
         f[g].inMacro => \A q \in Procs : Calls(q, p, a) => f[g].runable >= f[g].todo + 2,
         ~f[g].inMacro => \A q \in Procs : ~Calls(q, p, a),
         UNCHANGED <<queue, curr, made, saved>>, vcr'.ngraphs = vcr.ngraphs
  PROVE  AboutCurr' /\ OneChain' /\ CountOK' /\ TopOK' /\ CallBackOK' /\ NotDeleted' /\ FramesOK'
<1>1. /\ TypeOK /\ OriginsOK /\ NamesOK /\ PlacesOK /\ AboutCurr /\ OneChain /\ TopOK
  BY DEF IInv, Always, UntilEarly
<1>2. /\ Parent \in Procs /\ made \in Nat /\ None \notin 1..made /\ 1..made \subseteq Graphs
      /\ g \in 1..made /\ g # None /\ g \in Graphs /\ None \notin Procs
  BY <1>1, Basics DEF Started
<1>3. /\ act' = [act EXCEPT ![p] = a] /\ LikeGraph(graph', g) /\ ctx'.top = g
      /\ GoesOn(p, g, f, << >>, a) \/ EndsIt(p, g, f, c, << >>)
  BY <1>1, <1>2, StartsOutcome
<1>4. act'[p] = a /\ \A q \in Procs \ {p} : act'[q] = act[q]
  BY <1>1, <1>3 DEF TypeOK
<1>5. \A h \in 1..made : HasFuncs(h)' <=> HasFuncs(h)
  BY <1>3 DEF LikeGraph, HasFuncs
<1> DEFINE Starting == /\ jobs' = <<Job("module", g, None, None)>>
                       /\ pc'[p] \in {"cleanup", "top", "background", "loop"}
                       /\ pc'[p] = "cleanup" <=> a.then = "sub" /\ a.by = p
                       /\ graph'[g].todo = f[g].todo - 1 /\ graph'[g].runable = f[g].runable
                       /\ graph'[g].inMacro = f[g].inMacro /\ f[g].todo > 0
           Ended(kind) == /\ ~graph'[g].inMacro
                          /\ ~f[g].inMacro => graph'[g].runable = f[g].runable
                          /\ f[g].inMacro => graph'[g].runable = IF f[g].runable > 0 THEN f[g].runable - 1 ELSE 0
                          /\ \/ kind = 1 /\ jobs' = << >> /\ pc'[p] = "decrement"
                             \/ kind = 2 /\ jobs' = <<Job("wait", g, Parent, p)>> /\ pc'[p] = "slaves"
                                /\ p # Parent
<1>6. /\ Starting \/ \E kind \in {1, 2} : Ended(kind)
      /\ \A q \in Procs \ {p} : pc'[q] = pc[q] \/ (pc[q] = "waiting" /\ pc'[q] = "cleanup")
  <2>1. pc \in [Procs -> Places]
    BY <1>1 DEF TypeOK
  <2>2. CASE GoesOn(p, g, f, << >>, a)
    <3>1. ASSUME NEW q \in Procs
          PROVE  pc'[q] = IF a.then = "sub" /\ q = a.by THEN "cleanup"
                          ELSE IF q # p THEN pc[q]
                          ELSE IF a.then # "queue" THEN Home(p)
                          ELSE IF stmt # None THEN "background" ELSE "top"
      BY <2>1, <2>2 DEF GoesOn, Continue
    <3>2. /\ pc'[p] \in {"cleanup", "top", "background", "loop"}
          /\ pc'[p] = "cleanup" <=> a.then = "sub" /\ a.by = p
      <4>1. \/ pc'[p] = "cleanup" /\ a.then = "sub" /\ p = a.by
            \/ pc'[p] \in {"background", "top", "loop"} /\ ~(a.then = "sub" /\ p = a.by)
        BY <3>1 DEF Home
      <4> QED BY <4>1
    <3>3. ASSUME NEW q \in Procs \ {p}
          PROVE  pc'[q] = pc[q] \/ (pc[q] = "waiting" /\ pc'[q] = "cleanup")
      BY <3>1
    <3>4. Append(<< >>, Job("module", g, None, None)) = <<Job("module", g, None, None)>>
      OBVIOUS
    <3> QED BY <2>2, <3>2, <3>3, <3>4 DEF GoesOn
  <2>3. CASE EndsIt(p, g, f, c, << >>)
    <3>1. <<Job("wait", g, Parent, p)>> \o << >> = <<Job("wait", g, Parent, p)>>
      OBVIOUS
    <3>2. \/ Ended(1) /\ pc' = [pc EXCEPT ![p] = "decrement"]
          \/ Ended(2) /\ pc' = [pc EXCEPT ![p] = "slaves"]
      BY <2>1, <2>3, <3>1 DEF EndsIt
    <3> QED BY <2>1, <3>2
  <2> QED BY <1>3, <2>2, <2>3
<1>7. \A q \in Procs : Calls(q, p, a) <=> Caller(q)'
  <2>1. Calls(p, p, a) <=> Caller(p)'
    BY <1>4, <1>6 DEF Calls, Caller
  <2>2. \A q \in Procs \ {p} : Caller(q)' <=> Caller(q)
    BY <1>4, <1>6 DEF Caller
  <2> QED BY <2>1, <2>2 DEF Calls
<1>8. \A q \in Procs : Chain(q)' => q = p
  <2>1. ASSUME NEW q \in Procs \ {p}, Chain(q)' PROVE FALSE
    <3>1. pc[q] = pc'[q] /\ act'[q] = act[q] /\ pc[q] \in {"module", "slaves", "decrement"}
      BY <1>4, <1>6, <2>1 DEF Chain
    <3>2. act[q].g \in 1..made
      BY <1>1, <3>1 DEF NamesOK, Busy, HeldBy, Started
    <3>3. HasFuncs(act'[q].g)
      BY <1>5, <2>1, <3>1, <3>2 DEF Chain
    <3> QED BY <3>1, <3>3 DEF Chain
  <2> QED BY <2>1
<1>9. \A q \in Procs \ {p} : pc'[q] # "module"
  BY <1>1, <1>6 DEF Chain, NamesOK
<1>10. AboutCurr'
  <2>1. \A j \in Range(jobs') : j.g = g
    BY <1>6 DEF Range, Job
  <2>2. ASSUME NEW q \in Procs, HeldBy(q)'
        PROVE  act'[q].g = g \/ (q = Parent /\ pc'[q] = "decrement" /\ ~(HasFuncs(act[q].g))' /\ act'[q].then # "sub")
    <3>1. CASE q = p
      BY <1>4, <3>1
    <3>2. CASE q # p
      <4>1. HeldBy(q) /\ act'[q] = act[q]
        BY <1>4, <1>6, <2>2, <3>2 DEF HeldBy
      <4>2. act[q].g \in 1..made
        BY <1>1, <4>1 DEF NamesOK, Busy, Started
      <4>3. act[q].g # g => q = Parent /\ pc[q] = "decrement" /\ ~HasFuncs(act[q].g) /\ act[q].then # "sub"
        BY <1>1, <4>1 DEF AboutCurr
      <4>4. act[q].g # g => pc'[q] = "decrement"
        BY <1>6, <3>2, <4>3
      <4> QED BY <1>5, <4>1, <4>2, <4>3, <4>4
    <3> QED BY <3>1, <3>2
  <2> QED BY <2>1, <2>2 DEF AboutCurr
<1>11. OneChain'
  <2>1. /\ Len(jobs') <= 1
        /\ \A j \in Range(jobs') : j.kind # "wait" => Starting
        /\ \A j \in Range(jobs') : j.kind = "wait" => pc'[j.by] = "slaves"
        /\ \A j \in Range(jobs') : j.kind # "sub"
    <3>1. CASE Starting
      <4>1. /\ Len(jobs') = 1 /\ Range(jobs') = {Job("module", g, None, None)}
        BY <3>1, OneJob
      <4> QED BY <3>1, <4>1 DEF Job
    <3>2. CASE Ended(1)
      <4>1. Len(jobs') = 0 /\ Range(jobs') = {}
        BY <3>2 DEF Range
      <4> QED BY <4>1
    <3>3. CASE Ended(2)
      <4>1. /\ Len(jobs') = 1 /\ Range(jobs') = {Job("wait", g, Parent, p)}
            /\ pc'[p] = "slaves"
        BY <3>3, OneJob
      <4> HIDE DEF Starting, Ended
      <4> QED BY <4>1 DEF Job
    <3> HIDE DEF Starting, Ended
    <3> QED BY <1>6, <3>1, <3>2, <3>3
  <2>2. Starting => ~Chain(p)'
    BY DEF Chain
  <2>3. ASSUME NEW q \in Procs, pc'[q] = "decrement", act'[q].then = "sub"
        PROVE  act'[q].by = q \/ pc'[act'[q].by] = "waiting"
    <3>1. CASE q = p
      <4>1. a.by = p \/ (a.by \in Procs \ {p} /\ pc[a.by] = "waiting")
        BY <1>4, <2>3, <3>1
      <4>2. ~Starting
        BY <2>3, <3>1
      <4>3. pc' = [pc EXCEPT ![p] = "decrement"]
        BY <1>1, <1>3, <2>3, <3>1, <1>6 DEF EndsIt, GoesOn, Continue, Home, TypeOK
      <4> QED BY <1>1, <1>4, <3>1, <4>1, <4>3 DEF TypeOK
    <3>2. CASE q # p
      <4>1. pc[q] = "decrement" /\ act[q] = act'[q] /\ act[q].then = "sub"
        BY <1>4, <1>6, <2>3, <3>2
      <4>2. Chain(q)
        BY <1>1, <4>1 DEF Chain, NamesOK
      <4> QED BY <3>2, <4>2
    <3> QED BY <3>1, <3>2
  <2> HIDE DEF Starting, Ended
  <2> QED BY <1>7, <1>8, <2>1, <2>2, <2>3 DEF OneChain
<1>12. CountOK'
  <2>1. f[g] \in GraphStates
    BY <1>1, <1>2, LikeElement
  <2>2. f[g].runable \in Nat /\ f[g].todo \in Nat
    <3>1. MaxModules \in Nat
      BY GraphAssumption
    <3> QED BY <2>1, <3>1 DEF GraphStates
  <2>3. (Called)' <=> \E q \in Procs : Calls(q, p, a)
    BY <1>7 DEF Called
  <2>4. ~(Queued("macro"))' /\ ~(Queued("sub"))'
    BY <1>6 DEF Queued, Range, Job
  <2>5. CASE Starting
    <3>1. ~(Ending)'
      <4>1. ASSUME NEW q \in Procs, pc'[q] \in {"slaves", "decrement"}, (HasFuncs(act[q].g))' PROVE FALSE
        <5>1. Chain(q)'
          BY <4>1 DEF Chain
        <5> QED BY <1>8, <2>5, <4>1, <5>1
      <4> QED BY <4>1 DEF Ending
    <3>2. graph'[g].inMacro => graph'[g].runable >= graph'[g].todo + 2
      BY <2>2, <2>5
    <3>3. graph'[g].inMacro /\ (Called)' => graph'[g].runable >= graph'[g].todo + 3
      BY <2>2, <2>3, <2>5
    <3>4. ~graph'[g].inMacro => ~(Called)'
      BY <2>3, <2>5
    <3> HIDE DEF Starting
    <3> QED BY <2>4, <3>1, <3>2, <3>3, <3>4 DEF CountOK
  <2>6. CASE \E kind \in {1, 2} : Ended(kind)
    <3>1. ~(InModule)'
      BY <1>6, <1>9, <2>6 DEF InModule, Queued, Range, Job
    <3>2. ~graph'[g].inMacro /\ ((Called)' => graph'[g].runable >= 1)
      BY <2>2, <2>3, <2>6
    <3> HIDE DEF Ended
    <3> QED BY <2>4, <3>1, <3>2 DEF CountOK
  <2> QED BY <1>6, <2>5, <2>6
<1>13. TopOK'
  <2>1. \A q \in Procs : pc'[q] # "module"
    BY <1>6, <1>9
  <2>2. ASSUME pc'[Parent] \in Reading PROVE saved[Parent].top = g
    <3>1. p # Parent /\ pc[Parent] = pc'[Parent]
      BY <1>2, <1>6, <2>2 DEF Reading
    <3> QED BY <1>1, <1>2, <2>2, <3>1 DEF TopOK
  <2> QED BY <1>3, <2>1, <2>2 DEF TopOK
<1>14. CallBackOK' /\ NotDeleted' /\ FramesOK'
  <2>1. \A q \in Procs : /\ pc'[q] = "callback" <=> pc[q] = "callback"
                         /\ pc[q] = "callback" => act'[q] = act[q]
    BY <1>4, <1>6
  <2> QED BY <1>3, <2>1, SameFrames
<1> QED BY <1>10, <1>11, <1>12, <1>13, <1>14

\* What no module touches; one that fails has the sequencer paused.
Others == /\ UNCHANGED <<queue, curr, kill, made, bg, stmt, left, owed, early>>
          /\ vcr' = vcr \/ vcr' = [vcr EXCEPT !.pauses = @ + 1]

(* In particular the sequencer and the background statement.               *)
LEMMA OthersProps ==
  ASSUME TypeOK, Others
  PROVE  /\ vcr' \in VCRs /\ vcr'.graph = vcr.graph /\ vcr'.steps = vcr.steps /\ vcr'.mode = vcr.mode
         /\ vcr'.ngraphs = vcr.ngraphs
         /\ bg' \in BGs /\ bg'.graph = bg.graph /\ bg'.tree = bg.tree
         /\ UNCHANGED <<queue, curr, kill, made, stmt, left, owed, early>>
<1>1. vcr \in VCRs /\ bg \in BGs
  BY DEF TypeOK, VCRs, BGs
<1>2. /\ vcr' \in VCRs /\ vcr'.graph = vcr.graph /\ vcr'.steps = vcr.steps /\ vcr'.mode = vcr.mode
      /\ vcr'.ngraphs = vcr.ngraphs
  <2>1. CASE vcr' = vcr
    BY <1>1, <2>1
  <2>2. CASE vcr' = [vcr EXCEPT !.pauses = @ + 1]
    <3>1. vcr.pauses + 1 \in Nat
      BY <1>1 DEF VCRs
    <3> QED BY <1>1, <2>2, <3>1 DEF VCRs
  <2> QED BY <2>1, <2>2 DEF Others
<1> QED BY <1>1, <1>2 DEF Others

(* Until early, the job that is taken is the only one.                     *)
LEMMA TakeExec ==
  ASSUME IInv, ~early, NEW p \in Procs, NEW kind, kind # "wait", Takes(p, kind)
  PROVE  /\ Rest(p) = << >> /\ Queued(kind) /\ TheJob(p).g = curr /\ ctx.top = curr /\ curr # None
         /\ \A q \in Procs : ~Chain(q)
         /\ \A q, r \in Procs : Caller(q) /\ Caller(r) => q = r
         /\ kind = "sub" => pc[TheJob(p).by] = "waiting" /\ TheJob(p).by \in Procs \ {Parent}
<1>1. TypeOK /\ NamesOK /\ AboutCurr /\ OneChain /\ TopOK
  BY DEF IInv, Always, UntilEarly
<1>2. /\ TheJob(p) \in Range(jobs) /\ TheJob(p).kind = kind /\ HasFuncs(TheJob(p).g)
      /\ Started(TheJob(p).g)
      /\ Rest(p) \in Seq(Jobs) /\ Len(Rest(p)) = Len(jobs) - 1 /\ Len(jobs) >= 1
      /\ pc[p] = IF p = Parent THEN "jobs" ELSE "loop"
      /\ p # Parent /\ pc[Parent] = "start" => act[Parent].g # TheJob(p).g
  BY TakeProps
<1>3. Len(Rest(p)) = 0
  <2>1. Len(jobs) \in Nat
    BY <1>1, LenProperties DEF TypeOK
  <2> QED BY <1>1, <1>2, <2>1 DEF OneChain
<1>4. Rest(p) = << >>
  BY <1>2, <1>3, EmptySeq
<1>5. TheJob(p).g = curr /\ Queued(kind) /\ HasFuncs(curr) /\ curr # None
  BY <1>1, <1>2, Basics DEF AboutCurr, Queued, Started
<1>6. ctx.top = curr
  BY <1>1, <1>2, <1>5 DEF TopOK
<1> QED BY <1>1, <1>2, <1>4, <1>5, <1>6, ByTyped DEF OneChain

(* A module is counted off.                                                *)
LEMMA FinishProps ==
  ASSUME TypeOK, NEW g \in 1..made, NEW c \in Contexts, Names(c)
  PROVE  LET f == IF graph[g].inMacro THEN Decr(graph, c.top) ELSE DecrTop(graph, g, c)
         IN  /\ LikeGraph(f, g) /\ f[g].todo = graph[g].todo /\ f[g].inMacro = graph[g].inMacro
             /\ c.top = g => f[g].runable = IF graph[g].runable > 0 THEN graph[g].runable - 1 ELSE 0
<1>1. LikeGraph(graph, g)
  BY LikeSelf
<1>2. c.top # None => c.top \in 1..made
  BY DEF Names
<1> QED BY <1>1, <1>2, DecrProps, DecrTopProps

(* The job that a processor is given.                                      *)
LEMMA ForProps ==
  ASSUME NEW g \in Graphs, NEW then \in {"job", "sub", "queue", "again"}, NEW by \in Procs \cup {None}
  PROVE  /\ For(g, then, by) \in Acts /\ For(g, then, by).g = g
         /\ For(g, then, by).then = then /\ For(g, then, by).by = by
BY DEF For, Acts, GraphOrNone

(* A module that has run, or was skipped, is followed by the next one.     *)
LEMMA FinishIInv ==
  ASSUME IInv, NEW p \in Procs, NEW g, Started(g), HasFuncs(g), NEW c \in Contexts, Names(c),
         NEW js \in Seq(Jobs), Range(js) \subseteq Range(jobs), Finish(p, g, c, js),
         pc[p] \in {"jobs", "loop", "module"}, p = Parent => pc[p] # "loop",
         p # Parent /\ pc[Parent] = "start" => act[Parent].g # g,
         Others, saved' = saved,
         ~early => /\ curr = g /\ c.top = g /\ js = << >> /\ InModule
                   /\ \A q \in Procs \ {p} : ~Chain(q)
  PROVE  IInv'
<1> DEFINE f == IF graph[g].inMacro THEN Decr(graph, c.top) ELSE DecrTop(graph, g, c)
           a == For(g, "job", None)
<1>1. TypeOK /\ UntilEarly
  BY DEF IInv, Always
<1>2. g \in 1..made /\ g \in Graphs /\ None \in Procs \cup {None} /\ g # None
  BY <1>1, Basics DEF Started
<1>3. Starts(p, g, f, c, js, a)
  BY DEF Finish
<1>4. /\ LikeGraph(f, g) /\ f[g].todo = graph[g].todo /\ f[g].inMacro = graph[g].inMacro
      /\ c.top = g => f[g].runable = IF graph[g].runable > 0 THEN graph[g].runable - 1 ELSE 0
  BY <1>1, <1>2, FinishProps
<1>5. a \in Acts /\ a.g = g /\ a.then = "job"
  BY <1>2, ForProps
<1>6. /\ vcr' \in VCRs /\ vcr'.graph = vcr.graph /\ vcr'.steps = vcr.steps /\ vcr'.mode = vcr.mode
      /\ vcr'.ngraphs = vcr.ngraphs
      /\ bg' \in BGs /\ bg'.graph = bg.graph /\ bg'.tree = bg.tree
      /\ UNCHANGED <<queue, curr, kill, made, stmt, left, owed, early>>
  BY <1>1, OthersProps
<1> HIDE DEF f, a
<1>7. Always'
  <2>1. /\ a.then # "sub" /\ a.then # "queue"
        /\ p = Parent => pc[Parent] \in {"jobs", "start", "cleanup", "module"}
    BY <1>5
  <2> QED BY <1>3, <1>4, <1>5, <1>6, <2>1, StartsAlways
<1>8. ASSUME ~early
      PROVE AboutCurr' /\ OneChain' /\ CountOK' /\ TopOK' /\ CallBackOK' /\ NotDeleted' /\ FramesOK'
  <2>1. OneChain /\ CountOK
    BY <1>1, <1>8 DEF UntilEarly
  <2>2. graph[g].runable \in Nat /\ graph[g].todo \in Nat
    BY <1>1, <1>2, Basics, GraphAssumption DEF GraphStates
  <2>3. \A q \in Procs : Calls(q, p, a) => Caller(q)
    BY <1>5 DEF Calls
  <2>4. \A q, r \in Procs : Calls(q, p, a) /\ Calls(r, p, a) => q = r
    BY <2>1, <2>3 DEF OneChain
  <2>5. /\ graph[g].inMacro => graph[g].runable >= graph[g].todo + 2
        /\ graph[g].inMacro /\ Called => graph[g].runable >= graph[g].todo + 3
        /\ ~graph[g].inMacro => ~Called
    BY <1>2, <1>8, <2>1 DEF CountOK
  <2>6. /\ f[g].inMacro => f[g].runable >= f[g].todo + 1
        /\ f[g].inMacro => \A q \in Procs : Calls(q, p, a) => f[g].runable >= f[g].todo + 2
        /\ ~f[g].inMacro => \A q \in Procs : ~Calls(q, p, a)
    <3>1. CASE graph[g].inMacro
      <4>1. f[g].runable = graph[g].runable - 1
        BY <1>4, <1>8, <2>2, <2>5, <3>1
      <4>2. \A q \in Procs : Calls(q, p, a) => Called
        BY <2>3 DEF Called
      <4> QED BY <1>4, <2>2, <2>5, <3>1, <4>1, <4>2
    <3>2. CASE ~graph[g].inMacro
      BY <1>4, <2>3, <2>5, <3>2 DEF Called
    <3> QED BY <3>1, <3>2
  <2>7. /\ a.then # "sub" /\ a.then # "queue" /\ pc[p] # "callback"
        /\ p = Parent => pc[Parent] \notin Reading
    BY <1>5 DEF Reading
  <2>8. Starts(p, g, f, c, << >>, a)
    BY <1>3, <1>8
  <2> QED BY <1>4, <1>5, <1>6, <1>8, <2>4, <2>6, <2>7, <2>8, StartsExec
<1> QED BY <1>6, <1>7, <1>8 DEF IInv, UntilEarly

(* A module ends.                                                          *)
LEMMA ModuleEndIInv ==
  ASSUME IInv, NEW p \in Procs, ModuleEnd(p) PROVE IInv'
<1> DEFINE g == act[p].g
<1>1. /\ TypeOK /\ NamesOK /\ ContextsOK /\ StartOK /\ PlacesOK /\ UntilEarly
  BY DEF IInv, Always
<1>2. pc[p] = "module" /\ Finish(p, g, saved[p], jobs) /\ Others /\ saved' = saved
  BY DEF ModuleEnd, Others, qvars
<1>3. Started(g) /\ HasFuncs(g) /\ g # None
  BY <1>1, <1>2 DEF NamesOK
<1>4. saved[p] \in Contexts /\ Names(saved[p])
  BY <1>1 DEF TypeOK, ContextsOK
<1>5. p # Parent /\ pc[Parent] = "start" => act[Parent].g # g
  BY <1>1 DEF StartOK
<1>6. jobs \in Seq(Jobs)
  BY <1>1 DEF TypeOK
<1>7. ASSUME ~early
      PROVE  /\ curr = g /\ saved[p].top = g /\ jobs = << >> /\ InModule
             /\ \A q \in Procs \ {p} : ~Chain(q)
  <2>1. AboutCurr /\ OneChain /\ TopOK
    BY <1>1, <1>7 DEF UntilEarly
  <2>2. curr = g
    BY <1>2, <2>1 DEF AboutCurr, HeldBy
  <2>3. Chain(p)
    BY <1>2, <1>3 DEF Chain
  <2>4. \A j \in Range(jobs) : FALSE
    <3>1. ASSUME NEW j \in Range(jobs) PROVE FALSE
      <4>1. j.kind = "wait" /\ j.by \in Procs /\ pc[j.by] = "slaves"
        BY <1>1, <2>1, <2>3, <3>1, ByTyped DEF OneChain
      <4>2. Chain(j.by)
        BY <1>1, <4>1 DEF Chain, NamesOK
      <4> QED BY <1>2, <2>1, <2>3, <4>1, <4>2 DEF OneChain
    <3> QED BY <3>1
  <2>5. jobs = << >>
    <3>1. Len(jobs) \in Nat /\ DOMAIN jobs = 1..Len(jobs)
      BY <1>6, LenProperties
    <3>3. Len(jobs) >= 1 => 1 \in DOMAIN jobs
      BY <3>1
    <3>2. Len(jobs) = 0
      <4>1. Len(jobs) >= 1 => jobs[1] \in Range(jobs)
        BY <3>3 DEF Range
      <4> QED BY <2>4, <3>1, <4>1
    <3> QED BY <1>6, <3>2, EmptySeq
  <2>6. saved[p].top = g
    BY <1>1, <1>2, <1>3, <1>5, <2>1, <2>2 DEF TopOK
  <2> QED BY <1>2, <2>1, <2>2, <2>3, <2>5, <2>6 DEF OneChain, InModule
<1> HIDE DEF g
<1> QED BY <1>2, <1>3, <1>4, <1>5, <1>6, <1>7, FinishIInv

(* A module is taken: it is skipped or runs.                               *)
LEMMA ModuleIInv ==
  ASSUME IInv, NEW p \in Procs, Module(p) PROVE IInv'
<1> DEFINE g == TheJob(p).g
<1>1. /\ TypeOK /\ NamesOK /\ ContextsOK /\ UntilEarly
  BY DEF IInv, Always
<1>2. Takes(p, "module") /\ Others
  BY DEF Module, Others, qvars
<1>3. /\ Started(g) /\ g \in 1..made /\ HasFuncs(g)
      /\ Rest(p) \in Seq(Jobs) /\ Range(Rest(p)) \subseteq Range(jobs)
      /\ pc[p] = IF p = Parent THEN "jobs" ELSE "loop"
      /\ p # Parent /\ pc[Parent] = "start" => act[Parent].g # g
  BY <1>2, TakeProps
<1>4. ASSUME ~early
      PROVE  /\ Rest(p) = << >> /\ curr = g /\ ctx.top = g /\ InModule /\ curr # None
             /\ \A q \in Procs : ~Chain(q)
             /\ \A q, r \in Procs : Caller(q) /\ Caller(r) => q = r
  <2>1. "module" # "wait"
    OBVIOUS
  <2> QED BY <1>2, <1>4, <2>1, TakeExec DEF InModule
<1>5. ctx \in Contexts /\ Names(ctx)
  BY <1>1 DEF TypeOK, ContextsOK
<1>6. CASE kill
  <2>1. Finish(p, g, ctx, Rest(p)) /\ saved' = saved
    BY <1>6 DEF Module
  <2>2. pc[p] \in {"jobs", "loop", "module"} /\ (p = Parent => pc[p] # "loop")
    BY <1>3
  <2> HIDE DEF g
  <2> QED BY <1>2, <1>3, <1>4, <1>5, <2>1, <2>2, FinishIInv
<1>7. CASE ~kill
  <2> DEFINE a == For(g, "job", None)
  <2>1. /\ act' = [act EXCEPT ![p] = a] /\ saved' = [saved EXCEPT ![p] = ctx]
        /\ jobs' = Rest(p) /\ pc' = [pc EXCEPT ![p] = "module"] /\ UNCHANGED <<ctx, graph>>
    BY <1>7 DEF Module
  <2>2. g \in Graphs /\ g # None /\ made \in Nat /\ Parent \in Procs
    BY <1>1, <1>3, Basics
  <2>3. a \in Acts /\ a.g = g /\ a.then = "job"
    BY <2>2, ForProps
  <2> HIDE DEF g, a
  <2>4. /\ vcr' \in VCRs /\ vcr'.graph = vcr.graph /\ vcr'.steps = vcr.steps /\ vcr'.mode = vcr.mode
        /\ vcr'.ngraphs = vcr.ngraphs
        /\ bg' \in BGs /\ bg'.graph = bg.graph /\ bg'.tree = bg.tree
        /\ UNCHANGED <<queue, curr, kill, made, stmt, left, owed, early>>
    BY <1>1, <1>2, OthersProps
  <2>5. act'[p] = a /\ act' \in [Procs -> Acts] /\ \A q \in Procs \ {p} : act'[q] = act[q]
    BY <1>1, <2>1, <2>3 DEF TypeOK
  <2>6. pc'[p] = "module" /\ pc' \in [Procs -> Places] /\ \A q \in Procs \ {p} : pc'[q] = pc[q]
    BY <1>1, <2>1 DEF TypeOK, Places
  <2>7. /\ saved'[p] = ctx /\ saved' \in [Procs -> Contexts]
        /\ \A q \in Procs \ {p} : saved'[q] = saved[q]
    BY <1>1, <1>5, <2>1 DEF TypeOK
  <2>8. LikeGraph(graph', g)
    BY <1>1, <2>1, LikeSelf
  <2>9. Always'
    <3>1. WorkedGraphs(g)
      <4>1. kill' \in BOOLEAN /\ owed' \in BOOLEAN /\ early' \in BOOLEAN
        BY <1>1, <2>4 DEF TypeOK
      <4>2. graph \in Seq(GraphStates) /\ Len(graph) = made
        BY <1>1 DEF TypeOK
      <4> QED BY <2>1, <2>4, <4>1, <4>2 DEF WorkedGraphs
    <3>2. WorkedNames(p, g)
      <4>1. \A q \in Procs : Names(saved'[q])
        BY <1>1, <1>5, <2>7 DEF ContextsOK
      <4> QED BY <1>3, <1>5, <2>1, <2>3, <2>5, <2>7, <4>1 DEF WorkedNames
    <3>3. WorkedPlaces(p)
      BY <1>3, <2>2, <2>3, <2>5, <2>6 DEF WorkedPlaces
    <3> QED BY <1>3, <3>1, <3>2, <3>3, WorkAlways
  <2>10. ASSUME ~early
         PROVE AboutCurr' /\ OneChain' /\ CountOK' /\ TopOK' /\ CallBackOK' /\ NotDeleted' /\ FramesOK'
    <3>1. AboutCurr /\ OneChain /\ CountOK /\ TopOK /\ CallBackOK /\ jobs' = << >>
      BY <1>1, <1>4, <2>1, <2>10 DEF UntilEarly
    <3>2. Range(jobs') = {} /\ Len(jobs') = 0
      BY <3>1 DEF Range
    <3>3. \A h : HasFuncs(h)' <=> HasFuncs(h)
      BY <2>1 DEF HasFuncs
    <3>4. \A q \in Procs : (Caller(q)' <=> Caller(q)) /\ (Chain(q)' => q = p)
      BY <1>3, <1>4, <2>1, <2>5, <2>6, <2>10, <3>3 DEF Caller, Chain, HasFuncs
    <3>5. AboutCurr'
      BY <1>4, <2>1, <2>3, <2>4, <2>5, <2>6, <2>10, <3>1, <3>2 DEF AboutCurr, HeldBy, HasFuncs
    <3>6. OneChain'
      <4>1. \A q \in Procs : pc'[q] = "decrement" /\ act'[q].then = "sub" =>
                               act'[q].by = q \/ pc'[act'[q].by] = "waiting"
        BY <1>1, <1>3, <2>5, <2>6, <3>1, ByTyped DEF OneChain
      <4> QED BY <1>4, <2>10, <3>2, <3>4, <4>1 DEF OneChain
    <3>7. CountOK'
      <4>1. ~(Queued("macro"))' /\ ~(Queued("sub"))' /\ (Called' <=> Called)
        BY <3>2, <3>4 DEF Queued, Called
      <4>2. ~(Ending)'
        BY <2>6, <3>4 DEF Ending, Chain
      <4> QED BY <1>4, <2>1, <2>4, <2>10, <3>1, <4>1, <4>2 DEF CountOK
    <3>8. TopOK'
      <4>1. \A q \in Procs : pc'[q] = "module" => q = p
        BY <1>1, <1>4, <2>6, <2>10 DEF Chain, NamesOK
      <4>2. pc'[Parent] \in Reading => saved'[Parent].top = curr
        <5>1. pc'[Parent] \in Reading => p # Parent /\ pc'[Parent] = pc[Parent]
          BY <2>2, <2>6 DEF Reading
        <5> QED BY <1>3, <1>4, <2>2, <2>7, <2>10, <3>1, <5>1 DEF TopOK
      <4> QED BY <1>4, <2>1, <2>4, <2>7, <2>10, <4>1, <4>2 DEF TopOK
    <3>9. \A q \in Procs : /\ pc'[q] = "callback" <=> pc[q] = "callback"
                           /\ pc[q] = "callback" => act'[q] = act[q]
      BY <1>3, <2>5, <2>6
    <3>10. CallBackOK' /\ NotDeleted' /\ FramesOK'
      BY <2>4, <2>8, <2>10, <3>9, SameFrames
    <3> QED BY <3>5, <3>6, <3>7, <3>8, <3>10
  <2> QED BY <2>4, <2>9, <2>10 DEF IInv, UntilEarly
<1> QED BY <1>6, <1>7

(* The modules inside a macro are counted in the program on top.           *)
LEMMA SubGraphProps ==
  ASSUME TypeOK, NEW g \in 1..made, HasFuncs(g), NEW f, LikeGraph(f, g), NEW t \in 1..made
  PROVE  LET f2 == [f EXCEPT ![t].runable = @ + f[g].todo, ![g].inMacro = TRUE]
         IN  /\ LikeGraph(f2, g) /\ f2[g].todo = f[g].todo /\ f2[g].inMacro
             /\ t = g => f2[g].runable = f[g].runable + f[g].todo
<1> DEFINE r  == [f[t] EXCEPT !.runable = @ + f[g].todo]
           f1 == [f EXCEPT ![t] = r]
           s  == [f1[g] EXCEPT !.inMacro = TRUE]
           f2 == [f1 EXCEPT ![g] = s]
<1>1. /\ f[t] \in GraphStates /\ f[g] \in GraphStates /\ MaxModules \in Nat
      /\ f[t].runable + f[g].todo \in Nat
  <2>1. f[t] \in GraphStates /\ f[g] \in GraphStates /\ MaxModules \in Nat
    BY LikeElement, GraphAssumption
  <2> QED BY <2>1 DEF GraphStates
<1>2. /\ r \in GraphStates /\ r.origin = f[t].origin /\ r.shape = f[t].shape
      /\ r.freed = f[t].freed /\ r.deleted = f[t].deleted /\ r.inMacro = f[t].inMacro
      /\ r.todo = f[t].todo /\ r.runable = f[t].runable + f[g].todo
  BY <1>1 DEF GraphStates
<1> HIDE DEF r
<1>3. LikeGraph(f1, g) /\ f1[t] = r /\ \A i \in 1..made : i # t => f1[i] = f[i]
  BY <1>2, LikeSet
<1> HIDE DEF f1
<1>4. f1[g] \in GraphStates
  BY <1>3, LikeElement
<1>5. /\ s \in GraphStates /\ s.origin = f1[g].origin /\ s.shape = f1[g].shape
      /\ s.freed = f1[g].freed /\ s.deleted = f1[g].deleted /\ s.inMacro
      /\ s.todo = f1[g].todo /\ s.runable = f1[g].runable
  BY <1>4 DEF GraphStates
<1> HIDE DEF s
<1>6. LikeGraph(f2, g) /\ f2[g] = s
  BY <1>3, <1>5, LikeSet
<1>7. f2 = [f EXCEPT ![t].runable = @ + f[g].todo, ![g].inMacro = TRUE]
  BY DEF f1, r, s
<1> HIDE DEF f2
<1> QED BY <1>2, <1>3, <1>5, <1>6, <1>7

(* The parent starts the modules inside a macro, for by.                   *)
LEMMA SubGraphIInv ==
  ASSUME IInv, NEW g, Started(g), HasFuncs(g), NEW f, LikeGraph(f, g), ctx.top # None,
         NEW js \in Seq(Jobs), Range(js) \subseteq Range(jobs), NEW by \in Procs,
         by = Parent \/ act[by].g # None,
         SubGraph(g, f, js, by), pc[Parent] = "jobs", Others, saved' = saved,
         ~early => /\ curr = g /\ ctx.top = g /\ js = << >> /\ f[g].runable >= 2
                   /\ \A q \in Procs : ~Chain(q)
                   /\ by # Parent => pc[by] = "waiting"
                   /\ \A q, r \in Procs \ {Parent} : Caller(q) /\ Caller(r) => q = r
                   /\ by = Parent => \A q \in Procs \ {Parent} : ~Caller(q)
  PROVE  IInv'
<1> DEFINE f2 == [f EXCEPT ![ctx.top].runable = @ + f[g].todo, ![g].inMacro = TRUE]
           c  == [ctx EXCEPT !.prog = g, !.inMacro = TRUE]
           a  == For(g, "sub", by)
<1>1. TypeOK /\ UntilEarly /\ ContextsOK
  BY DEF IInv, Always
<1>2. g \in 1..made /\ g \in Graphs /\ g # None /\ Parent \in Procs
  BY <1>1, Basics DEF Started
<1>3. Starts(Parent, g, f2, c, js, a)
  BY DEF SubGraph
<1>4. /\ LikeGraph(f2, g) /\ f2[g].todo = f[g].todo /\ f2[g].inMacro
      /\ ctx.top = g => f2[g].runable = f[g].runable + f[g].todo
  <2>1. ctx.top \in 1..made
    BY <1>1 DEF ContextsOK, Names
  <2> QED BY <1>1, <1>2, <2>1, SubGraphProps
<1>5. c \in Contexts /\ Names(c) /\ c.top = ctx.top
  <2>1. g \in GraphOrNone
    BY <1>2 DEF GraphOrNone
  <2> QED BY <1>1, <1>2, <2>1 DEF TypeOK, ContextsOK, Names, Contexts
<1>6. a \in Acts /\ a.g = g /\ a.then = "sub" /\ a.by = by
  BY <1>2, ForProps
<1>7. /\ vcr' \in VCRs /\ vcr'.graph = vcr.graph /\ vcr'.steps = vcr.steps /\ vcr'.mode = vcr.mode
      /\ vcr'.ngraphs = vcr.ngraphs
      /\ bg' \in BGs /\ bg'.graph = bg.graph /\ bg'.tree = bg.tree
      /\ UNCHANGED <<queue, curr, kill, made, stmt, left, owed, early>>
  BY <1>1, OthersProps
<1>8. f[g].runable \in Nat /\ f[g].todo \in Nat
  BY <1>1, <1>2, LikeElement, GraphAssumption DEF GraphStates
<1> HIDE DEF f2, c, a
<1>9. Always'
  <2>1. /\ a.then # "queue" /\ pc[Parent] \in {"jobs", "start", "cleanup", "module"}
        /\ a.by = Parent \/ (a.by \in Procs \ {Parent} /\ act[a.by].g # None)
    BY <1>6
  <2> QED BY <1>2, <1>3, <1>4, <1>5, <1>6, <1>7, <2>1, StartsAlways
<1>10. ASSUME ~early
       PROVE AboutCurr' /\ OneChain' /\ CountOK' /\ TopOK' /\ CallBackOK' /\ NotDeleted' /\ FramesOK'
  <2>1. \A q, r \in Procs : Calls(q, Parent, a) /\ Calls(r, Parent, a) => q = r
    BY <1>6, <1>10 DEF Calls
  <2>2. /\ f2[g].runable >= f2[g].todo + 2 /\ f2[g].runable >= f2[g].todo + 1
    BY <1>4, <1>8, <1>10
  <2>3. /\ a.then # "queue" /\ pc[Parent] # "callback" /\ pc[Parent] \notin Reading
        /\ a.by = Parent \/ (a.by \in Procs \ {Parent} /\ pc[a.by] = "waiting")
    BY <1>6, <1>10 DEF Reading
  <2>4. Starts(Parent, g, f2, c, << >>, a) /\ c.top = g
    BY <1>3, <1>5, <1>10
  <2> QED BY <1>2, <1>4, <1>5, <1>6, <1>7, <1>10, <2>1, <2>2, <2>3, <2>4, StartsExec
<1> QED BY <1>7, <1>9, <1>10 DEF IInv, UntilEarly

(* The parent starts them for another processor.                           *)
LEMMA SubIInv ==
  ASSUME IInv, Sub PROVE IInv'
<1> DEFINE j == TheJob(Parent)
<1>1. /\ TypeOK /\ NamesOK /\ UntilEarly /\ Parent \in Procs
  BY Basics DEF IInv, Always
<1>2. Takes(Parent, "sub") /\ ctx.top # None /\ Others /\ saved' = saved
      /\ SubGraph(j.g, graph, Rest(Parent), j.by)
  BY DEF Sub, Others, qvars
<1>3. /\ Started(j.g) /\ j.g \in 1..made /\ HasFuncs(j.g) /\ j \in Range(jobs) /\ j.kind = "sub"
      /\ Rest(Parent) \in Seq(Jobs) /\ Range(Rest(Parent)) \subseteq Range(jobs)
      /\ pc[Parent] = "jobs"
  BY <1>1, <1>2, TakeProps
<1>4. j.by \in Procs \ {Parent} /\ act[j.by].g # None
  BY <1>1, <1>3, ByTyped DEF NamesOK
<1>5. ASSUME ~early
      PROVE  /\ Rest(Parent) = << >> /\ curr = j.g /\ ctx.top = j.g /\ graph[j.g].runable >= 2
             /\ \A q \in Procs : ~Chain(q)
             /\ \A q, r \in Procs : Caller(q) /\ Caller(r) => q = r
             /\ pc[j.by] = "waiting"
  <2>1. "sub" # "wait"
    OBVIOUS
  <2>2. /\ Rest(Parent) = << >> /\ Queued("sub") /\ j.g = curr /\ ctx.top = curr /\ curr # None
        /\ \A q \in Procs : ~Chain(q)
        /\ \A q, r \in Procs : Caller(q) /\ Caller(r) => q = r
        /\ pc[j.by] = "waiting"
    BY <1>1, <1>2, <1>5, <2>1, TakeExec
  <2> QED BY <1>1, <1>5, <2>2 DEF UntilEarly, CountOK
<1>6. LikeGraph(graph, j.g)
  BY <1>1, LikeSelf
<1> HIDE DEF j
<1> QED BY <1>2, <1>3, <1>4, <1>5, <1>6, SubGraphIInv

(* A macro call is taken: it fails, or its modules are to be started.      *)
LEMMA MacroIInv ==
  ASSUME IInv, NEW p \in Procs, Macro(p) PROVE IInv'
<1> DEFINE g == TheJob(p).g
           r == [graph[g] EXCEPT !.runable = @ + 1]
           f == [graph EXCEPT ![g] = r]
<1>1. /\ TypeOK /\ NamesOK /\ ContextsOK /\ UntilEarly
  BY DEF IInv, Always
<1>2. Takes(p, "macro") /\ Others /\ saved' = saved
  BY DEF Macro, Others, qvars
<1>3. /\ Started(g) /\ g \in 1..made /\ HasFuncs(g)
      /\ Rest(p) \in Seq(Jobs) /\ Range(Rest(p)) \subseteq Range(jobs)
      /\ pc[p] = IF p = Parent THEN "jobs" ELSE "loop"
      /\ p # Parent /\ pc[Parent] = "start" => act[Parent].g # g
  BY <1>2, TakeProps
<1>4. ASSUME ~early
      PROVE  /\ Rest(p) = << >> /\ curr = g /\ ctx.top = g /\ curr # None
             /\ \A q \in Procs : ~Chain(q) /\ ~Caller(q)
             /\ graph[g].runable >= 1 /\ ~graph[g].inMacro
  <2>1. "macro" # "wait"
    OBVIOUS
  <2>2. /\ Rest(p) = << >> /\ Queued("macro") /\ g = curr /\ ctx.top = curr /\ curr # None
        /\ \A q \in Procs : ~Chain(q)
    BY <1>2, <1>4, <2>1, TakeExec
  <2> QED BY <1>1, <1>4, <2>2 DEF UntilEarly, CountOK, Called
<1>5. ctx \in Contexts /\ Names(ctx)
  BY <1>1 DEF TypeOK, ContextsOK
<1>6. /\ vcr' \in VCRs /\ vcr'.graph = vcr.graph /\ vcr'.steps = vcr.steps /\ vcr'.mode = vcr.mode
      /\ vcr'.ngraphs = vcr.ngraphs
      /\ bg' \in BGs /\ bg'.graph = bg.graph /\ bg'.tree = bg.tree
      /\ UNCHANGED <<queue, curr, kill, made, stmt, left, owed, early>>
  BY <1>1, <1>2, OthersProps
<1>7. g \in Graphs /\ g # None /\ made \in Nat /\ Parent \in Procs /\ None \notin Procs
  BY <1>1, <1>3, Basics
<1>8. LikeGraph(graph, g) /\ graph[g] \in GraphStates
  BY <1>1, <1>3, LikeSelf, LikeElement
<1>9. LikeGraph(f, g) /\ f[g].inMacro = graph[g].inMacro /\ f[g].runable = graph[g].runable + 1
      /\ f[g].todo = graph[g].todo
  <2>1. /\ r \in GraphStates /\ r.origin = graph[g].origin /\ r.shape = graph[g].shape
        /\ r.freed = graph[g].freed /\ r.deleted = graph[g].deleted
        /\ r.inMacro = graph[g].inMacro /\ r.todo = graph[g].todo
        /\ r.runable = graph[g].runable + 1
    BY <1>8 DEF GraphStates
  <2> HIDE DEF r, g
  <2>2. LikeGraph(f, g) /\ f[g] = r
    BY <1>1, <1>3, <1>8, <2>1, LikeSet
  <2> QED BY <2>1, <2>2
<1>10. CASE kill
  <2> DEFINE f1 == DecrTop(graph, g, ctx)
             r1 == [f1[g] EXCEPT !.todo = 0]
             f2 == [f1 EXCEPT ![g] = r1]
             a  == For(g, "job", None)
  <2>1. Starts(p, g, f2, ctx, Rest(p), a)
    BY <1>10 DEF Macro
  <2>2. LikeGraph(f1, g) /\ f1[g].inMacro = graph[g].inMacro
    BY <1>1, <1>3, <1>5, <1>8, DecrTopProps
  <2>3. a \in Acts /\ a.g = g /\ a.then = "job"
    BY <1>7, ForProps
  <2> HIDE DEF f1, a, g
  <2>4. f1[g] \in GraphStates /\ MaxModules \in Nat
    BY <1>1, <1>3, <2>2, LikeElement, GraphAssumption
  <2>5. /\ r1 \in GraphStates /\ r1.origin = f1[g].origin /\ r1.shape = f1[g].shape
        /\ r1.freed = f1[g].freed /\ r1.deleted = f1[g].deleted
        /\ r1.inMacro = f1[g].inMacro
    BY <2>4 DEF GraphStates
  <2> HIDE DEF r1
  <2>6. LikeGraph(f2, g) /\ f2[g] = r1
    BY <1>1, <1>3, <2>2, <2>5, LikeSet
  <2> HIDE DEF f2
  <2>7. Always'
    <3>1. /\ a.then # "sub" /\ a.then # "queue"
          /\ p = Parent => pc[Parent] \in {"jobs", "start", "cleanup", "module"}
      BY <1>3, <2>3
    <3> QED BY <1>2, <1>3, <1>5, <1>6, <2>1, <2>3, <2>6, <3>1, StartsAlways
  <2>8. ASSUME ~early
        PROVE AboutCurr' /\ OneChain' /\ CountOK' /\ TopOK' /\ CallBackOK' /\ NotDeleted' /\ FramesOK'
    <3>1. /\ \A q \in Procs : ~Calls(q, p, a)
          /\ ~f2[g].inMacro
      BY <1>4, <2>2, <2>3, <2>5, <2>6, <2>8 DEF Calls
    <3>2. /\ a.then # "sub" /\ a.then # "queue" /\ pc[p] # "callback"
          /\ p = Parent => pc[Parent] \notin Reading
      BY <1>3, <2>3 DEF Reading
    <3>3. Starts(p, g, f2, ctx, << >>, a)
      BY <1>4, <2>1, <2>8
    <3>4. \A q, h \in Procs : Calls(q, p, a) /\ Calls(h, p, a) => q = h
      BY <3>1
    <3> QED BY <1>2, <1>3, <1>4, <1>5, <1>6, <2>3, <2>6, <2>8, <3>1, <3>2, <3>3, <3>4, StartsExec
  <2> QED BY <1>6, <2>7, <2>8 DEF IInv, UntilEarly
<1>11. CASE ~kill /\ p = Parent
  <2>1. ctx.top # None /\ SubGraph(g, f, Rest(p), p)
    BY <1>11 DEF Macro
  <2>2. ASSUME ~early
        PROVE  /\ curr = g /\ ctx.top = g /\ Rest(p) = << >> /\ f[g].runable >= 2
               /\ \A q \in Procs : ~Chain(q)
               /\ \A q, h \in Procs \ {Parent} : Caller(q) /\ Caller(h) => q = h
               /\ \A q \in Procs \ {Parent} : ~Caller(q)
    <3>1. graph[g].runable \in Nat
      BY <1>8 DEF GraphStates
    <3> QED BY <1>4, <1>9, <2>2, <3>1
  <2>3. pc[Parent] = "jobs"
    BY <1>3, <1>11
  <2> HIDE DEF f, g
  <2> QED BY <1>2, <1>3, <1>9, <1>11, <2>1, <2>2, <2>3, SubGraphIInv
<1>12. CASE ~kill /\ p # Parent
  <2> DEFINE a == For(g, "sub", p)
             j == Job("sub", g, Parent, p)
  <2>1. /\ graph' = f /\ act' = [act EXCEPT ![p] = a] /\ jobs' = <<j>> \o Rest(p)
        /\ pc' = [pc EXCEPT ![p] = "waiting"] /\ ctx' = ctx
    BY <1>12 DEF Macro
  <2>2. a \in Acts /\ a.g = g /\ a.then = "sub" /\ a.by = p
    BY <1>7, ForProps
  <2>3. j \in Jobs /\ j.g = g /\ j.by = p /\ j.kind = "sub"
    BY <1>7 DEF Job, Jobs
  <2> HIDE DEF a, j, g, f
  <2>4. jobs' \in Seq(Jobs) /\ Range(jobs') = Range(Rest(p)) \cup {j}
    BY <1>3, <2>1, <2>3, ConsProps
  <2>5. act'[p] = a /\ act' \in [Procs -> Acts] /\ \A q \in Procs \ {p} : act'[q] = act[q]
    BY <1>1, <2>1, <2>2 DEF TypeOK
  <2>6. pc'[p] = "waiting" /\ pc' \in [Procs -> Places] /\ \A q \in Procs \ {p} : pc'[q] = pc[q]
    BY <1>1, <2>1 DEF TypeOK, Places
  <2>7. Always'
    <3>1. WorkedGraphs(g)
      <4>1. kill' \in BOOLEAN /\ owed' \in BOOLEAN /\ early' \in BOOLEAN
        BY <1>1, <1>6 DEF TypeOK
      <4>2. /\ f \in Seq(GraphStates) /\ Len(f) = made
            /\ \A h \in 1..made : /\ f[h].origin = graph[h].origin /\ f[h].shape = graph[h].shape
                                  /\ f[h].freed = graph[h].freed
                                  /\ h # g => f[h].inMacro = graph[h].inMacro
                                  /\ ~HasFuncs(h) => /\ f[h].todo = graph[h].todo
                                                     /\ f[h].inMacro = graph[h].inMacro
        BY <1>9 DEF LikeGraph
      <4>3. f[g].freed = graph[g].freed
        BY <1>3, <4>2
      <4> QED BY <1>6, <2>1, <4>1, <4>2, <4>3 DEF WorkedGraphs
    <3>2. WorkedNames(p, g)
      <4>1. saved' \in [Procs -> Contexts] /\ \A q \in Procs : Names(saved'[q])
        BY <1>1, <1>2 DEF ContextsOK, TypeOK
      <4>2. \A i \in Range(jobs') : i \in Range(jobs) \/ i = j
        BY <1>3, <2>4
      <4> QED BY <1>3, <1>5, <1>7, <1>12, <2>1, <2>2, <2>3, <2>4, <2>5, <4>1, <4>2 DEF WorkedNames
    <3>3. WorkedPlaces(p)
      BY <1>3, <1>7, <1>12, <2>2, <2>5, <2>6 DEF WorkedPlaces
    <3> QED BY <1>3, <3>1, <3>2, <3>3, WorkAlways
  <2>8. ASSUME ~early
        PROVE AboutCurr' /\ OneChain' /\ CountOK' /\ TopOK' /\ CallBackOK' /\ NotDeleted' /\ FramesOK'
    <3>1. AboutCurr /\ OneChain /\ CountOK /\ TopOK /\ CallBackOK
      BY <1>1, <2>8 DEF UntilEarly
    <3>2. Range(jobs') = {j} /\ Len(jobs') = 1
      <4>1. jobs' = <<j>>
        BY <1>4, <2>1, <2>8
      <4> QED BY <4>1, OneJob
    <3>3. \A h \in 1..made : HasFuncs(h)' <=> HasFuncs(h)
      BY <1>9, <2>1 DEF HasFuncs, LikeGraph
    <3>4. \A q \in Procs : (Caller(q)' <=> q = p) /\ ~Chain(q)'
      <4>1. Caller(p)' /\ ~Chain(p)'
        BY <2>6 DEF Caller, Chain
      <4>2. ASSUME NEW q \in Procs \ {p} PROVE ~Caller(q)' /\ ~Chain(q)'
        <5>1. ~Caller(q)'
          BY <1>4, <2>5, <2>6, <2>8 DEF Caller
        <5>2. ASSUME Chain(q)' PROVE FALSE
          <6>1. pc[q] \in {"module", "slaves", "decrement"} /\ act'[q] = act[q]
            BY <2>5, <2>6, <5>2 DEF Chain
          <6>2. act'[q].g \in 1..made
            BY <1>1, <6>1 DEF NamesOK, Busy, HeldBy, Started
          <6>3. HasFuncs(act'[q].g)
            BY <3>3, <5>2, <6>2 DEF Chain
          <6> QED BY <1>4, <2>8, <6>1, <6>3 DEF Chain
        <5> QED BY <5>1, <5>2
      <4> QED BY <4>1, <4>2
    <3>5. AboutCurr'
      <4>1. ASSUME NEW q \in Procs, HeldBy(q)'
            PROVE  act'[q].g = curr \/ (q = Parent /\ pc'[q] = "decrement" /\ ~(HasFuncs(act[q].g))' /\ act'[q].then # "sub")
        <5>1. CASE q = p
          BY <1>4, <2>2, <2>5, <2>8, <5>1
        <5>2. CASE q # p
          <6>1. HeldBy(q) /\ act'[q] = act[q] /\ pc'[q] = pc[q]
            BY <2>5, <2>6, <4>1, <5>2 DEF HeldBy
          <6>2. act'[q].g \in 1..made
            BY <1>1, <6>1 DEF NamesOK, Busy, Started
          <6>3. (HasFuncs(act[q].g))' => HasFuncs(act[q].g)
            BY <3>3, <6>1, <6>2
          <6> QED BY <3>1, <6>1, <6>3 DEF AboutCurr
        <5> QED BY <5>1, <5>2
      <4> QED BY <1>4, <1>6, <2>3, <2>8, <3>2, <4>1 DEF AboutCurr
    <3>6. OneChain'
      <4>1. \A q \in Procs : pc'[q] = "decrement" /\ act'[q].then = "sub" => FALSE
        <5>1. ASSUME NEW q \in Procs, pc'[q] = "decrement", act'[q].then = "sub" PROVE FALSE
          <6>1. q # p /\ pc[q] = "decrement" /\ act[q].then = "sub"
            BY <2>5, <2>6, <5>1
          <6>2. Chain(q)
            BY <1>1, <6>1 DEF Chain, NamesOK
          <6> QED BY <1>4, <2>8, <6>2
        <5> QED BY <5>1
      <4> QED BY <2>3, <2>6, <3>2, <3>4, <4>1 DEF OneChain
    <3>7. CountOK'
      <4>1. ~(Queued("macro"))' /\ ~(Queued("module"))'
        BY <2>3, <3>2 DEF Queued
      <4>2. ~(Ending)'
        BY <3>4 DEF Ending, Chain
      <4>3. ~(InModule)'
        <5>1. ASSUME NEW q \in Procs, pc'[q] = "module" PROVE FALSE
          <6>1. q # p /\ pc[q] = "module"
            BY <2>6, <5>1
          <6>2. Chain(q)
            BY <1>1, <6>1 DEF Chain, NamesOK
          <6> QED BY <1>4, <2>8, <6>2
        <5> QED BY <4>1, <5>1 DEF InModule
      <4>4. f[curr].runable >= 2 /\ ~f[curr].inMacro
        <5>1. graph[g].runable \in Nat
          BY <1>8 DEF GraphStates
        <5> QED BY <1>4, <1>9, <2>8, <5>1
      <4> QED BY <1>6, <2>1, <4>1, <4>2, <4>3, <4>4 DEF CountOK
    <3>8. TopOK'
      <4>1. \A q \in Procs : pc'[q] # "module"
        <5>1. ASSUME NEW q \in Procs, pc'[q] = "module" PROVE FALSE
          <6>1. q # p /\ pc[q] = "module"
            BY <2>6, <5>1
          <6>2. Chain(q)
            BY <1>1, <6>1 DEF Chain, NamesOK
          <6> QED BY <1>4, <2>8, <6>2
        <5> QED BY <5>1
      <4>2. pc'[Parent] \in Reading => saved'[Parent].top = curr
        <5>1. pc'[Parent] = pc[Parent]
          BY <1>7, <1>12, <2>6
        <5> QED BY <1>2, <1>3, <1>4, <1>12, <2>8, <3>1, <5>1 DEF TopOK, Reading
      <4> QED BY <1>4, <1>6, <2>1, <2>8, <4>1, <4>2 DEF TopOK
    <3>9. \A q \in Procs : /\ pc'[q] = "callback" <=> pc[q] = "callback"
                           /\ pc[q] = "callback" => act'[q] = act[q]
      BY <1>3, <1>12, <2>5, <2>6
    <3>10. CallBackOK' /\ NotDeleted' /\ FramesOK'
      BY <1>6, <1>9, <2>1, <2>8, <3>9, SameFrames
    <3> QED BY <3>5, <3>6, <3>7, <3>8, <3>10
  <2> QED BY <1>6, <2>7, <2>8 DEF IInv, UntilEarly
<1> QED BY <1>10, <1>11, <1>12

(* Where only processors that execute nothing go on.                       *)
LEMMA SameExec ==
  ASSUME IInv, ~early, UNCHANGED <<jobs, act, made, saved>>, ctx'.top = ctx.top,
         curr' = curr \/ (curr' = None /\ ~HasFuncs(curr)),
         \A h \in 1..made : /\ graph'[h].shape = graph[h].shape
                            /\ HasFuncs(h) => /\ graph'[h].runable = graph[h].runable
                                              /\ graph'[h].todo = graph[h].todo
                                              /\ graph'[h].inMacro = graph[h].inMacro,
         \A q \in Procs : \A s \in {"waiting", "cleanup", "module", "slaves"} :
                            pc'[q] = s <=> pc[q] = s,
         \A q \in Procs : HasFuncs(act[q].g) => (pc'[q] = "decrement" <=> pc[q] = "decrement"),
         \A q \in Procs : pc'[q] = "decrement" /\ pc[q] # "decrement" => q = Parent /\ pc[q] = "start",
         pc'[Parent] \in Reading => pc[Parent] \in Reading,
         pc[Parent] = "start" => pc'[Parent] = "start" \/ ~HasFuncs(act[Parent].g)
  PROVE  AboutCurr' /\ OneChain' /\ CountOK' /\ TopOK'
<1>1. /\ TypeOK /\ NamesOK /\ PlacesOK /\ StartOK /\ AboutCurr /\ OneChain /\ CountOK /\ TopOK
  BY DEF IInv, Always, UntilEarly
<1>2. \A h \in 1..made : HasFuncs(h)' <=> HasFuncs(h)
  BY DEF HasFuncs
<1>3. /\ Parent \in Procs /\ None \notin Procs /\ made \in Nat /\ None \notin 1..made
      /\ curr # None => curr \in 1..made
  BY <1>1, Basics DEF TypeOK, Pending
<1>4. /\ \A q \in Procs : /\ pc'[q] \in {"waiting", "cleanup", "module", "slaves", "decrement"} =>
                               act[q].g \in 1..made
                          /\ act[q].then = "sub" => act[q].g \in 1..made /\ HasFuncs(act[q].g)
      /\ \A j \in Range(jobs) : j.g \in 1..made /\ HasFuncs(j.g)
  BY <1>1 DEF NamesOK, Busy, HeldBy, Started
<1>5. \A q \in Procs : HeldBy(q)' /\ HasFuncs(act[q].g) => HeldBy(q)
  BY DEF HeldBy
<1>6. \A q \in Procs : (Chain(q)' <=> Chain(q)) /\ (Caller(q)' <=> Caller(q))
  <2>1. ASSUME NEW q \in Procs PROVE Chain(q)' <=> Chain(q)
    <3>1. pc[q] \in {"module", "slaves", "decrement"} => act[q].g \in 1..made
      BY <1>1 DEF NamesOK, Busy, HeldBy, Started
    <3>2. act[q].g \in 1..made => ((HasFuncs(act[q].g))' <=> HasFuncs(act[q].g))
      BY <1>2
    <3>3. HasFuncs(act[q].g) => (pc'[q] \in {"module", "slaves", "decrement"} <=> pc[q] \in {"module", "slaves", "decrement"})
      OBVIOUS
    <3> QED BY <1>4, <3>1, <3>2, <3>3 DEF Chain
  <2>2. ASSUME NEW q \in Procs PROVE Caller(q)' <=> Caller(q)
    BY <1>4 DEF Caller
  <2> QED BY <2>1, <2>2
<1>7. AboutCurr'
  <2>1. \A j \in Range(jobs) : j.g = curr'
    BY <1>1, <1>4 DEF AboutCurr
  <2>2. ASSUME NEW q \in Procs, HeldBy(q)'
        PROVE  act[q].g = curr' \/ (q = Parent /\ pc'[q] = "decrement" /\ ~(HasFuncs(act[q].g))' /\ act[q].then # "sub")
    <3>1. CASE HasFuncs(act[q].g)
      BY <1>1, <1>5, <2>2, <3>1 DEF AboutCurr
    <3>2. CASE ~HasFuncs(act[q].g)
      <4>1. act[q].then # "sub" /\ act[q].g \in 1..made /\ ~(HasFuncs(act[q].g))'
        BY <1>2, <1>4, <2>2, <3>2 DEF HeldBy
      <4>2. pc'[q] = "decrement"
        BY <1>1, <2>2, <3>2 DEF HeldBy, NamesOK
      <4>3. q = Parent
        BY <1>1, <1>3, <3>2, <4>1 DEF NamesOK
      <4> QED BY <4>1, <4>2, <4>3
    <3> QED BY <3>1, <3>2
  <2> QED BY <2>1, <2>2 DEF AboutCurr
<1>8. OneChain'
  <2>1. \A j \in Range(jobs) : j.kind \in {"sub", "wait"} => j.by \in Procs
    BY <1>1, ByTyped
  <2>2. \A q \in Procs : pc'[q] = "decrement" /\ act[q].then = "sub" => act[q].by = q \/ pc'[act[q].by] = "waiting"
    <3>1. \A q \in Procs : act[q].then = "sub" => act[q].by \in Procs
      BY <1>1, ByTyped
    <3> QED BY <1>1, <1>4, <3>1 DEF OneChain
  <2> QED BY <1>1, <1>6, <2>1, <2>2 DEF OneChain
<1>9. CountOK'
  <2> SUFFICES ASSUME curr' # None PROVE CountOK'
    BY DEF CountOK
  <2>1. curr' = curr /\ curr # None /\ curr \in 1..made
    BY <1>3
  <2>2. \A k : Queued(k)' <=> Queued(k)
    BY DEF Queued
  <2>3. (Called' <=> Called) /\ (InModule' <=> InModule)
    BY <1>6, <2>2 DEF Called, InModule
  <2>4. Ending' <=> Ending
    <3>1. \A q \in Procs : pc[q] \in {"slaves", "decrement"} => act[q].g \in 1..made
      BY <1>1 DEF NamesOK, Busy, HeldBy, Started
    <3>2. \A q \in Procs : act[q].g \in 1..made => ((HasFuncs(act[q].g))' <=> HasFuncs(act[q].g))
      BY <1>2
    <3> QED BY <1>4, <3>1, <3>2 DEF Ending
  <2>5. CASE HasFuncs(curr)
    BY <1>1, <2>1, <2>2, <2>3, <2>4, <2>5 DEF CountOK
  <2>6. CASE ~HasFuncs(curr)
    <3>1. ~Queued("macro") /\ ~Queued("sub") /\ ~Queued("module")
      BY <1>1, <1>4, <2>6 DEF Queued, AboutCurr
    <3>2. ~InModule /\ ~Ending
      <4>1. \A q \in Procs : HeldBy(q) => ~HasFuncs(act[q].g)
        BY <1>1, <2>6 DEF AboutCurr
      <4>2. \A q \in Procs : pc[q] # "module"
        BY <1>1, <4>1 DEF HeldBy, NamesOK
      <4> QED BY <3>1, <4>1, <4>2 DEF InModule, Ending, HeldBy
    <3> QED BY <2>2, <2>3, <2>4, <3>1, <3>2 DEF CountOK
  <2> QED BY <2>5, <2>6
<1>10. TopOK'
  <2> SUFFICES ASSUME curr' # None, (HasFuncs(curr))',
                      ~(pc'[Parent] = "start" /\ act'[Parent].g = curr')
               PROVE  /\ ctx'.top = curr'
                      /\ pc'[Parent] \in Reading => saved'[Parent].top = curr'
                      /\ \A q \in Procs : pc'[q] = "module" => saved'[q].top = curr'
    BY DEF TopOK
  <2>1. curr' = curr /\ curr # None /\ curr \in 1..made
    BY <1>3
  <2>2. HasFuncs(curr)
    BY <1>2, <2>1 DEF HasFuncs
  <2>3. ~(pc[Parent] = "start" /\ act[Parent].g = curr)
    BY <2>2
  <2> QED BY <1>1, <2>1, <2>2, <2>3 DEF TopOK
<1> QED BY <1>7, <1>8, <1>9, <1>10

(* The graph that was taken from the queue is started.                     *)
LEMMA QueueGraphIInv ==
  ASSUME IInv, QueueGraph PROVE IInv'
<1> DEFINE g == act[Parent].g
           a == act[Parent]
           c == IF HasFuncs(g) THEN [prog |-> g, inMacro |-> FALSE, top |-> g] ELSE ctx
           f == [graph EXCEPT ![g].runable = IF graph[g].shape = "macro" THEN 1 ELSE @ + graph[g].todo]
           n == IF graph[g].shape = "macro" THEN 1 ELSE graph[g].runable + graph[g].todo
           r == [graph[g] EXCEPT !.runable = n]
<1>1. /\ TypeOK /\ NamesOK /\ ContextsOK /\ StartOK /\ OriginsOK /\ UntilEarly
  BY DEF IInv, Always
<1>2. /\ pc[Parent] = "start"
      /\ UNCHANGED <<queue, curr, kill, made, saved, stmt, left, owed, early>>
      /\ vcr' = [vcr EXCEPT !.change = @ \/ ~HasFuncs(g)]
      /\ bg' = [bg EXCEPT !.change = @ \/ (bg.tree /\ ~HasFuncs(g))]
      /\ IF graph[g].shape = "macro"
         THEN /\ jobs' = Append(jobs, Job("macro", g, None, None))
              /\ graph' = f /\ ctx' = c /\ Continue(Parent, a) /\ act' = act
         ELSE Starts(Parent, g, f, c, jobs, a)
  BY DEF QueueGraph, At, qvars, hist
<1>3. /\ Started(g) /\ g \in 1..made /\ g # None /\ g \in Graphs /\ Parent \in Procs /\ None \notin Procs
      /\ made \in Nat /\ None \notin 1..made
  BY <1>1, <1>2, Basics DEF NamesOK, Busy, Started
<1>4. /\ a \in Acts /\ a.then # "sub" /\ ~graph[g].inMacro /\ (HasFuncs(g) => curr = g)
      /\ \A j \in Range(jobs) : j.g # g
      /\ \A p \in Procs \ {Parent} : act[p].g # g
  BY <1>1, <1>2, <1>3 DEF StartOK, TypeOK
<1>5. /\ vcr' \in VCRs /\ vcr'.graph = vcr.graph /\ vcr'.steps = vcr.steps /\ vcr'.mode = vcr.mode
      /\ vcr'.ngraphs = vcr.ngraphs
      /\ bg' \in BGs /\ bg'.graph = bg.graph /\ bg'.tree = bg.tree
  BY <1>1, <1>2 DEF TypeOK, VCRs, BGs
<1>6. LikeGraph(graph, g) /\ graph[g] \in GraphStates /\ graph[g].todo \in Nat /\ graph[g].runable \in Nat
  BY <1>1, <1>3, LikeSelf, LikeElement, GraphAssumption DEF GraphStates
<1>7. /\ LikeGraph(f, g) /\ f[g].inMacro = graph[g].inMacro /\ f[g].runable = n
      /\ f[g].todo = graph[g].todo /\ \A h \in 1..made : h # g => f[h] = graph[h]
  <2>1. n \in Nat
    BY <1>6
  <2> HIDE DEF n
  <2>2. /\ r \in GraphStates /\ r.origin = graph[g].origin /\ r.shape = graph[g].shape
        /\ r.freed = graph[g].freed /\ r.deleted = graph[g].deleted
        /\ r.inMacro = graph[g].inMacro /\ r.todo = graph[g].todo /\ r.runable = n
    BY <1>6, <2>1 DEF GraphStates
  <2>3. f = [graph EXCEPT ![g] = r]
    BY DEF r, n
  <2> HIDE DEF r, g, f
  <2>4. /\ LikeGraph([graph EXCEPT ![g] = r], g) /\ [graph EXCEPT ![g] = r][g] = r
        /\ \A h \in 1..made : h # g => [graph EXCEPT ![g] = r][h] = graph[h]
    BY <1>1, <1>3, <1>6, <2>2, LikeSet
  <2> QED BY <2>2, <2>3, <2>4
<1>8. c \in Contexts /\ Names(c) /\ (HasFuncs(g) => c.top = g)
  <2>1. CASE HasFuncs(g)
    <3>1. c = [prog |-> g, inMacro |-> FALSE, top |-> g]
      BY <2>1
    <3>2. g \in GraphOrNone
      BY <1>3 DEF GraphOrNone
    <3> HIDE DEF c, g
    <3> QED BY <1>3, <2>1, <3>1, <3>2 DEF Contexts, Names
  <2>2. CASE ~HasFuncs(g)
    BY <1>1, <2>2 DEF TypeOK, ContextsOK
  <2> QED BY <2>1, <2>2
<1>9. pc'[Parent] # "start" => \A p \in Procs : p # Parent => act[Parent].g # act[p].g
  BY <1>4
<1>10. ASSUME ~early, HasFuncs(g)
       PROVE  /\ jobs = << >> /\ curr = g
              /\ \A q \in Procs : ~HeldBy(q) /\ ~Chain(q) /\ ~Caller(q)
  <2>1. AboutCurr /\ curr = g
    BY <1>1, <1>4, <1>10 DEF UntilEarly
  <2>2. jobs = << >>
    <3>1. Len(jobs) \in Nat /\ DOMAIN jobs = 1..Len(jobs) /\ jobs \in Seq(Jobs)
      BY <1>1, LenProperties DEF TypeOK
    <3>2. Len(jobs) >= 1 => jobs[1] \in Range(jobs)
      BY <3>1 DEF Range
    <3>3. Range(jobs) = {}
      BY <1>4, <2>1 DEF AboutCurr
    <3>4. Len(jobs) = 0
      BY <3>1, <3>2, <3>3
    <3> QED BY <3>1, <3>4, EmptySeq
  <2>3. ASSUME NEW q \in Procs PROVE ~HeldBy(q)
    <3>1. CASE q = Parent
      BY <1>2, <3>1 DEF HeldBy
    <3>2. CASE q # Parent
      BY <1>4, <2>1, <3>2 DEF AboutCurr
    <3> QED BY <3>1, <3>2
  <2> QED BY <2>1, <2>2, <2>3 DEF HeldBy, Chain, Caller
<1>11. CASE graph[g].shape = "macro"
  <2> DEFINE j == Job("macro", g, None, None)
  <2>1. HasFuncs(g) /\ n = 1
    BY <1>11 DEF HasFuncs
  <2>2. /\ jobs' = Append(jobs, j) /\ graph' = f /\ ctx' = c /\ Continue(Parent, a) /\ act' = act
    BY <1>2, <1>11
  <2>3. j \in Jobs /\ j.g = g /\ j.kind = "macro"
    BY <1>3 DEF Job, Jobs
  <2> HIDE DEF j, f, c, n
  <2>4. jobs' \in Seq(Jobs) /\ Range(jobs') = Range(jobs) \cup {j}
    BY <1>1, <2>2, <2>3, AppendProps DEF TypeOK
  <2>5. /\ pc'[Parent] \in {"top", "background"} /\ pc' \in [Procs -> Places]
        /\ \A q \in Procs \ {Parent} : pc'[q] = pc[q]
    BY <1>1, <1>3, <1>4, <2>2 DEF TypeOK, Continue, Home, Places
  <2> HIDE DEF a
  <2>6. Always'
    <3>1. WorkedGraphs(g)
      <4>1. kill' \in BOOLEAN /\ owed' \in BOOLEAN /\ early' \in BOOLEAN
        BY <1>1, <1>2 DEF TypeOK
      <4>2. /\ f \in Seq(GraphStates) /\ Len(f) = made
            /\ \A h \in 1..made : /\ f[h].origin = graph[h].origin /\ f[h].shape = graph[h].shape
                                  /\ f[h].freed = graph[h].freed
                                  /\ h # g => f[h].inMacro = graph[h].inMacro
                                  /\ ~HasFuncs(h) => /\ f[h].todo = graph[h].todo
                                                     /\ f[h].inMacro = graph[h].inMacro
        BY <1>7 DEF LikeGraph
      <4>3. f[g].freed = graph[g].freed
        BY <1>3, <4>2
      <4> HIDE DEF g
      <4> QED BY <1>2, <1>5, <2>2, <4>1, <4>2, <4>3 DEF WorkedGraphs
    <3>2. WorkedNames(Parent, g)
      <4>1. saved' \in [Procs -> Contexts] /\ \A q \in Procs : Names(saved'[q])
        BY <1>1, <1>2 DEF ContextsOK, TypeOK
      <4>2. act'[Parent].then # "sub" /\ act' \in [Procs -> Acts]
        BY <1>1, <1>4, <2>2 DEF TypeOK, a
      <4> HIDE DEF g
      <4> QED BY <1>3, <1>8, <2>1, <2>2, <2>3, <2>4, <4>1, <4>2 DEF WorkedNames
    <3>3. WorkedPlaces(Parent)
      BY <1>2, <2>2, <2>5 DEF WorkedPlaces
    <3> HIDE DEF g
    <3> QED BY <1>3, <3>1, <3>2, <3>3, WorkAlways
  <2>7. ASSUME ~early
        PROVE AboutCurr' /\ OneChain' /\ CountOK' /\ TopOK' /\ CallBackOK' /\ NotDeleted' /\ FramesOK'
    <3>1. /\ jobs = << >> /\ curr = g /\ \A q \in Procs : ~HeldBy(q)
      BY <1>10, <2>1, <2>7
    <3>2. Range(jobs') = {j} /\ Len(jobs') = 1
      <4>1. jobs' = <<j>>
        BY <2>2, <3>1
      <4> QED BY <4>1, OneJob
    <3>3. \A q \in Procs : ~HeldBy(q)'
      BY <2>5, <3>1 DEF HeldBy
    <3>4. \A q \in Procs : /\ ~Chain(q)' /\ ~Caller(q)'
                           /\ pc'[q] \notin {"waiting", "cleanup", "module", "slaves", "decrement"}
      BY <3>3 DEF HeldBy, Chain, Caller
    <3>5. AboutCurr'
      BY <1>2, <2>3, <3>1, <3>2, <3>3 DEF AboutCurr
    <3>6. OneChain'
      BY <2>3, <3>2, <3>4 DEF OneChain
    <3>7. CountOK'
      <4>1. ~(Called)' /\ ~(InModule)' /\ ~(Ending)' /\ ~(Queued("sub"))'
        BY <2>3, <3>2, <3>4 DEF Called, InModule, Ending, Queued
      <4>2. graph'[curr].runable = 1 /\ ~graph'[curr].inMacro
        BY <1>4, <1>7, <2>1, <2>2, <3>1
      <4> QED BY <1>2, <4>1, <4>2 DEF CountOK
    <3>8. TopOK'
      <4>1. ctx'.top = curr'
        BY <1>2, <1>8, <2>1, <2>2, <3>1
      <4> QED BY <2>5, <3>4, <4>1 DEF TopOK, Reading
    <3>9. CallBackOK' /\ NotDeleted' /\ FramesOK'
      <4>1. \A q \in Procs : /\ pc'[q] = "callback" <=> pc[q] = "callback"
                             /\ pc[q] = "callback" => act'[q] = act[q]
        BY <1>2, <2>2, <2>5
      <4> HIDE DEF g
      <4> QED BY <1>2, <1>5, <1>7, <2>2, <2>7, <4>1, SameFrames
    <3> QED BY <3>5, <3>6, <3>7, <3>8, <3>9
  <2> QED BY <1>2, <2>6, <2>7 DEF IInv, UntilEarly
<1>12. CASE graph[g].shape # "macro"
  <2>1. Starts(Parent, g, f, c, jobs, a) /\ n = graph[g].runable + graph[g].todo
    BY <1>2, <1>12
  <2>2. a.g = g /\ jobs \in Seq(Jobs)
    BY <1>1 DEF TypeOK
  <2>3. ASSUME ~early, ~HasFuncs(g)
        PROVE  /\ act' = act /\ jobs' = jobs /\ ctx' = ctx /\ pc' = [pc EXCEPT ![Parent] = "decrement"]
               /\ \A h \in 1..made : h # g => graph'[h] = graph[h]
    <3>1. f[g].todo = 0 /\ ~f[g].inMacro /\ f[g].shape = "assign" /\ c = ctx
      BY <1>1, <1>3, <1>7, <2>3 DEF OriginsOK, HasFuncs, LikeGraph
    <3>2. act' = [act EXCEPT ![Parent] = a] /\ Ends(Parent, g, f, jobs) /\ ctx' = ctx
      <4> HIDE DEF f, c, a, g
      <4> QED BY <2>1, <3>1 DEF Starts
    <3>3. act' = act
      BY <1>1, <3>2 DEF TypeOK
    <3>4. graph' = f /\ jobs' = jobs /\ pc' = [pc EXCEPT ![Parent] = "decrement"]
      <4> HIDE DEF f, g
      <4> QED BY <3>1, <3>2 DEF Ends
    <3> QED BY <1>7, <3>2, <3>3, <3>4
  <2> HIDE DEF f, c, n
  <2>4. LikeGraph(graph', g)
    <3> HIDE DEF a, g
    <3> QED BY <1>1, <1>3, <1>7, <1>8, <2>1, StartsOutcome
  <2>5. Always'
    <3> HIDE DEF a, g
    <3> QED BY <1>2, <1>3, <1>4, <1>5, <1>7, <1>8, <2>1, <2>2, StartsAlways
  <2>6. ASSUME ~early, HasFuncs(g)
        PROVE AboutCurr' /\ OneChain' /\ CountOK' /\ TopOK' /\ CallBackOK' /\ NotDeleted' /\ FramesOK'
    <3>1. /\ jobs = << >> /\ curr = g /\ \A q \in Procs : ~Chain(q) /\ ~Caller(q)
      BY <1>10, <2>6
    <3>2. \A q \in Procs : ~Calls(q, Parent, a)
      BY <1>4, <3>1 DEF Calls
    <3>3. Starts(Parent, g, f, c, << >>, a) /\ c.top = g /\ ~f[g].inMacro
      BY <1>4, <1>7, <1>8, <2>1, <2>6, <3>1
    <3>4. pc[Parent] # "callback" /\ pc[Parent] \notin Reading
      BY <1>2 DEF Reading
    <3> HIDE DEF a, g
    <3> QED BY <1>2, <1>3, <1>4, <1>5, <1>7, <1>8, <2>2, <2>6, <3>1, <3>2, <3>3, <3>4, StartsExec
  <2>7. ASSUME ~early, ~HasFuncs(g)
        PROVE AboutCurr' /\ OneChain' /\ CountOK' /\ TopOK' /\ CallBackOK' /\ NotDeleted' /\ FramesOK'
    <3>1. pc'[Parent] = "decrement" /\ \A q \in Procs \ {Parent} : pc'[q] = pc[q]
      BY <1>1, <1>3, <2>3, <2>7 DEF TypeOK
    <3>2. /\ act' = act /\ jobs' = jobs /\ ctx' = ctx
          /\ \A h \in 1..made : h # g => graph'[h] = graph[h]
      BY <2>3, <2>7
    <3>3. \A h \in 1..made : /\ graph'[h].shape = graph[h].shape
                             /\ HasFuncs(h) => /\ graph'[h].runable = graph[h].runable
                                               /\ graph'[h].todo = graph[h].todo
                                               /\ graph'[h].inMacro = graph[h].inMacro
      <4> HIDE DEF g
      <4> QED BY <2>4, <2>7, <3>2 DEF LikeGraph
    <3>4. AboutCurr' /\ OneChain' /\ CountOK' /\ TopOK'
      <4>1. \A q \in Procs : \A s \in {"waiting", "cleanup", "module", "slaves"} : pc'[q] = s <=> pc[q] = s
        BY <1>2, <3>1
      <4>2. \A q \in Procs : HasFuncs(act[q].g) => (pc'[q] = "decrement" <=> pc[q] = "decrement")
        BY <2>7, <3>1
      <4>3. \A q \in Procs : pc'[q] = "decrement" /\ pc[q] # "decrement" => q = Parent /\ pc[q] = "start"
        BY <1>2, <3>1
      <4>4. pc'[Parent] \notin Reading /\ ~HasFuncs(act[Parent].g)
        BY <2>7, <3>1 DEF Reading
      <4> HIDE DEF g, a
      <4> QED BY <1>2, <2>7, <3>2, <3>3, <4>1, <4>2, <4>3, <4>4, SameExec
    <3>5. CallBackOK' /\ NotDeleted' /\ FramesOK'
      <4>1. \A q \in Procs : /\ pc'[q] = "callback" <=> pc[q] = "callback"
                             /\ pc[q] = "callback" => act'[q] = act[q]
        BY <1>2, <3>1, <3>2
      <4> HIDE DEF g
      <4> QED BY <1>2, <1>5, <2>4, <2>7, <4>1, SameFrames
    <3> QED BY <3>4, <3>5
  <2> HIDE DEF g, a
  <2> QED BY <1>2, <2>5, <2>6, <2>7 DEF IInv, UntilEarly
<1> QED BY <1>11, <1>12

(* A macro call drops its extra reference.                                 *)
LEMMA CleanUpIInv ==
  ASSUME IInv, NEW p \in Procs, CleanUp(p) PROVE IInv'
<1> DEFINE g == act[p].g
           f == DecrTop(graph, g, ctx)
           a == For(g, "job", None)
<1>1. /\ TypeOK /\ NamesOK /\ ContextsOK /\ StartOK /\ PlacesOK /\ UntilEarly
  BY DEF IInv, Always
<1>2. /\ pc[p] = "cleanup" /\ Others /\ saved' = saved
      /\ IF f[g].runable = 0 /\ f[g].deleted
         THEN Starts(p, g, f, ctx, jobs, a)
         ELSE /\ graph' = f /\ pc' = [pc EXCEPT ![p] = Home(p)]
              /\ UNCHANGED <<ctx, jobs, act>>
  BY DEF CleanUp, Others, qvars
<1>3. /\ Started(g) /\ HasFuncs(g) /\ g \in 1..made /\ g # None /\ g \in Graphs /\ Parent \in Procs
      /\ None \notin Procs /\ made \in Nat
  BY <1>1, <1>2, Basics DEF NamesOK, Started
<1>4. ctx \in Contexts /\ Names(ctx) /\ jobs \in Seq(Jobs)
  BY <1>1 DEF TypeOK, ContextsOK
<1>5. p # Parent /\ pc[Parent] = "start" => act[Parent].g # g
  BY <1>1 DEF StartOK
<1>6. /\ LikeGraph(f, g) /\ f[g].todo = graph[g].todo /\ f[g].inMacro = graph[g].inMacro
      /\ ctx.top = g => f[g].runable = IF graph[g].runable > 0 THEN graph[g].runable - 1 ELSE 0
  <2>1. LikeGraph(graph, g)
    BY <1>1, LikeSelf
  <2> HIDE DEF g
  <2> QED BY <1>1, <1>3, <1>4, <2>1, DecrTopProps
<1>7. /\ vcr' \in VCRs /\ vcr'.graph = vcr.graph /\ vcr'.steps = vcr.steps /\ vcr'.mode = vcr.mode
      /\ vcr'.ngraphs = vcr.ngraphs
      /\ bg' \in BGs /\ bg'.graph = bg.graph /\ bg'.tree = bg.tree
      /\ UNCHANGED <<queue, curr, kill, made, stmt, left, owed, early>>
  BY <1>1, <1>2, OthersProps
<1>8. a \in Acts /\ a.g = g /\ a.then = "job"
  BY <1>3, ForProps
<1> HIDE DEF f, a
<1>9. CASE f[g].runable = 0 /\ f[g].deleted
  <2>1. Starts(p, g, f, ctx, jobs, a)
    BY <1>2, <1>9
  <2>2. early
    <3>1. f[g].deleted = graph[g].deleted
      <4> HIDE DEF g
      <4> QED BY <1>3, <1>6 DEF LikeGraph
    <3> HIDE DEF g
    <3> QED BY <1>1, <1>3, <1>9, <3>1 DEF UntilEarly, NotDeleted
  <2>3. Always'
    <3>1. /\ a.then # "sub" /\ a.then # "queue"
          /\ p = Parent => pc[Parent] \in {"jobs", "start", "cleanup", "module"}
      BY <1>2, <1>8
    <3> HIDE DEF g
    <3> QED BY <1>2, <1>3, <1>4, <1>5, <1>6, <1>7, <1>8, <2>1, <3>1, StartsAlways
  <2> QED BY <1>7, <2>2, <2>3 DEF IInv, UntilEarly
<1>10. CASE ~(f[g].runable = 0 /\ f[g].deleted)
  <2>1. graph' = f /\ pc' = [pc EXCEPT ![p] = Home(p)] /\ UNCHANGED <<ctx, jobs, act>>
    BY <1>2, <1>10
  <2>2. /\ pc'[p] = Home(p) /\ pc' \in [Procs -> Places] /\ \A q \in Procs \ {p} : pc'[q] = pc[q]
        /\ Home(p) = IF p = Parent THEN "top" ELSE "loop"
    BY <1>1, <2>1 DEF TypeOK, Home, Places
  <2>3. Always'
    <3>1. WorkedGraphs(g)
      <4>1. kill' \in BOOLEAN /\ owed' \in BOOLEAN /\ early' \in BOOLEAN
        BY <1>1, <1>7 DEF TypeOK
      <4>2. /\ f \in Seq(GraphStates) /\ Len(f) = made
            /\ \A h \in 1..made : /\ f[h].origin = graph[h].origin /\ f[h].shape = graph[h].shape
                                  /\ f[h].freed = graph[h].freed
                                  /\ h # g => f[h].inMacro = graph[h].inMacro
                                  /\ ~HasFuncs(h) => /\ f[h].todo = graph[h].todo
                                                     /\ f[h].inMacro = graph[h].inMacro
        BY <1>6 DEF LikeGraph
      <4>3. f[g].freed = graph[g].freed
        BY <1>3, <4>2
      <4> HIDE DEF g
      <4> QED BY <1>7, <2>1, <4>1, <4>2, <4>3 DEF WorkedGraphs
    <3>2. WorkedNames(p, g)
      <4>1. saved' \in [Procs -> Contexts] /\ \A q \in Procs : Names(saved'[q])
        BY <1>1, <1>2 DEF ContextsOK, TypeOK
      <4>2. act[p].then = "sub" => /\ act[p].by \in Procs /\ act[act[p].by].g # None
                                   /\ act[p].g # None /\ HasFuncs(act[p].g)
                                   /\ p # Parent => act[p].by = p
        BY <1>1, ByTyped DEF NamesOK
      <4>4. p # Parent => act[p].then # "queue"
        BY <1>1, ByTyped DEF NamesOK
      <4>3. act' \in [Procs -> Acts]
        BY <1>1, <2>1 DEF TypeOK
      <4> HIDE DEF g
      <4> QED BY <1>3, <1>4, <2>1, <4>1, <4>2, <4>3, <4>4 DEF WorkedNames
    <3>3. WorkedPlaces(p)
      BY <1>2, <2>1, <2>2 DEF WorkedPlaces
    <3> HIDE DEF g
    <3> QED BY <1>3, <1>5, <3>1, <3>2, <3>3, WorkAlways
  <2>4. ASSUME ~early
        PROVE AboutCurr' /\ OneChain' /\ CountOK' /\ TopOK' /\ CallBackOK' /\ NotDeleted' /\ FramesOK'
    <3>1. AboutCurr /\ OneChain /\ CountOK /\ TopOK
      BY <1>1, <2>4 DEF UntilEarly
    <3>2. curr = g /\ curr # None
      BY <1>2, <1>3, <3>1 DEF AboutCurr, HeldBy
    <3>3. ctx.top = g
      BY <1>2, <1>3, <1>5, <3>1, <3>2 DEF TopOK
    <3>4. Caller(p) /\ Called
      BY <1>2 DEF Caller, Called
    <3>5. \A q \in Procs : q # p => ~Caller(q)
      BY <3>1, <3>4 DEF OneChain
    <3>6. \A q \in Procs : pc'[q] \in {"waiting", "cleanup", "module", "slaves", "decrement", "callback"} =>
                             q # p /\ pc'[q] = pc[q]
      BY <2>2
    <3>7. \A q \in Procs : \A s \in {"module", "slaves", "decrement", "callback", "waiting"} : pc'[q] = s <=> pc[q] = s
      BY <1>2, <2>2
    <3>8. \A h \in 1..made : HasFuncs(h)' <=> HasFuncs(h)
      BY <1>6, <2>1 DEF HasFuncs, LikeGraph
    <3>9. \A q \in Procs : pc[q] \in {"module", "slaves", "decrement"} => 
                             act[q].g \in 1..made /\ (HasFuncs(act[q].g)' <=> HasFuncs(act[q].g))
      <4>1. \A q \in Procs : pc[q] \in {"module", "slaves", "decrement"} => act[q].g \in 1..made
        BY <1>1 DEF NamesOK, Busy, HeldBy, Started
      <4>2. \A q \in Procs : act[q].g \in 1..made => (HasFuncs(act[q].g)' <=> HasFuncs(act[q].g))
        BY <2>1, <3>8
      <4> QED BY <4>1, <4>2
    <3>10. \A q \in Procs : (Chain(q)' <=> Chain(q)) /\ ~Caller(q)'
      <4>1. ASSUME NEW q \in Procs PROVE Chain(q)' <=> Chain(q)
        BY <2>1, <3>7, <3>9 DEF Chain
      <4>2. ASSUME NEW q \in Procs PROVE ~Caller(q)'
        BY <2>1, <3>5, <3>6 DEF Caller
      <4> QED BY <4>1, <4>2
    <3>11. AboutCurr'
      <4>1. ASSUME NEW q \in Procs, HeldBy(q)'
            PROVE  act[q].g = curr \/ (q = Parent /\ pc'[q] = "decrement" /\ ~(HasFuncs(act[q].g))' /\ act[q].then # "sub")
        <5>1. HeldBy(q) /\ pc'[q] = pc[q]
          BY <3>6, <4>1 DEF HeldBy
        <5> QED BY <3>1, <3>9, <5>1 DEF AboutCurr
      <4> QED BY <1>7, <2>1, <3>1, <4>1 DEF AboutCurr
    <3>12. OneChain'
      <4>1. \A j \in Range(jobs) : j.kind \in {"sub", "wait"} => j.by \in Procs
        BY <1>1, ByTyped
      <4>2. \A q \in Procs : act[q].then = "sub" => act[q].by \in Procs
        BY <1>1, ByTyped
      <4> QED BY <2>1, <3>1, <3>7, <3>10, <4>1, <4>2 DEF OneChain
    <3>13. CountOK'
      <4>1. ~Queued("macro") /\ ~Queued("sub")
        <5>1. ASSUME NEW j \in Range(jobs), j.kind = "sub" PROVE FALSE
          <6>1. pc[j.by] = "waiting" /\ j.by \in Procs
            BY <1>1, <3>1, <5>1, ByTyped DEF OneChain
          <6> QED BY <1>2, <3>5, <6>1 DEF Caller
        <5> QED BY <3>1, <3>2, <3>4, <5>1 DEF CountOK, Queued
      <4>2. \A k : Queued(k)' <=> Queued(k)
        BY <2>1 DEF Queued
      <4>3. ~(Called)' /\ (InModule' <=> InModule)
        BY <3>7, <3>10, <4>2 DEF Called, InModule
      <4>4. Ending' <=> Ending
        BY <2>1, <3>7, <3>9 DEF Ending
      <4>5. graph[g].runable \in Nat /\ graph[g].todo \in Nat
        BY <1>1, <1>3, Basics, GraphAssumption DEF GraphStates
      <4>6. InModule /\ f[g].inMacro => f[g].runable >= f[g].todo + 2
        <5>1. ASSUME InModule, f[g].inMacro PROVE f[g].runable >= f[g].todo + 2
          <6>1. graph[g].runable >= graph[g].todo + 3
            BY <1>6, <3>1, <3>2, <3>4, <5>1 DEF CountOK
          <6>2. f[g].runable = graph[g].runable - 1
            BY <1>6, <3>3, <4>5, <6>1
          <6> QED BY <1>6, <4>5, <6>1, <6>2
        <5> QED BY <5>1
      <4>7. Ending => ~f[g].inMacro
        BY <1>6, <3>1, <3>2 DEF CountOK
      <4> HIDE DEF g
      <4> QED BY <1>7, <2>1, <3>2, <4>1, <4>2, <4>3, <4>4, <4>6, <4>7 DEF CountOK
    <3>14. TopOK'
      <4>1. pc'[Parent] \in Reading => pc[Parent] \in Reading
        BY <1>3, <2>2 DEF Reading
      <4>2. ~(pc[Parent] = "start" /\ act[Parent].g = curr)
        BY <1>2, <1>5, <3>2
      <4> QED BY <1>2, <1>3, <1>7, <2>1, <3>1, <3>2, <3>7, <4>1, <4>2 DEF TopOK
    <3>15. CallBackOK' /\ NotDeleted' /\ FramesOK'
      <4>1. \A q \in Procs : /\ pc'[q] = "callback" <=> pc[q] = "callback"
                             /\ pc[q] = "callback" => act'[q] = act[q]
        BY <2>1, <3>7
      <4> HIDE DEF g
      <4> QED BY <1>6, <1>7, <2>1, <2>4, <4>1, SameFrames
    <3> QED BY <3>11, <3>12, <3>13, <3>14, <3>15
  <2> QED BY <1>7, <2>3, <2>4 DEF IInv, UntilEarly
<1> QED BY <1>9, <1>10

(* The parent has waited for the slaves: the graph may be ended.           *)
LEMMA WaitIInv ==
  ASSUME IInv, Wait PROVE IInv'
<1> DEFINE j == TheJob(Parent)
           q == j.by
           js == Rest(Parent)
<1>1. /\ TypeOK /\ NamesOK /\ ContextsOK /\ PlacesOK /\ UntilEarly /\ Parent \in Procs /\ made \in Nat
      /\ None \notin Procs
  BY Basics DEF IInv, Always
<1>2. /\ Takes(Parent, "wait") /\ Others /\ saved' = saved
      /\ pc' = [pc EXCEPT ![q] = "decrement", ![Parent] = "top"]
      /\ jobs' = js /\ UNCHANGED <<ctx, graph, act>>
  BY DEF Wait, Others, qvars
<1>3. /\ Started(j.g) /\ j.g \in 1..made /\ HasFuncs(j.g) /\ j \in Range(jobs) /\ j.kind = "wait"
      /\ js \in Seq(Jobs) /\ Range(js) \subseteq Range(jobs) /\ Len(js) = Len(jobs) - 1
      /\ Len(jobs) >= 1 /\ pc[Parent] = "jobs"
  BY <1>1, <1>2, TakeProps
<1>4. q \in Procs \ {Parent} /\ act[q].g # None
  BY <1>1, <1>3, ByTyped DEF NamesOK
<1> HIDE DEF js, q
<1>5. /\ vcr' \in VCRs /\ vcr'.graph = vcr.graph /\ vcr'.steps = vcr.steps /\ vcr'.mode = vcr.mode
      /\ vcr'.ngraphs = vcr.ngraphs
      /\ bg' \in BGs /\ bg'.graph = bg.graph /\ bg'.tree = bg.tree
      /\ UNCHANGED <<queue, curr, kill, made, stmt, left, owed, early>>
  BY <1>1, <1>2, OthersProps
<1>6. /\ pc'[q] = "decrement" /\ pc'[Parent] = "top" /\ pc' \in [Procs -> Places]
      /\ \A r \in Procs \ {q, Parent} : pc'[r] = pc[r]
  BY <1>1, <1>2, <1>4 DEF TypeOK, Places
<1>7. ASSUME ~early PROVE pc[q] = "slaves" /\ act[q].then # "sub"
  BY <1>1, <1>3, <1>4, <1>7 DEF UntilEarly, OneChain, PlacesOK, q
<1>8. LikeGraph(graph', j.g)
  <2>1. LikeGraph(graph, j.g)
    BY <1>1, LikeSelf
  <2> HIDE DEF j
  <2> QED BY <1>2, <2>1
<1>9. Always'
  <2> DEFINE g == j.g
  <2> HIDE DEF g
  <2>1. WorkedGraphs(g)
    <3>1. kill' \in BOOLEAN /\ owed' \in BOOLEAN /\ early' \in BOOLEAN /\ early' = early
      BY <1>1, <1>5 DEF TypeOK
    <3>2. graph' \in Seq(GraphStates) /\ Len(graph') = made /\ graph' = graph
      BY <1>1, <1>2 DEF TypeOK
    <3> QED BY <1>5, <3>1, <3>2 DEF WorkedGraphs
  <2>2. WorkedNames(Parent, g)
    <3>1. saved' \in [Procs -> Contexts] /\ \A r \in Procs : Names(saved'[r])
      BY <1>1, <1>2 DEF ContextsOK, TypeOK
    <3>2. act[Parent].then = "sub" => /\ act[Parent].by \in Procs /\ act[act[Parent].by].g # None
                                      /\ act[Parent].g # None /\ HasFuncs(act[Parent].g)
      BY <1>1, ByTyped DEF NamesOK
    <3>3. act' \in [Procs -> Acts] /\ ctx' \in Contexts /\ Names(ctx')
      BY <1>1, <1>2 DEF TypeOK, ContextsOK
    <3> QED BY <1>2, <1>3, <3>1, <3>2, <3>3 DEF WorkedNames
  <2>3. WorkedPlaces(Parent)
    BY <1>2, <1>3, <1>4, <1>5, <1>6, <1>7 DEF WorkedPlaces
  <2>4. Started(g)
    BY <1>3 DEF g
  <2> QED BY <1>1, <2>1, <2>2, <2>3, <2>4, WorkAlways
<1>10. ASSUME ~early
       PROVE AboutCurr' /\ OneChain' /\ CountOK' /\ TopOK' /\ CallBackOK' /\ NotDeleted' /\ FramesOK'
  <2>1. AboutCurr /\ OneChain /\ CountOK /\ TopOK /\ pc[q] = "slaves" /\ act[q].then # "sub"
    BY <1>1, <1>7, <1>10 DEF UntilEarly
  <2>2. curr # None /\ act[q].g = curr
    BY <1>4, <2>1 DEF AboutCurr, HeldBy
  <2>3. jobs' = << >> /\ Range(jobs') = {} /\ Len(jobs') = 0
    <3>1. Len(jobs) \in Nat
      BY <1>1, LenProperties DEF TypeOK
    <3>2. Len(js) = 0
      BY <1>3, <2>1, <3>1 DEF OneChain
    <3>3. js = << >>
      BY <1>3, <3>2, EmptySeq
    <3> QED BY <1>2, <3>2, <3>3 DEF Range
  <2>4. \A r \in Procs : /\ pc'[r] \in {"slaves", "decrement"} <=> pc[r] \in {"slaves", "decrement"}
                         /\ pc'[r] = "decrement" => r = q \/ pc[r] = "decrement"
                         /\ \A s \in {"waiting", "cleanup", "module", "callback"} : pc'[r] = s <=> pc[r] = s
    BY <1>3, <1>4, <1>6, <2>1
  <2>5. \A r \in Procs : (Chain(r)' <=> Chain(r)) /\ (Caller(r)' <=> Caller(r)) /\ (HeldBy(r)' <=> HeldBy(r))
    <3>1. ASSUME NEW r \in Procs PROVE Chain(r)' <=> Chain(r)
      BY <1>2, <2>4 DEF Chain, HasFuncs
    <3>2. ASSUME NEW r \in Procs PROVE Caller(r)' <=> Caller(r)
      BY <1>2, <1>3, <1>4, <1>6, <2>1, <2>4 DEF Caller
    <3>3. ASSUME NEW r \in Procs PROVE HeldBy(r)' <=> HeldBy(r)
      BY <2>4 DEF HeldBy
    <3> QED BY <3>1, <3>2, <3>3
  <2>6. AboutCurr'
    <3>1. ASSUME NEW r \in Procs, HeldBy(r)' PROVE act[r].g = curr
      BY <1>3, <2>1, <2>5, <3>1 DEF AboutCurr
    <3> QED BY <1>2, <1>5, <2>3, <3>1 DEF AboutCurr
  <2>7. OneChain'
    <3>1. ASSUME NEW r \in Procs, pc'[r] = "decrement", act[r].then = "sub"
          PROVE  act[r].by = r \/ pc'[act[r].by] = "waiting"
      <4>1. pc[r] = "decrement" /\ act[r].by \in Procs
        BY <1>1, <2>1, <2>4, <3>1, ByTyped
      <4> QED BY <2>1, <2>4, <3>1, <4>1 DEF OneChain
    <3>2. act' = act
      BY <1>2
    <3>3. /\ \A r, t \in Procs : Chain(r)' /\ Chain(t)' => r = t
          /\ \A r, t \in Procs : Caller(r)' /\ Caller(t)' => r = t
      BY <2>1, <2>5 DEF OneChain
    <3> QED BY <2>3, <3>1, <3>2, <3>3 DEF OneChain
  <2>8. CountOK'
    <3>1. \A k : ~(Queued(k))'
      BY <2>3 DEF Queued
    <3>2. (Called' <=> Called) /\ (Ending' <=> Ending) /\ (InModule' => InModule)
      BY <1>2, <2>4, <2>5, <3>1 DEF Called, Ending, InModule, HasFuncs
    <3> QED BY <1>2, <1>5, <2>1, <2>2, <3>1, <3>2 DEF CountOK
  <2>9. TopOK'
    BY <1>2, <1>3, <1>5, <1>6, <2>1, <2>4 DEF TopOK, Reading, HasFuncs
  <2>10. CallBackOK' /\ NotDeleted' /\ FramesOK'
    <3>1. \A r \in Procs : /\ pc'[r] = "callback" <=> pc[r] = "callback"
                           /\ pc[r] = "callback" => act'[r] = act[r]
      BY <1>2, <2>4
    <3> HIDE DEF j
    <3> QED BY <1>5, <1>8, <1>10, <3>1, SameFrames
  <2> QED BY <2>6, <2>7, <2>8, <2>9, <2>10
<1> QED BY <1>5, <1>9, <1>10 DEF IInv, UntilEarly

(* Where a processor goes when it is done.                                 *)
LEMMA ContinueProps ==
  ASSUME IInv, NEW p \in Procs, Continue(p, act[p])
  PROVE  /\ pc' \in [Procs -> Places]
         /\ p = Parent /\ ~(act[p].then = "sub" /\ act[p].by = p) => pc'[p] \in {"top", "background"}
         /\ p # Parent /\ act[p].then # "sub" => pc'[p] = "loop"
         /\ act[p].then = "sub" /\ act[p].by = p => pc'[p] = "cleanup"
         /\ \A q \in Procs \ {p} : IF act[p].then = "sub" /\ act[p].by = q
                                   THEN /\ p = Parent /\ pc'[q] = "cleanup"
                                        /\ act[q].g # None /\ HasFuncs(act[q].g)
                                   ELSE pc'[q] = pc[q]
<1> DEFINE a == act[p]
<1>1. TypeOK /\ NamesOK /\ PlacesOK /\ pc \in [Procs -> Places] /\ Parent \in Procs
  BY Basics DEF IInv, Always, TypeOK
<1>2. /\ a.then = "sub" => a.by \in Procs /\ act[a.by].g # None /\ (p # Parent => a.by = p)
      /\ p # Parent => a.then # "queue"
  BY <1>1, ByTyped DEF NamesOK
<1> HIDE DEF a
<1>3. \A q \in Procs : pc'[q] = IF a.then = "sub" /\ q = a.by THEN "cleanup"
                                ELSE IF q # p THEN pc[q]
                                ELSE IF a.then # "queue" THEN Home(p)
                                ELSE IF stmt # None THEN "background" ELSE "top"
  BY <1>1, <1>2 DEF Continue, a
<1>4. \A q \in Procs : \/ pc'[q] = "cleanup" /\ a.then = "sub" /\ q = a.by
                       \/ q = p /\ p = Parent /\ pc'[q] \in {"background", "top"} /\ ~(a.then = "sub" /\ q = a.by)
                       \/ q = p /\ p # Parent /\ pc'[q] = "loop" /\ ~(a.then = "sub" /\ q = a.by)
                       \/ q # p /\ pc'[q] = pc[q] /\ ~(a.then = "sub" /\ q = a.by)
  BY <1>2, <1>3 DEF Home
<1>5. pc' \in [Procs -> Places]
  <2>1. \A q \in Procs : pc'[q] \in Places
    BY <1>1, <1>4 DEF Places
  <2>2. pc' \in [Procs -> {pc'[q] : q \in Procs}]
    BY <1>1 DEF Continue
  <2> QED BY <2>1, <2>2
<1>6. \A q \in Procs \ {p} : a.then = "sub" /\ a.by = q =>
                               p = Parent /\ act[q].g # None /\ HasFuncs(act[q].g)
  BY <1>1, <1>2 DEF NamesOK
<1> QED BY <1>1, <1>4, <1>5, <1>6 DEF a

(* A frame that has ended is called back.                                  *)
LEMMA CallBackIInv ==
  ASSUME IInv, NEW p \in Procs, CallBack(p) PROVE IInv'
<1> DEFINE g == act[p].g
<1>1. /\ TypeOK /\ NamesOK /\ ContextsOK /\ PlacesOK /\ StartOK /\ UntilEarly /\ Parent \in Procs
      /\ made \in Nat /\ None \notin Procs /\ DOMAIN graph = 1..made
  BY Basics DEF IInv, Always
<1>2. /\ pc[p] = "callback" /\ vcr' = [vcr EXCEPT !.ngraphs = @ - 1] /\ Continue(p, act[p])
      /\ owed' \in BOOLEAN
      /\ UNCHANGED <<queue, curr, kill, ctx, graph, made, bg, jobs, act, saved, stmt, left, early>>
  BY <1>1 DEF CallBack, qvars, TypeOK
<1>3. /\ Started(g) /\ g \in 1..made /\ g # None /\ (p # Parent => HasFuncs(g))
      /\ p # Parent /\ pc[Parent] = "start" => act[Parent].g # g
  BY <1>1, <1>2 DEF NamesOK, Busy, Started, StartOK
<1>4. /\ vcr' \in VCRs /\ vcr'.graph = vcr.graph /\ vcr'.steps = vcr.steps /\ vcr'.mode = vcr.mode
      /\ vcr'.ngraphs = vcr.ngraphs - 1
  <2>1. vcr \in VCRs
    BY <1>1 DEF TypeOK, VCRs
  <2>2. vcr.ngraphs - 1 \in Int
    BY <2>1 DEF VCRs
  <2>3. vcr' = [vcr EXCEPT !.ngraphs = vcr.ngraphs - 1]
    BY <1>2
  <2> QED BY <2>1, <2>2, <2>3 DEF VCRs
<1>5. Always'
  <2> HIDE DEF g
  <2>1. WorkedGraphs(g)
    <3>1. kill' \in BOOLEAN /\ early' \in BOOLEAN /\ early' = early
      BY <1>1, <1>2 DEF TypeOK
    <3>2. graph' \in Seq(GraphStates) /\ Len(graph') = made /\ graph' = graph /\ bg' \in BGs /\ bg' = bg
      BY <1>1, <1>2 DEF TypeOK, BGs
    <3> QED BY <1>2, <1>4, <3>1, <3>2 DEF WorkedGraphs
  <2>2. WorkedNames(p, g)
    <3>1. saved' \in [Procs -> Contexts] /\ \A r \in Procs : Names(saved'[r])
      BY <1>1, <1>2 DEF ContextsOK, TypeOK
    <3>2. act[p].then = "sub" => /\ act[p].by \in Procs /\ act[act[p].by].g # None
                                 /\ act[p].g # None /\ HasFuncs(act[p].g)
                                 /\ p # Parent => act[p].by = p
      BY <1>1, ByTyped DEF NamesOK
    <3>3. p # Parent => act[p].then # "queue"
      BY <1>1 DEF NamesOK
    <3>4. act' \in [Procs -> Acts] /\ ctx' \in Contexts /\ Names(ctx') /\ jobs' \in Seq(Jobs)
      BY <1>1, <1>2 DEF TypeOK, ContextsOK
    <3> QED BY <1>2, <1>3, <3>1, <3>2, <3>3, <3>4 DEF WorkedNames
  <2>3. WorkedPlaces(p)
    <3>1. \/ p = Parent /\ pc'[p] \in {"top", "background"}
          \/ p # Parent /\ pc'[p] = "loop"
          \/ pc'[p] = "cleanup" /\ act[p].g # None /\ HasFuncs(act[p].g)
      BY <1>1, <1>2, ContinueProps DEF NamesOK
    <3>2. /\ pc' \in [Procs -> Places]
          /\ \A q \in Procs \ {p} : \/ /\ p = Parent /\ pc'[q] = "cleanup"
                                       /\ act[q].g # None /\ HasFuncs(act[q].g)
                                    \/ pc'[q] = pc[q]
      BY <1>2, ContinueProps
    <3> QED BY <1>2, <3>1, <3>2 DEF WorkedPlaces
  <2> QED BY <1>3, <2>1, <2>2, <2>3, WorkAlways
<1>6. ASSUME ~early
      PROVE AboutCurr' /\ OneChain' /\ CountOK' /\ TopOK' /\ CallBackOK' /\ NotDeleted' /\ FramesOK'
  <2>1. CallBackOK /\ NotDeleted /\ FramesOK
    BY <1>1, <1>6 DEF UntilEarly
  <2>2. act[p].then # "sub" /\ graph[g].freed /\ graph[g].origin = "vcr"
    BY <1>2, <2>1 DEF CallBackOK
  <2>3. pc'[p] \in {"top", "background", "loop"} /\ \A q \in Procs \ {p} : pc'[q] = pc[q]
    BY <1>2, <2>2, ContinueProps
  <2>4. AboutCurr' /\ OneChain' /\ CountOK' /\ TopOK'
    <3>1. \A q \in Procs : \A s \in {"waiting", "cleanup", "module", "slaves", "decrement"} : pc'[q] = s <=> pc[q] = s
      BY <1>2, <2>3
    <3>2. /\ pc'[Parent] \in Reading => pc[Parent] \in Reading
          /\ pc[Parent] = "start" => pc'[Parent] = "start"
      BY <1>1, <1>2, <2>3 DEF Reading
    <3> QED BY <1>2, <1>6, <3>1, <3>2, SameExec
  <2>5. CallBackOK'
    BY <1>2, <2>1, <2>3 DEF CallBackOK
  <2>6. NotDeleted'
    BY <1>2, <2>1 DEF NotDeleted
  <2>7. g \in Frames
    BY <1>2, <1>3, <2>2 DEF Frames
  <2>8. g \notin Range(queue) /\ curr # g
    BY <1>1, <1>3, <2>2 DEF TypeOK, Pending
  <2>9. \A q \in Procs : pc[q] = "callback" /\ act[q].g = g => q = p
    BY <1>2, <2>1 DEF CallBackOK
  <2>10. \A h : h \in Frames' <=> h \in Frames \ {g}
    <3>1. \A h : h # g => ((\E q \in Procs : pc'[q] = "callback" /\ act[q].g = h)
                           <=> (\E q \in Procs : pc[q] = "callback" /\ act[q].g = h))
      BY <1>2, <2>3
    <3>2. \A q \in Procs : pc'[q] = "callback" => act[q].g # g
      BY <2>3, <2>9
    <3> HIDE DEF g
    <3> QED BY <1>2, <2>8, <3>1, <3>2 DEF Frames
  <2> HIDE DEF g
  <2>11. Frames' = Frames \ {g}
    BY <2>10
  <2>12. Cardinality(Frames') = Cardinality(Frames) - 1
    BY <1>1, <2>7, <2>11, FramesFinite, FS_RemoveElement
  <2>13. FramesOK'
    BY <1>4, <2>1, <2>12 DEF FramesOK
  <2> QED BY <2>4, <2>5, <2>6, <2>13
<1> QED BY <1>2, <1>5, <1>6 DEF IInv, UntilEarly

(* A graph is ended: it leaves its slot and is deleted unless counted.     *)
LEMMA DecrementIInv ==
  ASSUME IInv, NEW p \in Procs, Decrement(p) PROVE IInv'
<1> DEFINE g == act[p].g
           count == graph[g].runable > 0
           r == IF count THEN [graph[g] EXCEPT !.deleted = TRUE]
                ELSE [graph[g] EXCEPT !.complete = TRUE, !.freed = TRUE]
<1>1. /\ TypeOK /\ NamesOK /\ ContextsOK /\ PlacesOK /\ StartOK /\ OriginsOK /\ UntilEarly
      /\ Parent \in Procs /\ made \in Nat /\ None \notin Procs /\ DOMAIN graph = 1..made
      /\ None \notin 1..made
  BY Basics DEF IInv, Always
<1>2. /\ pc[p] = "decrement" /\ ~graph[g].freed
      /\ UNCHANGED <<queue, made, vcr, bg, jobs, act, saved, stmt, left, owed>>
      /\ curr' = IF curr = g THEN None ELSE curr
      /\ IF graph[g].origin = "vcr" THEN pc' = [pc EXCEPT ![p] = "callback"] ELSE Continue(p, act[p])
  BY DEF Decrement
<1>3. IF count
      THEN graph' = [graph EXCEPT ![g].deleted = TRUE] /\ early' = TRUE /\ UNCHANGED <<ctx, kill>>
      ELSE /\ graph' = [graph EXCEPT ![g].complete = TRUE, ![g].freed = TRUE]
           /\ ctx' = IF ctx.prog = g /\ ~ctx.inMacro THEN NoCtx ELSE ctx
           /\ kill' = (kill /\ ~(curr = g /\ queue = << >>))
           /\ UNCHANGED early
  BY DEF Decrement
<1>4. /\ Started(g) /\ g \in 1..made /\ g # None /\ (p # Parent => HasFuncs(g))
      /\ p # Parent /\ pc[Parent] = "start" => act[Parent].g # g
  BY <1>1, <1>2 DEF NamesOK, Busy, HeldBy, Started, StartOK
<1>5. graph[g] \in GraphStates /\ graph[g].runable \in Nat
  BY <1>1, <1>4, Basics DEF GraphStates
<1>6. /\ r \in GraphStates /\ r.origin = graph[g].origin /\ r.shape = graph[g].shape
      /\ r.inMacro = graph[g].inMacro /\ r.todo = graph[g].todo /\ r.runable = graph[g].runable
      /\ ~count => r.deleted = graph[g].deleted /\ r.freed
  <2> HIDE DEF g
  <2>1. CASE count
    BY <1>5, <2>1 DEF GraphStates
  <2>2. CASE ~count
    BY <1>5, <2>2 DEF GraphStates
  <2> QED BY <2>1, <2>2
<1>7. graph' = [graph EXCEPT ![g] = r]
  <2>1. CASE count
    BY <1>3, <2>1
  <2>2. CASE ~count
    BY <1>3, <2>2
  <2> QED BY <2>1, <2>2
<1> HIDE DEF r
<1>8. /\ graph' \in Seq(GraphStates) /\ Len(graph') = made
      /\ graph'[g] = r /\ \A h \in 1..made : h # g => graph'[h] = graph[h]
  <2>1. graph \in Seq(GraphStates) /\ made = Len(graph)
    BY <1>1 DEF TypeOK
  <2> HIDE DEF g
  <2>2. graph' \in Seq(GraphStates) /\ Len(graph') = made
    BY <1>4, <1>6, <1>7, <2>1, ExceptSeq
  <2> QED BY <1>1, <1>4, <1>7, <2>2
<1>9. \A h \in 1..made : /\ graph'[h].origin = graph[h].origin /\ graph'[h].shape = graph[h].shape
                         /\ graph'[h].inMacro = graph[h].inMacro /\ graph'[h].todo = graph[h].todo
                         /\ graph'[h].runable = graph[h].runable
                         /\ h # g => graph'[h].freed = graph[h].freed
                         /\ ~count => graph'[h].deleted = graph[h].deleted
  <2> HIDE DEF g, count
  <2> QED BY <1>6, <1>8
<1>10. kill' \in BOOLEAN /\ owed' \in BOOLEAN /\ early' \in BOOLEAN /\ (early => early')
       /\ (~early' => ~early /\ ~count)
  <2>1. early \in BOOLEAN /\ kill \in BOOLEAN /\ owed \in BOOLEAN
    BY <1>1 DEF TypeOK
  <2> HIDE DEF g, count
  <2>2. CASE count
    BY <1>2, <1>3, <2>1, <2>2
  <2>3. CASE ~count
    BY <1>2, <1>3, <2>1, <2>3
  <2> QED BY <2>2, <2>3
<1>11. ctx' \in Contexts /\ Names(ctx')
  <2>1. NoCtx \in Contexts /\ Names(NoCtx)
    BY DEF NoCtx, Contexts, Names, GraphOrNone
  <2>2. ctx' = ctx \/ ctx' = NoCtx
    BY <1>3
  <2> QED BY <1>1, <2>1, <2>2 DEF TypeOK, ContextsOK
<1>12. Always'
  <2> HIDE DEF g, count
  <2>1. WorkedGraphs(g)
    <3>1. graph'[g].freed => graph[g].freed \/ curr' # g
      BY <1>2, <1>4
    <3>2. vcr' \in VCRs /\ bg' \in BGs
      BY <1>1, <1>2 DEF TypeOK, VCRs, BGs
    <3> QED BY <1>2, <1>8, <1>9, <1>10, <3>1, <3>2 DEF WorkedGraphs
  <2>2. WorkedNames(p, g)
    <3>1. saved' \in [Procs -> Contexts] /\ \A q \in Procs : Names(saved'[q])
      BY <1>1, <1>2 DEF ContextsOK, TypeOK
    <3>2. act[p].then = "sub" => /\ act[p].by \in Procs /\ act[act[p].by].g # None
                                 /\ act[p].g # None /\ HasFuncs(act[p].g)
                                 /\ p # Parent => act[p].by = p
      BY <1>1, ByTyped DEF NamesOK
    <3>3. p # Parent => act[p].then # "queue"
      BY <1>1 DEF NamesOK
    <3>4. act' \in [Procs -> Acts] /\ jobs' \in Seq(Jobs)
      BY <1>1, <1>2 DEF TypeOK
    <3> QED BY <1>2, <1>4, <1>11, <3>1, <3>2, <3>3, <3>4 DEF WorkedNames
  <2>3. WorkedPlaces(p)
    <3>1. CASE graph[g].origin = "vcr"
      <4>1. pc'[p] = "callback" /\ pc' \in [Procs -> Places] /\ \A q \in Procs \ {p} : pc'[q] = pc[q]
        BY <1>1, <1>2, <3>1 DEF TypeOK, Places
      <4>2. ~early' /\ p # Parent => act[p].then # "sub"
        BY <1>1, <1>2, <1>10 DEF PlacesOK
      <4>3. act[p].g # None
        BY <1>4 DEF g
      <4> QED BY <1>1, <1>2, <4>1, <4>2, <4>3 DEF WorkedPlaces
    <3>2. CASE graph[g].origin # "vcr"
      <4>1. Continue(p, act[p])
        BY <1>2, <3>2
      <4>2. \/ p = Parent /\ pc'[p] \in {"top", "background"}
            \/ p # Parent /\ pc'[p] = "loop"
            \/ pc'[p] = "cleanup" /\ act[p].g # None /\ HasFuncs(act[p].g)
        BY <1>1, <4>1, ContinueProps DEF NamesOK
      <4>3. /\ pc' \in [Procs -> Places]
            /\ \A q \in Procs \ {p} : \/ /\ p = Parent /\ pc'[q] = "cleanup"
                                         /\ act[q].g # None /\ HasFuncs(act[q].g)
                                      \/ pc'[q] = pc[q]
        BY <4>1, ContinueProps
      <4> QED BY <1>2, <4>2, <4>3 DEF WorkedPlaces
    <3> QED BY <3>1, <3>2
  <2> QED BY <1>4, <2>1, <2>2, <2>3, WorkAlways
<1>13. ASSUME ~early'
       PROVE AboutCurr' /\ OneChain' /\ CountOK' /\ TopOK' /\ CallBackOK' /\ NotDeleted' /\ FramesOK'
  <2>1. ~early /\ ~count /\ early' = early
    BY <1>3, <1>10, <1>13
  <2>2. /\ AboutCurr /\ OneChain /\ CountOK /\ TopOK /\ CallBackOK /\ NotDeleted /\ FramesOK
    BY <1>1, <2>1 DEF UntilEarly
  <2>3. HasFuncs(g) =>
          /\ curr = g /\ act[p].then # "sub" /\ jobs = << >>
          /\ \A q \in Procs : HeldBy(q) /\ q # p => q = Parent /\ pc[q] = "decrement" /\ ~HasFuncs(act[q].g)
                                                    /\ act[q].then # "sub"
    <3> SUFFICES ASSUME HasFuncs(g)
                 PROVE  /\ curr = g /\ act[p].then # "sub" /\ jobs = << >>
                        /\ \A q \in Procs : HeldBy(q) /\ q # p =>
                             q = Parent /\ pc[q] = "decrement" /\ ~HasFuncs(act[q].g) /\ act[q].then # "sub"
      OBVIOUS
    <3>1. curr = g /\ curr # None
      BY <1>2, <1>4, <2>2 DEF AboutCurr, HeldBy
    <3>2. \A q \in Procs : ~Caller(q)
      <4>1. Ending
        BY <1>2 DEF Ending
      <4>2. ~(graph[curr].runable >= 1)
        BY <1>5, <2>1, <3>1
      <4>3. ~Called
        BY <2>2, <3>1, <4>1, <4>2 DEF CountOK
      <4> QED BY <4>3 DEF Called
    <3>3. act[p].then # "sub"
      <4>1. act[p].then = "sub" => act[p].by \in Procs
        BY <1>1, ByTyped
      <4> QED BY <1>2, <2>2, <3>2, <4>1 DEF OneChain, Caller
    <3>4. Chain(p) /\ \A q \in Procs \ {p} : ~Chain(q)
      BY <1>2, <2>2 DEF Chain, OneChain
    <3>5. \A j \in Range(jobs) : FALSE
      <4>1. ASSUME NEW j \in Range(jobs) PROVE FALSE
        <5>1. j.kind = "wait" /\ j.by \in Procs /\ pc[j.by] = "slaves"
          BY <1>1, <2>2, <3>4, <4>1, ByTyped DEF OneChain
        <5>2. Chain(j.by)
          BY <1>1, <5>1 DEF Chain, NamesOK
        <5> QED BY <1>2, <3>4, <5>1, <5>2
      <4> QED BY <4>1
    <3>6. jobs = << >>
      <4>1. Len(jobs) \in Nat /\ DOMAIN jobs = 1..Len(jobs) /\ jobs \in Seq(Jobs)
        BY <1>1, LenProperties DEF TypeOK
      <4>2. Len(jobs) >= 1 => jobs[1] \in Range(jobs)
        BY <4>1 DEF Range
      <4>3. Len(jobs) = 0
        BY <3>5, <4>1, <4>2
      <4> QED BY <4>1, <4>3, EmptySeq
    <3>7. ASSUME NEW q \in Procs, HeldBy(q), q # p
          PROVE  q = Parent /\ pc[q] = "decrement" /\ ~HasFuncs(act[q].g) /\ act[q].then # "sub"
      <4>1. pc[q] # "waiting" /\ pc[q] # "cleanup"
        BY <3>2 DEF Caller
      <4>2. pc[q] \in {"module", "slaves", "decrement"} /\ ~HasFuncs(act[q].g)
        BY <3>4, <3>7, <4>1 DEF HeldBy, Chain
      <4>3. pc[q] = "decrement" /\ act[q].then # "sub" /\ act[q].g # None
        BY <1>1, <4>2 DEF NamesOK, Busy, HeldBy
      <4> QED BY <1>1, <4>2, <4>3 DEF NamesOK
    <3> QED BY <3>1, <3>3, <3>6, <3>7
  <2>4. act[p].then # "sub" /\ (~HasFuncs(g) => p = Parent /\ graph[g].origin = "statement")
    BY <1>1, <1>4, <2>3 DEF NamesOK, OriginsOK
  <2>5. /\ pc'[p] \in {"callback", "top", "background", "loop"}
        /\ pc'[p] = "callback" <=> graph[g].origin = "vcr"
        /\ p = Parent => pc'[p] # "loop"
        /\ \A q \in Procs \ {p} : pc'[q] = pc[q]
    <3>1. CASE graph[g].origin = "vcr"
      BY <1>1, <1>2, <3>1 DEF TypeOK
    <3>2. CASE graph[g].origin # "vcr"
      <4>1. Continue(p, act[p])
        BY <1>2, <3>2
      <4>2. \/ p = Parent /\ pc'[p] \in {"top", "background"}
            \/ p # Parent /\ pc'[p] = "loop"
        BY <2>4, <4>1, ContinueProps
      <4>3. \A q \in Procs \ {p} : pc'[q] = pc[q]
        BY <2>4, <4>1, ContinueProps
      <4> QED BY <3>2, <4>2, <4>3
    <3> QED BY <3>1, <3>2
  <2>6. act' = act /\ jobs' = jobs /\ saved' = saved /\ made' = made /\ vcr' = vcr /\ queue' = queue
    BY <1>2
  <2>7. AboutCurr' /\ OneChain' /\ CountOK' /\ TopOK'
    <3>1. CASE HasFuncs(g)
      <4>1. curr' = None
        BY <1>2, <2>3, <3>1
      <4>2. Range(jobs') = {} /\ Len(jobs') = 0
        BY <2>3, <2>6, <3>1 DEF Range
      <4>3. \A q \in Procs : HeldBy(q)' => /\ q = Parent /\ pc'[q] = "decrement" /\ act[q].then # "sub"
                                           /\ ~(HasFuncs(act[q].g))'
        <5>1. ASSUME NEW q \in Procs, HeldBy(q)'
              PROVE  q = Parent /\ pc'[q] = "decrement" /\ act[q].then # "sub" /\ ~(HasFuncs(act[q].g))'
          <6>1. q # p /\ HeldBy(q) /\ pc'[q] = pc[q]
            BY <2>5, <5>1 DEF HeldBy
          <6>2. act[q].g \in 1..made
            BY <1>1, <6>1 DEF NamesOK, Busy, Started
          <6>3. q = Parent /\ pc[q] = "decrement" /\ ~HasFuncs(act[q].g) /\ act[q].then # "sub"
            BY <2>3, <3>1, <6>1
          <6> HIDE DEF g, count
          <6> QED BY <1>9, <2>6, <6>1, <6>2, <6>3 DEF HasFuncs
        <5> QED BY <5>1
      <4> HIDE DEF g, count
      <4>4. AboutCurr'
        BY <2>6, <4>2, <4>3 DEF AboutCurr
      <4>5. \A q \in Procs : ~(Chain(q))' /\ ~(Caller(q))'
        <5>1. ASSUME NEW q \in Procs, Chain(q)' PROVE FALSE
          <6>1. HeldBy(q)'
            BY <5>1 DEF Chain, HeldBy
          <6> QED BY <2>6, <4>3, <5>1, <6>1 DEF Chain
        <5>2. ASSUME NEW q \in Procs, Caller(q)' PROVE FALSE
          <6>1. HeldBy(q)'
            BY <5>2 DEF Caller, HeldBy
          <6> QED BY <2>6, <4>3, <5>2, <6>1 DEF Caller
        <5> QED BY <5>1, <5>2
      <4>6. \A q \in Procs : pc'[q] = "decrement" => act'[q].then # "sub"
        BY <2>6, <4>3 DEF HeldBy
      <4>7. OneChain'
        BY <4>2, <4>5, <4>6 DEF OneChain
      <4> QED BY <4>1, <4>4, <4>7 DEF CountOK, TopOK
    <3>2. CASE ~HasFuncs(g)
      <4>1. ctx' = ctx
        <5>1. ctx.prog # g
          BY <1>1, <1>4, <3>2 DEF ContextsOK, Names
        <5> QED BY <1>3, <2>1, <5>1
      <4>2. curr' = curr \/ (curr' = None /\ ~HasFuncs(curr))
        BY <1>2, <3>2
      <4>3. \A q \in Procs : \A s \in {"waiting", "cleanup", "module", "slaves"} : pc'[q] = s <=> pc[q] = s
        BY <1>2, <2>5
      <4>4. \A q \in Procs : HasFuncs(act[q].g) => (pc'[q] = "decrement" <=> pc[q] = "decrement")
        BY <2>5, <3>2
      <4>5. /\ \A q \in Procs : pc'[q] = "decrement" => pc[q] = "decrement"
            /\ pc'[Parent] \notin Reading /\ pc[Parent] # "start"
        BY <1>2, <2>4, <2>5, <3>2 DEF Reading
      <4> HIDE DEF g, count
      <4> QED BY <1>9, <2>1, <2>6, <4>1, <4>2, <4>3, <4>4, <4>5, SameExec
    <3> QED BY <3>1, <3>2
  <2>8. CallBackOK'
    <3>1. ASSUME NEW q \in Procs, pc'[q] = "callback"
          PROVE  graph'[act[q].g].freed /\ graph'[act[q].g].origin = "vcr" /\ act[q].then # "sub"
      <4>1. CASE q = p
        BY <1>4, <1>6, <1>8, <2>1, <2>4, <2>5, <3>1, <4>1
      <4>2. CASE q # p
        <5>1. pc[q] = "callback" /\ act[q].g \in 1..made
          BY <1>1, <2>5, <3>1, <4>2 DEF NamesOK, Busy, Started
        <5>2. graph[act[q].g].freed /\ graph[act[q].g].origin = "vcr" /\ act[q].then # "sub"
          BY <2>2, <5>1 DEF CallBackOK
        <5>3. act[q].g # g
          BY <1>2, <5>2
        <5> HIDE DEF g, count
        <5> QED BY <1>9, <5>1, <5>2, <5>3
      <4> QED BY <4>1, <4>2
    <3>2. ASSUME NEW q \in Procs, pc'[q] = "callback", q # p PROVE act[q].g # g /\ pc[q] = "callback"
      <4>1. pc[q] = "callback"
        BY <2>5, <3>2
      <4>2. graph[act[q].g].freed
        BY <2>2, <4>1 DEF CallBackOK
      <4> QED BY <1>2, <4>1, <4>2
    <3>3. \A q, t \in Procs : pc'[q] = "callback" /\ pc'[t] = "callback" /\ act[q].g = act[t].g => q = t
      BY <2>2, <3>2 DEF CallBackOK
    <3> QED BY <2>6, <3>1, <3>3 DEF CallBackOK
  <2>9. NotDeleted'
    <3> HIDE DEF g, count
    <3> QED BY <1>9, <2>1, <2>2, <2>6 DEF NotDeleted
  <2>10. FramesOK'
    <3>1. \A h : h # g => ((\E q \in Procs : pc'[q] = "callback" /\ act[q].g = h)
                           <=> (\E q \in Procs : pc[q] = "callback" /\ act[q].g = h))
      BY <1>2, <2>5
    <3>2. graph[g].origin = "vcr" => curr = g /\ pc'[p] = "callback" /\ act[p].g = g
      BY <2>3, <2>4, <2>5
    <3>3. \A h : h # g => (curr' = h /\ h \in 1..made <=> curr = h /\ h \in 1..made)
      BY <1>1, <1>2
    <3>4. \A h : h \in Frames' <=> h \in Frames
      <4> HIDE DEF g, count
      <4>1. \A h : h # g => (h \in Frames' <=> h \in Frames)
        BY <1>9, <2>6, <3>1, <3>3 DEF Frames
      <4>2. graph[g].origin # "vcr" => g \notin Frames /\ g \notin Frames'
        BY <1>4, <1>9 DEF Frames
      <4>3. graph[g].origin = "vcr" => g \in Frames /\ g \in Frames'
        BY <1>4, <1>9, <2>6, <3>2 DEF Frames
      <4> QED BY <4>1, <4>2, <4>3
    <3>5. Frames' = Frames
      BY <3>4
    <3> QED BY <2>2, <2>6, <3>5 DEF FramesOK
  <2> QED BY <2>7, <2>8, <2>9, <2>10
<1> HIDE DEF g, count
<1> QED BY <1>12, <1>13 DEF IInv, UntilEarly

-----------------------------------------------------------------------------
(* The invariant holds at first and is kept by every step.                 *)
LEMMA InitIInv ==
  ASSUME Init PROVE IInv
<1>1. /\ N \in Nat \ {0} /\ MaxGraphs \in Nat /\ MaxCommands \in Nat
  BY GraphAssumption
<1>2. /\ Parent \in Procs /\ None \notin Procs /\ 1..made = {} /\ Range(queue) = {} /\ Range(jobs) = {}
      /\ Len(jobs) = 0 /\ made = 0
  BY <1>1 DEF Init, Parent, Procs, None, Range
<1>3. /\ \A p \in Procs : /\ pc[p] = IF p = Parent THEN "top" ELSE "loop"
                          /\ act[p] = Idle /\ saved[p] = NoCtx
      /\ pc \in [Procs -> Places] /\ act \in [Procs -> Acts] /\ saved \in [Procs -> Contexts]
  <2>1. Idle \in Acts /\ NoCtx \in Contexts
    BY <1>1, <1>2 DEF Idle, NoCtx, Acts, Contexts, GraphOrNone
  <2> QED BY <2>1 DEF Init, Places
<1>4. /\ vcr.mode = "stop" /\ vcr.graph = None /\ bg.graph = None /\ vcr.steps = 0 /\ curr = None
      /\ vcr.ngraphs = 0 /\ stmt = None /\ left = MaxCommands /\ ctx = NoCtx
  BY DEF Init
<1>5. TypeOK
  <2>1. graph \in Seq(GraphStates) /\ Len(graph) = 0 /\ queue \in Seq(1..made) /\ jobs \in Seq(Jobs)
        /\ IsInjective(queue)
    BY DEF Init, IsInjective
  <2>2. vcr \in [mode : {"stop", "pause", "step", "play"}, dir : {-1, 1},
                 steps : -MaxCommands..MaxCommands, ngraphs : Int, graph : GraphOrNone,
                 change : BOOLEAN, pauses : Nat]
    <3>1. 0 \in -MaxCommands..MaxCommands
      BY <1>1
    <3> QED BY <3>1 DEF Init, GraphOrNone
  <2>3. bg \in [tree : BOOLEAN, change : BOOLEAN, graph : GraphOrNone]
    BY DEF Init, GraphOrNone
  <2>4. ctx \in Contexts /\ left \in 0..MaxCommands /\ stmt \in GraphOrNone
    BY <1>1, <1>4 DEF NoCtx, Contexts, GraphOrNone
  <2>5. kill \in BOOLEAN /\ owed \in BOOLEAN /\ early \in BOOLEAN
    BY DEF Init
  <2> QED BY <1>1, <1>2, <1>3, <1>4, <2>1, <2>2, <2>3, <2>4, <2>5 DEF TypeOK
<1>6. PlacesOK
  BY <1>2, <1>3 DEF PlacesOK, CommandPlaces, Idle
<1>7. NamesOK
  BY <1>2, <1>3 DEF NamesOK, Busy, HeldBy, Idle
<1>8. ContextsOK
  BY <1>3, <1>4 DEF ContextsOK, Names, NoCtx
<1>9. StatementOK /\ StartOK /\ FreshOK
  BY <1>2, <1>3, <1>4 DEF StatementOK, StartOK, FreshOK, Fresh
<1>10. OriginsOK
  BY <1>2, <1>4 DEF OriginsOK
<1>11. StepsOK
  BY <1>1, <1>2, <1>3, <1>4 DEF StepsOK, Spare
<1>12. \A p \in Procs : pc[p] \notin {"waiting", "cleanup", "module", "slaves", "decrement", "callback"}
  BY <1>3
<1>13. AboutCurr /\ OneChain /\ CountOK /\ TopOK /\ CallBackOK /\ NotDeleted
  BY <1>2, <1>4, <1>12 DEF AboutCurr, HeldBy, OneChain, Chain, Caller, CountOK, TopOK, CallBackOK, NotDeleted
<1>14. FramesOK
  <2>1. Frames = {}
    BY <1>2 DEF Frames
  <2> QED BY <1>4, <2>1, FS_EmptySet DEF FramesOK
<1> QED BY <1>5, <1>6, <1>7, <1>8, <1>9, <1>10, <1>11, <1>13, <1>14 DEF IInv, Always, UntilEarly

(* A step that changes nothing.                                            *)
LEMMA StutterIInv ==
  ASSUME IInv, UNCHANGED vars PROVE IInv'
<1> USE DEF vars
<1>1. Always'
  BY DEF IInv, Always, TypeOK, Pending, PlacesOK, NamesOK, Busy, HeldBy, Started, Waits, Fresh,
         HasFuncs, ContextsOK, Names, StatementOK, OriginsOK, StartOK, FreshOK, StepsOK, Spare
<1>2. UntilEarly'
  BY DEF IInv, UntilEarly, AboutCurr, HeldBy, OneChain, Chain, Caller, CountOK, Called, Queued,
         InModule, Ending, TopOK, CallBackOK, NotDeleted, FramesOK, Frames, HasFuncs
<1> QED BY <1>1, <1>2 DEF IInv

(* Every step keeps the invariant.                                         *)
LEMMA StepIInv ==
  ASSUME IInv, [Next]_vars PROVE IInv'
<1>1. CASE \/ Round \/ BeginInput \/ Nothing \/ Kill \/ SetKill \/ EndInput \/ NoDequeue
           \/ VCRBusy \/ NoJob \/ Idling \/ Wake
  BY <1>1, QuietSteps
<1>2. CASE Play \/ Step \/ Direction \/ \E c \in Commands : Halt(c)
  BY <1>2, SequencerSteps
<1>3. CASE Redo \/ \E c \in Commands : BackgroundCommand(c)
  BY <1>3, BackgroundSteps
<1>4. CASE Run
  BY <1>4, RunIInv
<1>5. CASE Enqueue
  BY <1>5, EnqueueIInv
<1>6. CASE Dequeue
  BY <1>6, DequeueIInv
<1>7. CASE QueueGraph
  BY <1>7, QueueGraphIInv
<1>8. CASE CheckBackground
  BY <1>8, CheckBackgroundIInv
<1>9. CASE CheckVCR
  BY <1>9, CheckVCRIInv
<1>10. CASE Sub
  BY <1>10, SubIInv
<1>11. CASE Wait
  BY <1>11, WaitIInv
<1>12. ASSUME NEW p \in Procs, Works(p) PROVE IInv'
  BY <1>12, MacroIInv, CleanUpIInv, ModuleIInv, ModuleEndIInv, DecrementIInv, CallBackIInv,
     FailureSteps DEF Works
<1>13. CASE PauseTask
  BY <1>13, FailureSteps
<1>14. CASE UNCHANGED vars
  BY <1>14, StutterIInv
<1> QED BY <1>1, <1>2, <1>3, <1>4, <1>5, <1>6, <1>7, <1>8, <1>9, <1>10, <1>11, <1>12, <1>13, <1>14
        DEF Next, MasterLoop

-----------------------------------------------------------------------------
(* The theorems.                                                           *)

(* What processors, jobs, graphs and contexts refer to was made and not    *)
(* reused, in every reachable state; until early, one chain of jobs is     *)
(* about the graph in the slot and its count covers what is to come.       *)
THEOREM Invariant == Spec => []IInv
<1>1. Init => IInv
  BY InitIInv
<1>2. IInv /\ [Next]_vars => IInv'
  BY StepIInv
<1> QED BY <1>1, <1>2, PTL DEF Spec

(* The slot, the queue and the waiting graphs name graphs that were made   *)
(* and not deleted, and none of them twice.                                *)
THEOREM TypeCorrect == Spec => []TypeOK
<1>1. IInv => TypeOK
  BY DEF IInv, Always
<1> QED BY <1>1, Invariant, PTL

(* Whoever executes a graph with functions executes the one in the slot.   *)
THEOREM OneGraph == Spec => []OneGraphAtATime
<1>1. IInv => OneGraphAtATime
  <2> SUFFICES ASSUME IInv, ~early, NEW g \in InExecution PROVE g = curr
    BY DEF OneGraphAtATime
  <2>1. AboutCurr /\ HasFuncs(g)
    BY DEF IInv, UntilEarly, InExecution
  <2>2. CASE g \in {jobs[i].g : i \in DOMAIN jobs}
    BY <2>1, <2>2 DEF AboutCurr, Range
  <2>3. CASE g \in {act[p].g : p \in {q \in Procs : HeldBy(q)}}
    BY <2>1, <2>3 DEF AboutCurr
  <2> QED BY <2>2, <2>3 DEF InExecution
<1> QED BY <1>1, Invariant, PTL

(* The sequencer counts the frames that are queued, execute or are about   *)
(* to be called back.                                                      *)
THEOREM FramesCounted == Spec => []NgraphsExact
<1>1. IInv => NgraphsExact
  <2> SUFFICES ASSUME IInv, ~early PROVE NgraphsExact
    BY DEF NgraphsExact
  <2> DEFINE frames == {g \in DOMAIN graph : graph[g].origin = "vcr"}
             queued == {g \in frames : (\E i \in DOMAIN queue : queue[i] = g) \/ curr = g}
             ending == {g \in frames : \E p \in Procs : pc[p] = "callback" /\ act[p].g = g}
  <2>1. FramesOK /\ DOMAIN graph = 1..made
    BY Basics DEF IInv, Always, UntilEarly
  <2>2. \A g : g \in queued \cup ending <=> g \in Frames
    BY <2>1 DEF Frames, Range
  <2>3. queued \cup ending = Frames
    BY <2>2
  <2> QED BY <2>1, <2>3 DEF NgraphsExact, FramesOK
<1> QED BY <1>1, Invariant, PTL
=============================================================================
