--------------------------- MODULE TaskGroup_proofs ---------------------------
(***************************************************************************)
(* Fork and join, for any number of processors, groups, tasks and          *)
(* repetitions: ntodo is exact and no group goes before its tasks have     *)
(* counted down, up to the first late finisher that meets a foreign group. *)
(***************************************************************************)
EXTENDS TaskGroup, FiniteSetTheorems, SequenceTheorems, TLAPS

-----------------------------------------------------------------------------
(* The inductive invariant.                                                *)

\* The group r names, in its block, executes.
Lives(r) == r.g \in Tgs /\ grp[r.g].st = "run" /\ Of(r.g, r)

\* A list of each processor holds the blocks that it created and are in state
\* st, once each.
HoldsIn(lists, G, st) ==
  /\ \A p \in Procs : \A i \in DOMAIN lists[p] :
       G[lists[p][i]].st = st /\ G[lists[p][i]].procId = p
  /\ \A p \in Procs : \A i, j \in DOMAIN lists[p] : lists[p][i] = lists[p][j] => i = j
  /\ \A g \in Tgs : G[g].st = st =>
       G[g].procId \in Procs /\ \E i \in DOMAIN lists[G[g].procId] : lists[G[g].procId][i] = g
PlacesOK == HoldsIn(freeTasks, grp, "free") /\ HoldsIn(open, grp, "open")

\* Tasks are of groups there have been; repetitions in the queue are of groups
\* that execute; what is not added yet is not there.
TasksOK ==
  /\ \A t \in Tasks : task[t].st = "live" => task[t].g \in Tgs /\ task[t].rep > 0
                                             /\ task[t].serial > 0
  /\ \A t \in Tasks : queued[t] > 0 => task[t].st = "live" /\ Lives(task[t])
  /\ \A t \in Tasks : t > added => task[t] = NoTask

\* A call that has not counted down is about a group that executes; a group
\* about to execute has had no call.
CallsOK ==
  /\ \A c \in Calls : Frame(c).serial <= created
  /\ \A c \in Calls : Frame(c).k = "task" <=> Frame(c).ph \in TaskPhases
  /\ \A c \in Calls : Frame(c).k = "task" => Frame(c).t \in 1..added
  /\ \A c \in Calls : Frame(c).k = "wait" => Frame(c).t = 0
  /\ \A c \in Calls : Busy(c) \/ Frame(c).k = "wait" => Lives(Frame(c))
  /\ \A c \in Calls : Of(Frame(c).g, Frame(c)) => grp[Frame(c).g].st # "open"

\* A group that is waited for is waited for by its creator, once.
WaitsOK ==
  /\ \A c \in Calls : Frame(c).k = "wait" =>
       /\ grp[Frame(c).g].sync /\ grp[Frame(c).g].procId = c[1]
       /\ Frame(c).ph = "join" \/ (Frame(c).ph = "dequeue" /\ Frame(c).knt = 0) =>
            grp[Frame(c).g].ntodo = 0
  /\ \A c, d \in Calls : Frame(c).k = "wait" /\ Frame(d).k = "wait"
                         /\ Frame(c).g = Frame(d).g => c = d

\* A task on its way to the queue is new, and of the group of its call.
EnteringOK ==
  /\ \A c \in Calls : Frame(c).ph = "enqueue" =>
       LET t == Frame(c).knt
       IN  /\ t \in 1..added /\ queued[t] = 0
           /\ task[t].st = "live" /\ task[t].extra
           /\ task[t].g = Frame(c).g /\ task[t].serial = Frame(c).serial
           /\ \A d \in Calls : Frame(d).t # t
  /\ \A c, d \in Calls : Frame(c).ph = "enqueue" /\ Frame(d).ph = "enqueue"
                         /\ Frame(c).knt = Frame(d).knt => c = d

\* Only groups that are waited for count down to zero; what they report failed.
EndsOK ==
  /\ doomed = {}
  /\ \A c \in Calls : Frame(c).ph = "post" /\ Frame(c).lastTask /\ Lives(Frame(c)) =>
                        grp[Frame(c).g].sync
  /\ \A c \in Calls : Frame(c).fail => Frame(c).serial \in failed
  /\ \A g \in Tgs : grp[g].st \in {"open", "run"} => grp[g].serial > 0
  /\ \A g \in Tgs : grp[g].st \in {"open", "run"} /\ grp[g].error => grp[g].serial \in failed
  /\ \A s \in 1..MaxGroups : answer[s] = "ERROR" => s \in failed

UntilAstray == /\ PlacesOK /\ TasksOK /\ CallsOK /\ WaitsOK /\ EnteringOK /\ EndsOK
               /\ NtodoExact
IInv == TypeOK /\ (astray \/ UntilAstray)

-----------------------------------------------------------------------------
(* Call stacks.                                                            *)

(* Front and last element of a call stack that is not empty.               *)
LEMMA FrontLast ==
  ASSUME NEW S, NEW s \in Seq(S), s # << >>
  PROVE  /\ Len(s) \in Nat \ {0} /\ DOMAIN s = 1..Len(s) /\ Last(s) = s[Len(s)] /\ Last(s) \in S
         /\ Front(s) \in Seq(S) /\ Len(Front(s)) = Len(s) - 1
         /\ \A i \in 1..(Len(s) - 1) : Front(s)[i] = s[i]
<1>1. Len(s) \in Nat \ {0} /\ DOMAIN s = 1..Len(s)
  BY EmptySeq, LenProperties
<1>2. \A i \in 1..Len(s) : s[i] \in S
  BY ElementOfSeq
<1>3. /\ SubSeq(s, 1, Len(s) - 1) \in Seq(S)
      /\ Len(SubSeq(s, 1, Len(s) - 1)) = IF 1 <= Len(s) - 1 THEN (Len(s) - 1) - 1 + 1 ELSE 0
      /\ \A i \in 1..((Len(s) - 1) - 1 + 1) : SubSeq(s, 1, Len(s) - 1)[i] = s[1 + i - 1]
  <2>1. \A i \in 1..(Len(s) - 1) : s[i] \in S
    BY <1>1, <1>2
  <2> QED BY <1>1, <2>1, SubSeqProperties
<1>4. Front(s) = SubSeq(s, 1, Len(s) - 1) /\ Last(s) = s[Len(s)]
  BY DEF Front, Last
<1>5. Len(SubSeq(s, 1, Len(s) - 1)) = Len(s) - 1
  BY <1>1, <1>3
<1>6. \A i \in 1..(Len(s) - 1) : SubSeq(s, 1, Len(s) - 1)[i] = s[i]
  BY <1>1, <1>3
<1> QED BY <1>1, <1>2, <1>3, <1>4, <1>5, <1>6

\* The call on top of p's stack, and the next one above it.
TopCall(p)  == <<p, Len(stack[p])>>
NextCall(p) == <<p, Len(stack[p]) + 1>>

(* The calls are the positions in the stacks.                              *)
LEMMA CallsAre ==
  ASSUME TypeOK
  PROVE  /\ \A c : c \in Calls <=> \E p \in Procs : \E i \in 1..Len(stack[p]) : c = <<p, i>>
         /\ \A p \in Procs : stack[p] \in Seq(Frames) /\ Len(stack[p]) \in Nat
         /\ \A c \in Calls : Frame(c) \in Frames /\ c[1] \in Procs
         /\ \A p \in Procs : stack[p] # << >> =>
              Len(stack[p]) > 0 /\ TopCall(p) \in Calls /\ Frame(TopCall(p)) = Top(p)
              /\ Top(p) \in Frames /\ TopCall(p)[1] = p
<1>1. \A p \in Procs : stack[p] \in Seq(Frames)
  BY DEF TypeOK
<1>2. \A p \in Procs : /\ Len(stack[p]) \in Nat /\ DOMAIN stack[p] = 1..Len(stack[p])
                       /\ \A i \in 1..Len(stack[p]) : stack[p][i] \in Frames
  BY <1>1, LenProperties, ElementOfSeq
<1>3. \A c : c \in Calls <=> \E p \in Procs : \E i \in DOMAIN stack[p] : c = <<p, i>>
  BY DEF Calls
<1>4. \A c : c \in Calls <=> \E p \in Procs : \E i \in 1..Len(stack[p]) : c = <<p, i>>
  BY <1>2, <1>3
<1>5. \A c \in Calls : Frame(c) \in Frames /\ c[1] \in Procs
  BY <1>2, <1>4 DEF Frame
<1>6. ASSUME NEW p \in Procs, stack[p] # << >>
      PROVE  /\ Len(stack[p]) > 0 /\ TopCall(p) \in Calls /\ Frame(TopCall(p)) = Top(p)
             /\ Top(p) \in Frames /\ TopCall(p)[1] = p
  <2>1. Len(stack[p]) \in Nat \ {0} /\ Last(stack[p]) = stack[p][Len(stack[p])]
    BY <1>1, <1>6, FrontLast
  <2>2. Len(stack[p]) \in 1..Len(stack[p])
    BY <2>1
  <2> QED BY <1>2, <1>4, <2>1, <2>2 DEF Top, TopCall, Frame
<1> QED BY <1>1, <1>2, <1>4, <1>5, <1>6

(* The top call goes on.                                                   *)
LEMMA SetCalls ==
  ASSUME TypeOK, NEW p \in Procs, stack[p] # << >>, NEW f \in Frames, SetTop(p, f)
  PROVE  /\ stack' \in [Procs -> Seq(Frames)] /\ Calls' = Calls
         /\ \A c \in Calls : Frame(c)' = IF c = TopCall(p) THEN f ELSE Frame(c)
<1> DEFINE s == stack[p]
           r == Append(Front(s), f)
<1>1. stack \in [Procs -> Seq(Frames)] /\ s \in Seq(Frames)
  BY DEF TypeOK
<1>2. stack' = [stack EXCEPT ![p] = r]
  BY DEF SetTop
<1>3. /\ Len(s) \in Nat \ {0} /\ DOMAIN s = 1..Len(s)
      /\ Front(s) \in Seq(Frames) /\ Len(Front(s)) = Len(s) - 1
      /\ \A i \in 1..(Len(s) - 1) : Front(s)[i] = s[i]
  BY <1>1, FrontLast
<1>4. /\ r \in Seq(Frames) /\ Len(r) = Len(s) - 1 + 1
      /\ \A i \in 1..(Len(s) - 1) : r[i] = Front(s)[i]
      /\ r[Len(s) - 1 + 1] = f
  <2>1. ASSUME NEW t \in Seq(Frames)
        PROVE  /\ Append(t, f) \in Seq(Frames) /\ Len(Append(t, f)) = Len(t) + 1
               /\ \A i \in 1..Len(t) : Append(t, f)[i] = t[i]
               /\ Append(t, f)[Len(t) + 1] = f
    BY <2>1, AppendProperties
  <2> HIDE DEF s
  <2> QED BY <1>3, <2>1
<1> HIDE DEF r
<1>5. Len(r) = Len(s) /\ DOMAIN r = 1..Len(s)
  BY <1>3, <1>4, LenProperties
<1>6. \A i \in 1..Len(s) : r[i] = IF i = Len(s) THEN f ELSE s[i]
  BY <1>3, <1>4
<1>7. \A q \in Procs : stack'[q] = IF q = p THEN r ELSE stack[q]
  BY <1>1, <1>2
<1>8. \A q \in Procs : DOMAIN stack'[q] = DOMAIN stack[q]
  BY <1>3, <1>5, <1>7
<1>9. Calls' = Calls
  BY <1>8 DEF Calls
<1>10. ASSUME NEW c \in Calls PROVE Frame(c)' = IF c = TopCall(p) THEN f ELSE Frame(c)
  <2>1. PICK q \in Procs : \E i \in 1..Len(stack[q]) : c = <<q, i>>
    BY CallsAre
  <2>2. PICK i \in 1..Len(stack[q]) : c = <<q, i>>
    BY <2>1
  <2>3. CASE q = p
    BY <1>6, <1>7, <2>2, <2>3 DEF Frame, TopCall
  <2>4. CASE q # p
    BY <1>7, <2>2, <2>4 DEF Frame, TopCall
  <2> QED BY <2>3, <2>4
<1>11. stack' \in [Procs -> Seq(Frames)]
  BY <1>1, <1>2, <1>4
<1> QED BY <1>9, <1>10, <1>11

(* The top call returns.                                                   *)
LEMMA PopCalls ==
  ASSUME TypeOK, NEW p \in Procs, stack[p] # << >>, Pop(p)
  PROVE  /\ stack' \in [Procs -> Seq(Frames)] /\ Calls' = Calls \ {TopCall(p)}
         /\ \A c \in Calls' : Frame(c)' = Frame(c)
<1> DEFINE s == stack[p]
<1>1. stack \in [Procs -> Seq(Frames)] /\ s \in Seq(Frames)
  BY DEF TypeOK
<1>2. stack' = [stack EXCEPT ![p] = Front(s)]
  BY DEF Pop
<1>3. /\ Len(s) \in Nat \ {0} /\ DOMAIN s = 1..Len(s)
      /\ Front(s) \in Seq(Frames) /\ Len(Front(s)) = Len(s) - 1
      /\ \A i \in 1..(Len(s) - 1) : Front(s)[i] = s[i]
  BY <1>1, FrontLast
<1>4. DOMAIN Front(s) = 1..(Len(s) - 1)
  BY <1>3, LenProperties
<1>5. \A q \in Procs : stack'[q] = IF q = p THEN Front(s) ELSE stack[q]
  BY <1>1, <1>2
<1>6. \A c : c \in Calls' <=> \E q \in Procs : \E i \in DOMAIN stack'[q] : c = <<q, i>>
  BY DEF Calls
<1>7. ASSUME NEW c, c \in Calls' PROVE c \in Calls \ {TopCall(p)} /\ Frame(c)' = Frame(c)
  <2>1. PICK q \in Procs : \E i \in DOMAIN stack'[q] : c = <<q, i>>
    BY <1>6, <1>7
  <2>2. PICK i \in DOMAIN stack'[q] : c = <<q, i>>
    BY <2>1
  <2>3. CASE q = p
    <3>1. i \in 1..(Len(s) - 1)
      BY <1>4, <1>5, <2>2, <2>3
    <3>2. i \in 1..Len(s) /\ i # Len(s) /\ Front(s)[i] = s[i]
      BY <1>3, <3>1
    <3> QED BY <1>5, <2>2, <2>3, <3>2, CallsAre DEF Frame, TopCall
  <2>4. CASE q # p
    <3>1. stack'[q] = stack[q] /\ DOMAIN stack[q] = 1..Len(stack[q])
      BY <1>1, <1>5, <2>4, LenProperties
    <3> QED BY <2>2, <2>4, <3>1, CallsAre DEF Frame, TopCall
  <2> QED BY <2>3, <2>4
<1>8. ASSUME NEW c \in Calls, c # TopCall(p) PROVE c \in Calls'
  <2>1. PICK q \in Procs : \E i \in 1..Len(stack[q]) : c = <<q, i>>
    BY CallsAre
  <2>2. PICK i \in 1..Len(stack[q]) : c = <<q, i>>
    BY <2>1
  <2>3. CASE q = p
    <3>1. i \in 1..(Len(s) - 1)
      BY <1>3, <1>8, <2>2, <2>3 DEF TopCall
    <3> QED BY <1>4, <1>5, <1>6, <2>2, <2>3, <3>1
  <2>4. CASE q # p
    <3>1. stack'[q] = stack[q] /\ DOMAIN stack[q] = 1..Len(stack[q])
      BY <1>1, <1>5, <2>4, LenProperties
    <3> QED BY <1>6, <2>2, <3>1
  <2> QED BY <2>3, <2>4
<1>9. Calls' = Calls \ {TopCall(p)}
  BY <1>7, <1>8
<1>10. stack' \in [Procs -> Seq(Frames)]
  BY <1>1, <1>2, <1>3
<1> QED BY <1>7, <1>9, <1>10

(* A call on top of another.                                               *)
LEMMA PushCalls ==
  ASSUME TypeOK, NEW p \in Procs, NEW f \in Frames, Push(p, <<f>>)
  PROVE  /\ stack' \in [Procs -> Seq(Frames)] /\ Calls' = Calls \cup {NextCall(p)}
         /\ NextCall(p) \notin Calls
         /\ \A c \in Calls' : Frame(c)' = IF c = NextCall(p) THEN f ELSE Frame(c)
<1> DEFINE s == stack[p]
           r == s \o <<f>>
<1>1. stack \in [Procs -> Seq(Frames)] /\ s \in Seq(Frames)
  BY DEF TypeOK
<1>2. stack' = [stack EXCEPT ![p] = r]
  BY DEF Push
<1>3. Len(s) \in Nat /\ DOMAIN s = 1..Len(s)
  BY <1>1, LenProperties
<1>4. /\ Append(s, f) \in Seq(Frames) /\ Len(Append(s, f)) = Len(s) + 1
      /\ \A i \in 1..Len(s) : Append(s, f)[i] = s[i]
      /\ Append(s, f)[Len(s) + 1] = f
  <2> HIDE DEF s
  <2> QED BY <1>1, AppendProperties
<1>5. r = Append(s, f)
  BY <1>1, AppendIsConcat
<1> HIDE DEF r
<1>6. Len(r) = Len(s) + 1 /\ DOMAIN r = 1..(Len(s) + 1) /\ r \in Seq(Frames)
  BY <1>3, <1>4, <1>5, LenProperties
<1>7. \A i \in 1..(Len(s) + 1) : r[i] = IF i = Len(s) + 1 THEN f ELSE s[i]
  BY <1>3, <1>4, <1>5
<1>8. \A q \in Procs : stack'[q] = IF q = p THEN r ELSE stack[q]
  BY <1>1, <1>2
<1>9. \A c : c \in Calls' <=> \E q \in Procs : \E i \in DOMAIN stack'[q] : c = <<q, i>>
  BY DEF Calls
<1>10. ASSUME NEW c, c \in Calls'
       PROVE  /\ c \in Calls \cup {NextCall(p)}
              /\ Frame(c)' = IF c = NextCall(p) THEN f ELSE Frame(c)
  <2>1. PICK q \in Procs : \E i \in DOMAIN stack'[q] : c = <<q, i>>
    BY <1>9, <1>10
  <2>2. PICK i \in DOMAIN stack'[q] : c = <<q, i>>
    BY <2>1
  <2>3. CASE q = p
    <3>1. i \in 1..(Len(s) + 1) /\ (i # Len(s) + 1 => i \in 1..Len(s))
      BY <1>3, <1>6, <1>8, <2>2, <2>3
    <3> QED BY <1>7, <1>8, <2>2, <2>3, <3>1, CallsAre DEF Frame, NextCall
  <2>4. CASE q # p
    <3>1. stack'[q] = stack[q] /\ DOMAIN stack[q] = 1..Len(stack[q])
      BY <1>1, <1>8, <2>4, LenProperties
    <3> QED BY <2>2, <2>4, <3>1, CallsAre DEF Frame, NextCall
  <2> QED BY <2>3, <2>4
<1>11. ASSUME NEW c \in Calls PROVE c \in Calls' /\ c # NextCall(p)
  <2>1. PICK q \in Procs : \E i \in 1..Len(stack[q]) : c = <<q, i>>
    BY CallsAre
  <2>2. PICK i \in 1..Len(stack[q]) : c = <<q, i>>
    BY <2>1
  <2>3. CASE q = p
    <3>1. i \in 1..(Len(s) + 1) /\ i # Len(s) + 1
      BY <1>3, <2>2, <2>3
    <3> QED BY <1>6, <1>8, <1>9, <2>2, <2>3, <3>1 DEF NextCall
  <2>4. CASE q # p
    <3>1. stack'[q] = stack[q] /\ DOMAIN stack[q] = 1..Len(stack[q])
      BY <1>1, <1>8, <2>4, LenProperties
    <3> QED BY <1>9, <2>2, <2>4, <3>1 DEF NextCall
  <2> QED BY <2>3, <2>4
<1>12. NextCall(p) \in Calls'
  <2>1. Len(s) + 1 \in 1..(Len(s) + 1)
    BY <1>3
  <2> QED BY <1>6, <1>8, <1>9, <2>1 DEF NextCall
<1>13. Calls' = Calls \cup {NextCall(p)}
  BY <1>10, <1>11, <1>12
<1>14. stack' \in [Procs -> Seq(Frames)]
  BY <1>1, <1>2, <1>6
<1> QED BY <1>10, <1>11, <1>13, <1>14

(* One stack changes.                                                      *)
LEMMA StackChange ==
  ASSUME TypeOK, NEW p \in Procs, NEW r \in Seq(Frames), stack' = [stack EXCEPT ![p] = r]
  PROVE  /\ stack' \in [Procs -> Seq(Frames)]
         /\ \A c : c \in Calls' <=> \/ \E i \in 1..Len(r) : c = <<p, i>>
                                    \/ c[1] # p /\ c \in Calls
         /\ \A c \in Calls' : c[1] = p => Frame(c)' = r[c[2]]
         /\ \A c \in Calls' : c[1] # p => Frame(c)' = Frame(c)
<1>1. stack \in [Procs -> Seq(Frames)] /\ DOMAIN r = 1..Len(r)
  BY LenProperties DEF TypeOK
<1>2. \A q \in Procs : stack'[q] = IF q = p THEN r ELSE stack[q]
  BY <1>1
<1>3. /\ \A c : c \in Calls <=> \E q \in Procs : \E i \in DOMAIN stack[q] : c = <<q, i>>
      /\ \A c : c \in Calls' <=> \E q \in Procs : \E i \in DOMAIN stack'[q] : c = <<q, i>>
  BY DEF Calls
<1>4. ASSUME NEW c, c \in Calls'
      PROVE  /\ \/ \E i \in 1..Len(r) : c = <<p, i>>
                \/ c[1] # p /\ c \in Calls
             /\ c[1] = p => Frame(c)' = r[c[2]]
             /\ c[1] # p => Frame(c)' = Frame(c)
  <2>1. PICK q \in Procs : \E i \in DOMAIN stack'[q] : c = <<q, i>>
    BY <1>3, <1>4
  <2>2. PICK i \in DOMAIN stack'[q] : c = <<q, i>>
    BY <2>1
  <2>3. CASE q = p
    BY <1>1, <1>2, <2>2, <2>3 DEF Frame
  <2>4. CASE q # p
    BY <1>2, <1>3, <2>2, <2>4 DEF Frame
  <2> QED BY <2>3, <2>4
<1>5. ASSUME NEW i \in 1..Len(r) PROVE <<p, i>> \in Calls'
  BY <1>1, <1>2, <1>3
<1>6. ASSUME NEW c, c \in Calls, c[1] # p PROVE c \in Calls'
  BY <1>2, <1>3, <1>6
<1>7. stack' \in [Procs -> Seq(Frames)]
  BY <1>1
<1> QED BY <1>4, <1>5, <1>6, <1>7

(* A sequence with two more elements at its end.                           *)
LEMMA TwoMore ==
  ASSUME NEW S, NEW s \in Seq(S), NEW a \in S, NEW b \in S
  PROVE  /\ s \o <<a, b>> \in Seq(S) /\ Len(s \o <<a, b>>) = Len(s) + 2
         /\ \A i \in 1..Len(s) : (s \o <<a, b>>)[i] = s[i]
         /\ (s \o <<a, b>>)[Len(s) + 1] = a /\ (s \o <<a, b>>)[Len(s) + 2] = b
<1> DEFINE e == <<a, b>>
<1>1. e \in Seq(S) /\ Len(e) = 2 /\ e[1] = a /\ e[2] = b /\ Len(s) \in Nat
  BY LenProperties
<1> HIDE DEF e
<1>2. /\ s \o e \in Seq(S) /\ Len(s \o e) = Len(s) + Len(e)
      /\ \A i \in 1..(Len(s) + Len(e)) :
           (s \o e)[i] = IF i <= Len(s) THEN s[i] ELSE e[i - Len(s)]
  BY <1>1, ConcatProperties
<1>3. Len(s \o e) = Len(s) + 2
  BY <1>1, <1>2
<1>4. \A i \in 1..Len(s) : (s \o e)[i] = s[i]
  BY <1>1, <1>2
<1>5. (s \o e)[Len(s) + 1] = a
  <2>1. (s \o e)[Len(s) + 1] = e[(Len(s) + 1) - Len(s)]
    BY <1>1, <1>2
  <2>2. (Len(s) + 1) - Len(s) = 1
    BY <1>1
  <2> QED BY <1>1, <2>1, <2>2
<1>6. (s \o e)[Len(s) + 2] = b
  <2>1. (s \o e)[Len(s) + 2] = e[(Len(s) + 2) - Len(s)]
    BY <1>1, <1>2
  <2>2. (Len(s) + 2) - Len(s) = 2
    BY <1>1
  <2> QED BY <1>1, <2>1, <2>2
<1> QED BY <1>2, <1>3, <1>4, <1>5, <1>6 DEF e

(* The top call goes on and makes another.                                 *)
LEMMA SetPushCalls ==
  ASSUME TypeOK, NEW p \in Procs, stack[p] # << >>, NEW a \in Frames, NEW b \in Frames,
         stack' = [stack EXCEPT ![p] = Front(@) \o <<a, b>>]
  PROVE  /\ stack' \in [Procs -> Seq(Frames)] /\ Calls' = Calls \cup {NextCall(p)}
         /\ NextCall(p) \notin Calls /\ TopCall(p) # NextCall(p)
         /\ \A c \in Calls' : Frame(c)' = IF c = TopCall(p) THEN a
                                          ELSE IF c = NextCall(p) THEN b ELSE Frame(c)
<1> DEFINE s == stack[p]
           r == Front(s) \o <<a, b>>
<1>1. s \in Seq(Frames)
  BY DEF TypeOK
<1>2. /\ Len(s) \in Nat \ {0} /\ Front(s) \in Seq(Frames) /\ Len(Front(s)) = Len(s) - 1
      /\ \A i \in 1..(Len(s) - 1) : Front(s)[i] = s[i]
  BY <1>1, FrontLast
<1>3. stack' = [stack EXCEPT ![p] = r]
  OBVIOUS
<1>4. ASSUME NEW t \in Seq(Frames), t = Front(s)
      PROVE  /\ r \in Seq(Frames) /\ Len(r) = Len(t) + 2
             /\ \A i \in 1..Len(t) : r[i] = t[i]
             /\ r[Len(t) + 1] = a /\ r[Len(t) + 2] = b
  <2> HIDE DEF s
  <2> QED BY <1>4, TwoMore
<1>5. /\ r \in Seq(Frames) /\ Len(r) = Len(s) + 1
      /\ r[Len(s)] = a /\ r[Len(s) + 1] = b
      /\ \A i \in 1..(Len(s) - 1) : r[i] = s[i]
  <2> HIDE DEF s, r
  <2>1. (Len(s) - 1) + 2 = Len(s) + 1 /\ (Len(s) - 1) + 1 = Len(s)
    BY <1>2
  <2> QED BY <1>2, <1>4, <2>1
<1> HIDE DEF r
<1>6. /\ stack' \in [Procs -> Seq(Frames)]
      /\ \A c : c \in Calls' <=> \/ \E i \in 1..Len(r) : c = <<p, i>>
                                 \/ c[1] # p /\ c \in Calls
      /\ \A c \in Calls' : c[1] = p => Frame(c)' = r[c[2]]
      /\ \A c \in Calls' : c[1] # p => Frame(c)' = Frame(c)
  BY <1>3, <1>5, StackChange
<1>7. \A c : c \in Calls <=> \/ \E i \in 1..Len(s) : c = <<p, i>>
                             \/ c[1] # p /\ c \in Calls
  BY CallsAre
<1>8. \A i \in 1..(Len(s) + 1) : i \in 1..Len(s) \/ i = Len(s) + 1
  BY <1>2
<1>9. \A i \in 1..Len(s) : i # Len(s) + 1 /\ i \in 1..(Len(s) + 1)
  BY <1>2
<1>10. Len(s) + 1 \in 1..(Len(s) + 1)
  BY <1>2
<1>11. NextCall(p) = <<p, Len(s) + 1>> /\ NextCall(p)[1] = p
  BY DEF NextCall
<1>12. NextCall(p) \notin Calls /\ TopCall(p) # NextCall(p)
  BY <1>2, <1>7, <1>9, <1>11 DEF TopCall
<1>13. Calls' = Calls \cup {NextCall(p)}
  <2>1. ASSUME NEW c, c \in Calls' PROVE c \in Calls \cup {NextCall(p)}
    BY <1>5, <1>6, <1>7, <1>8, <1>11, <2>1
  <2>2. ASSUME NEW c, c \in Calls PROVE c \in Calls'
    BY <1>5, <1>6, <1>7, <1>9, <2>2
  <2>3. NextCall(p) \in Calls'
    BY <1>5, <1>6, <1>10, <1>11
  <2> QED BY <2>1, <2>2, <2>3
<1>14. ASSUME NEW c \in Calls'
       PROVE  Frame(c)' = IF c = TopCall(p) THEN a ELSE IF c = NextCall(p) THEN b ELSE Frame(c)
  <2>1. CASE c[1] # p
    BY <1>6, <1>11, <2>1 DEF TopCall
  <2>2. CASE c[1] = p
    <3>1. PICK i \in 1..(Len(s) + 1) : c = <<p, i>>
      BY <1>5, <1>6, <2>2
    <3>2. Frame(c)' = r[i] /\ Frame(c) = s[i]
      BY <1>6, <3>1 DEF Frame
    <3>3. i = Len(s) + 1 \/ i = Len(s) \/ i \in 1..(Len(s) - 1)
      BY <1>2
    <3>4. i \in 1..(Len(s) - 1) => i # Len(s) /\ i # Len(s) + 1
      BY <1>2
    <3> QED BY <1>2, <1>5, <1>11, <1>12, <3>1, <3>2, <3>3, <3>4 DEF TopCall
  <2> QED BY <2>1, <2>2
<1> QED BY <1>6, <1>12, <1>13, <1>14

\* The call above the next one.
SecondCall(p) == <<p, Len(stack[p]) + 2>>

(* Two calls, the second made by the first.                                *)
LEMMA PushTwoCalls ==
  ASSUME TypeOK, NEW p \in Procs, NEW a \in Frames, NEW b \in Frames, Push(p, <<a, b>>)
  PROVE  /\ stack' \in [Procs -> Seq(Frames)]
         /\ Calls' = Calls \cup {NextCall(p), SecondCall(p)}
         /\ NextCall(p) \notin Calls /\ SecondCall(p) \notin Calls
         /\ NextCall(p) # SecondCall(p)
         /\ \A c \in Calls' : Frame(c)' = IF c = NextCall(p) THEN a
                                          ELSE IF c = SecondCall(p) THEN b ELSE Frame(c)
<1> DEFINE s == stack[p]
           r == s \o <<a, b>>
<1>1. s \in Seq(Frames) /\ Len(s) \in Nat
  BY LenProperties DEF TypeOK
<1>2. stack' = [stack EXCEPT ![p] = r]
  BY DEF Push
<1>3. /\ r \in Seq(Frames) /\ Len(r) = Len(s) + 2
      /\ \A i \in 1..Len(s) : r[i] = s[i]
      /\ r[Len(s) + 1] = a /\ r[Len(s) + 2] = b
  <2> HIDE DEF s
  <2> QED BY <1>1, TwoMore
<1> HIDE DEF r
<1>4. /\ stack' \in [Procs -> Seq(Frames)]
      /\ \A c : c \in Calls' <=> \/ \E i \in 1..Len(r) : c = <<p, i>>
                                 \/ c[1] # p /\ c \in Calls
      /\ \A c \in Calls' : c[1] = p => Frame(c)' = r[c[2]]
      /\ \A c \in Calls' : c[1] # p => Frame(c)' = Frame(c)
  BY <1>2, <1>3, StackChange
<1>5. \A c : c \in Calls <=> \/ \E i \in 1..Len(s) : c = <<p, i>>
                             \/ c[1] # p /\ c \in Calls
  BY CallsAre
<1>6. \A i \in 1..(Len(s) + 2) : i \in 1..Len(s) \/ i = Len(s) + 1 \/ i = Len(s) + 2
  BY <1>1
<1>7. \A i \in 1..Len(s) : i # Len(s) + 1 /\ i # Len(s) + 2 /\ i \in 1..(Len(s) + 2)
  BY <1>1
<1>8. Len(s) + 1 \in 1..(Len(s) + 2) /\ Len(s) + 2 \in 1..(Len(s) + 2) /\ Len(s) + 1 # Len(s) + 2
  BY <1>1
<1>9. /\ NextCall(p) = <<p, Len(s) + 1>> /\ NextCall(p)[1] = p
      /\ SecondCall(p) = <<p, Len(s) + 2>> /\ SecondCall(p)[1] = p
  BY DEF NextCall, SecondCall
<1>10. /\ NextCall(p) \notin Calls /\ SecondCall(p) \notin Calls
       /\ NextCall(p) # SecondCall(p)
  BY <1>5, <1>7, <1>8, <1>9
<1>11. Calls' = Calls \cup {NextCall(p), SecondCall(p)}
  <2>1. ASSUME NEW c, c \in Calls' PROVE c \in Calls \cup {NextCall(p), SecondCall(p)}
    BY <1>3, <1>4, <1>5, <1>6, <1>9, <2>1
  <2>2. ASSUME NEW c, c \in Calls PROVE c \in Calls'
    BY <1>3, <1>4, <1>5, <1>7, <2>2
  <2>3. NextCall(p) \in Calls' /\ SecondCall(p) \in Calls'
    BY <1>3, <1>4, <1>8, <1>9
  <2> QED BY <2>1, <2>2, <2>3
<1>12. ASSUME NEW c \in Calls'
       PROVE  Frame(c)' = IF c = NextCall(p) THEN a ELSE IF c = SecondCall(p) THEN b ELSE Frame(c)
  <2>1. CASE c[1] # p
    BY <1>4, <1>9, <2>1
  <2>2. CASE c[1] = p
    <3>1. PICK i \in 1..(Len(s) + 2) : c = <<p, i>>
      BY <1>3, <1>4, <2>2
    <3>2. Frame(c)' = r[i] /\ Frame(c) = s[i]
      BY <1>4, <3>1 DEF Frame
    <3> QED BY <1>3, <1>6, <1>7, <1>8, <1>9, <3>1, <3>2
  <2> QED BY <2>1, <2>2
<1> QED BY <1>4, <1>10, <1>11, <1>12

-----------------------------------------------------------------------------
(* Counting repetitions and calls.                                         *)

(* As many sets as elements of a finite set are finitely many.             *)
LEMMA ImageFinite ==
  ASSUME NEW S, NEW f, IsFiniteSet(S), \A x \in S : IsFiniteSet(f[x])
  PROVE  IsFiniteSet(UNION {f[x] : x \in S})
<1> DEFINE T == {f[x] : x \in S}
           g == [x \in S |-> f[x]]
<1>1. g \in Surjection(S, T)
  BY DEF Surjection
<1>2. IsFiniteSet(T)
  <2> HIDE DEF g, T
  <2> QED BY <1>1, FS_Surjection
<1>3. \A U \in T : IsFiniteSet(U)
  OBVIOUS
<1> HIDE DEF T
<1>4. IsFiniteSet(UNION T)
  BY <1>2, <1>3, FS_UNION
<1> QED BY <1>4 DEF T

Counts == [Tasks -> Nat]

(* Finitely many repetitions.                                              *)
LEMMA RepsFinite ==
  ASSUME NEW n \in Counts
  PROVE  /\ IsFiniteSet(Repetitions(n)) /\ Cardinality(Repetitions(n)) \in Nat
         /\ \A x : x \in Repetitions(n) <=> \E t \in Tasks : \E i \in 1..n[t] : x = <<t, i>>
<1> DEFINE f == [t \in Tasks |-> {t} \X (1..n[t])]
<1>1. IsFiniteSet(Tasks)
  BY TaskGroupAssumption, FS_Interval DEF Tasks
<1>2. ASSUME NEW t \in Tasks PROVE IsFiniteSet(f[t])
  <2>1. n[t] \in Int
    BY DEF Counts
  <2>2. IsFiniteSet(1..n[t]) /\ IsFiniteSet({t})
    <3>1. 1 \in Int /\ n[t] \in Int
      BY <2>1
    <3>2. IsFiniteSet(1..n[t])
      BY <3>1, FS_Interval
    <3>3. IsFiniteSet({t})
      BY FS_Singleton
    <3> QED BY <3>2, <3>3
  <2>3. IsFiniteSet({t} \X (1..n[t]))
    BY <2>2, FS_Product
  <2> QED BY <2>3
<1>3. IsFiniteSet(UNION {f[t] : t \in Tasks})
  <2> HIDE DEF f
  <2> QED BY <1>1, <1>2, ImageFinite
<1>4. Repetitions(n) = UNION {f[t] : t \in Tasks}
  BY DEF Repetitions
<1>5. \A x : x \in Repetitions(n) <=> \E t \in Tasks : \E i \in 1..n[t] : x = <<t, i>>
  BY DEF Repetitions
<1> QED BY <1>3, <1>4, <1>5, FS_CardinalityType

(* No repetition, no task that has one.                                    *)
LEMMA NoReps ==
  ASSUME NEW n \in Counts
  PROVE  Cardinality(Repetitions(n)) = 0 <=> \A t \in Tasks : n[t] = 0
<1>1. /\ IsFiniteSet(Repetitions(n))
      /\ \A x : x \in Repetitions(n) <=> \E t \in Tasks : \E i \in 1..n[t] : x = <<t, i>>
  BY RepsFinite
<1>2. Cardinality(Repetitions(n)) = 0 <=> Repetitions(n) = {}
  BY <1>1, FS_EmptySet
<1>3. \A t \in Tasks : n[t] \in Nat
  BY DEF Counts
<1>4. ASSUME Repetitions(n) = {}, NEW t \in Tasks PROVE n[t] = 0
  <2>1. n[t] > 0 => 1 \in 1..n[t]
    BY <1>3
  <2>2. ~(n[t] > 0)
    BY <1>1, <1>4, <2>1
  <2> QED BY <1>3, <2>2
<1>5. ASSUME \A t \in Tasks : n[t] = 0 PROVE Repetitions(n) = {}
  <2>1. \A t \in Tasks : \A i \in 1..n[t] : FALSE
    BY <1>5
  <2> QED BY <1>1, <2>1
<1> QED BY <1>2, <1>4, <1>5

(* k more repetitions of one task are k more in all.                       *)
LEMMA MoreReps ==
  ASSUME NEW n \in Counts, NEW m \in Counts, NEW t \in Tasks, NEW k \in Nat,
         m[t] = n[t] + k, \A u \in Tasks : u # t => m[u] = n[u]
  PROVE  Cardinality(Repetitions(m)) = Cardinality(Repetitions(n)) + k
<1> DEFINE new == {t} \X ((n[t] + 1)..(n[t] + k))
<1>1. /\ IsFiniteSet(Repetitions(n)) /\ Cardinality(Repetitions(n)) \in Nat
      /\ \A x : x \in Repetitions(n) <=> \E u \in Tasks : \E i \in 1..n[u] : x = <<u, i>>
      /\ \A x : x \in Repetitions(m) <=> \E u \in Tasks : \E i \in 1..m[u] : x = <<u, i>>
  BY RepsFinite
<1>2. n[t] \in Nat
  BY DEF Counts
<1>3. IsFiniteSet(new) /\ Cardinality(new) = k
  <2>1. /\ IsFiniteSet((n[t] + 1)..(n[t] + k))
        /\ Cardinality((n[t] + 1)..(n[t] + k)) = k
    <3>1. n[t] + 1 \in Int /\ n[t] + k \in Int
      BY <1>2
    <3>2. /\ IsFiniteSet((n[t] + 1)..(n[t] + k))
          /\ Cardinality((n[t] + 1)..(n[t] + k)) =
               IF n[t] + 1 > n[t] + k THEN 0 ELSE (n[t] + k) - (n[t] + 1) + 1
      BY <3>1, FS_Interval
    <3>3. (IF n[t] + 1 > n[t] + k THEN 0 ELSE (n[t] + k) - (n[t] + 1) + 1) = k
      BY <1>2
    <3> QED BY <3>2, <3>3
  <2>2. IsFiniteSet({t}) /\ Cardinality({t}) = 1
    BY FS_Singleton
  <2>3. /\ IsFiniteSet(new)
        /\ Cardinality(new) = Cardinality({t}) * Cardinality((n[t] + 1)..(n[t] + k))
    BY <2>1, <2>2, FS_Product
  <2> QED BY <2>1, <2>2, <2>3
<1>4. \A x : x \in new <=> \E i \in (n[t] + 1)..(n[t] + k) : x = <<t, i>>
  OBVIOUS
<1> HIDE DEF new
<1>5. \A i : i \in 1..m[t] <=> i \in 1..n[t] \/ i \in (n[t] + 1)..(n[t] + k)
  BY <1>2
<1>6. \A i : ~(i \in 1..n[t] /\ i \in (n[t] + 1)..(n[t] + k))
  BY <1>2
<1>7. Repetitions(m) = Repetitions(n) \cup new
  <2>1. ASSUME NEW x, x \in Repetitions(m) PROVE x \in Repetitions(n) \cup new
    <3>1. PICK u \in Tasks : \E i \in 1..m[u] : x = <<u, i>>
      BY <1>1, <2>1
    <3>2. CASE u = t
      BY <1>1, <1>4, <1>5, <3>1, <3>2
    <3>3. CASE u # t
      BY <1>1, <3>1, <3>3
    <3> QED BY <3>2, <3>3
  <2>2. ASSUME NEW x, x \in Repetitions(n) PROVE x \in Repetitions(m)
    <3>1. PICK u \in Tasks : \E i \in 1..n[u] : x = <<u, i>>
      BY <1>1, <2>2
    <3>2. CASE u = t
      BY <1>1, <1>5, <3>1, <3>2
    <3>3. CASE u # t
      BY <1>1, <3>1, <3>3
    <3> QED BY <3>2, <3>3
  <2>3. ASSUME NEW x, x \in new PROVE x \in Repetitions(m)
    BY <1>1, <1>4, <1>5, <2>3
  <2> QED BY <2>1, <2>2, <2>3
<1>8. Repetitions(n) \cap new = {}
  <2>1. ASSUME NEW x, x \in Repetitions(n), x \in new PROVE FALSE
    <3>1. PICK u \in Tasks : \E i \in 1..n[u] : x = <<u, i>>
      BY <1>1, <2>1
    <3>2. PICK i \in 1..n[u] : x = <<u, i>>
      BY <3>1
    <3>3. PICK j \in (n[t] + 1)..(n[t] + k) : x = <<t, j>>
      BY <1>4, <2>1
    <3>4. u = t /\ i = j
      BY <3>2, <3>3
    <3> QED BY <1>6, <3>2, <3>3, <3>4
  <2> QED BY <2>1
<1>9. Cardinality(Repetitions(n) \cap new) = 0
  BY <1>8, FS_EmptySet
<1>10. Cardinality(Repetitions(m)) =
         Cardinality(Repetitions(n)) + Cardinality(new) - Cardinality(Repetitions(n) \cap new)
  BY <1>1, <1>3, <1>7, FS_Union
<1> QED BY <1>1, <1>3, <1>9, <1>10

(* Finitely many calls.                                                    *)
LEMMA CallsFinite ==
  ASSUME TypeOK
  PROVE  IsFiniteSet(Calls) /\ \A g : IsFiniteSet(BusyCalls(g)) /\ Cardinality(BusyCalls(g)) \in Nat
<1> DEFINE f == [p \in Procs |-> {<<p, i>> : i \in DOMAIN stack[p]}]
<1>1. IsFiniteSet(Procs)
  BY TaskGroupAssumption
<1>2. ASSUME NEW p \in Procs PROVE IsFiniteSet(f[p])
  <2>1. Len(stack[p]) \in Nat /\ DOMAIN stack[p] = 1..Len(stack[p])
    BY LenProperties DEF TypeOK
  <2>2. IsFiniteSet(1..Len(stack[p])) /\ IsFiniteSet({p})
    <3>1. 1 \in Int /\ Len(stack[p]) \in Int
      BY <2>1
    <3>2. IsFiniteSet(1..Len(stack[p]))
      BY <3>1, FS_Interval
    <3>3. IsFiniteSet({p})
      BY FS_Singleton
    <3> QED BY <3>2, <3>3
  <2>3. IsFiniteSet({p} \X (1..Len(stack[p])))
    BY <2>2, FS_Product
  <2>4. f[p] = {p} \X (1..Len(stack[p]))
    BY <2>1
  <2> QED BY <2>3, <2>4
<1>3. IsFiniteSet(UNION {f[p] : p \in Procs})
  <2> HIDE DEF f
  <2> QED BY <1>1, <1>2, ImageFinite
<1>4. Calls = UNION {f[p] : p \in Procs}
  BY DEF Calls
<1>5. IsFiniteSet(Calls)
  BY <1>3, <1>4
<1>6. ASSUME NEW g PROVE IsFiniteSet(BusyCalls(g)) /\ Cardinality(BusyCalls(g)) \in Nat
  <2>1. BusyCalls(g) \in SUBSET Calls
    BY DEF BusyCalls
  <2> QED BY <1>5, <2>1, FS_Subset, FS_CardinalityType
<1> QED BY <1>5, <1>6

-----------------------------------------------------------------------------
(* The free lists and the stacks of open groups.                           *)

(* A block that is in the state of no list before and after.               *)
LEMMA ListsKept ==
  ASSUME NEW L \in [Procs -> Seq(Tgs)], NEW G, NEW H, NEW st, HoldsIn(L, G, st),
         \A h \in Tgs : /\ H[h].st = st <=> G[h].st = st
                        /\ G[h].st = st => H[h].procId = G[h].procId
  PROVE  HoldsIn(L, H, st)
<1>1. \A p \in Procs : \A i \in DOMAIN L[p] : L[p][i] \in Tgs
  BY LenProperties, ElementOfSeq
<1> QED BY <1>1 DEF HoldsIn

\* The lists M are L with g put in front of p's, or with p's first one taken off.
Longer(L, p, g, M)  == M = [L EXCEPT ![p] = <<g>> \o @]
Shorter(L, p, g, M) == /\ L[p] # << >> /\ g = Head(L[p])
                       /\ M = [L EXCEPT ![p] = Tail(@)]

(* A block put in front of a list of its creator.                          *)
LEMMA ListsCons ==
  ASSUME NEW L \in [Procs -> Seq(Tgs)], NEW G, NEW H, NEW st, HoldsIn(L, G, st),
         NEW p \in Procs, NEW g \in Tgs, G[g].st # st, H[g].st = st, H[g].procId = p,
         \A h \in Tgs : h # g => H[h].st = G[h].st /\ H[h].procId = G[h].procId,
         NEW M, Longer(L, p, g, M)
  PROVE  M \in [Procs -> Seq(Tgs)] /\ HoldsIn(M, H, st)
<1> DEFINE s == L[p]
           r == <<g>> \o s
<1>1. s \in Seq(Tgs) /\ Len(s) \in Nat /\ DOMAIN s = 1..Len(s)
  BY LenProperties
<1>2. <<g>> \in Seq(Tgs) /\ Len(<<g>>) = 1 /\ <<g>>[1] = g
  OBVIOUS
<1>3. /\ r \in Seq(Tgs) /\ Len(r) = 1 + Len(s)
      /\ \A i \in 1..(1 + Len(s)) : r[i] = IF i <= 1 THEN <<g>>[i] ELSE s[i - 1]
  <2> HIDE DEF s
  <2> QED BY <1>1, <1>2, ConcatProperties
<1>4. M = [L EXCEPT ![p] = r]
  BY DEF Longer
<1> HIDE DEF r
<1>5. DOMAIN r = 1..(Len(s) + 1)
  BY <1>1, <1>3, LenProperties
<1>6. r[1] = g /\ \A i \in 1..Len(s) : r[i + 1] = s[i]
  <2>1. r[1] = g
    BY <1>1, <1>2, <1>3
  <2>2. ASSUME NEW i \in 1..Len(s) PROVE r[i + 1] = s[i]
    <3>1. i + 1 \in 1..(1 + Len(s)) /\ ~(i + 1 <= 1) /\ (i + 1) - 1 = i
      BY <1>1
    <3>2. r[i + 1] = s[(i + 1) - 1]
      BY <1>3, <3>1
    <3> QED BY <3>1, <3>2
  <2> QED BY <2>1, <2>2
<1>7. \A i \in DOMAIN r : i = 1 \/ \E j \in 1..Len(s) : i = j + 1
  <2>1. ASSUME NEW i \in 1..(Len(s) + 1), i # 1 PROVE i - 1 \in 1..Len(s) /\ i = (i - 1) + 1
    BY <1>1, <2>1
  <2> QED BY <1>5, <2>1
<1>8. \A q \in Procs : M[q] = IF q = p THEN r ELSE L[q]
  BY <1>4
<1>9. \A q \in Procs : \A i \in DOMAIN L[q] :
        L[q][i] \in Tgs /\ L[q][i] # g /\ G[L[q][i]].st = st /\ G[L[q][i]].procId = q
  BY LenProperties, ElementOfSeq DEF HoldsIn
<1>10. ASSUME NEW q \in Procs, NEW i \in DOMAIN M[q]
       PROVE  H[M[q][i]].st = st /\ H[M[q][i]].procId = q
  <2>1. CASE q = p
    <3>1. M[q] = r
      BY <1>8, <2>1
    <3>2. CASE i = 1
      BY <1>6, <2>1, <3>1, <3>2
    <3>3. CASE i # 1
      <4>1. PICK j \in 1..Len(s) : i = j + 1
        BY <1>7, <3>1, <3>3
      <4>2. M[q][i] = s[j]
        BY <1>6, <3>1, <4>1
      <4>3. /\ s[j] \in Tgs /\ s[j] # g /\ G[s[j]].st = st /\ G[s[j]].procId = p
        BY <1>1, <1>9, <4>1
      <4> QED BY <2>1, <4>2, <4>3
    <3> QED BY <3>2, <3>3
  <2>2. CASE q # p
    BY <1>8, <1>9, <2>2
  <2> QED BY <2>1, <2>2
<1>11. ASSUME NEW q \in Procs, NEW i \in DOMAIN M[q], NEW j \in DOMAIN M[q], M[q][i] = M[q][j]
       PROVE  i = j
  <2>1. CASE q = p
    <3>1. M[q] = r
      BY <1>8, <2>1
    <3>2. \A k, l \in 1..Len(s) : s[k] = s[l] => k = l
      <4>1. \A k, l \in DOMAIN s : s[k] = s[l] => k = l
        BY DEF HoldsIn
      <4> QED BY <1>1, <4>1
    <3>3. \A k \in 1..Len(s) : s[k] # g
      BY <1>1, <1>9
    <3>4. CASE i = 1 \/ j = 1
      <4>1. ASSUME NEW k \in DOMAIN r, r[k] = g PROVE k = 1
        <5>1. ASSUME k # 1 PROVE FALSE
          <6>1. PICK l \in 1..Len(s) : k = l + 1
            BY <1>7, <5>1
          <6>2. s[l] = g
            BY <1>6, <4>1, <6>1
          <6> QED BY <3>3, <6>2
        <5> QED BY <5>1
      <4>2. r[i] = g /\ r[j] = g
        BY <1>6, <1>11, <3>1, <3>4
      <4> QED BY <3>1, <4>1, <4>2
    <3>5. CASE i # 1 /\ j # 1
      <4>1. PICK k \in 1..Len(s) : i = k + 1
        BY <1>7, <3>1, <3>5
      <4>2. PICK l \in 1..Len(s) : j = l + 1
        BY <1>7, <3>1, <3>5
      <4>3. s[k] = s[l]
        BY <1>6, <1>11, <3>1, <4>1, <4>2
      <4> QED BY <3>2, <4>1, <4>2, <4>3
    <3> QED BY <3>4, <3>5
  <2>2. CASE q # p
    BY <1>8, <1>11, <2>2 DEF HoldsIn
  <2> QED BY <2>1, <2>2
<1>12. ASSUME NEW h \in Tgs, H[h].st = st
       PROVE  H[h].procId \in Procs /\ \E i \in DOMAIN M[H[h].procId] : M[H[h].procId][i] = h
  <2>1. CASE h = g
    <3>1. 1 \in DOMAIN r
      BY <1>1, <1>5
    <3> QED BY <1>6, <1>8, <2>1, <3>1
  <2>2. CASE h # g
    <3>1. G[h].st = st /\ H[h].procId = G[h].procId
      BY <1>12, <2>2
    <3>2. PICK i \in DOMAIN L[G[h].procId] : L[G[h].procId][i] = h
      BY <3>1 DEF HoldsIn
    <3>3. G[h].procId \in Procs
      BY <3>1 DEF HoldsIn
    <3>4. CASE G[h].procId = p
      <4>1. i \in 1..Len(s) /\ i + 1 \in 1..(Len(s) + 1)
        BY <1>1, <3>2, <3>4
      <4>2. r[i + 1] = h /\ i + 1 \in DOMAIN r
        BY <1>5, <1>6, <3>2, <3>4, <4>1
      <4> QED BY <1>8, <3>1, <3>3, <3>4, <4>2
    <3>5. CASE G[h].procId # p
      BY <1>8, <3>1, <3>2, <3>3, <3>5
    <3> QED BY <3>4, <3>5
  <2> QED BY <2>1, <2>2
<1>13. M \in [Procs -> Seq(Tgs)]
  BY <1>3, <1>4
<1> QED BY <1>10, <1>11, <1>12, <1>13 DEF HoldsIn

(* The first block of a list taken off.                                    *)
LEMMA ListsTail ==
  ASSUME NEW L \in [Procs -> Seq(Tgs)], NEW G, NEW H, NEW st, HoldsIn(L, G, st),
         NEW p \in Procs, NEW g \in Tgs, H[g].st # st,
         \A h \in Tgs : h # g => H[h].st = G[h].st /\ H[h].procId = G[h].procId,
         NEW M, Shorter(L, p, g, M)
  PROVE  /\ M \in [Procs -> Seq(Tgs)] /\ HoldsIn(M, H, st)
         /\ G[g].st = st /\ G[g].procId = p
<1> DEFINE s == L[p]
           r == Tail(s)
<1>1. /\ s \in Seq(Tgs) /\ Len(s) \in Nat \ {0} /\ DOMAIN s = 1..Len(s)
      /\ g \in Tgs /\ r \in Seq(Tgs) /\ Len(r) = Len(s) - 1
      /\ \A i \in 1..Len(r) : r[i] = s[i + 1]
  BY LenProperties, EmptySeq, HeadTailProperties DEF Shorter
<1>2. g = s[1]
  BY <1>1 DEF Shorter
<1>3. M = [L EXCEPT ![p] = r]
  BY DEF Shorter
<1> HIDE DEF r
<1>4. DOMAIN r = 1..(Len(s) - 1)
  BY <1>1, LenProperties
<1>5. \A q \in Procs : M[q] = IF q = p THEN r ELSE L[q]
  BY <1>3
<1>6. 1 \in 1..Len(s) /\ \A i \in 1..(Len(s) - 1) : i + 1 \in 1..Len(s) /\ i + 1 # 1
  BY <1>1
<1>7. G[g].st = st /\ G[g].procId = p
  BY <1>1, <1>2, <1>6 DEF HoldsIn
<1>8. \A q \in Procs : \A i \in DOMAIN L[q] :
        /\ L[q][i] \in Tgs /\ G[L[q][i]].st = st /\ G[L[q][i]].procId = q
        /\ L[q][i] = g => q = p /\ i = 1
  <2>1. \A q \in Procs : \A i \in DOMAIN L[q] :
          L[q][i] \in Tgs /\ G[L[q][i]].st = st /\ G[L[q][i]].procId = q
    BY LenProperties, ElementOfSeq DEF HoldsIn
  <2>2. \A i \in DOMAIN s : s[i] = g => i = 1
    BY <1>1, <1>2, <1>6 DEF HoldsIn
  <2> QED BY <1>7, <2>1, <2>2
<1>9. ASSUME NEW q \in Procs, NEW i \in DOMAIN M[q]
      PROVE  H[M[q][i]].st = st /\ H[M[q][i]].procId = q
  <2>1. CASE q = p
    <3>1. i \in 1..(Len(s) - 1)
      BY <1>4, <1>5, <2>1
    <3>2. M[q][i] = s[i + 1] /\ i + 1 \in DOMAIN s /\ i + 1 # 1
      BY <1>1, <1>5, <1>6, <2>1, <3>1
    <3>3. s[i + 1] \in Tgs /\ s[i + 1] # g /\ G[s[i + 1]].st = st /\ G[s[i + 1]].procId = p
      <4>1. /\ s[i + 1] \in Tgs /\ G[s[i + 1]].st = st /\ G[s[i + 1]].procId = p
            /\ s[i + 1] = g => i + 1 = 1
        BY <1>8, <3>2
      <4> QED BY <3>2, <4>1
    <3> QED BY <1>3, <2>1, <3>2, <3>3
  <2>2. CASE q # p
    BY <1>3, <1>5, <1>8, <2>2
  <2> QED BY <2>1, <2>2
<1>10. ASSUME NEW q \in Procs, NEW i \in DOMAIN M[q], NEW j \in DOMAIN M[q], M[q][i] = M[q][j]
       PROVE  i = j
  <2>1. CASE q = p
    <3>1. i \in 1..(Len(s) - 1) /\ j \in 1..(Len(s) - 1)
      BY <1>4, <1>5, <2>1
    <3>2. s[i + 1] = s[j + 1] /\ i + 1 \in DOMAIN s /\ j + 1 \in DOMAIN s
      BY <1>1, <1>5, <1>6, <1>10, <2>1, <3>1
    <3>3. i + 1 = j + 1
      BY <2>1, <3>2 DEF HoldsIn
    <3> QED BY <3>1, <3>3
  <2>2. CASE q # p
    BY <1>5, <1>10, <2>2 DEF HoldsIn
  <2> QED BY <2>1, <2>2
<1>11. ASSUME NEW h \in Tgs, H[h].st = st
       PROVE  H[h].procId \in Procs /\ \E i \in DOMAIN M[H[h].procId] : M[H[h].procId][i] = h
  <2>1. h # g /\ G[h].st = st /\ H[h].procId = G[h].procId
    BY <1>3, <1>11
  <2>2. G[h].procId \in Procs /\ \E i \in DOMAIN L[G[h].procId] : L[G[h].procId][i] = h
    BY <2>1 DEF HoldsIn
  <2>3. PICK i \in DOMAIN L[G[h].procId] : L[G[h].procId][i] = h
    BY <2>2
  <2>4. CASE G[h].procId = p
    <3>1. i \in 1..Len(s) /\ i # 1
      BY <1>1, <1>2, <2>1, <2>3, <2>4
    <3>2. i - 1 \in 1..(Len(s) - 1) /\ (i - 1) + 1 = i
      BY <1>1, <3>1
    <3>3. r[i - 1] = h /\ i - 1 \in DOMAIN r
      BY <1>1, <1>4, <2>3, <2>4, <3>2
    <3> QED BY <1>5, <2>1, <2>2, <2>4, <3>3
  <2>5. CASE G[h].procId # p
    BY <1>5, <2>1, <2>2, <2>3, <2>5
  <2> QED BY <2>4, <2>5
<1>12. M \in [Procs -> Seq(Tgs)]
  BY <1>1, <1>3
<1> QED BY <1>1, <1>3, <1>7, <1>9, <1>10, <1>11, <1>12 DEF HoldsIn

-----------------------------------------------------------------------------
(* Steps that neither create, start nor end a group.                       *)

\* Where the groups are, which they are and how they are run stays.
SameGroups ==
  /\ UNCHANGED <<freeTasks, open, created>>
  /\ \A g \in Tgs : /\ grp'[g].st = grp[g].st /\ grp'[g].serial = grp[g].serial
                    /\ grp'[g].sync = grp[g].sync /\ grp'[g].procId = grp[g].procId

\* A call goes on in frame e, one begins with it.
Continues(f, e) ==
  /\ e.k = f.k /\ e.g = f.g /\ e.serial = f.serial /\ e.t = f.t
  /\ e.ph \in TaskPhases <=> f.ph \in TaskPhases
  /\ e.ph \in {"run", "enqueue", "countdown"} => f.ph \in {"run", "enqueue", "countdown"}
Begins(e) == /\ e.k = "task" /\ e.ph = "run" /\ ~e.fail /\ ~e.lastTask
             /\ Lives(e) /\ e.serial <= created /\ e.t \in 1..added

SameCalls ==
  \A c \in Calls' : \/ c \in Calls /\ Continues(Frame(c), Frame(c)')
                    \/ c \notin Calls /\ Begins(Frame(c)')

(* The groups stay where they are.                                         *)
LEMMA QuietPlaces ==
  ASSUME TypeOK, PlacesOK, SameGroups
  PROVE  PlacesOK'
<1>1. freeTasks \in [Procs -> Seq(Tgs)] /\ open \in [Procs -> Seq(Tgs)]
  BY DEF TypeOK
<1>2. \A st : \A h \in Tgs : /\ grp'[h].st = st <=> grp[h].st = st
                             /\ grp[h].st = st => grp'[h].procId = grp[h].procId
  BY DEF SameGroups
<1>3. HoldsIn(freeTasks, grp', "free") /\ HoldsIn(open, grp', "open")
  BY <1>1, <1>2, ListsKept DEF PlacesOK
<1>4. freeTasks' = freeTasks /\ open' = open
  BY DEF SameGroups
<1> QED BY <1>3, <1>4 DEF PlacesOK

(* Calls that go on or begin are still about groups that execute.          *)
LEMMA QuietCalls ==
  ASSUME TypeOK, CallsOK, SameGroups, SameCalls, added' \in Nat, added <= added'
  PROVE  CallsOK'
<1>1. \A c \in Calls : Frame(c) \in Frames
  BY CallsAre
<1>2. \A c \in Calls' : Frame(c)'.g \in Tgs
  BY <1>1 DEF SameCalls, Continues, Begins, Lives, Frames
<1>3. created' = created /\ added \in Nat /\ created \in Nat
  BY TaskGroupAssumption DEF SameGroups, TypeOK
<1>4. \A c \in Calls' : Frame(c)'.serial <= created'
  BY <1>3 DEF SameCalls, Continues, Begins, CallsOK
<1>5. \A c \in Calls' : Frame(c)'.k = "task" <=> Frame(c)'.ph \in TaskPhases
  BY DEF SameCalls, Continues, Begins, CallsOK, TaskPhases
<1>6. \A c \in Calls' : Frame(c)'.k = "task" => Frame(c)'.t \in 1..added'
  BY <1>3 DEF SameCalls, Continues, Begins, CallsOK
<1>7. \A r : Lives(r) => r.g \in Tgs /\ grp'[r.g].st = "run" /\ r.serial = grp'[r.g].serial
  BY DEF Lives, SameGroups, Of
<1>8. ASSUME NEW c \in Calls', Frame(c)'.ph \in {"run", "enqueue", "countdown"} \/ Frame(c)'.k = "wait"
      PROVE  Lives(Frame(c))'
  <2>1. CASE c \in Calls /\ Continues(Frame(c), Frame(c)')
    <3>1. Busy(c) \/ Frame(c).k = "wait"
      BY <1>8, <2>1 DEF Continues, Busy
    <3>2. Lives(Frame(c))
      BY <2>1, <3>1 DEF CallsOK
    <3> QED BY <1>7, <2>1, <3>2 DEF Continues, Lives, Of
  <2>2. CASE Begins(Frame(c)')
    <3>1. Lives(Frame(c)')
      BY <2>2 DEF Begins
    <3> QED BY <1>7, <3>1 DEF Lives, Of
  <2> QED BY <2>1, <2>2 DEF SameCalls
<1>9. \A c \in Calls' : (Busy(c) \/ Frame(c).k = "wait" => Lives(Frame(c)))'
  BY <1>8 DEF Busy
<1>10. ASSUME NEW c \in Calls', Of(Frame(c).g, Frame(c))' PROVE (grp[Frame(c).g].st # "open")'
  <2>1. CASE c \in Calls /\ Continues(Frame(c), Frame(c)')
    <3>1. Of(Frame(c).g, Frame(c)) /\ Frame(c)'.g = Frame(c).g
      BY <1>2, <1>10, <2>1 DEF Of, SameGroups, Continues
    <3>2. grp[Frame(c).g].st # "open"
      BY <2>1, <3>1 DEF CallsOK
    <3> QED BY <1>2, <3>1, <3>2 DEF SameGroups
  <2>2. CASE Begins(Frame(c)')
    BY <1>2, <2>2 DEF Begins, Lives, SameGroups
  <2> QED BY <2>1, <2>2 DEF SameCalls
<1>11. \A c \in Calls' : Frame(c)'.k = "wait" => Frame(c)'.t = 0
  BY DEF SameCalls, Continues, Begins, CallsOK
<1> QED BY <1>4, <1>5, <1>6, <1>9, <1>10, <1>11 DEF CallsOK

(* So are the calls that wait.                                             *)
LEMMA QuietWaits ==
  ASSUME TypeOK, WaitsOK, SameGroups, SameCalls,
         \A c \in Calls : Frame(c).k = "wait" => Frame(c).g \in Tgs,
         \A c \in Calls' : /\ Frame(c)'.k = "wait"
                           /\ \/ Frame(c)'.ph = "join"
                              \/ Frame(c)'.ph = "dequeue" /\ Frame(c)'.knt = 0
                           => grp'[Frame(c)'.g].ntodo = 0
  PROVE  WaitsOK'
<1>1. \A c \in Calls' : Frame(c)'.k = "wait" =>
        c \in Calls /\ Frame(c).k = "wait" /\ Frame(c)'.g = Frame(c).g /\ Frame(c).g \in Tgs
  BY DEF SameCalls, Continues, Begins
<1>2. \A c \in Calls' : Frame(c)'.k = "wait" =>
        grp'[Frame(c)'.g].sync /\ grp'[Frame(c)'.g].procId = c[1]
  BY <1>1 DEF SameGroups, WaitsOK
<1>3. \A c, d \in Calls' : Frame(c)'.k = "wait" /\ Frame(d)'.k = "wait"
                           /\ Frame(c)'.g = Frame(d)'.g => c = d
  BY <1>1 DEF WaitsOK
<1> QED BY <1>2, <1>3 DEF WaitsOK

(* What each task is, and has left, after a step.                          *)
LEMMA LeftTyped ==
  ASSUME TypeOK, TypeOK'
  PROVE  \A g : Left(g) \in Counts /\ Left(g)' \in Counts
<1>1. /\ \A t \in Tasks : queued[t] \in Nat /\ task[t].rep \in Nat
      /\ \A t \in Tasks : queued'[t] \in Nat /\ task'[t].rep \in Nat
  BY DEF TypeOK, TaskBlocks
<1> QED BY <1>1 DEF Left, Counts

(* The counts stay when nothing is taken, begun, added or counted down.    *)
LEMMA QuietNtodo ==
  ASSUME TypeOK, TypeOK', NtodoExact, SameGroups, ~astray, ~astray',
         NEW g \in Tgs, grp'[g].ntodo = grp[g].ntodo,
         \A t \in Tasks : Left(g)'[t] = Left(g)[t],
         BusyCalls(g)' = BusyCalls(g),
         grp'[g].st = "run"
  PROVE  grp'[g].ntodo = Outstanding(g)' + (IF grp'[g].sync THEN 0 ELSE 1)
<1>1. Left(g) \in Counts /\ Left(g)' \in Counts
  BY LeftTyped
<1>2. Left(g)' = Left(g)
  BY <1>1 DEF Counts
<1>3. Repetitions(Left(g))' = Repetitions(Left(g))
  BY <1>2 DEF Repetitions
<1>4. Outstanding(g)' = Outstanding(g)
  BY <1>3 DEF Outstanding
<1>5. grp[g].ntodo = Outstanding(g) + (IF grp[g].sync THEN 0 ELSE 1)
  BY DEF NtodoExact, SameGroups
<1> QED BY <1>4, <1>5 DEF SameGroups

(* The ends of groups stay as they are.                                    *)
LEMMA QuietEnds ==
  ASSUME TypeOK, EndsOK, SameGroups, SameCalls, doomed' = {}, failed \subseteq failed',
         answer' = answer,
         \A g \in Tgs : grp'[g].error => grp[g].error \/ grp[g].serial \in failed',
         \A c \in Calls : Frame(c) \in Frames,
         \A c \in Calls' : c \in Calls =>
            /\ Frame(c)'.fail => Frame(c).fail \/ Frame(c).serial \in failed'
            /\ Frame(c)'.ph = "post" /\ Frame(c)'.lastTask =>
                 \/ Frame(c).ph = "post" /\ Frame(c).lastTask
                 \/ grp[Frame(c).g].sync
  PROVE  EndsOK'
<1>1. ASSUME NEW c \in Calls', (Frame(c).ph = "post" /\ Frame(c).lastTask /\ Lives(Frame(c)))'
      PROVE  (grp[Frame(c).g].sync)'
  <2>1. c \in Calls /\ Continues(Frame(c), Frame(c)')
    BY <1>1 DEF SameCalls, Begins
  <2>2. Frame(c)'.g = Frame(c).g /\ Frame(c)'.serial = Frame(c).serial /\ Frame(c).g \in Tgs
    BY <2>1 DEF Continues, Frames
  <2>3. Lives(Frame(c))
    BY <1>1, <2>2 DEF Lives, Of, SameGroups
  <2> QED BY <1>1, <2>1, <2>2, <2>3 DEF EndsOK, SameGroups
<1>2. ASSUME NEW c \in Calls', Frame(c)'.fail PROVE Frame(c)'.serial \in failed'
  BY <1>2 DEF SameCalls, Begins, Continues, EndsOK
<1>3. \A g \in Tgs : grp'[g].st \in {"open", "run"} => grp'[g].serial > 0
  BY DEF EndsOK, SameGroups
<1>4. \A g \in Tgs : grp'[g].st \in {"open", "run"} /\ grp'[g].error => grp'[g].serial \in failed'
  BY DEF EndsOK, SameGroups
<1>5. \A s \in 1..MaxGroups : answer'[s] = "ERROR" => s \in failed'
  BY DEF EndsOK
<1> QED BY <1>1, <1>2, <1>3, <1>4, <1>5 DEF EndsOK

(* The step of DXAddLikeTasks with a group open.                           *)
LEMMA AddLikeIInv ==
  ASSUME TypeOK, UntilAstray, ~astray, NEW p \in Procs, NEW r \in Repeats, DXAddLikeTasks(p, r)
  PROVE  TypeOK' /\ UntilAstray'
<1> DEFINE h == Head(open[p])
           n == added + 1
           b == [st |-> "live", g |-> h, serial |-> grp[h].serial, rep |-> r, extra |-> FALSE]
<1>1. /\ added < MaxTasks /\ open[p] # << >> /\ added' = n
      /\ task' = [task EXCEPT ![n] = b]
      /\ UNCHANGED <<grp, queued, doomed, freeTasks, open, stack, created, history>>
  BY DEF DXAddLikeTasks
<1>2. /\ added \in Nat /\ n \in Tasks /\ n \in 0..MaxTasks /\ r \in Nat /\ r > 0
      /\ 1..added \subseteq 1..n /\ n \notin 1..added /\ 1..added \subseteq Tasks
  BY <1>1, TaskGroupAssumption DEF TypeOK, Tasks
<1>3. h \in Tgs /\ grp[h].st = "open" /\ grp[h].serial \in 0..created /\ grp[h].serial > 0
  <2>1. Len(open[p]) \in Nat \ {0} /\ h \in Tgs /\ h = open[p][1] /\ DOMAIN open[p] = 1..Len(open[p])
    BY <1>1, EmptySeq, LenProperties, HeadTailProperties DEF TypeOK
  <2>2. grp[h].st = "open"
    <3>1. 1 \in DOMAIN open[p]
      BY <2>1
    <3> QED BY <2>1, <3>1 DEF UntilAstray, PlacesOK, HoldsIn
  <2>3. grp[h].serial \in 0..created /\ grp[h].serial > 0
    BY <2>1, <2>2 DEF TypeOK, Groups, UntilAstray, EndsOK
  <2> QED BY <2>1, <2>2, <2>3
<1> HIDE DEF h
<1>4. b \in TaskBlocks
  BY <1>2, <1>3 DEF TaskBlocks
<1>5. /\ b.st = "live" /\ b.g = h /\ b.serial = grp[h].serial /\ b.rep = r
  OBVIOUS
<1> HIDE DEF b, n
<1>6. TypeOK'
  <2>1. task' \in [Tasks -> TaskBlocks']
    BY <1>1, <1>4 DEF TypeOK, TaskBlocks, history
  <2> QED BY <1>1, <1>2, <2>1 DEF TypeOK, Groups, history
<1>7. \A t \in Tasks : task'[t] = IF t = n THEN b ELSE task[t]
  BY <1>1 DEF TypeOK
<1>8. task[n] = NoTask /\ queued[n] = 0
  <2>1. task[n] = NoTask
    BY <1>2 DEF UntilAstray, TasksOK, n
  <2>2. task[n].st # "live"
    BY <2>1 DEF NoTask
  <2>3. ~(queued[n] > 0)
    BY <1>2, <2>2 DEF UntilAstray, TasksOK
  <2>4. queued[n] \in Nat
    BY <1>2 DEF TypeOK
  <2> QED BY <2>1, <2>3, <2>4
<1>9. Calls' = Calls /\ \A c \in Calls : Frame(c)' = Frame(c)
  BY <1>1 DEF Calls, Frame
<1>10. SameGroups /\ SameCalls
  BY <1>1, <1>9 DEF SameGroups, SameCalls, Continues
<1>11. PlacesOK'
  BY <1>10, QuietPlaces DEF UntilAstray
<1>12. CallsOK'
  BY <1>1, <1>2, <1>10, QuietCalls DEF UntilAstray, n
<1>13. WaitsOK'
  <2>1. \A c \in Calls : Frame(c).k = "wait" => Frame(c).g \in Tgs
    BY CallsAre DEF Frames
  <2> QED BY <1>1, <1>9, <1>10, <2>1, QuietWaits DEF UntilAstray, WaitsOK
<1>14. TasksOK'
  <2>1. \A t \in Tasks : task'[t].st = "live" =>
          task'[t].g \in Tgs /\ task'[t].rep > 0 /\ task'[t].serial > 0
    BY <1>2, <1>3, <1>5, <1>7 DEF UntilAstray, TasksOK
  <2>2. ASSUME NEW t \in Tasks, queued'[t] > 0 PROVE task'[t].st = "live" /\ Lives(task[t])'
    <3>1. t # n /\ queued[t] > 0
      BY <1>1, <1>8, <2>2
    <3>2. task'[t] = task[t] /\ task[t].st = "live" /\ Lives(task[t])
      BY <1>7, <3>1 DEF UntilAstray, TasksOK
    <3> QED BY <1>1, <3>2 DEF Lives, Of
  <2>3. \A t \in Tasks : t > added' => task'[t] = NoTask
    BY <1>1, <1>2, <1>7 DEF UntilAstray, TasksOK, n, Tasks
  <2> QED BY <2>1, <2>2, <2>3 DEF TasksOK
<1>15. \A c \in Calls : Frame(c).ph = "enqueue" => Frame(c).knt \in 1..added
  BY DEF UntilAstray, EnteringOK
<1>16. EnteringOK'
  <2>1. ASSUME NEW c \in Calls', Frame(c)'.ph = "enqueue"
        PROVE  LET t == Frame(c)'.knt
               IN  /\ t \in 1..added' /\ queued'[t] = 0
                   /\ task'[t].st = "live" /\ task'[t].extra
                   /\ task'[t].g = Frame(c)'.g /\ task'[t].serial = Frame(c)'.serial
                   /\ \A d \in Calls' : Frame(d)'.t # t
    <3> DEFINE t == Frame(c).knt
    <3>1. /\ t \in 1..added /\ queued[t] = 0 /\ task[t].st = "live" /\ task[t].extra
          /\ task[t].g = Frame(c).g /\ task[t].serial = Frame(c).serial
          /\ \A d \in Calls : Frame(d).t # t
      BY <1>9, <2>1 DEF UntilAstray, EnteringOK
    <3>2. t \in Tasks /\ t # n
      BY <1>2, <3>1
    <3> QED BY <1>1, <1>2, <1>7, <1>9, <3>1, <3>2
  <2>2. \A c, d \in Calls' : Frame(c)'.ph = "enqueue" /\ Frame(d)'.ph = "enqueue"
                             /\ Frame(c)'.knt = Frame(d)'.knt => c = d
    BY <1>9 DEF UntilAstray, EnteringOK
  <2> QED BY <2>1, <2>2 DEF EnteringOK
<1>17. EndsOK'
  <2>1. \A c \in Calls : Frame(c) \in Frames
    BY CallsAre
  <2> QED BY <1>1, <1>9, <1>10, <2>1, QuietEnds DEF UntilAstray, EndsOK, history
<1>18. NtodoExact'
  <2>1. ASSUME NEW g \in Tgs, (grp[g].st = "run" /\ ~astray)'
        PROVE  (grp[g].ntodo = Outstanding(g) + (IF grp[g].sync THEN 0 ELSE 1))'
    <3>1. \A t \in Tasks : t \in Entering' <=> t \in Entering
      BY <1>9 DEF Entering
    <3>2. n \notin Entering
      BY <1>2, <1>15 DEF Entering
    <3>3. \A t \in Tasks : Left(g)'[t] = Left(g)[t]
      <4>1. ASSUME NEW t \in Tasks PROVE Left(g)'[t] = Left(g)[t]
        <5>1. CASE t = n
          BY <1>1, <1>8, <3>1, <3>2, <5>1 DEF Left
        <5>2. CASE t # n
          BY <1>1, <1>7, <3>1, <5>2 DEF Left, Of
        <5> QED BY <5>1, <5>2
      <4> QED BY <4>1
    <3>4. BusyCalls(g)' = BusyCalls(g)
      BY <1>1, <1>9 DEF BusyCalls, Busy, Of
    <3>5. ~astray' /\ grp' = grp
      BY <1>1, <2>1
    <3> QED BY <1>6, <1>10, <2>1, <3>3, <3>4, <3>5, QuietNtodo DEF UntilAstray
  <2> QED BY <2>1 DEF NtodoExact
<1> QED BY <1>6, <1>11, <1>12, <1>13, <1>14, <1>16, <1>17, <1>18 DEF UntilAstray

(* The step of DXAddLikeTasks in a running task, up to the unlock.         *)
LEMMA AddRunningIInv ==
  ASSUME TypeOK, UntilAstray, ~astray, NEW p \in Procs, NEW r \in RuntimeRepeats,
         DXAddLikeTasksRunning(p, r)
  PROVE  TypeOK' /\ UntilAstray'
<1> DEFINE f == Top(p)
           n == added + 1
           b == [st |-> "live", g |-> f.g, serial |-> f.serial, rep |-> r, extra |-> TRUE]
           e == [f EXCEPT !.ph = "enqueue", !.knt = n]
           h == f.g
<1>1. /\ added < MaxTasks /\ stack[p] # << >> /\ f.ph = "run" /\ added' = n
      /\ task' = [task EXCEPT ![n] = b]
      /\ grp' = [grp EXCEPT ![h].ntodo = @ + r]
      /\ SetTop(p, e)
      /\ UNCHANGED <<queued, doomed, freeTasks, open, created, history>>
  BY DEF DXAddLikeTasksRunning, InUser
<1>2. /\ added \in Nat /\ n \in Tasks /\ n \in 0..MaxTasks /\ r \in Nat /\ r > 0 /\ n \in Int
      /\ 1..added \subseteq 1..n /\ n \notin 1..added /\ n \in 1..n /\ 1..added \subseteq Tasks
      /\ n # 0
  BY <1>1, TaskGroupAssumption DEF TypeOK, Tasks
<1>3. f \in Frames /\ TopCall(p) \in Calls /\ Frame(TopCall(p)) = f
  BY <1>1, CallsAre
<1>4. f.k = "task" /\ Lives(f) /\ f.serial <= created /\ f.g \in Tgs /\ f.t \in 1..added
  <2>1. f.ph \in TaskPhases /\ Busy(TopCall(p))
    BY <1>1, <1>3 DEF TaskPhases, Busy
  <2>2. f.k = "task" /\ Lives(f) /\ f.serial <= created
    BY <1>3, <2>1 DEF UntilAstray, CallsOK
  <2> QED BY <1>3, <2>2 DEF Lives, UntilAstray, CallsOK
<1>5. /\ e \in Frames /\ e.k = f.k /\ e.g = f.g /\ e.serial = f.serial /\ e.t = f.t
      /\ e.ph = "enqueue" /\ e.knt = n /\ e.fail = f.fail /\ e.lastTask = f.lastTask
  BY <1>2, <1>3 DEF Frames, TaskPhases
<1> HIDE DEF f
<1>6. b \in TaskBlocks
  <2>1. f.serial \in 0..created
    BY <1>3, <1>4 DEF Frames, TypeOK
  <2> QED BY <1>2, <1>4, <2>1 DEF TaskBlocks
<1>7. /\ b.st = "live" /\ b.g = f.g /\ b.serial = f.serial /\ b.rep = r /\ b.extra
  OBVIOUS
<1> HIDE DEF b, n, e
<1>8. /\ stack' \in [Procs -> Seq(Frames)] /\ Calls' = Calls
      /\ \A c \in Calls : Frame(c)' = IF c = TopCall(p) THEN e ELSE Frame(c)
  BY <1>1, <1>5, SetCalls
<1>9. /\ grp' \in [Tgs -> Groups]
      /\ \A g \in Tgs : /\ grp'[g].st = grp[g].st /\ grp'[g].serial = grp[g].serial
                        /\ grp'[g].sync = grp[g].sync /\ grp'[g].procId = grp[g].procId
                        /\ grp'[g].error = grp[g].error
                        /\ grp'[g].ntodo = IF g = h THEN grp[g].ntodo + r ELSE grp[g].ntodo
  <2>1. grp \in [Tgs -> Groups]
    BY DEF TypeOK
  <2>2. grp[h] \in Groups /\ grp[h].ntodo + r \in Int
    BY <1>2, <1>4, <2>1 DEF Groups
  <2>3. [grp[h] EXCEPT !.ntodo = grp[h].ntodo + r] \in Groups
    BY <2>2 DEF Groups
  <2>4. grp' = [grp EXCEPT ![h] = [grp[h] EXCEPT !.ntodo = grp[h].ntodo + r]]
    BY <1>1
  <2>5. grp' \in [Tgs -> Groups]
    BY <2>1, <2>3, <2>4
  <2>6. \A g \in Tgs : grp[g] \in Groups
    BY <2>1
  <2>7. \A g \in Tgs : grp'[g] = IF g = h THEN [grp[h] EXCEPT !.ntodo = grp[h].ntodo + r] ELSE grp[g]
    BY <2>1, <2>4
  <2> QED BY <2>5, <2>6, <2>7 DEF Groups
<1>10. created' = created
  BY <1>1
<1>11. TypeOK'
  <2>1. task' \in [Tasks -> TaskBlocks']
    BY <1>1, <1>6 DEF TypeOK, TaskBlocks, history
  <2>2. grp' \in [Tgs -> Groups']
    BY <1>9, <1>10 DEF Groups
  <2> QED BY <1>1, <1>2, <1>8, <2>1, <2>2 DEF TypeOK, history
<1>12. \A t \in Tasks : task'[t] = IF t = n THEN b ELSE task[t]
  BY <1>1 DEF TypeOK
<1>13. task[n] = NoTask /\ queued[n] = 0
  <2>1. task[n] = NoTask
    BY <1>2 DEF UntilAstray, TasksOK, n
  <2>2. task[n].st # "live"
    BY <2>1 DEF NoTask
  <2>3. ~(queued[n] > 0)
    BY <1>2, <2>2 DEF UntilAstray, TasksOK
  <2>4. queued[n] \in Nat
    BY <1>2 DEF TypeOK
  <2> QED BY <2>1, <2>3, <2>4
<1>14. SameGroups
  BY <1>1, <1>9 DEF SameGroups
<1>15. Continues(f, e)
  BY <1>1, <1>5 DEF Continues, TaskPhases
<1>16. SameCalls
  BY <1>3, <1>8, <1>15 DEF SameCalls, Continues
<1>17. PlacesOK'
  BY <1>14, QuietPlaces DEF UntilAstray
<1>18. CallsOK'
  BY <1>1, <1>2, <1>14, <1>16, QuietCalls DEF UntilAstray, n
<1>19. h \in Tgs /\ grp[h].st = "run" /\ Of(h, f)
  BY <1>4 DEF Lives
<1>20. /\ TopCall(p) \in BusyCalls(h) /\ grp[h].ntodo >= Cardinality(BusyCalls(h))
       /\ Cardinality(BusyCalls(h)) >= 1
  <2>1. TopCall(p) \in BusyCalls(h)
    BY <1>1, <1>3, <1>19 DEF BusyCalls, Busy
  <2>2. IsFiniteSet(BusyCalls(h)) /\ Cardinality(BusyCalls(h)) \in Nat
    BY CallsFinite
  <2>3. Cardinality(BusyCalls(h)) # 0
    BY <2>1, <2>2, FS_EmptySet
  <2>4. Left(h) \in Counts
    BY <1>11, LeftTyped
  <2>5. Cardinality(Repetitions(Left(h))) \in Nat
    BY <2>4, RepsFinite
  <2>6. grp[h].ntodo = Outstanding(h) + (IF grp[h].sync THEN 0 ELSE 1)
    BY <1>19 DEF UntilAstray, NtodoExact
  <2> QED BY <2>1, <2>2, <2>3, <2>5, <2>6 DEF Outstanding
<1>21. WaitsOK'
  <2>1. \A c \in Calls : Frame(c).k = "wait" => Frame(c).g \in Tgs
    BY CallsAre DEF Frames
  <2>2. ASSUME NEW c \in Calls', Frame(c)'.k = "wait",
               Frame(c)'.ph = "join" \/ (Frame(c)'.ph = "dequeue" /\ Frame(c)'.knt = 0)
        PROVE  grp'[Frame(c)'.g].ntodo = 0
    <3>1. c \in Calls /\ Frame(c)' = Frame(c)
      BY <1>4, <1>5, <1>8, <2>2
    <3>2. grp[Frame(c).g].ntodo = 0
      BY <2>2, <3>1 DEF UntilAstray, WaitsOK
    <3>3. Frame(c).g # h
      <4>1. CASE Frame(c).g = h
        <5>1. grp[h].ntodo = 0
          BY <3>2, <4>1
        <5> QED BY <1>20, <5>1, CallsFinite
      <4> QED BY <4>1
    <3> QED BY <1>9, <2>1, <2>2, <3>1, <3>2, <3>3
  <2> QED BY <1>14, <1>16, <2>1, <2>2, QuietWaits DEF UntilAstray
<1>22. TasksOK'
  <2>1. \A t \in Tasks : task'[t].st = "live" =>
          task'[t].g \in Tgs /\ task'[t].rep > 0 /\ task'[t].serial > 0
    <3>1. f.serial > 0
      BY <1>3 DEF Frames
    <3> QED BY <1>2, <1>4, <1>7, <1>12, <3>1 DEF UntilAstray, TasksOK
  <2>2. ASSUME NEW t \in Tasks, queued'[t] > 0 PROVE task'[t].st = "live" /\ Lives(task[t])'
    <3>1. t # n /\ queued[t] > 0
      BY <1>1, <1>13, <2>2
    <3>2. task'[t] = task[t] /\ task[t].st = "live" /\ Lives(task[t])
      BY <1>12, <3>1 DEF UntilAstray, TasksOK
    <3> QED BY <1>9, <3>2 DEF Lives, Of
  <2>3. \A t \in Tasks : t > added' => task'[t] = NoTask
    BY <1>1, <1>2, <1>12 DEF UntilAstray, TasksOK, n, Tasks
  <2> QED BY <2>1, <2>2, <2>3 DEF TasksOK
<1>23. /\ \A c \in Calls : Frame(c).ph = "enqueue" => Frame(c).knt \in 1..added
       /\ \A c \in Calls : Frame(c).t # n
  <2>1. \A c \in Calls : Frame(c).k = "task" => Frame(c).t # n
    BY <1>2 DEF UntilAstray, CallsOK
  <2>2. \A c \in Calls : Frame(c).k = "wait" => Frame(c).t = 0
    BY DEF UntilAstray, CallsOK
  <2>3. \A c \in Calls : Frame(c).k \in {"task", "wait"}
    BY CallsAre DEF Frames
  <2> QED BY <1>2, <2>1, <2>2, <2>3 DEF UntilAstray, EnteringOK
<1>24. EnteringOK'
  <2>1. ASSUME NEW c \in Calls', Frame(c)'.ph = "enqueue"
        PROVE  LET t == Frame(c)'.knt
               IN  /\ t \in 1..added' /\ queued'[t] = 0
                   /\ task'[t].st = "live" /\ task'[t].extra
                   /\ task'[t].g = Frame(c)'.g /\ task'[t].serial = Frame(c)'.serial
                   /\ \A d \in Calls' : Frame(d)'.t # t
    <3>1. CASE c = TopCall(p)
      <4>1. Frame(c)' = e
        BY <1>3, <1>8, <3>1
      <4>2. \A d \in Calls' : Frame(d)'.t # n
        BY <1>3, <1>5, <1>8, <1>23
      <4> QED BY <1>1, <1>2, <1>5, <1>7, <1>12, <1>13, <4>1, <4>2
    <3>2. CASE c # TopCall(p)
      <4> DEFINE t == Frame(c).knt
      <4>1. c \in Calls /\ Frame(c)' = Frame(c)
        BY <1>8, <3>2
      <4>2. /\ t \in 1..added /\ queued[t] = 0 /\ task[t].st = "live" /\ task[t].extra
            /\ task[t].g = Frame(c).g /\ task[t].serial = Frame(c).serial
            /\ \A d \in Calls : Frame(d).t # t
        BY <2>1, <4>1 DEF UntilAstray, EnteringOK
      <4>3. t \in Tasks /\ t # n
        BY <1>2, <4>2
      <4>4. \A d \in Calls' : Frame(d)'.t # t
        BY <1>3, <1>5, <1>8, <4>2
      <4> QED BY <1>1, <1>2, <1>12, <4>1, <4>2, <4>3, <4>4
    <3> QED BY <3>1, <3>2
  <2>2. ASSUME NEW c \in Calls', NEW d \in Calls', Frame(c)'.ph = "enqueue",
               Frame(d)'.ph = "enqueue", Frame(c)'.knt = Frame(d)'.knt
        PROVE  c = d
    <3>1. CASE c # TopCall(p) /\ d # TopCall(p)
      BY <1>8, <2>2, <3>1 DEF UntilAstray, EnteringOK
    <3>2. \A x \in Calls' : x # TopCall(p) /\ Frame(x)'.ph = "enqueue" => Frame(x)'.knt # n
      BY <1>2, <1>8, <1>23
    <3> QED BY <1>3, <1>5, <1>8, <2>2, <3>1, <3>2
  <2> QED BY <2>1, <2>2 DEF EnteringOK
<1>25. EndsOK'
  <2>1. \A c \in Calls : Frame(c) \in Frames
    BY CallsAre
  <2>2. doomed' = {} /\ failed' = failed /\ answer' = answer
    BY <1>1 DEF UntilAstray, EndsOK, history
  <2>3. \A c \in Calls' : c \in Calls =>
            /\ Frame(c)'.fail => Frame(c).fail
            /\ Frame(c)'.ph = "post" /\ Frame(c)'.lastTask =>
                 Frame(c).ph = "post" /\ Frame(c).lastTask
    BY <1>3, <1>5, <1>8
  <2> QED BY <1>9, <1>14, <1>16, <2>1, <2>2, <2>3, QuietEnds DEF UntilAstray
<1>26. NtodoExact'
  <2>1. ASSUME NEW g \in Tgs, (grp[g].st = "run" /\ ~astray)'
        PROVE  (grp[g].ntodo = Outstanding(g) + (IF grp[g].sync THEN 0 ELSE 1))'
    <3>1. \A t : t \in Entering' <=> t \in Entering \/ t = n
      <4>1. \A t : t \in Entering <=> \E c \in Calls : Frame(c).ph = "enqueue" /\ t = Frame(c).knt
        BY DEF Entering
      <4>2. \A t : t \in Entering' <=> \E c \in Calls' : Frame(c)'.ph = "enqueue" /\ t = Frame(c)'.knt
        BY DEF Entering
      <4>3. Frame(TopCall(p)).ph # "enqueue"
        BY <1>1, <1>3
      <4> QED BY <1>3, <1>5, <1>8, <4>1, <4>2, <4>3
    <3>2. n \notin Entering
      BY <1>2, <1>23 DEF Entering
    <3>3. \A t \in Tasks : t # n => Left(g)'[t] = Left(g)[t]
      BY <1>1, <1>9, <1>12, <3>1 DEF Left, Of
    <3>4. Left(g)[n] = 0
      BY <1>2, <1>13, <3>2 DEF Left
    <3>5. Left(g)'[n] = IF g = h THEN r ELSE 0
      <4>1. ASSUME NEW t \in Tasks, t = n PROVE Left(g)'[t] = IF g = h THEN r ELSE 0
        <5>1. task'[t].g = h /\ task'[t].serial = f.serial
          BY <1>7, <1>12, <4>1
        <5>2. grp'[h].serial = f.serial
          BY <1>9, <1>19 DEF Of
        <5>3. Of(g, task[t])' <=> g = h
          BY <5>1, <5>2 DEF Of
        <5>4. queued'[t] + task'[t].rep = r
          BY <1>1, <1>2, <1>7, <1>12, <1>13, <4>1
        <5>5. t \in Entering'
          BY <3>1, <4>1
        <5> QED BY <5>3, <5>4, <5>5 DEF Left
      <4> QED BY <1>2, <4>1
    <3>6. BusyCalls(g)' = BusyCalls(g)
      <4>1. \A c : c \in BusyCalls(g) <=> c \in Calls /\ Of(g, Frame(c)) /\ Busy(c)
        BY DEF BusyCalls
      <4>2. \A c : c \in BusyCalls(g)' <=> c \in Calls' /\ Of(g, Frame(c))' /\ Busy(c)'
        BY DEF BusyCalls
      <4>3. \A c \in Calls : Of(g, Frame(c))' <=> Of(g, Frame(c))
        BY <1>3, <1>5, <1>8, <1>9 DEF Of
      <4>4. \A c \in Calls : Busy(c)' <=> Busy(c)
        BY <1>1, <1>3, <1>5, <1>8 DEF Busy
      <4> QED BY <1>8, <4>1, <4>2, <4>3, <4>4
    <3>7. CASE g # h
      BY <1>1, <1>9, <1>11, <1>14, <2>1, <3>3, <3>4, <3>5, <3>6, <3>7, QuietNtodo DEF UntilAstray
    <3>8. CASE g = h
      <4>1. Left(g) \in Counts /\ Left(g)' \in Counts
        BY <1>11, LeftTyped
      <4>2. Left(g)'[n] = Left(g)[n] + r
        BY <1>2, <3>4, <3>5, <3>8
      <4>3. Cardinality(Repetitions(Left(g)')) = Cardinality(Repetitions(Left(g))) + r
        BY <1>2, <3>3, <4>1, <4>2, MoreReps
      <4>4. Repetitions(Left(g))' = Repetitions(Left(g)')
        BY DEF Repetitions
      <4>5. Cardinality(Repetitions(Left(g))) \in Nat /\ Cardinality(BusyCalls(g)) \in Nat
        BY <4>1, RepsFinite, CallsFinite
      <4>6. Outstanding(g)' = Outstanding(g) + r
        BY <1>2, <3>6, <4>3, <4>4, <4>5 DEF Outstanding
      <4>7. grp[g].ntodo = Outstanding(g) + (IF grp[g].sync THEN 0 ELSE 1)
        BY <1>19, <3>8 DEF UntilAstray, NtodoExact
      <4>8. Outstanding(g) \in Nat
        BY <4>5 DEF Outstanding
      <4>9. grp'[g].ntodo = grp[g].ntodo + r /\ grp'[g].sync = grp[g].sync
        BY <1>9, <3>8
      <4>10. (IF grp[g].sync THEN 0 ELSE 1) \in Nat
        OBVIOUS
      <4> QED BY <1>2, <4>6, <4>7, <4>8, <4>9, <4>10
    <3> QED BY <3>7, <3>8
  <2> QED BY <2>1 DEF NtodoExact
<1> QED BY <1>11, <1>17, <1>18, <1>21, <1>22, <1>24, <1>25, <1>26 DEF UntilAstray

(* A call that has not counted down is counted.                            *)
LEMMA BusyCounted ==
  ASSUME TypeOK, NtodoExact, ~astray, NEW g \in Tgs, grp[g].st = "run", NEW c \in BusyCalls(g)
  PROVE  grp[g].ntodo >= 1 /\ (~grp[g].sync => grp[g].ntodo >= 2)
<1>1. IsFiniteSet(BusyCalls(g)) /\ Cardinality(BusyCalls(g)) \in Nat
  BY CallsFinite
<1>2. Cardinality(BusyCalls(g)) # 0
  BY <1>1, FS_EmptySet
<1>3. Left(g) \in Counts
  BY DEF Left, Counts, TypeOK, TaskBlocks
<1>4. Cardinality(Repetitions(Left(g))) \in Nat
  BY <1>3, RepsFinite
<1>5. grp[g].ntodo = Outstanding(g) + (IF grp[g].sync THEN 0 ELSE 1)
  BY DEF NtodoExact
<1> QED BY <1>1, <1>2, <1>4, <1>5 DEF Outstanding

\* A call is after a step what it was in all that counts.
Alike(f, e) ==
  /\ Continues(f, e)
  /\ f.ph \in {"run", "enqueue", "countdown"} => e.ph \in {"run", "enqueue", "countdown"}
  /\ e.ph = "enqueue" <=> f.ph = "enqueue"
  /\ e.ph = "enqueue" => e.knt = f.knt
  /\ e.ph = "post" /\ e.lastTask => f.ph = "post" /\ f.lastTask

(* Calls that are alike enter, and count, alike.                           *)
LEMMA AlikeCounts ==
  ASSUME TypeOK, Calls' = Calls, grp' = grp, \A c \in Calls : Alike(Frame(c), Frame(c)')
  PROVE  Entering' = Entering /\ \A g : BusyCalls(g)' = BusyCalls(g)
<1>1. \A t : t \in Entering <=> \E c \in Calls : Frame(c).ph = "enqueue" /\ t = Frame(c).knt
  BY DEF Entering
<1>2. \A t : t \in Entering' <=> \E c \in Calls' : Frame(c)'.ph = "enqueue" /\ t = Frame(c)'.knt
  BY DEF Entering
<1>3. \A t : t \in Entering' <=> t \in Entering
  BY <1>1, <1>2 DEF Alike
<1>4. ASSUME NEW g PROVE BusyCalls(g)' = BusyCalls(g)
  <2>1. \A c \in Calls : Of(g, Frame(c))' <=> Of(g, Frame(c))
    BY DEF Of, Alike, Continues
  <2>2. \A c \in Calls : Busy(c)' <=> Busy(c)
    BY DEF Busy, Alike, Continues
  <2> QED BY <2>1, <2>2 DEF BusyCalls
<1> QED BY <1>3, <1>4

(* A step that only moves calls on, and may have one fail.                 *)
LEMMA TopStep ==
  ASSUME TypeOK, UntilAstray, ~astray,
         UNCHANGED <<grp, task, queued, doomed, freeTasks, open, created, added, answer, astray>>,
         failed' \subseteq 1..MaxGroups, failed \subseteq failed',
         stack' \in [Procs -> Seq(Frames)], Calls' = Calls,
         \A c \in Calls : Alike(Frame(c), Frame(c)'),
         \A c \in Calls : Frame(c)'.fail => Frame(c).fail \/ Frame(c).serial \in failed',
         \A c \in Calls : /\ Frame(c)'.k = "wait"
                          /\ Frame(c)'.ph = "join" \/ (Frame(c)'.ph = "dequeue" /\ Frame(c)'.knt = 0)
                          => grp[Frame(c).g].ntodo = 0
  PROVE  TypeOK' /\ UntilAstray'
<1>1. TypeOK'
  BY DEF TypeOK, Groups, TaskBlocks
<1>2. SameGroups
  BY DEF SameGroups
<1>3. SameCalls
  BY DEF SameCalls, Alike
<1>4. PlacesOK'
  BY <1>2, QuietPlaces DEF UntilAstray
<1>5. CallsOK'
  <2>1. added' \in Nat /\ added <= added'
    BY TaskGroupAssumption DEF TypeOK
  <2> QED BY <1>2, <1>3, <2>1, QuietCalls DEF UntilAstray
<1>6. \A c \in Calls : Frame(c) \in Frames
  BY CallsAre
<1>7. \A c \in Calls : Frame(c)'.g = Frame(c).g /\ Frame(c)'.k = Frame(c).k
                       /\ Frame(c)'.t = Frame(c).t /\ Frame(c)'.serial = Frame(c).serial
  BY DEF Alike, Continues
<1>8. WaitsOK'
  <2>1. \A c \in Calls : Frame(c).k = "wait" => Frame(c).g \in Tgs
    BY <1>6 DEF Frames
  <2> QED BY <1>2, <1>3, <1>7, <2>1, QuietWaits DEF UntilAstray
<1>9. TasksOK'
  BY DEF UntilAstray, TasksOK, Lives, Of
<1>10. EnteringOK'
  <2>1. ASSUME NEW c \in Calls', Frame(c)'.ph = "enqueue"
        PROVE  LET t == Frame(c)'.knt
               IN  /\ t \in 1..added' /\ queued'[t] = 0
                   /\ task'[t].st = "live" /\ task'[t].extra
                   /\ task'[t].g = Frame(c)'.g /\ task'[t].serial = Frame(c)'.serial
                   /\ \A d \in Calls' : Frame(d)'.t # t
    <3>1. Frame(c).ph = "enqueue" /\ Frame(c)'.knt = Frame(c).knt
      BY <2>1 DEF Alike
    <3> QED BY <1>7, <3>1 DEF UntilAstray, EnteringOK
  <2>2. \A c, d \in Calls' : Frame(c)'.ph = "enqueue" /\ Frame(d)'.ph = "enqueue"
                             /\ Frame(c)'.knt = Frame(d)'.knt => c = d
    BY DEF UntilAstray, EnteringOK, Alike
  <2> QED BY <2>1, <2>2 DEF EnteringOK
<1>11. EndsOK'
  <2>1. doomed' = {}
    BY DEF UntilAstray, EndsOK
  <2>2. \A g \in Tgs : grp'[g].error => grp[g].error
    OBVIOUS
  <2>3. \A c \in Calls' : c \in Calls =>
            /\ Frame(c)'.fail => Frame(c).fail \/ Frame(c).serial \in failed'
            /\ Frame(c)'.ph = "post" /\ Frame(c)'.lastTask =>
                 Frame(c).ph = "post" /\ Frame(c).lastTask
    BY DEF Alike
  <2> QED BY <1>2, <1>3, <1>6, <2>1, <2>2, <2>3, QuietEnds DEF UntilAstray
<1>12. NtodoExact'
  <2>1. ASSUME NEW g \in Tgs, (grp[g].st = "run" /\ ~astray)'
        PROVE  (grp[g].ntodo = Outstanding(g) + (IF grp[g].sync THEN 0 ELSE 1))'
    <3>1. Entering' = Entering /\ BusyCalls(g)' = BusyCalls(g)
      BY AlikeCounts
    <3>2. Left(g)' = Left(g)
      BY <3>1 DEF Left, Of
    <3> QED BY <1>1, <1>2, <2>1, <3>1, <3>2, QuietNtodo DEF UntilAstray
  <2> QED BY <2>1 DEF NtodoExact
<1> QED BY <1>1, <1>4, <1>5, <1>8, <1>9, <1>10, <1>11, <1>12 DEF UntilAstray

(* The step in which a task function returns.                              *)
LEMMA TaskReturnIInv ==
  ASSUME TypeOK, UntilAstray, ~astray, NEW p \in Procs, NEW err \in BOOLEAN, TaskReturn(p, err)
  PROVE  TypeOK' /\ UntilAstray'
<1> DEFINE f == Top(p)
           e == [f EXCEPT !.ph = "countdown", !.fail = err /\ grp[f.g].sync]
<1>1. /\ stack[p] # << >> /\ f.ph = "run" /\ SetTop(p, e)
      /\ failed' = IF err THEN failed \cup {f.serial} ELSE failed
      /\ UNCHANGED <<grp, task, queued, doomed, freeTasks, open, created, added, answer, astray>>
  BY DEF TaskReturn, At
<1>2. f \in Frames /\ TopCall(p) \in Calls /\ Frame(TopCall(p)) = f
  BY <1>1, CallsAre
<1>3. /\ e \in Frames /\ e.k = f.k /\ e.g = f.g /\ e.serial = f.serial /\ e.t = f.t
      /\ e.ph = "countdown" /\ e.knt = f.knt /\ e.lastTask = f.lastTask /\ (e.fail => err)
      /\ f.serial \in 1..MaxGroups
  <2>1. grp[f.g].sync \in BOOLEAN
    BY <1>2 DEF Frames, TypeOK, Groups
  <2> QED BY <1>2, <2>1 DEF Frames, TaskPhases
<1> HIDE DEF e, f
<1>4. /\ stack' \in [Procs -> Seq(Frames)] /\ Calls' = Calls
      /\ \A c \in Calls : Frame(c)' = IF c = TopCall(p) THEN e ELSE Frame(c)
  BY <1>1, <1>3, SetCalls
<1>5. Alike(f, e) /\ \A c \in Calls : Alike(Frame(c), Frame(c))
  BY <1>1, <1>3 DEF Alike, Continues, TaskPhases
<1>6. \A c \in Calls : Alike(Frame(c), Frame(c)')
  BY <1>2, <1>4, <1>5
<1>7. failed' \subseteq 1..MaxGroups /\ failed \subseteq failed'
  BY <1>1, <1>3 DEF TypeOK
<1>8. \A c \in Calls : Frame(c)'.fail => Frame(c).fail \/ Frame(c).serial \in failed'
  BY <1>1, <1>2, <1>3, <1>4
<1>9. \A c \in Calls : /\ Frame(c)'.k = "wait"
                       /\ Frame(c)'.ph = "join" \/ (Frame(c)'.ph = "dequeue" /\ Frame(c)'.knt = 0)
                       => grp[Frame(c).g].ntodo = 0
  BY <1>3, <1>4 DEF UntilAstray, WaitsOK
<1> QED BY <1>1, <1>4, <1>6, <1>7, <1>8, <1>9, TopStep

(* The step in which the creator reads ntodo.                              *)
LEMMA WaitPollIInv ==
  ASSUME TypeOK, UntilAstray, ~astray, NEW p \in Procs, WaitPoll(p)
  PROVE  TypeOK' /\ UntilAstray'
<1> DEFINE f == Top(p)
           e == [f EXCEPT !.ph = "dequeue", !.knt = grp[f.g].ntodo]
<1>1. /\ stack[p] # << >> /\ f.ph = "poll" /\ SetTop(p, e)
      /\ UNCHANGED <<grp, task, queued, doomed, freeTasks, open, created, added, history>>
  BY DEF WaitPoll, At
<1>2. f \in Frames /\ TopCall(p) \in Calls /\ Frame(TopCall(p)) = f
  BY <1>1, CallsAre
<1>3. /\ e \in Frames /\ e.k = f.k /\ e.g = f.g /\ e.serial = f.serial /\ e.t = f.t
      /\ e.ph = "dequeue" /\ e.lastTask = f.lastTask /\ e.fail = f.fail
      /\ e.knt = grp[f.g].ntodo
  <2>1. grp[f.g].ntodo \in Int
    BY <1>2 DEF Frames, TypeOK, Groups
  <2> QED BY <1>2, <2>1 DEF Frames, WaitPhases
<1> HIDE DEF e, f
<1>4. /\ stack' \in [Procs -> Seq(Frames)] /\ Calls' = Calls
      /\ \A c \in Calls : Frame(c)' = IF c = TopCall(p) THEN e ELSE Frame(c)
  BY <1>1, <1>3, SetCalls
<1>5. Alike(f, e) /\ \A c \in Calls : Alike(Frame(c), Frame(c))
  BY <1>1, <1>3 DEF Alike, Continues, TaskPhases
<1>6. \A c \in Calls : Alike(Frame(c), Frame(c)')
  BY <1>2, <1>4, <1>5
<1>7. failed' \subseteq 1..MaxGroups /\ failed \subseteq failed'
  BY <1>1 DEF TypeOK, history
<1>8. \A c \in Calls : Frame(c)'.fail => Frame(c).fail \/ Frame(c).serial \in failed'
  BY <1>1, <1>2, <1>3, <1>4
<1>9. \A c \in Calls : /\ Frame(c)'.k = "wait"
                       /\ Frame(c)'.ph = "join" \/ (Frame(c)'.ph = "dequeue" /\ Frame(c)'.knt = 0)
                       => grp[Frame(c).g].ntodo = 0
  BY <1>2, <1>3, <1>4 DEF UntilAstray, WaitsOK
<1> QED BY <1>1, <1>4, <1>6, <1>7, <1>8, <1>9, TopStep DEF history

(* The call for a repetition out of the queue.                             *)
LEMMA TaskFrameBegins ==
  ASSUME TypeOK, UntilAstray, NEW p \in Procs, NEW t \in Tasks, queued[t] > 0
  PROVE  /\ TaskFrame(t, p) \in Frames /\ Begins(TaskFrame(t, p))
         /\ TaskFrame(t, p).g = task[t].g /\ TaskFrame(t, p).serial = task[t].serial
         /\ TaskFrame(t, p).ph = "run" /\ TaskFrame(t, p).t = t
         /\ TaskFrame(t, p).k = "task" /\ ~TaskFrame(t, p).fail
<1>1. task[t].st = "live" /\ Lives(task[t])
  BY DEF UntilAstray, TasksOK
<1>2. task[t].serial \in 0..created /\ task[t].serial > 0 /\ task[t].g \in Tgs
  BY <1>1 DEF UntilAstray, TasksOK, TypeOK, TaskBlocks
<1>3. task[t].serial \in 1..MaxGroups /\ task[t].serial <= created
  BY <1>2, TaskGroupAssumption DEF TypeOK
<1>4. t \in 1..added
  <2>1. ~(t > added)
    BY <1>1 DEF UntilAstray, TasksOK, NoTask
  <2> QED BY <2>1, TaskGroupAssumption DEF Tasks, TypeOK
<1>5. Len(open[p]) \in Nat
  BY LenProperties DEF TypeOK
<1>6. /\ TaskFrame(t, p).g = task[t].g /\ TaskFrame(t, p).serial = task[t].serial
      /\ TaskFrame(t, p).ph = "run" /\ TaskFrame(t, p).t = t
      /\ TaskFrame(t, p).k = "task" /\ ~TaskFrame(t, p).fail /\ ~TaskFrame(t, p).lastTask
  BY DEF TaskFrame
<1>7. TaskFrame(t, p) \in Frames
  BY <1>2, <1>3, <1>5 DEF TaskFrame, Frames, TaskPhases
<1>8. Begins(TaskFrame(t, p))
  BY <1>1, <1>3, <1>4, <1>6 DEF Begins, Lives, Of
<1> QED BY <1>6, <1>7, <1>8

(* A step that takes a repetition out of the queue.                        *)
LEMMA TakeStep ==
  ASSUME TypeOK, UntilAstray, ~astray,
         UNCHANGED <<grp, task, doomed, freeTasks, open, created, added, history>>,
         NEW p \in Procs, NEW t \in Tasks, queued[t] > 0, queued' = [queued EXCEPT ![t] = @ - 1],
         stack' \in [Procs -> Seq(Frames)], NEW n, n \notin Calls, Calls' = Calls \cup {n},
         Frame(n)' = TaskFrame(t, p),
         \A c \in Calls : Alike(Frame(c), Frame(c)') /\ (Frame(c)'.fail => Frame(c).fail),
         \A c \in Calls : /\ Frame(c)'.k = "wait"
                          /\ Frame(c)'.ph = "join" \/ (Frame(c)'.ph = "dequeue" /\ Frame(c)'.knt = 0)
                          => grp[Frame(c).g].ntodo = 0
  PROVE  TypeOK' /\ UntilAstray'
<1> DEFINE b == TaskFrame(t, p)
<1>1. /\ b \in Frames /\ Begins(b) /\ b.g = task[t].g /\ b.serial = task[t].serial
      /\ b.ph = "run" /\ b.t = t /\ b.k = "task" /\ ~b.fail /\ Frame(n)' = b
  BY TaskFrameBegins
<1> HIDE DEF b
<1>2. /\ \A u \in Tasks : queued[u] \in Nat
      /\ \A u \in Tasks : queued'[u] = IF u = t THEN queued[t] - 1 ELSE queued[u]
      /\ queued' \in [Tasks -> Nat]
  BY DEF TypeOK
<1>3. TypeOK'
  BY <1>2 DEF TypeOK, Groups, TaskBlocks, history
<1>4. SameGroups
  BY DEF SameGroups
<1>5. SameCalls
  BY <1>1 DEF SameCalls, Alike
<1>6. PlacesOK'
  BY <1>4, QuietPlaces DEF UntilAstray
<1>7. CallsOK'
  <2>1. added' \in Nat /\ added <= added'
    BY TaskGroupAssumption DEF TypeOK
  <2> QED BY <1>4, <1>5, <2>1, QuietCalls DEF UntilAstray
<1>8. \A c \in Calls : Frame(c) \in Frames
  BY CallsAre
<1>9. \A c \in Calls : Frame(c)'.g = Frame(c).g /\ Frame(c)'.k = Frame(c).k
                       /\ Frame(c)'.t = Frame(c).t /\ Frame(c)'.serial = Frame(c).serial
  BY DEF Alike, Continues
<1>10. WaitsOK'
  <2>1. \A c \in Calls : Frame(c).k = "wait" => Frame(c).g \in Tgs
    BY <1>8 DEF Frames
  <2>2. ASSUME NEW c \in Calls', Frame(c)'.k = "wait",
               Frame(c)'.ph = "join" \/ (Frame(c)'.ph = "dequeue" /\ Frame(c)'.knt = 0)
        PROVE  grp'[Frame(c)'.g].ntodo = 0
    <3>1. c \in Calls
      BY <1>1, <2>2
    <3>2. grp[Frame(c).g].ntodo = 0
      BY <2>2, <3>1
    <3>3. grp' = grp /\ Frame(c)'.g = Frame(c).g
      BY <1>9, <3>1
    <3> QED BY <3>2, <3>3
  <2> QED BY <1>4, <1>5, <2>1, <2>2, QuietWaits DEF UntilAstray
<1>11. TasksOK'
  <2>1. \A u \in Tasks : queued'[u] > 0 => queued[u] > 0
    BY <1>2
  <2> QED BY <2>1 DEF UntilAstray, TasksOK, Lives, Of
<1>12. \A c \in Calls : Frame(c).ph = "enqueue" => Frame(c).knt # t
  BY <1>2 DEF UntilAstray, EnteringOK
<1>13. \A c \in Calls' : Frame(c)'.ph = "enqueue" =>
         c \in Calls /\ Frame(c).ph = "enqueue" /\ Frame(c)'.knt = Frame(c).knt
  BY <1>1 DEF Alike
<1>14. EnteringOK'
  <2>1. ASSUME NEW c \in Calls', Frame(c)'.ph = "enqueue"
        PROVE  LET u == Frame(c)'.knt
               IN  /\ u \in 1..added' /\ queued'[u] = 0
                   /\ task'[u].st = "live" /\ task'[u].extra
                   /\ task'[u].g = Frame(c)'.g /\ task'[u].serial = Frame(c)'.serial
                   /\ \A d \in Calls' : Frame(d)'.t # u
    <3> DEFINE u == Frame(c).knt
    <3>1. c \in Calls /\ Frame(c).ph = "enqueue" /\ Frame(c)'.knt = u
      BY <1>13, <2>1
    <3>2. /\ u \in 1..added /\ queued[u] = 0
          /\ task[u].st = "live" /\ task[u].extra
          /\ task[u].g = Frame(c).g /\ task[u].serial = Frame(c).serial
          /\ \A d \in Calls : Frame(d).t # u
      BY <3>1 DEF UntilAstray, EnteringOK
    <3>3. u # t /\ u \in Tasks
      BY <1>12, <3>1, <3>2, TaskGroupAssumption DEF TypeOK, Tasks
    <3>4. queued'[u] = 0
      BY <1>2, <3>2, <3>3
    <3>5. \A d \in Calls' : Frame(d)'.t # u
      BY <1>1, <1>9, <3>2, <3>3
    <3> QED BY <1>9, <3>1, <3>2, <3>4, <3>5
  <2>2. \A c, d \in Calls' : Frame(c)'.ph = "enqueue" /\ Frame(d)'.ph = "enqueue"
                             /\ Frame(c)'.knt = Frame(d)'.knt => c = d
    BY <1>13 DEF UntilAstray, EnteringOK
  <2> QED BY <2>1, <2>2 DEF EnteringOK
<1>15. EndsOK'
  <2>1. doomed' = {} /\ failed' = failed /\ answer' = answer
    BY DEF UntilAstray, EndsOK, history
  <2>2. \A g \in Tgs : grp'[g].error => grp[g].error
    OBVIOUS
  <2>3. \A c \in Calls' : c \in Calls =>
            /\ Frame(c)'.fail => Frame(c).fail
            /\ Frame(c)'.ph = "post" /\ Frame(c)'.lastTask =>
                 Frame(c).ph = "post" /\ Frame(c).lastTask
    BY DEF Alike
  <2> QED BY <1>4, <1>5, <1>8, <2>1, <2>2, <2>3, QuietEnds DEF UntilAstray
<1>16. NtodoExact'
  <2>1. ASSUME NEW g \in Tgs, (grp[g].st = "run" /\ ~astray)'
        PROVE  (grp[g].ntodo = Outstanding(g) + (IF grp[g].sync THEN 0 ELSE 1))'
    <3>1. /\ \A u : u \in Entering <=> \E c \in Calls : Frame(c).ph = "enqueue" /\ u = Frame(c).knt
          /\ \A u : u \in Entering' <=> \E c \in Calls' : Frame(c)'.ph = "enqueue"
                                                          /\ u = Frame(c)'.knt
      BY DEF Entering
    <3>2. \A u : u \in Entering' <=> u \in Entering
      <4>1. \A c \in Calls : Frame(c).ph = "enqueue" =>
              c \in Calls' /\ Frame(c)'.ph = "enqueue" /\ Frame(c)'.knt = Frame(c).knt
        BY DEF Alike
      <4>2. ASSUME NEW u, u \in Entering PROVE u \in Entering'
        BY <3>1, <4>1, <4>2
      <4>3. ASSUME NEW u, u \in Entering' PROVE u \in Entering
        BY <1>13, <3>1, <4>3
      <4> QED BY <4>2, <4>3
    <3>3. t \notin Entering
      BY <1>12, <3>1
    <3>4. \A u \in Tasks : u # t => Left(g)'[u] = Left(g)[u]
      BY <1>2, <3>2 DEF Left, Of
    <3>5. /\ Of(g, task[t]) => Left(g)[t] = queued[t] /\ Left(g)'[t] = queued[t] - 1
          /\ ~Of(g, task[t]) => Left(g)[t] = 0 /\ Left(g)'[t] = 0
      BY <1>2, <3>2, <3>3 DEF Left, Of
    <3>6. \A c : c \in BusyCalls(g) <=> c \in Calls /\ Of(g, Frame(c)) /\ Busy(c)
      BY DEF BusyCalls
    <3>7. \A c : c \in BusyCalls(g)' <=> c \in Calls' /\ Of(g, Frame(c))' /\ Busy(c)'
      BY DEF BusyCalls
    <3>8. \A c \in Calls : (Of(g, Frame(c))' <=> Of(g, Frame(c))) /\ (Busy(c)' <=> Busy(c))
      BY <1>9 DEF Of, Busy, Alike, Continues
    <3>9. Busy(n)' /\ (Of(g, Frame(n))' <=> Of(g, task[t]))
      BY <1>1 DEF Busy, Of
    <3>10. CASE ~Of(g, task[t])
      <4>1. BusyCalls(g)' = BusyCalls(g)
        BY <3>6, <3>7, <3>8, <3>9, <3>10
      <4>2. \A u \in Tasks : Left(g)'[u] = Left(g)[u]
        BY <3>4, <3>5, <3>10
      <4> QED BY <1>3, <1>4, <2>1, <4>1, <4>2, QuietNtodo DEF UntilAstray
    <3>11. CASE Of(g, task[t])
      <4>1. BusyCalls(g)' = BusyCalls(g) \cup {n} /\ n \notin BusyCalls(g)
        BY <3>6, <3>7, <3>8, <3>9, <3>11
      <4>2. IsFiniteSet(BusyCalls(g)) /\ Cardinality(BusyCalls(g)) \in Nat
        BY CallsFinite
      <4>3. Cardinality(BusyCalls(g)') = Cardinality(BusyCalls(g)) + 1
        BY <4>1, <4>2, FS_AddElement
      <4>4. Left(g) \in Counts /\ Left(g)' \in Counts
        BY <1>3, LeftTyped
      <4>5. Left(g)[t] = Left(g)'[t] + 1
        BY <1>2, <3>5, <3>11
      <4>6. Cardinality(Repetitions(Left(g))) = Cardinality(Repetitions(Left(g)')) + 1
        BY <3>4, <4>4, <4>5, MoreReps
      <4>7. Repetitions(Left(g))' = Repetitions(Left(g)')
        BY DEF Repetitions
      <4>8. Cardinality(Repetitions(Left(g))) \in Nat /\ Cardinality(Repetitions(Left(g)')) \in Nat
        BY <4>4, RepsFinite
      <4>9. Outstanding(g)' = Outstanding(g)
        BY <4>2, <4>3, <4>6, <4>7, <4>8 DEF Outstanding
      <4>10. grp[g].ntodo = Outstanding(g) + (IF grp[g].sync THEN 0 ELSE 1)
        BY <2>1 DEF UntilAstray, NtodoExact
      <4> QED BY <4>9, <4>10
    <3> QED BY <3>10, <3>11
  <2> QED BY <2>1 DEF NtodoExact
<1> QED BY <1>3, <1>6, <1>7, <1>10, <1>11, <1>14, <1>15, <1>16 DEF UntilAstray

(* The step in which a processor takes a job at the bottom of its stack.   *)
LEMMA ServeTaskIInv ==
  ASSUME TypeOK, UntilAstray, ~astray, NEW p \in Procs, ServeTask(p)
  PROVE  TypeOK' /\ UntilAstray'
<1>1. PICK t \in Tasks : /\ queued[t] > 0
                         /\ queued' = [queued EXCEPT ![t] = @ - 1]
                         /\ Push(p, <<TaskFrame(t, p)>>)
  BY DEF ServeTask
<1>2. UNCHANGED <<grp, task, doomed, freeTasks, open, created, added, history>>
  BY DEF ServeTask
<1>3. TaskFrame(t, p) \in Frames
  BY <1>1, TaskFrameBegins
<1>4. /\ stack' \in [Procs -> Seq(Frames)] /\ Calls' = Calls \cup {NextCall(p)}
      /\ NextCall(p) \notin Calls
      /\ \A c \in Calls' : Frame(c)' = IF c = NextCall(p) THEN TaskFrame(t, p) ELSE Frame(c)
  BY <1>1, <1>3, PushCalls
<1>5. PICK n : n = NextCall(p)
  OBVIOUS
<1>8. /\ n \notin Calls /\ Calls' = Calls \cup {n} /\ Frame(n)' = TaskFrame(t, p)
      /\ \A c \in Calls : Frame(c)' = Frame(c)
  BY <1>4, <1>5
<1>6. \A c \in Calls : Alike(Frame(c), Frame(c)') /\ (Frame(c)'.fail => Frame(c).fail)
  BY <1>8 DEF Alike, Continues
<1>7. \A c \in Calls : /\ Frame(c)'.k = "wait"
                       /\ Frame(c)'.ph = "join" \/ (Frame(c)'.ph = "dequeue" /\ Frame(c)'.knt = 0)
                       => grp[Frame(c).g].ntodo = 0
  BY <1>8 DEF UntilAstray, WaitsOK
<1> QED BY <1>1, <1>2, <1>4, <1>6, <1>7, <1>8, TakeStep

(* The step in which the creator takes a job of its group, or finds none.  *)
LEMMA WaitDequeueIInv ==
  ASSUME TypeOK, UntilAstray, ~astray, NEW p \in Procs, WaitDequeue(p)
  PROVE  TypeOK' /\ UntilAstray'
<1> DEFINE f    == Top(p)
           next == [f EXCEPT !.ph = IF f.knt = 0 THEN "join" ELSE "poll"]
           mine == {t \in Tasks : queued[t] > 0 /\ task[t].g = f.g}
<1>1. /\ stack[p] # << >> /\ f.ph = "dequeue"
      /\ UNCHANGED <<grp, task, doomed, freeTasks, open, created, added, history>>
      /\ IF mine = {}
         THEN SetTop(p, next) /\ UNCHANGED queued
         ELSE \E t \in mine :
                /\ stack' = [stack EXCEPT ![p] = Front(@) \o <<next, TaskFrame(t, p)>>]
                /\ queued' = [queued EXCEPT ![t] = @ - 1]
  BY DEF WaitDequeue, At
<1>2. f \in Frames /\ TopCall(p) \in Calls /\ Frame(TopCall(p)) = f
  BY <1>1, CallsAre
<1>3. /\ next \in Frames /\ next.k = f.k /\ next.g = f.g /\ next.serial = f.serial /\ next.t = f.t
      /\ next.ph \in {"poll", "join"} /\ next.lastTask = f.lastTask /\ next.fail = f.fail
      /\ next.ph = "join" => f.knt = 0
  BY <1>2 DEF Frames, WaitPhases
<1> HIDE DEF next
<1>4. Alike(f, next) /\ \A c \in Calls : Alike(Frame(c), Frame(c))
  BY <1>1, <1>3 DEF Alike, Continues, TaskPhases
<1>5. f.k = "wait" /\ (f.knt = 0 => grp[f.g].ntodo = 0)
  <2>1. f.k \in {"task", "wait"} /\ f.ph \notin TaskPhases
    BY <1>1, <1>2 DEF Frames, TaskPhases
  <2>2. f.k = "wait"
    BY <1>2, <2>1 DEF UntilAstray, CallsOK
  <2> QED BY <1>1, <1>2, <2>2 DEF UntilAstray, WaitsOK
<1> HIDE DEF f
<1>6. CASE mine = {}
  <2>1. SetTop(p, next) /\ queued' = queued
    BY <1>1, <1>6
  <2>2. /\ stack' \in [Procs -> Seq(Frames)] /\ Calls' = Calls
        /\ \A c \in Calls : Frame(c)' = IF c = TopCall(p) THEN next ELSE Frame(c)
    BY <1>1, <1>3, <2>1, SetCalls
  <2>3. \A c \in Calls : Alike(Frame(c), Frame(c)')
    BY <1>2, <1>4, <2>2
  <2>4. failed' \subseteq 1..MaxGroups /\ failed \subseteq failed'
    BY <1>1 DEF TypeOK, history
  <2>5. \A c \in Calls : Frame(c)'.fail => Frame(c).fail \/ Frame(c).serial \in failed'
    BY <1>2, <1>3, <2>2
  <2>6. \A c \in Calls : /\ Frame(c)'.k = "wait"
                         /\ Frame(c)'.ph = "join" \/ (Frame(c)'.ph = "dequeue" /\ Frame(c)'.knt = 0)
                         => grp[Frame(c).g].ntodo = 0
    BY <1>2, <1>3, <1>5, <2>2 DEF UntilAstray, WaitsOK
  <2> QED BY <1>1, <2>1, <2>2, <2>3, <2>4, <2>5, <2>6, TopStep DEF history
<1>7. CASE mine # {}
  <2>1. PICK t \in mine :
          /\ stack' = [stack EXCEPT ![p] = Front(@) \o <<next, TaskFrame(t, p)>>]
          /\ queued' = [queued EXCEPT ![t] = @ - 1]
    BY <1>1, <1>7
  <2>2. t \in Tasks /\ queued[t] > 0
    OBVIOUS
  <2>3. TaskFrame(t, p) \in Frames
    BY <2>2, TaskFrameBegins
  <2>4. /\ stack' \in [Procs -> Seq(Frames)] /\ Calls' = Calls \cup {NextCall(p)}
        /\ NextCall(p) \notin Calls /\ TopCall(p) # NextCall(p)
        /\ \A c \in Calls' : Frame(c)' = IF c = TopCall(p) THEN next
                                         ELSE IF c = NextCall(p) THEN TaskFrame(t, p)
                                         ELSE Frame(c)
    BY <1>1, <1>3, <2>1, <2>3, SetPushCalls
  <2>8. PICK n : n = NextCall(p)
    OBVIOUS
  <2>5. /\ n \notin Calls /\ Calls' = Calls \cup {n} /\ Frame(n)' = TaskFrame(t, p)
        /\ \A c \in Calls : Frame(c)' = IF c = TopCall(p) THEN next ELSE Frame(c)
    BY <2>4, <2>8
  <2>6. \A c \in Calls : Alike(Frame(c), Frame(c)') /\ (Frame(c)'.fail => Frame(c).fail)
    BY <1>2, <1>3, <1>4, <2>5
  <2>7. \A c \in Calls : /\ Frame(c)'.k = "wait"
                         /\ Frame(c)'.ph = "join" \/ (Frame(c)'.ph = "dequeue" /\ Frame(c)'.knt = 0)
                         => grp[Frame(c).g].ntodo = 0
    BY <1>2, <1>3, <1>5, <2>5 DEF UntilAstray, WaitsOK
  <2> HIDE DEF mine
  <2> QED BY <1>1, <2>1, <2>2, <2>4, <2>5, <2>6, <2>7, TakeStep
<1> QED BY <1>6, <1>7

(* The step in which a task added at run time gets into the queue.         *)
LEMMA AddEnqueueIInv ==
  ASSUME TypeOK, UntilAstray, ~astray, NEW p \in Procs, AddEnqueue(p)
  PROVE  TypeOK' /\ UntilAstray'
<1> DEFINE f == Top(p)
           e == [f EXCEPT !.ph = "run", !.knt = 0]
<1>1. /\ stack[p] # << >> /\ f.ph = "enqueue" /\ SetTop(p, e)
      /\ queued' = [queued EXCEPT ![f.knt] = @ + task[f.knt].rep]
      /\ UNCHANGED <<grp, task, doomed, freeTasks, open, created, added, history>>
  BY DEF AddEnqueue, At
<1>2. f \in Frames /\ TopCall(p) \in Calls /\ Frame(TopCall(p)) = f
  BY <1>1, CallsAre
<1>3. /\ e \in Frames /\ e.k = f.k /\ e.g = f.g /\ e.serial = f.serial /\ e.t = f.t
      /\ e.ph = "run" /\ e.lastTask = f.lastTask /\ e.fail = f.fail
  <2> HIDE DEF f
  <2>1. DOMAIN f = {"k", "g", "serial", "t", "ph", "depth", "fail", "lastTask", "knt"}
    BY <1>2 DEF Frames
  <2>2. /\ e.k = f.k /\ e.g = f.g /\ e.serial = f.serial /\ e.t = f.t
        /\ e.ph = "run" /\ e.lastTask = f.lastTask /\ e.fail = f.fail
    BY <2>1
  <2>3. [f EXCEPT !.ph = "run"] \in Frames
    BY <1>2 DEF Frames, TaskPhases
  <2>4. \A r \in Frames : [r EXCEPT !.knt = 0] \in Frames
    BY DEF Frames
  <2>5. e = [[f EXCEPT !.ph = "run"] EXCEPT !.knt = 0]
    BY <2>1
  <2> QED BY <2>2, <2>3, <2>4, <2>5
<1> HIDE DEF e
<1>4. PICK t : t = f.knt
  OBVIOUS
<1>5. /\ t \in 1..added /\ queued[t] = 0 /\ task[t].st = "live"
      /\ task[t].g = f.g /\ task[t].serial = f.serial
      /\ \A d \in Calls : Frame(d).t # t
  BY <1>1, <1>2, <1>4 DEF UntilAstray, EnteringOK
<1> HIDE DEF f
<1>6. 1..added \subseteq Tasks /\ t \in Tasks /\ added \in Nat
  BY <1>5, TaskGroupAssumption DEF TypeOK, Tasks
<1>7. task[t].rep \in Nat /\ task[t].rep > 0
  BY <1>5, <1>6 DEF TypeOK, TaskBlocks, UntilAstray, TasksOK
<1>8. /\ stack' \in [Procs -> Seq(Frames)] /\ Calls' = Calls
      /\ \A c \in Calls : Frame(c)' = IF c = TopCall(p) THEN e ELSE Frame(c)
  BY <1>1, <1>3, SetCalls
<1>9. /\ queued' \in [Tasks -> Nat]
      /\ \A u \in Tasks : queued'[u] = IF u = t THEN task[t].rep ELSE queued[u]
  BY <1>1, <1>4, <1>5, <1>6, <1>7 DEF TypeOK
<1>10. TypeOK'
  BY <1>1, <1>8, <1>9 DEF TypeOK, Groups, TaskBlocks, history
<1>11. SameGroups
  BY <1>1 DEF SameGroups
<1>12. Continues(f, e)
  BY <1>1, <1>3 DEF Continues, TaskPhases
<1>13. SameCalls
  BY <1>2, <1>8, <1>12 DEF SameCalls, Continues
<1>14. PlacesOK'
  BY <1>11, QuietPlaces DEF UntilAstray
<1>15. CallsOK'
  <2>1. added' \in Nat /\ added <= added'
    BY <1>1, <1>6
  <2> QED BY <1>11, <1>13, <2>1, QuietCalls DEF UntilAstray
<1>16. \A c \in Calls : Frame(c) \in Frames
  BY CallsAre
<1>17. f.k = "task" /\ Lives(f)
  <2>1. Busy(TopCall(p)) /\ f.ph \in TaskPhases
    BY <1>1, <1>2 DEF Busy, TaskPhases
  <2> QED BY <1>2, <2>1 DEF UntilAstray, CallsOK
<1>18. WaitsOK'
  <2>1. \A c \in Calls : Frame(c).k = "wait" => Frame(c).g \in Tgs
    BY <1>16 DEF Frames
  <2>2. ASSUME NEW c \in Calls', Frame(c)'.k = "wait",
               Frame(c)'.ph = "join" \/ (Frame(c)'.ph = "dequeue" /\ Frame(c)'.knt = 0)
        PROVE  grp'[Frame(c)'.g].ntodo = 0
    <3>1. c \in Calls /\ Frame(c)' = Frame(c)
      BY <1>3, <1>8, <1>17, <2>2
    <3> QED BY <1>1, <2>2, <3>1 DEF UntilAstray, WaitsOK
  <2> QED BY <1>11, <1>13, <2>1, <2>2, QuietWaits DEF UntilAstray
<1>19. TasksOK'
  <2>1. \A u \in Tasks : queued'[u] > 0 => queued[u] > 0 \/ u = t
    BY <1>9
  <2>2. Lives(task[t])
    BY <1>5, <1>17 DEF Lives, Of
  <2> QED BY <1>1, <1>5, <2>1, <2>2 DEF UntilAstray, TasksOK, Lives, Of
<1>20. \A c \in Calls : Frame(c)'.t = Frame(c).t /\ Frame(c)'.g = Frame(c).g
                        /\ Frame(c)'.serial = Frame(c).serial
  BY <1>2, <1>3, <1>8
<1>21. \A c \in Calls' : Frame(c)'.ph = "enqueue" =>
         /\ c # TopCall(p) /\ Frame(c)' = Frame(c) /\ Frame(c).knt # t
  <2>1. \A c \in Calls' : Frame(c)'.ph = "enqueue" => c # TopCall(p) /\ Frame(c)' = Frame(c)
    BY <1>3, <1>8
  <2>2. \A c \in Calls : Frame(c).ph = "enqueue" /\ Frame(c).knt = t => c = TopCall(p)
    BY <1>1, <1>2, <1>4 DEF UntilAstray, EnteringOK
  <2> QED BY <1>8, <2>1, <2>2
<1>22. EnteringOK'
  <2>1. ASSUME NEW c \in Calls', Frame(c)'.ph = "enqueue"
        PROVE  LET u == Frame(c)'.knt
               IN  /\ u \in 1..added' /\ queued'[u] = 0
                   /\ task'[u].st = "live" /\ task'[u].extra
                   /\ task'[u].g = Frame(c)'.g /\ task'[u].serial = Frame(c)'.serial
                   /\ \A d \in Calls' : Frame(d)'.t # u
    <3> DEFINE u == Frame(c).knt
    <3>1. c \in Calls /\ Frame(c)' = Frame(c) /\ u # t /\ Frame(c).ph = "enqueue"
      BY <1>8, <1>21, <2>1
    <3>2. /\ u \in 1..added /\ queued[u] = 0
          /\ task[u].st = "live" /\ task[u].extra
          /\ task[u].g = Frame(c).g /\ task[u].serial = Frame(c).serial
          /\ \A d \in Calls : Frame(d).t # u
      BY <3>1 DEF UntilAstray, EnteringOK
    <3>3. queued'[u] = 0
      BY <1>6, <1>9, <3>1, <3>2
    <3>4. \A d \in Calls' : Frame(d)'.t # u
      BY <1>8, <1>20, <3>2
    <3> QED BY <1>1, <3>1, <3>2, <3>3, <3>4
  <2>2. \A c, d \in Calls' : Frame(c)'.ph = "enqueue" /\ Frame(d)'.ph = "enqueue"
                             /\ Frame(c)'.knt = Frame(d)'.knt => c = d
    BY <1>8, <1>21 DEF UntilAstray, EnteringOK
  <2> QED BY <2>1, <2>2 DEF EnteringOK
<1>23. EndsOK'
  <2>1. doomed' = {} /\ failed' = failed /\ answer' = answer
    BY <1>1 DEF UntilAstray, EndsOK, history
  <2>2. \A g \in Tgs : grp'[g].error => grp[g].error
    BY <1>1
  <2>3. \A c \in Calls' : c \in Calls =>
            /\ Frame(c)'.fail => Frame(c).fail
            /\ Frame(c)'.ph = "post" /\ Frame(c)'.lastTask =>
                 Frame(c).ph = "post" /\ Frame(c).lastTask
    BY <1>2, <1>3, <1>8
  <2> QED BY <1>11, <1>13, <1>16, <2>1, <2>2, <2>3, QuietEnds DEF UntilAstray
<1>24. NtodoExact'
  <2>1. ASSUME NEW g \in Tgs, (grp[g].st = "run" /\ ~astray)'
        PROVE  (grp[g].ntodo = Outstanding(g) + (IF grp[g].sync THEN 0 ELSE 1))'
    <3>1. /\ \A u : u \in Entering <=> \E c \in Calls : Frame(c).ph = "enqueue" /\ u = Frame(c).knt
          /\ \A u : u \in Entering' <=> \E c \in Calls' : Frame(c)'.ph = "enqueue"
                                                          /\ u = Frame(c)'.knt
      BY DEF Entering
    <3>2. t \in Entering /\ t \notin Entering'
      BY <1>1, <1>2, <1>4, <1>8, <1>21, <3>1
    <3>3. ASSUME NEW u, u # t PROVE u \in Entering' <=> u \in Entering
      <4>1. ASSUME u \in Entering' PROVE u \in Entering
        BY <1>8, <1>21, <3>1, <4>1
      <4>2. ASSUME u \in Entering PROVE u \in Entering'
        <5>1. PICK c \in Calls : Frame(c).ph = "enqueue" /\ u = Frame(c).knt
          BY <3>1, <4>2
        <5>2. c # TopCall(p)
          BY <1>2, <1>4, <3>3, <5>1
        <5> QED BY <1>8, <3>1, <5>1, <5>2
      <4> QED BY <4>1, <4>2
    <3>4. ASSUME NEW u \in Tasks PROVE Left(g)'[u] = Left(g)[u]
      <4>1. Of(g, task[u])' <=> Of(g, task[u])
        BY <1>1 DEF Of
      <4>2. task' = task
        BY <1>1
      <4>3. CASE u = t
        BY <1>5, <1>7, <1>9, <3>2, <4>1, <4>2, <4>3 DEF Left
      <4>4. CASE u # t
        BY <1>9, <3>3, <4>1, <4>2, <4>4 DEF Left
      <4> QED BY <4>3, <4>4
    <3>5. BusyCalls(g)' = BusyCalls(g)
      <4>1. \A c : c \in BusyCalls(g) <=> c \in Calls /\ Of(g, Frame(c)) /\ Busy(c)
        BY DEF BusyCalls
      <4>2. \A c : c \in BusyCalls(g)' <=> c \in Calls' /\ Of(g, Frame(c))' /\ Busy(c)'
        BY DEF BusyCalls
      <4>3. \A c \in Calls : Of(g, Frame(c))' <=> Of(g, Frame(c))
        BY <1>1, <1>20 DEF Of
      <4>4. \A c \in Calls : Busy(c)' <=> Busy(c)
        BY <1>1, <1>2, <1>3, <1>8 DEF Busy
      <4> QED BY <1>8, <4>1, <4>2, <4>3, <4>4
    <3>6. grp' = grp /\ ~astray'
      BY <1>1, <2>1
    <3> QED BY <1>10, <1>11, <2>1, <3>4, <3>5, <3>6, QuietNtodo DEF UntilAstray
  <2> QED BY <2>1 DEF NtodoExact
<1> QED BY <1>10, <1>14, <1>15, <1>18, <1>19, <1>22, <1>23, <1>24 DEF UntilAstray

(* The step in which a call counts down.                                   *)
LEMMA CountdownIInv ==
  ASSUME TypeOK, UntilAstray, ~astray, NEW p \in Procs, Countdown(p)
  PROVE  TypeOK' /\ UntilAstray'
<1> DEFINE f == Top(p)
           e == [f EXCEPT !.ph = "post", !.lastTask = grp[f.g].ntodo = 1]
<1>1. /\ stack[p] # << >> /\ f.ph = "countdown" /\ SetTop(p, e)
      /\ grp' = [grp EXCEPT ![f.g].ntodo = @ - 1]
      /\ UNCHANGED <<task, queued, doomed, freeTasks, open, created, added, history>>
  BY DEF Countdown, At
<1>2. f \in Frames /\ TopCall(p) \in Calls /\ Frame(TopCall(p)) = f
  BY <1>1, CallsAre
<1>3. /\ e \in Frames /\ e.k = f.k /\ e.g = f.g /\ e.serial = f.serial /\ e.t = f.t
      /\ e.ph = "post" /\ e.fail = f.fail /\ e.knt = f.knt
      /\ e.lastTask = (grp[f.g].ntodo = 1)
  BY <1>2 DEF Frames, TaskPhases
<1> HIDE DEF e
<1>4. PICK h : h = f.g
  OBVIOUS
<1>5. f.k = "task" /\ Lives(f)
  <2>1. Busy(TopCall(p)) /\ f.ph \in TaskPhases
    BY <1>1, <1>2 DEF Busy, TaskPhases
  <2> QED BY <1>2, <2>1 DEF UntilAstray, CallsOK
<1> HIDE DEF f
<1>6. h \in Tgs /\ grp[h].st = "run" /\ Of(h, f)
  BY <1>4, <1>5 DEF Lives
<1>7. TopCall(p) \in BusyCalls(h)
  BY <1>1, <1>2, <1>6 DEF BusyCalls, Busy
<1>8. grp[h].ntodo >= 1 /\ (~grp[h].sync => grp[h].ntodo >= 2) /\ grp[h].ntodo \in Int
  <2>1. NtodoExact
    BY DEF UntilAstray
  <2>2. grp[h].ntodo \in Int
    BY <1>6 DEF TypeOK, Groups
  <2> QED BY <1>6, <1>7, <2>1, <2>2, BusyCounted
<1>9. /\ stack' \in [Procs -> Seq(Frames)] /\ Calls' = Calls
      /\ \A c \in Calls : Frame(c)' = IF c = TopCall(p) THEN e ELSE Frame(c)
  BY <1>1, <1>3, SetCalls
<1>10. /\ grp' \in [Tgs -> Groups]
       /\ \A g \in Tgs : /\ grp'[g].st = grp[g].st /\ grp'[g].serial = grp[g].serial
                         /\ grp'[g].sync = grp[g].sync /\ grp'[g].procId = grp[g].procId
                         /\ grp'[g].error = grp[g].error
                         /\ grp'[g].ntodo = IF g = h THEN grp[g].ntodo - 1 ELSE grp[g].ntodo
  <2>1. grp \in [Tgs -> Groups]
    BY DEF TypeOK
  <2>2. grp[h] \in Groups /\ grp[h].ntodo - 1 \in Int
    BY <1>6, <1>8, <2>1
  <2>3. [grp[h] EXCEPT !.ntodo = grp[h].ntodo - 1] \in Groups
    BY <2>2 DEF Groups
  <2>4. grp' = [grp EXCEPT ![h] = [grp[h] EXCEPT !.ntodo = grp[h].ntodo - 1]]
    BY <1>1, <1>4
  <2>5. grp' \in [Tgs -> Groups]
    BY <2>1, <2>3, <2>4
  <2>6. \A g \in Tgs : grp[g] \in Groups
    BY <2>1
  <2>7. \A g \in Tgs : grp'[g] = IF g = h THEN [grp[h] EXCEPT !.ntodo = grp[h].ntodo - 1] ELSE grp[g]
    BY <2>1, <2>4
  <2> QED BY <2>5, <2>6, <2>7 DEF Groups
<1>11. TypeOK'
  <2>1. grp' \in [Tgs -> Groups']
    BY <1>1, <1>10 DEF Groups
  <2> QED BY <1>1, <1>9, <2>1 DEF TypeOK, TaskBlocks, history
<1>12. SameGroups
  BY <1>1, <1>10 DEF SameGroups
<1>13. Continues(f, e)
  BY <1>1, <1>3 DEF Continues, TaskPhases
<1>14. SameCalls
  BY <1>2, <1>9, <1>13 DEF SameCalls, Continues
<1>15. PlacesOK'
  BY <1>12, QuietPlaces DEF UntilAstray
<1>16. CallsOK'
  <2>1. added' \in Nat /\ added <= added'
    BY <1>1, TaskGroupAssumption DEF TypeOK
  <2> QED BY <1>12, <1>14, <2>1, QuietCalls DEF UntilAstray
<1>17. \A c \in Calls : Frame(c) \in Frames
  BY CallsAre
<1>18. WaitsOK'
  <2>1. \A c \in Calls : Frame(c).k = "wait" => Frame(c).g \in Tgs
    BY <1>17 DEF Frames
  <2>2. ASSUME NEW c \in Calls', Frame(c)'.k = "wait",
               Frame(c)'.ph = "join" \/ (Frame(c)'.ph = "dequeue" /\ Frame(c)'.knt = 0)
        PROVE  grp'[Frame(c)'.g].ntodo = 0
    <3>1. c \in Calls /\ Frame(c)' = Frame(c)
      BY <1>3, <1>5, <1>9, <2>2
    <3>2. grp[Frame(c).g].ntodo = 0 /\ Frame(c).g \in Tgs
      BY <2>1, <2>2, <3>1 DEF UntilAstray, WaitsOK
    <3>3. Frame(c).g # h
      BY <1>8, <3>2
    <3> QED BY <1>10, <3>1, <3>2, <3>3
  <2> QED BY <1>12, <1>14, <2>1, <2>2, QuietWaits DEF UntilAstray
<1>19. TasksOK'
  <2>1. ASSUME NEW t \in Tasks, queued[t] > 0 PROVE Lives(task[t])'
    <3>1. Lives(task[t]) /\ task'[t] = task[t]
      BY <1>1, <2>1 DEF UntilAstray, TasksOK
    <3> QED BY <1>10, <3>1 DEF Lives, Of
  <2> QED BY <1>1, <2>1 DEF UntilAstray, TasksOK
<1>20. \A c \in Calls : Frame(c)'.t = Frame(c).t /\ Frame(c)'.g = Frame(c).g
                        /\ Frame(c)'.serial = Frame(c).serial
  BY <1>2, <1>3, <1>9
<1>21. \A c \in Calls : Frame(c)'.ph = "enqueue" <=> Frame(c).ph = "enqueue"
  BY <1>1, <1>2, <1>3, <1>9
<1>22. \A c \in Calls : Frame(c)'.knt = Frame(c).knt
  BY <1>2, <1>3, <1>9
<1>23. EnteringOK'
  <2>1. ASSUME NEW c \in Calls', Frame(c)'.ph = "enqueue"
        PROVE  LET t == Frame(c)'.knt
               IN  /\ t \in 1..added' /\ queued'[t] = 0
                   /\ task'[t].st = "live" /\ task'[t].extra
                   /\ task'[t].g = Frame(c)'.g /\ task'[t].serial = Frame(c)'.serial
                   /\ \A d \in Calls' : Frame(d)'.t # t
    BY <1>1, <1>9, <1>20, <1>21, <1>22, <2>1 DEF UntilAstray, EnteringOK
  <2>2. \A c, d \in Calls' : Frame(c)'.ph = "enqueue" /\ Frame(d)'.ph = "enqueue"
                             /\ Frame(c)'.knt = Frame(d)'.knt => c = d
    BY <1>9, <1>21, <1>22 DEF UntilAstray, EnteringOK
  <2> QED BY <2>1, <2>2 DEF EnteringOK
<1>24. EndsOK'
  <2>1. doomed' = {} /\ failed' = failed /\ answer' = answer
    BY <1>1 DEF UntilAstray, EndsOK, history
  <2>2. ASSUME NEW c \in Calls', c \in Calls
        PROVE  /\ Frame(c)'.fail => Frame(c).fail
               /\ Frame(c)'.ph = "post" /\ Frame(c)'.lastTask =>
                    \/ Frame(c).ph = "post" /\ Frame(c).lastTask
                    \/ grp[Frame(c).g].sync
    <3>1. CASE c = TopCall(p)
      <4>1. Frame(c) = f /\ Frame(c)' = e
        BY <1>2, <1>9, <3>1
      <4>2. grp[h].ntodo = 1 => grp[h].sync
        BY <1>8
      <4> QED BY <1>3, <1>4, <4>1, <4>2
    <3>2. CASE c # TopCall(p)
      BY <1>9, <2>2, <3>2
    <3> QED BY <3>1, <3>2
  <2> QED BY <1>10, <1>12, <1>14, <1>17, <2>1, <2>2, QuietEnds DEF UntilAstray
<1>25. NtodoExact'
  <2>1. ASSUME NEW g \in Tgs, (grp[g].st = "run" /\ ~astray)'
        PROVE  (grp[g].ntodo = Outstanding(g) + (IF grp[g].sync THEN 0 ELSE 1))'
    <3>1. \A u : u \in Entering' <=> u \in Entering
      BY <1>9, <1>21, <1>22 DEF Entering
    <3>2. \A u \in Tasks : Left(g)'[u] = Left(g)[u]
      BY <1>1, <1>10, <3>1 DEF Left, Of
    <3>3. /\ \A c : c \in BusyCalls(g) <=> c \in Calls /\ Of(g, Frame(c)) /\ Busy(c)
          /\ \A c : c \in BusyCalls(g)' <=> c \in Calls' /\ Of(g, Frame(c))' /\ Busy(c)'
      BY DEF BusyCalls
    <3>4. \A c \in Calls : Of(g, Frame(c))' <=> Of(g, Frame(c))
      BY <1>10, <1>20 DEF Of
    <3>5. \A c \in Calls : Busy(c)' <=> Busy(c) /\ c # TopCall(p)
      BY <1>3, <1>9 DEF Busy
    <3>6. CASE g # h
      <4>1. TopCall(p) \notin BusyCalls(g)
        BY <1>2, <1>4, <3>3, <3>6 DEF Of
      <4>2. BusyCalls(g)' = BusyCalls(g)
        BY <1>9, <3>3, <3>4, <3>5, <4>1
      <4>3. grp'[g].ntodo = grp[g].ntodo /\ grp'[g].st = "run" /\ ~astray'
        BY <1>10, <2>1, <3>6
      <4> QED BY <1>11, <1>12, <3>2, <4>2, <4>3, QuietNtodo DEF UntilAstray
    <3>7. CASE g = h
      <4>1. PICK x : x = TopCall(p)
        OBVIOUS
      <4>2. BusyCalls(g)' = BusyCalls(g) \ {x} /\ x \in BusyCalls(g)
        BY <1>7, <1>9, <3>3, <3>4, <3>5, <3>7, <4>1
      <4>3. IsFiniteSet(BusyCalls(g)) /\ Cardinality(BusyCalls(g)) \in Nat
        BY CallsFinite
      <4>4. Cardinality(BusyCalls(g)') = Cardinality(BusyCalls(g)) - 1
        BY <4>2, <4>3, FS_RemoveElement
      <4>5. Left(g) \in Counts /\ Left(g)' \in Counts
        BY <1>11, LeftTyped
      <4>6. Left(g)' = Left(g)
        BY <3>2, <4>5 DEF Counts
      <4>7. Repetitions(Left(g))' = Repetitions(Left(g))
        BY <4>6 DEF Repetitions
      <4>8. Cardinality(Repetitions(Left(g))) \in Nat
        BY <4>5, RepsFinite
      <4>9. Outstanding(g)' = Outstanding(g) - 1 /\ Outstanding(g) \in Nat
        BY <4>3, <4>4, <4>7, <4>8 DEF Outstanding
      <4>10. grp[g].ntodo = Outstanding(g) + (IF grp[g].sync THEN 0 ELSE 1)
        BY <1>6, <3>7 DEF UntilAstray, NtodoExact
      <4>11. grp'[g].ntodo = grp[g].ntodo - 1 /\ grp'[g].sync = grp[g].sync
        BY <1>10, <3>7
      <4>12. (IF grp[g].sync THEN 0 ELSE 1) \in Nat
        OBVIOUS
      <4> QED BY <4>9, <4>10, <4>11, <4>12
    <3> QED BY <3>6, <3>7
  <2> QED BY <2>1 DEF NtodoExact
<1> QED BY <1>11, <1>15, <1>16, <1>18, <1>19, <1>23, <1>24, <1>25 DEF UntilAstray

(* The step in which a call looks at its group without the lock, and       *)
(* returns: it is the one step that may go astray.                         *)
LEMMA PostIInv ==
  ASSUME TypeOK, UntilAstray, ~astray, NEW p \in Procs, Post(p)
  PROVE  IInv'
<1> DEFINE f == Top(p)
           own == grp[f.g].st = "run" /\ grp[f.g].serial = f.serial
           inUse == \/ queued[f.t] > 0
                    \/ \E q \in Procs \ {p} : \E i \in DOMAIN stack[q] : stack[q][i].t = f.t
           Bit(field, gone) == IF grp[f.g].st = "heap" /\ gone THEN BOOLEAN ELSE {field}
           Effect(sync, error, extra, delete, stash) ==
             /\ doomed' = IF delete THEN doomed \cup {f.g} ELSE doomed
             /\ grp' = IF stash THEN [grp EXCEPT ![f.g].error = TRUE] ELSE grp
             /\ task' = IF extra THEN [task EXCEPT ![f.t] = NoTask] ELSE task
             /\ astray' = (\/ astray
                           \/ ~own /\ (delete \/ stash)
                           \/ extra /\ (inUse \/ task[f.t].st = "none"))
<1>1. /\ stack[p] # << >> /\ f.ph = "post" /\ Pop(p)
      /\ UNCHANGED <<queued, freeTasks, open, created, added, failed, answer>>
  BY DEF Post, At
<1>2. \E sync \in Bit(grp[f.g].sync, TRUE), error \in Bit(grp[f.g].error, TRUE),
         extra \in Bit(task[f.t].extra, task[f.t].st = "none") :
           Effect(sync, error, extra, ~sync /\ f.lastTask, sync /\ f.fail /\ ~error)
  BY DEF Post
<1>3. f \in Frames /\ TopCall(p) \in Calls /\ Frame(TopCall(p)) = f
  BY <1>1, CallsAre
<1> HIDE DEF f
<1>4. f.k = "task" /\ f.t \in 1..added /\ f.t \in Tasks /\ f.g \in Tgs
  <2>1. f.k = "task"
    BY <1>1, <1>3 DEF UntilAstray, CallsOK, TaskPhases
  <2>2. f.t \in 1..added /\ f.g \in Tgs
    BY <1>3, <2>1 DEF UntilAstray, CallsOK, Frames
  <2> QED BY <2>1, <2>2, TaskGroupAssumption DEF Tasks, TypeOK
<1>5. grp[f.g] \in Groups /\ task[f.t] \in TaskBlocks
  BY <1>4 DEF TypeOK
<1>6. PICK sync \in BOOLEAN, error \in BOOLEAN, extra \in BOOLEAN :
        /\ grp[f.g].st # "heap" => sync = grp[f.g].sync
        /\ Effect(sync, error, extra, ~sync /\ f.lastTask, sync /\ f.fail /\ ~error)
  <2>1. /\ Bit(grp[f.g].sync, TRUE) \subseteq BOOLEAN
        /\ Bit(grp[f.g].error, TRUE) \subseteq BOOLEAN
        /\ Bit(task[f.t].extra, task[f.t].st = "none") \subseteq BOOLEAN
        /\ \A x \in Bit(grp[f.g].sync, TRUE) : grp[f.g].st # "heap" => x = grp[f.g].sync
    BY <1>5 DEF Groups, TaskBlocks
  <2> HIDE DEF Bit, Effect
  <2> QED BY <1>2, <2>1
<1> DEFINE delete == ~sync /\ f.lastTask
           stash == sync /\ f.fail /\ ~error
<1>7. /\ delete \in BOOLEAN /\ stash \in BOOLEAN /\ own \in BOOLEAN /\ inUse \in BOOLEAN
      /\ delete => ~sync /\ f.lastTask
      /\ stash => f.fail
  OBVIOUS
<1>8. Effect(sync, error, extra, delete, stash)
  BY <1>6
<1> HIDE DEF delete, stash
<1>9. /\ doomed' = IF delete THEN doomed \cup {f.g} ELSE doomed
      /\ grp' = IF stash THEN [grp EXCEPT ![f.g].error = TRUE] ELSE grp
      /\ task' = IF extra THEN [task EXCEPT ![f.t] = NoTask] ELSE task
      /\ astray' = (\/ astray
                    \/ ~own /\ (delete \/ stash)
                    \/ extra /\ (inUse \/ task[f.t].st = "none"))
  BY <1>8
<1> HIDE DEF own, Effect
<1>10. /\ grp' \in [Tgs -> Groups]
       /\ \A g \in Tgs : /\ grp'[g].st = grp[g].st /\ grp'[g].serial = grp[g].serial
                         /\ grp'[g].sync = grp[g].sync /\ grp'[g].procId = grp[g].procId
                         /\ grp'[g].ntodo = grp[g].ntodo
                         /\ grp'[g].error => grp[g].error \/ (g = f.g /\ stash)
  <2>1. grp \in [Tgs -> Groups]
    BY DEF TypeOK
  <2>2. CASE ~stash
    BY <1>9, <2>1, <2>2
  <2>3. CASE stash
    <3>1. [grp[f.g] EXCEPT !.error = TRUE] \in Groups
      BY <1>5 DEF Groups
    <3>2. grp' = [grp EXCEPT ![f.g] = [grp[f.g] EXCEPT !.error = TRUE]]
      BY <1>9, <2>3
    <3>3. grp' \in [Tgs -> Groups]
      BY <2>1, <3>1, <3>2
    <3>4. \A g \in Tgs : grp'[g] = IF g = f.g THEN [grp[f.g] EXCEPT !.error = TRUE] ELSE grp[g]
      BY <2>1, <3>2
    <3>5. \A g \in Tgs : grp[g] \in Groups
      BY <2>1
    <3> QED BY <2>3, <3>3, <3>4, <3>5 DEF Groups
  <2> QED BY <1>7, <2>2, <2>3
<1>11. /\ task' \in [Tasks -> TaskBlocks]
       /\ \A t \in Tasks : task'[t] = IF extra /\ t = f.t THEN NoTask ELSE task[t]
  <2>1. NoTask \in TaskBlocks
    BY TaskGroupAssumption DEF NoTask, TaskBlocks, TypeOK
  <2>2. task \in [Tasks -> TaskBlocks]
    BY DEF TypeOK
  <2>3. CASE extra
    BY <1>9, <2>1, <2>2, <2>3
  <2>4. CASE ~extra
    BY <1>9, <2>2, <2>4
  <2> QED BY <2>3, <2>4
<1>12. /\ stack' \in [Procs -> Seq(Frames)] /\ Calls' = Calls \ {TopCall(p)}
       /\ \A c \in Calls' : Frame(c)' = Frame(c)
  BY <1>1, PopCalls
<1>13. TypeOK'
  <2>1. grp' \in [Tgs -> Groups'] /\ task' \in [Tasks -> TaskBlocks']
    BY <1>1, <1>10, <1>11 DEF Groups, TaskBlocks
  <2>2. doomed' \subseteq Tgs /\ astray' \in BOOLEAN
    BY <1>4, <1>7, <1>9 DEF TypeOK
  <2> QED BY <1>1, <1>12, <2>1, <2>2 DEF TypeOK
<1>14. CASE astray'
  BY <1>13, <1>14 DEF IInv
<1>15. CASE ~astray'
  <2>1. /\ delete \/ stash => own
        /\ extra => ~inUse /\ task[f.t].st # "none"
    BY <1>7, <1>9, <1>15
  <2>2. own => Lives(f) /\ grp[f.g].st # "heap"
    BY <1>4 DEF own, Lives, Of
  <2>3. ~delete
    <3>1. Lives(f) /\ f.lastTask => grp[f.g].sync
      BY <1>1, <1>3 DEF UntilAstray, EndsOK
    <3> QED BY <1>6, <1>7, <2>1, <2>2, <3>1
  <2>4. doomed' = {}
    BY <1>9, <2>3 DEF UntilAstray, EndsOK
  <2>5. stash => grp[f.g].serial \in failed
    <3>1. stash => f.serial \in failed
      BY <1>3, <1>7 DEF UntilAstray, EndsOK
    <3> QED BY <2>1, <3>1 DEF own
  <2>6. extra => queued[f.t] = 0
    <3>1. ~inUse => ~(queued[f.t] > 0)
      OBVIOUS
    <3>2. queued[f.t] \in Nat
      BY <1>4 DEF TypeOK
    <3> HIDE DEF inUse
    <3> QED BY <2>1, <3>1, <3>2
  <2> HIDE DEF inUse
  <2>7. SameGroups
    BY <1>1, <1>10 DEF SameGroups
  <2>8. SameCalls
    BY <1>12 DEF SameCalls, Continues
  <2>9. PlacesOK'
    BY <2>7, QuietPlaces DEF UntilAstray
  <2>10. CallsOK'
    <3>1. added' \in Nat /\ added <= added'
      BY <1>1, TaskGroupAssumption DEF TypeOK
    <3> QED BY <2>7, <2>8, <3>1, QuietCalls DEF UntilAstray
  <2>11. \A c \in Calls : Frame(c) \in Frames
    BY CallsAre
  <2>12. WaitsOK'
    <3>1. \A c \in Calls : Frame(c).k = "wait" => Frame(c).g \in Tgs
      BY <2>11 DEF Frames
    <3>2. ASSUME NEW c \in Calls', Frame(c)'.k = "wait",
                 Frame(c)'.ph = "join" \/ (Frame(c)'.ph = "dequeue" /\ Frame(c)'.knt = 0)
          PROVE  grp'[Frame(c)'.g].ntodo = 0
      <4>1. c \in Calls /\ Frame(c)' = Frame(c)
        BY <1>12
      <4>2. grp[Frame(c).g].ntodo = 0 /\ Frame(c).g \in Tgs
        BY <3>1, <3>2, <4>1 DEF UntilAstray, WaitsOK
      <4> QED BY <1>10, <4>1, <4>2
    <3> QED BY <2>7, <2>8, <3>1, <3>2, QuietWaits DEF UntilAstray
  <2>13. TasksOK'
    <3>1. ASSUME NEW t \in Tasks, queued'[t] > 0 PROVE task'[t].st = "live" /\ Lives(task[t])'
      <4>1. queued[t] > 0 /\ task'[t] = task[t]
        BY <1>1, <1>11, <2>6, <3>1
      <4>2. task[t].st = "live" /\ Lives(task[t])
        BY <4>1 DEF UntilAstray, TasksOK
      <4> QED BY <1>10, <4>1, <4>2 DEF Lives, Of
    <3>2. \A t \in Tasks : task'[t].st = "live" =>
            task'[t].g \in Tgs /\ task'[t].rep > 0 /\ task'[t].serial > 0
      <4>1. NoTask.st # "live"
        BY DEF NoTask
      <4> QED BY <1>11, <4>1 DEF UntilAstray, TasksOK
    <3>3. \A t \in Tasks : t > added' => task'[t] = NoTask
      BY <1>1, <1>11 DEF UntilAstray, TasksOK
    <3> QED BY <3>1, <3>2, <3>3 DEF TasksOK
  <2>14. \A c \in Calls : Frame(c).ph = "enqueue" => c # TopCall(p) /\ c \in Calls'
    BY <1>1, <1>3, <1>12
  <2>15. EnteringOK'
    <3>1. ASSUME NEW c \in Calls', Frame(c)'.ph = "enqueue"
          PROVE  LET u == Frame(c)'.knt
                 IN  /\ u \in 1..added' /\ queued'[u] = 0
                     /\ task'[u].st = "live" /\ task'[u].extra
                     /\ task'[u].g = Frame(c)'.g /\ task'[u].serial = Frame(c)'.serial
                     /\ \A d \in Calls' : Frame(d)'.t # u
      <4> DEFINE u == Frame(c).knt
      <4>1. c \in Calls /\ Frame(c)' = Frame(c)
        BY <1>12
      <4>2. /\ u \in 1..added /\ queued[u] = 0
            /\ task[u].st = "live" /\ task[u].extra
            /\ task[u].g = Frame(c).g /\ task[u].serial = Frame(c).serial
            /\ \A d \in Calls : Frame(d).t # u
        BY <3>1, <4>1 DEF UntilAstray, EnteringOK
      <4>3. u # f.t /\ u \in Tasks
        BY <1>3, <4>2, TaskGroupAssumption DEF Tasks, TypeOK
      <4>4. task'[u] = task[u]
        BY <1>11, <4>3
      <4>5. \A d \in Calls' : Frame(d)'.t # u
        BY <1>12, <4>2
      <4> QED BY <1>1, <4>1, <4>2, <4>4, <4>5
    <3>2. \A c, d \in Calls' : Frame(c)'.ph = "enqueue" /\ Frame(d)'.ph = "enqueue"
                               /\ Frame(c)'.knt = Frame(d)'.knt => c = d
      BY <1>12 DEF UntilAstray, EnteringOK
    <3> QED BY <3>1, <3>2 DEF EnteringOK
  <2>16. EndsOK'
    <3>1. \A g \in Tgs : grp'[g].error => grp[g].error \/ grp[g].serial \in failed'
      BY <1>1, <1>10, <2>5
    <3> QED BY <1>1, <1>12, <2>4, <2>7, <2>8, <2>11, <3>1, QuietEnds DEF UntilAstray
  <2>17. NtodoExact'
    <3>1. ASSUME NEW g \in Tgs, (grp[g].st = "run" /\ ~astray)'
          PROVE  (grp[g].ntodo = Outstanding(g) + (IF grp[g].sync THEN 0 ELSE 1))'
      <4>1. /\ \A u : u \in Entering <=> \E c \in Calls : Frame(c).ph = "enqueue" /\ u = Frame(c).knt
            /\ \A u : u \in Entering' <=> \E c \in Calls' : Frame(c)'.ph = "enqueue"
                                                            /\ u = Frame(c)'.knt
        BY DEF Entering
      <4>2. \A u : u \in Entering' <=> u \in Entering
        BY <1>12, <2>14, <4>1
      <4>3. ASSUME NEW u \in Tasks PROVE Left(g)'[u] = Left(g)[u]
        <5>1. CASE extra /\ u = f.t
          <6>1. queued[u] = 0 /\ u \notin Entering
            <7>1. \A c \in Calls : Frame(c).ph = "enqueue" => Frame(c).knt # u
              BY <1>3, <5>1 DEF UntilAstray, EnteringOK
            <7> QED BY <2>6, <4>1, <5>1, <7>1
          <6> QED BY <1>1, <4>2, <6>1 DEF Left
        <5>2. CASE ~(extra /\ u = f.t)
          <6>1. task'[u] = task[u]
            BY <1>11, <5>2
          <6> QED BY <1>1, <1>10, <4>2, <6>1 DEF Left, Of
        <5> QED BY <5>1, <5>2
      <4>4. BusyCalls(g)' = BusyCalls(g)
        <5>1. \A c : c \in BusyCalls(g) <=> c \in Calls /\ Of(g, Frame(c)) /\ Busy(c)
          BY DEF BusyCalls
        <5>2. \A c : c \in BusyCalls(g)' <=> c \in Calls' /\ Of(g, Frame(c))' /\ Busy(c)'
          BY DEF BusyCalls
        <5>3. \A c \in Calls' : (Of(g, Frame(c))' <=> Of(g, Frame(c))) /\ (Busy(c)' <=> Busy(c))
          BY <1>10, <1>12 DEF Of, Busy
        <5>4. ~Busy(TopCall(p))
          BY <1>1, <1>3 DEF Busy
        <5> QED BY <1>12, <5>1, <5>2, <5>3, <5>4
      <4>5. grp'[g].ntodo = grp[g].ntodo /\ grp'[g].st = "run" /\ ~astray'
        BY <1>10, <3>1
      <4> QED BY <1>13, <2>7, <4>3, <4>4, <4>5, QuietNtodo DEF UntilAstray
    <3> QED BY <3>1 DEF NtodoExact
  <2> QED BY <1>13, <2>9, <2>10, <2>12, <2>13, <2>15, <2>16, <2>17 DEF IInv, UntilAstray
<1> QED BY <1>14, <1>15

-----------------------------------------------------------------------------
(* The end of a group.                                                     *)

(* What ExDestroyTaskGroup leaves.                                         *)
LEMMA Destroyed ==
  ASSUME TypeOK, NEW p \in Procs, NEW g \in Tgs, Destroy(g, p, grp)
  PROVE  /\ grp' \in [Tgs -> Groups] /\ task' \in [Tasks -> TaskBlocks]
         /\ \A h \in Tgs : h # g => grp'[h] = grp[h]
         /\ grp'[g].st \in {"free", "heap"} /\ grp'[g].procId = grp[g].procId
         /\ grp'[g].serial = grp[g].serial
         /\ \A t \in Tasks : task'[t] = IF t \in Members(g, grp[g].serial) THEN NoTask ELSE task[t]
         /\ \/ grp'[g].st = "heap" /\ freeTasks' = freeTasks
            \/ grp'[g].st = "free" /\ freeTasks' = [freeTasks EXCEPT ![p] = <<g>> \o @]
<1>1. grp \in [Tgs -> Groups] /\ grp[g] \in Groups
  BY DEF TypeOK
<1>2. PICK s \in {"free", "heap"} :
        /\ grp' = [grp EXCEPT ![g].st = s]
        /\ \/ s = "heap" /\ freeTasks' = freeTasks
           \/ s = "free" /\ freeTasks' = [freeTasks EXCEPT ![p] = <<g>> \o @]
  BY DEF Destroy
<1>3. [grp[g] EXCEPT !.st = s] \in Groups
  BY <1>1, <1>2 DEF Groups
<1>4. grp' = [grp EXCEPT ![g] = [grp[g] EXCEPT !.st = s]]
  BY <1>2
<1>5. /\ grp' \in [Tgs -> Groups]
      /\ grp'[g] = [grp[g] EXCEPT !.st = s]
      /\ \A h \in Tgs : h # g => grp'[h] = grp[h]
  BY <1>1, <1>3, <1>4
<1>6. grp'[g].st = s /\ grp'[g].procId = grp[g].procId /\ grp'[g].serial = grp[g].serial
  BY <1>1, <1>5 DEF Groups
<1>7. task' = [t \in Tasks |-> IF t \in Members(g, grp[g].serial) THEN NoTask ELSE task[t]]
  BY DEF Destroy
<1>8. NoTask \in TaskBlocks /\ task \in [Tasks -> TaskBlocks]
  BY TaskGroupAssumption DEF NoTask, TaskBlocks, TypeOK
<1>9. task' \in [Tasks -> TaskBlocks]
  BY <1>7, <1>8
<1> QED BY <1>2, <1>5, <1>6, <1>7, <1>9

(* A group is taken off the stack of open ones.                            *)
LEMMA OpenTaken ==
  ASSUME open \in [Procs -> Seq(Tgs)], HoldsIn(open, grp, "open"),
         NEW p \in Procs, NEW g \in Tgs, grp'[g].st # "open",
         \A h \in Tgs : h # g => grp'[h].st = grp[h].st /\ grp'[h].procId = grp[h].procId,
         Shorter(open, p, g, open')
  PROVE  open' \in [Procs -> Seq(Tgs)] /\ HoldsIn(open', grp', "open")
BY ListsTail

(* A group that has nothing left to run is destroyed by its creator.       *)
LEMMA DestroyStep ==
  ASSUME TypeOK, UntilAstray, ~astray, NEW p \in Procs, NEW g \in Tgs, grp[g].procId = p,
         \/ grp[g].st = "run" /\ open' = open
         \/ grp[g].st = "open" /\ Shorter(open, p, g, open'),
         Destroy(g, p, grp), UNCHANGED <<queued, doomed, created, added, failed, astray>>,
         stack' \in [Procs -> Seq(Frames)], Calls' \subseteq Calls,
         \A c \in Calls' : Frame(c)' = Frame(c), \A c \in Calls : Busy(c) => c \in Calls',
         \A t \in Tasks : queued[t] > 0 => task[t].g # g,
         \A c \in Calls' : Busy(c) \/ Frame(c).k = "wait" => Frame(c).g # g,
         answer' \in [1..MaxGroups -> {"none", "OK", "ERROR"}],
         \A s \in 1..MaxGroups : answer'[s] = "ERROR" => s \in failed
  PROVE  TypeOK' /\ UntilAstray'
<1>1. /\ grp' \in [Tgs -> Groups] /\ task' \in [Tasks -> TaskBlocks]
      /\ \A h \in Tgs : h # g => grp'[h] = grp[h]
      /\ grp'[g].st \in {"free", "heap"} /\ grp'[g].procId = p /\ grp'[g].serial = grp[g].serial
      /\ \A t \in Tasks : task'[t] = IF t \in Members(g, grp[g].serial) THEN NoTask ELSE task[t]
      /\ \/ grp'[g].st = "heap" /\ freeTasks' = freeTasks
         \/ grp'[g].st = "free" /\ freeTasks' = [freeTasks EXCEPT ![p] = <<g>> \o @]
  BY Destroyed
<1>2. freeTasks \in [Procs -> Seq(Tgs)] /\ open \in [Procs -> Seq(Tgs)]
  BY DEF TypeOK
<1>3. \A h \in Tgs : h # g => grp'[h].st = grp[h].st /\ grp'[h].procId = grp[h].procId
  BY <1>1
<1>4. HoldsIn(freeTasks, grp, "free") /\ HoldsIn(open, grp, "open")
  BY DEF UntilAstray, PlacesOK
<1>5. freeTasks' \in [Procs -> Seq(Tgs)] /\ HoldsIn(freeTasks', grp', "free")
  <2>1. CASE grp'[g].st = "heap" /\ freeTasks' = freeTasks
    <3>1. \A h \in Tgs : /\ grp'[h].st = "free" <=> grp[h].st = "free"
                         /\ grp[h].st = "free" => grp'[h].procId = grp[h].procId
      BY <1>3, <2>1
    <3>2. HoldsIn(freeTasks, grp', "free")
      BY <1>2, <1>4, <3>1, ListsKept
    <3> QED BY <1>2, <2>1, <3>2
  <2>2. CASE grp'[g].st = "free" /\ freeTasks' = [freeTasks EXCEPT ![p] = <<g>> \o @]
    <3>1. grp[g].st # "free"
      OBVIOUS
    <3>2. Longer(freeTasks, p, g, freeTasks')
      BY <2>2 DEF Longer
    <3>3. grp'[g].st = "free" /\ grp'[g].procId = p
      BY <1>1, <2>2
    <3> QED BY <1>2, <1>3, <1>4, <3>1, <3>2, <3>3, ListsCons
  <2> QED BY <1>1, <2>1, <2>2
<1>6. open' \in [Procs -> Seq(Tgs)] /\ HoldsIn(open', grp', "open")
  <2>1. CASE grp[g].st = "run" /\ open' = open
    <3>1. \A h \in Tgs : /\ grp'[h].st = "open" <=> grp[h].st = "open"
                         /\ grp[h].st = "open" => grp'[h].procId = grp[h].procId
      BY <1>1, <1>3, <2>1
    <3>2. HoldsIn(open, grp', "open")
      BY <1>2, <1>4, <3>1, ListsKept
    <3> QED BY <1>2, <2>1, <3>2
  <2>2. CASE grp[g].st = "open" /\ Shorter(open, p, g, open')
    <3>1. grp'[g].st # "open"
      BY <1>1
    <3> QED BY <1>2, <1>3, <1>4, <2>2, <3>1, OpenTaken
  <2> QED BY <2>1, <2>2
<1>7. PlacesOK'
  BY <1>5, <1>6 DEF PlacesOK
<1>8. TypeOK'
  <2>1. grp' \in [Tgs -> Groups'] /\ task' \in [Tasks -> TaskBlocks']
    BY <1>1 DEF Groups, TaskBlocks
  <2> QED BY <1>5, <1>6, <2>1 DEF TypeOK
<1>9. \A r : Lives(r) /\ r.g # g => Lives(r)'
  BY <1>1 DEF Lives, Of
<1>10. \A r : Lives(r)' => Lives(r) /\ r.g # g
  BY <1>1 DEF Lives, Of
<1>11. \A t \in Tasks : queued[t] > 0 => task'[t] = task[t]
  BY <1>1 DEF Members
<1>12. TasksOK'
  <2>1. \A t \in Tasks : queued'[t] > 0 => task'[t].st = "live" /\ Lives(task[t])'
    <3>1. ASSUME NEW t \in Tasks, queued'[t] > 0 PROVE task'[t].st = "live" /\ Lives(task[t])'
      <4>1. queued[t] > 0
        BY <3>1
      <4>2. task'[t] = task[t] /\ task[t].st = "live" /\ Lives(task[t]) /\ task[t].g # g
        BY <1>11, <4>1 DEF UntilAstray, TasksOK
      <4>3. Lives(task[t])' <=> task'[t].g \in Tgs /\ grp'[task'[t].g].st = "run"
                                /\ task'[t].serial = grp'[task'[t].g].serial
        BY DEF Lives, Of
      <4> QED BY <1>1, <4>2, <4>3 DEF Lives, Of
    <3> QED BY <3>1
  <2>2. NoTask.st # "live"
    BY DEF NoTask
  <2>3. \A t \in Tasks : task'[t].st = "live" =>
          task'[t].g \in Tgs /\ task'[t].rep > 0 /\ task'[t].serial > 0
    BY <1>1, <2>2 DEF UntilAstray, TasksOK
  <2>4. \A t \in Tasks : t > added' => task'[t] = NoTask
    BY <1>1 DEF UntilAstray, TasksOK
  <2> QED BY <2>1, <2>3, <2>4 DEF TasksOK
<1>13. \A c \in Calls : Frame(c) \in Frames /\ Frame(c).g \in Tgs
  BY CallsAre DEF Frames
<1>14. \A c \in Calls' : c \in Calls /\ Frame(c)' = Frame(c) /\ (Busy(c)' <=> Busy(c))
  BY DEF Busy
<1>15. ASSUME NEW c \in Calls', Busy(c) \/ Frame(c).k = "wait"
       PROVE  /\ Frame(c).g # g /\ Lives(Frame(c)) /\ Frame(c).g \in Tgs
              /\ grp'[Frame(c).g] = grp[Frame(c).g]
  BY <1>1, <1>13, <1>14, <1>15 DEF UntilAstray, CallsOK
<1>16. CallsOK'
  <2>1. \A c \in Calls' : Frame(c)'.serial <= created'
    BY <1>14 DEF UntilAstray, CallsOK
  <2>2. \A c \in Calls' : Frame(c)'.k = "task" <=> Frame(c)'.ph \in TaskPhases
    BY <1>14 DEF UntilAstray, CallsOK
  <2>3. \A c \in Calls' : Frame(c)'.k = "task" => Frame(c)'.t \in 1..added'
    BY <1>14 DEF UntilAstray, CallsOK
  <2>4. \A c \in Calls' : Frame(c)'.k = "wait" => Frame(c)'.t = 0
    BY <1>14 DEF UntilAstray, CallsOK
  <2>5. \A c \in Calls' : Busy(c)' \/ Frame(c)'.k = "wait" => Lives(Frame(c))'
    BY <1>14, <1>15 DEF Lives, Of
  <2>6. \A c \in Calls' : (Of(Frame(c).g, Frame(c)))' => grp'[Frame(c)'.g].st # "open"
    <3>1. ASSUME NEW c \in Calls', Of(Frame(c).g, Frame(c))' PROVE grp'[Frame(c)'.g].st # "open"
      <4>1. CASE Frame(c).g = g
        BY <1>1, <1>14, <4>1
      <4>2. CASE Frame(c).g # g
        <5>1. grp'[Frame(c).g] = grp[Frame(c).g]
          BY <1>1, <1>13, <1>14, <4>2
        <5> QED BY <1>14, <3>1, <5>1 DEF UntilAstray, CallsOK, Of
      <4> QED BY <4>1, <4>2
    <3> QED BY <3>1
  <2> QED BY <2>1, <2>2, <2>3, <2>4, <2>5, <2>6 DEF CallsOK
<1>17. WaitsOK'
  <2>1. \A c \in Calls' : Frame(c)'.k = "wait" =>
          /\ grp'[Frame(c)'.g].sync /\ grp'[Frame(c)'.g].procId = c[1]
          /\ Frame(c)'.ph = "join" \/ (Frame(c)'.ph = "dequeue" /\ Frame(c)'.knt = 0) =>
               grp'[Frame(c)'.g].ntodo = 0
    BY <1>14, <1>15 DEF UntilAstray, WaitsOK
  <2>2. \A c, d \in Calls' : Frame(c)'.k = "wait" /\ Frame(d)'.k = "wait"
                             /\ Frame(c)'.g = Frame(d)'.g => c = d
    BY <1>14 DEF UntilAstray, WaitsOK
  <2> QED BY <2>1, <2>2 DEF WaitsOK
<1>18. \A c \in Calls : Frame(c).ph = "enqueue" => Busy(c) /\ c \in Calls'
  BY DEF Busy
<1>19. EnteringOK'
  <2>1. ASSUME NEW c \in Calls', Frame(c)'.ph = "enqueue"
        PROVE  LET u == Frame(c)'.knt
               IN  /\ u \in 1..added' /\ queued'[u] = 0
                   /\ task'[u].st = "live" /\ task'[u].extra
                   /\ task'[u].g = Frame(c)'.g /\ task'[u].serial = Frame(c)'.serial
                   /\ \A d \in Calls' : Frame(d)'.t # u
    <3> DEFINE u == Frame(c).knt
    <3>1. c \in Calls /\ Frame(c)' = Frame(c) /\ Frame(c).ph = "enqueue"
      BY <1>14, <2>1
    <3>2. /\ u \in 1..added /\ queued[u] = 0
          /\ task[u].st = "live" /\ task[u].extra
          /\ task[u].g = Frame(c).g /\ task[u].serial = Frame(c).serial
          /\ \A d \in Calls : Frame(d).t # u
      BY <3>1 DEF UntilAstray, EnteringOK
    <3>3. u \in Tasks
      BY <3>2, TaskGroupAssumption DEF Tasks, TypeOK
    <3>4. task'[u] = task[u]
      BY <1>1, <3>2, <3>3 DEF Members
    <3>5. \A d \in Calls' : Frame(d)'.t # u
      BY <1>14, <3>2
    <3> QED BY <3>1, <3>2, <3>4, <3>5
  <2>2. \A c, d \in Calls' : Frame(c)'.ph = "enqueue" /\ Frame(d)'.ph = "enqueue"
                             /\ Frame(c)'.knt = Frame(d)'.knt => c = d
    BY <1>14 DEF UntilAstray, EnteringOK
  <2> QED BY <2>1, <2>2 DEF EnteringOK
<1>20. EndsOK'
  <2>1. ASSUME NEW c \in Calls', (Frame(c).ph = "post" /\ Frame(c).lastTask /\ Lives(Frame(c)))'
        PROVE  (grp[Frame(c).g].sync)'
    <3>1. Lives(Frame(c)) /\ Frame(c).g # g
      <4>1. /\ Frame(c).g \in Tgs /\ grp'[Frame(c).g].st = "run"
            /\ Frame(c).serial = grp'[Frame(c).g].serial
        BY <1>14, <2>1 DEF Lives, Of
      <4> QED BY <1>1, <4>1 DEF Lives, Of
    <3>2. grp[Frame(c).g].sync
      BY <1>14, <2>1, <3>1 DEF UntilAstray, EndsOK
    <3> QED BY <1>1, <1>13, <1>14, <3>1, <3>2
  <2>2. doomed' = {}
    BY DEF UntilAstray, EndsOK
  <2>3. \A c \in Calls' : Frame(c)'.fail => Frame(c)'.serial \in failed'
    BY <1>14 DEF UntilAstray, EndsOK
  <2>4. \A h \in Tgs : grp'[h].st \in {"open", "run"} => h # g /\ grp'[h] = grp[h]
    BY <1>1
  <2>5. \A h \in Tgs : grp'[h].st \in {"open", "run"} => grp'[h].serial > 0
    BY <2>4 DEF UntilAstray, EndsOK
  <2>6. \A h \in Tgs : grp'[h].st \in {"open", "run"} /\ grp'[h].error => grp'[h].serial \in failed'
    BY <2>4 DEF UntilAstray, EndsOK
  <2>7. \A s \in 1..MaxGroups : answer'[s] = "ERROR" => s \in failed'
    OBVIOUS
  <2> QED BY <2>1, <2>2, <2>3, <2>5, <2>6, <2>7 DEF EndsOK
<1>21. NtodoExact'
  <2>1. ASSUME NEW h \in Tgs, (grp[h].st = "run" /\ ~astray)'
        PROVE  (grp[h].ntodo = Outstanding(h) + (IF grp[h].sync THEN 0 ELSE 1))'
    <3>1. h # g /\ grp'[h] = grp[h] /\ grp[h].st = "run"
      BY <1>1, <2>1
    <3>2. grp[h].serial > 0
      BY <3>1 DEF UntilAstray, EndsOK
    <3>3. /\ \A u : u \in Entering <=> \E c \in Calls : Frame(c).ph = "enqueue" /\ u = Frame(c).knt
          /\ \A u : u \in Entering' <=> \E c \in Calls' : Frame(c)'.ph = "enqueue"
                                                          /\ u = Frame(c)'.knt
      BY DEF Entering
    <3>4. \A u : u \in Entering' <=> u \in Entering
      BY <1>14, <1>18, <3>3
    <3>5. ASSUME NEW u \in Tasks PROVE Left(h)'[u] = Left(h)[u]
      <4>1. CASE u \in Members(g, grp[g].serial)
        <5>1. task[u].g = g /\ task'[u] = NoTask
          BY <1>1, <4>1 DEF Members
        <5>2. ~Of(h, task[u])
          BY <3>1, <5>1 DEF Of
        <5>3. ~Of(h, task[u])'
          BY <3>1, <3>2, <5>1 DEF Of, NoTask
        <5> QED BY <5>2, <5>3 DEF Left
      <4>2. CASE u \notin Members(g, grp[g].serial)
        <5>1. task'[u] = task[u]
          BY <1>1, <4>2
        <5> QED BY <3>1, <3>4, <5>1 DEF Left, Of
      <4> QED BY <4>1, <4>2
    <3>6. BusyCalls(h)' = BusyCalls(h)
      <4>1. \A c : c \in BusyCalls(h) <=> c \in Calls /\ Of(h, Frame(c)) /\ Busy(c)
        BY DEF BusyCalls
      <4>2. \A c : c \in BusyCalls(h)' <=> c \in Calls' /\ Of(h, Frame(c))' /\ Busy(c)'
        BY DEF BusyCalls
      <4>3. \A c \in Calls' : Of(h, Frame(c))' <=> Of(h, Frame(c))
        BY <1>14, <3>1 DEF Of
      <4> QED BY <1>14, <4>1, <4>2, <4>3
    <3>7. Left(h) \in Counts /\ Left(h)' \in Counts
      BY <1>8, LeftTyped
    <3>8. Left(h)' = Left(h)
      BY <3>5, <3>7 DEF Counts
    <3>9. Repetitions(Left(h))' = Repetitions(Left(h))
      BY <3>8 DEF Repetitions
    <3>10. Outstanding(h)' = Outstanding(h)
      BY <3>6, <3>9 DEF Outstanding
    <3>11. grp[h].ntodo = Outstanding(h) + (IF grp[h].sync THEN 0 ELSE 1)
      BY <3>1 DEF UntilAstray, NtodoExact
    <3> QED BY <3>1, <3>10, <3>11
  <2> QED BY <2>1 DEF NtodoExact
<1> QED BY <1>7, <1>8, <1>12, <1>16, <1>17, <1>19, <1>20, <1>21 DEF UntilAstray

(* The step in which the creator reports its group's errors.               *)
LEMMA JoinIInv ==
  ASSUME TypeOK, UntilAstray, ~astray, NEW p \in Procs, Join(p)
  PROVE  TypeOK' /\ UntilAstray'
<1> DEFINE f == Top(p)
<1>1. /\ stack[p] # << >> /\ f.ph = "join" /\ Pop(p) /\ Destroy(f.g, p, grp)
      /\ answer' = [answer EXCEPT ![f.serial] = IF grp[f.g].error THEN "ERROR" ELSE "OK"]
      /\ UNCHANGED <<queued, doomed, open, created, added, failed, astray>>
  BY DEF Join, At
<1>2. f \in Frames /\ TopCall(p) \in Calls /\ Frame(TopCall(p)) = f /\ TopCall(p)[1] = p
  BY <1>1, CallsAre
<1> HIDE DEF f
<1>3. PICK g : g = f.g
  OBVIOUS
<1>4. f.k = "wait" /\ f.g \in Tgs /\ f.serial \in 1..MaxGroups
  <2>1. f.k # "task"
    BY <1>1, <1>2 DEF UntilAstray, CallsOK, TaskPhases
  <2> QED BY <1>2, <2>1 DEF Frames
<1>5. g \in Tgs /\ grp[g].st = "run" /\ f.serial = grp[g].serial
  BY <1>2, <1>3, <1>4 DEF UntilAstray, CallsOK, Lives, Of
<1>6. grp[g].sync /\ grp[g].procId = p /\ grp[g].ntodo = 0
  BY <1>1, <1>2, <1>3, <1>4 DEF UntilAstray, WaitsOK
<1>7. /\ stack' \in [Procs -> Seq(Frames)] /\ Calls' = Calls \ {TopCall(p)}
      /\ \A c \in Calls' : Frame(c)' = Frame(c)
  BY <1>1, PopCalls
<1>8. \A c \in Calls : Busy(c) => c \in Calls'
  BY <1>1, <1>2, <1>7 DEF Busy
<1>9. (\A t \in Tasks : Left(g)[t] = 0) /\ BusyCalls(g) = {}
  <2>1. Left(g) \in Counts
    BY DEF Left, Counts, TypeOK, TaskBlocks
  <2>2. /\ IsFiniteSet(BusyCalls(g)) /\ Cardinality(BusyCalls(g)) \in Nat
        /\ Cardinality(Repetitions(Left(g))) \in Nat
    BY <2>1, CallsFinite, RepsFinite
  <2>3. Outstanding(g) = 0
    <3>1. Outstanding(g) \in Nat
      BY <2>2 DEF Outstanding
    <3>2. grp[g].ntodo = Outstanding(g) + (IF grp[g].sync THEN 0 ELSE 1)
      BY <1>5 DEF UntilAstray, NtodoExact
    <3> QED BY <1>6, <3>1, <3>2
  <2>4. Cardinality(Repetitions(Left(g))) = 0 /\ Cardinality(BusyCalls(g)) = 0
    BY <2>2, <2>3 DEF Outstanding
  <2> QED BY <2>1, <2>2, <2>4, NoReps, FS_EmptySet
<1>10. ASSUME NEW t \in Tasks, queued[t] > 0 PROVE task[t].g # g
  <2>1. SUFFICES ASSUME task[t].g = g PROVE FALSE
    OBVIOUS
  <2>2. Of(g, task[t])
    BY <1>10, <2>1 DEF UntilAstray, TasksOK, Lives
  <2>3. queued[t] \in Nat /\ task[t].rep \in Nat
    BY DEF TypeOK, TaskBlocks
  <2>4. Left(g)[t] = IF t \in Entering THEN queued[t] + task[t].rep ELSE queued[t]
    BY <2>2 DEF Left
  <2>5. Left(g)[t] > 0
    BY <1>10, <2>3, <2>4
  <2> QED BY <1>9, <2>5
<1>11. ASSUME NEW c \in Calls', Busy(c) \/ Frame(c).k = "wait" PROVE Frame(c).g # g
  <2>1. c \in Calls /\ c # TopCall(p)
    BY <1>7
  <2>2. CASE Busy(c)
    <3>1. Frame(c).g = g => Of(g, Frame(c))
      BY <2>1, <2>2 DEF UntilAstray, CallsOK, Lives
    <3> QED BY <1>9, <2>1, <2>2, <3>1 DEF BusyCalls
  <2>3. CASE Frame(c).k = "wait"
    BY <1>2, <1>3, <1>4, <2>1, <2>3 DEF UntilAstray, WaitsOK
  <2> QED BY <1>11, <2>2, <2>3
<1>12. /\ answer' \in [1..MaxGroups -> {"none", "OK", "ERROR"}]
       /\ \A s \in 1..MaxGroups : answer'[s] = "ERROR" => s \in failed
  <2>1. answer \in [1..MaxGroups -> {"none", "OK", "ERROR"}]
    BY DEF TypeOK
  <2>2. PICK a \in {"OK", "ERROR"} : /\ answer' = [answer EXCEPT ![f.serial] = a]
                                     /\ a = "ERROR" => grp[f.g].error
    BY <1>1
  <2>3. grp[f.g].error => f.serial \in failed
    BY <1>3, <1>5 DEF UntilAstray, EndsOK
  <2>4. \A s \in 1..MaxGroups : answer[s] = "ERROR" => s \in failed
    BY DEF UntilAstray, EndsOK
  <2>5. \A s \in 1..MaxGroups : answer'[s] = IF s = f.serial THEN a ELSE answer[s]
    BY <2>1, <2>2
  <2>6. answer' \in [1..MaxGroups -> {"none", "OK", "ERROR"}]
    BY <2>1, <2>2
  <2> QED BY <2>2, <2>3, <2>4, <2>5, <2>6
<1>13. Destroy(g, p, grp)
  BY <1>1, <1>3
<1> QED BY <1>1, <1>5, <1>6, <1>7, <1>8, <1>10, <1>11, <1>12, <1>13, DestroyStep

(* What the group opened last is.                                          *)
LEMMA OpenHead ==
  ASSUME TypeOK, UntilAstray, NEW p \in Procs, Len(open[p]) > Depth(p)
  PROVE  /\ open[p] # << >> /\ Head(open[p]) \in Tgs
         /\ grp[Head(open[p])].st = "open" /\ grp[Head(open[p])].procId = p
         /\ Len(open[p]) \in Nat \ {0}
<1>1. open[p] \in Seq(Tgs) /\ Len(open[p]) \in Nat /\ DOMAIN open[p] = 1..Len(open[p])
  BY LenProperties DEF TypeOK
<1>2. Depth(p) \in Nat
  BY CallsAre DEF Depth, Frames
<1>3. Len(open[p]) > 0
  BY <1>1, <1>2
<1>4. open[p] # << >> /\ 1 \in DOMAIN open[p]
  BY <1>1, <1>3, EmptySeq
<1>5. Head(open[p]) = open[p][1] /\ Head(open[p]) \in Tgs
  BY <1>1, <1>4, HeadTailProperties
<1>6. grp[open[p][1]].st = "open" /\ grp[open[p][1]].procId = p
  BY <1>4 DEF UntilAstray, PlacesOK, HoldsIn
<1> QED BY <1>1, <1>3, <1>4, <1>5, <1>6

(* A group that is aborted, or executed without a task, is destroyed at    *)
(* once.                                                                   *)
LEMMA NeverRunStep ==
  ASSUME TypeOK, UntilAstray, ~astray, NEW p \in Procs, Len(open[p]) > Depth(p),
         open' = [open EXCEPT ![p] = Tail(@)], Destroy(Head(open[p]), p, grp),
         UNCHANGED <<queued, doomed, stack, created, added, failed, answer, astray>>
  PROVE  TypeOK' /\ UntilAstray'
<1>1. PICK g : g = Head(open[p])
  OBVIOUS
<1>2. open[p] # << >> /\ g \in Tgs /\ grp[g].st = "open" /\ grp[g].procId = p
  BY <1>1, OpenHead
<1>3. Calls' = Calls /\ \A c \in Calls : Frame(c)' = Frame(c)
  BY DEF Calls, Frame
<1>4. \A t \in Tasks : queued[t] > 0 => task[t].g # g
  BY <1>2 DEF UntilAstray, TasksOK, Lives
<1>5. \A c \in Calls : Busy(c) \/ Frame(c).k = "wait" => Frame(c).g # g
  BY <1>2 DEF UntilAstray, CallsOK, Lives
<1>6. stack' \in [Procs -> Seq(Frames)]
  BY DEF TypeOK
<1>7. /\ answer' \in [1..MaxGroups -> {"none", "OK", "ERROR"}]
      /\ \A s \in 1..MaxGroups : answer'[s] = "ERROR" => s \in failed
  BY DEF TypeOK, UntilAstray, EndsOK
<1>8. Destroy(g, p, grp) /\ Shorter(open, p, g, open')
  BY <1>1, <1>2 DEF Shorter
<1> QED BY <1>1, <1>2, <1>3, <1>4, <1>5, <1>6, <1>7, <1>8, DestroyStep

(* The step of DXAbortTaskGroup.                                           *)
LEMMA AbortIInv ==
  ASSUME TypeOK, UntilAstray, ~astray, NEW p \in Procs, DXAbortTaskGroup(p)
  PROVE  TypeOK' /\ UntilAstray'
BY NeverRunStep DEF DXAbortTaskGroup, history

-----------------------------------------------------------------------------
(* The start of a group.                                                   *)

\* Frame e is of a call that the start of the group in block g makes.
Starts(e, g, sync) ==
  /\ e.g = g /\ e.serial = grp[g].serial /\ ~e.fail /\ ~e.lastTask
  /\ \/ e.k = "wait" /\ e.ph = "poll" /\ e.t = 0 /\ sync
     \/ e.k = "task" /\ e.ph = "run" /\ e.t \in 1..added /\ ~task[e.t].extra

\* The calls that the start of the group in block g makes on processor p.
StartCalls(g, p, sync) ==
  /\ Calls \subseteq Calls' /\ \A c \in Calls : Frame(c)' = Frame(c)
  /\ \A c \in Calls' \ Calls : Starts(Frame(c)', g, sync) /\ c[1] = p
  /\ \A c, d \in Calls' \ Calls : Frame(c)'.k = Frame(d)'.k => c = d
  /\ sync <=> \E c \in Calls' \ Calls : Frame(c)'.k = "task"

(* A group opened last goes to the queue with all repetitions but that of  *)
(* the creator, who waits for a synchronous one.                           *)
LEMMA StartStep ==
  ASSUME TypeOK, UntilAstray, ~astray, NEW p \in Procs, NEW g \in Tgs, NEW sync \in BOOLEAN,
         grp[g].st = "open", grp[g].procId = p, Shorter(open, p, g, open'),
         UNCHANGED <<task, freeTasks, doomed, created, added, answer, astray>>,
         grp' \in [Tgs -> Groups], \A h \in Tgs : h # g => grp'[h] = grp[h],
         grp'[g].st = "run", grp'[g].serial = grp[g].serial, grp'[g].procId = p,
         grp'[g].sync = sync, grp'[g].error => grp[g].error \/ grp[g].serial \in failed',
         failed' \subseteq 1..MaxGroups, failed \subseteq failed',
         NEW todo \in Counts, grp'[g].ntodo = TotalTodo(todo),
         \A t \in Tasks : todo[t] > 0 => t \in Members(g, grp[g].serial),
         \A t \in Tasks : queued'[t] = queued[t] + todo[t], queued' \in [Tasks -> Nat],
         stack' \in [Procs -> Seq(Frames)], StartCalls(g, p, sync)
  PROVE  TypeOK' /\ UntilAstray'
<1>1. /\ Calls \subseteq Calls' /\ \A c \in Calls : Frame(c)' = Frame(c)
      /\ \A c \in Calls' \ Calls : Starts(Frame(c)', g, sync) /\ c[1] = p
      /\ \A c, d \in Calls' \ Calls : Frame(c)'.k = Frame(d)'.k => c = d
      /\ sync <=> \E c \in Calls' \ Calls : Frame(c)'.k = "task"
  BY DEF StartCalls
<1>2. \A h \in Tgs : h # g => grp'[h].st = grp[h].st /\ grp'[h].procId = grp[h].procId
  OBVIOUS
<1>3. /\ freeTasks \in [Procs -> Seq(Tgs)] /\ open \in [Procs -> Seq(Tgs)]
      /\ HoldsIn(freeTasks, grp, "free") /\ HoldsIn(open, grp, "open")
  BY DEF TypeOK, UntilAstray, PlacesOK
<1>4. open' \in [Procs -> Seq(Tgs)] /\ HoldsIn(open', grp', "open")
  BY <1>2, <1>3, OpenTaken
<1>5. PlacesOK'
  <2>1. \A h \in Tgs : /\ grp'[h].st = "free" <=> grp[h].st = "free"
                       /\ grp[h].st = "free" => grp'[h].procId = grp[h].procId
    BY <1>2
  <2>2. HoldsIn(freeTasks, grp', "free")
    BY <1>3, <2>1, ListsKept
  <2> QED BY <1>4, <2>2 DEF PlacesOK
<1>6. TypeOK'
  <2>1. grp' \in [Tgs -> Groups']
    BY DEF Groups
  <2> QED BY <1>4, <2>1 DEF TypeOK, TaskBlocks
<1>7. \A c \in Calls : Frame(c) \in Frames /\ Frame(c).g \in Tgs
  BY CallsAre DEF Frames
<1>8. ASSUME NEW c \in Calls, Busy(c) \/ Frame(c).k = "wait"
      PROVE  /\ Frame(c).g # g /\ Frame(c).g \in Tgs /\ grp'[Frame(c).g] = grp[Frame(c).g]
             /\ grp[Frame(c).g].st = "run" /\ Of(Frame(c).g, Frame(c))
  BY <1>8 DEF UntilAstray, CallsOK, Lives
<1>9. ASSUME NEW t \in Tasks, queued[t] > 0
      PROVE  /\ task[t].st = "live" /\ task[t].g # g /\ task[t].g \in Tgs
             /\ grp'[task[t].g] = grp[task[t].g]
             /\ grp[task[t].g].st = "run" /\ Of(task[t].g, task[t])
  BY <1>9 DEF UntilAstray, TasksOK, Lives
<1>10. \A t \in Tasks : queued[t] \in Nat /\ todo[t] \in Nat
  BY DEF TypeOK, Counts
<1>11. TasksOK'
  <2>1. ASSUME NEW t \in Tasks, queued'[t] > 0 PROVE task'[t].st = "live" /\ Lives(task[t])'
    <3>1. CASE queued[t] > 0
      BY <1>9, <3>1 DEF Lives, Of
    <3>2. CASE todo[t] > 0
      <4>1. task[t].st = "live" /\ task[t].g = g /\ task[t].serial = grp[g].serial
        BY <3>2 DEF Members
      <4> QED BY <4>1 DEF Lives, Of
    <3> QED BY <1>10, <2>1, <3>1, <3>2
  <2> QED BY <2>1 DEF UntilAstray, TasksOK
<1>12. grp[g].serial \in 0..created
  BY DEF TypeOK, Groups
<1>13. ASSUME NEW c \in Calls', c \notin Calls
       PROVE  /\ Frame(c)'.g = g /\ Frame(c)'.serial = grp[g].serial /\ c[1] = p
              /\ ~Frame(c)'.fail /\ Frame(c)'.ph \in {"poll", "run"}
              /\ Frame(c)'.k = "task" => /\ Frame(c)'.ph = "run" /\ Frame(c)'.t \in 1..added
                                         /\ ~task[Frame(c)'.t].extra
              /\ Frame(c)'.k # "task" => /\ Frame(c)'.ph = "poll" /\ Frame(c)'.t = 0
                                         /\ Frame(c)'.k = "wait" /\ sync
  BY <1>1, <1>13 DEF Starts
<1>14. CallsOK'
  <2>1. \A c \in Calls' : Frame(c)'.serial <= created'
    BY <1>1, <1>12, <1>13 DEF UntilAstray, CallsOK
  <2>2. \A c \in Calls' : Frame(c)'.k = "task" <=> Frame(c)'.ph \in TaskPhases
    BY <1>1, <1>13 DEF UntilAstray, CallsOK, TaskPhases
  <2>3. \A c \in Calls' : Frame(c)'.k = "task" => Frame(c)'.t \in 1..added'
    BY <1>1, <1>13 DEF UntilAstray, CallsOK
  <2>4. \A c \in Calls' : Frame(c)'.k = "wait" => Frame(c)'.t = 0
    BY <1>1, <1>13 DEF UntilAstray, CallsOK
  <2>5. ASSUME NEW c \in Calls', Busy(c)' \/ Frame(c)'.k = "wait" PROVE Lives(Frame(c))'
    <3>1. CASE c \in Calls
      BY <1>1, <1>8, <2>5, <3>1 DEF Lives, Of, Busy
    <3>2. CASE c \notin Calls
      BY <1>13, <3>2 DEF Lives, Of
    <3> QED BY <3>1, <3>2
  <2>6. ASSUME NEW c \in Calls', Of(Frame(c).g, Frame(c))' PROVE grp'[Frame(c)'.g].st # "open"
    <3>1. CASE Frame(c)'.g = g
      BY <3>1
    <3>2. CASE Frame(c)'.g # g
      <4>1. c \in Calls /\ Frame(c)' = Frame(c)
        BY <1>1, <1>13, <3>2
      <4>2. grp'[Frame(c).g] = grp[Frame(c).g]
        BY <1>7, <3>2, <4>1
      <4> QED BY <2>6, <4>1, <4>2 DEF UntilAstray, CallsOK, Of
    <3> QED BY <3>1, <3>2
  <2> QED BY <2>1, <2>2, <2>3, <2>4, <2>5, <2>6 DEF CallsOK
<1>15. WaitsOK'
  <2>1. ASSUME NEW c \in Calls', Frame(c)'.k = "wait"
        PROVE  /\ grp'[Frame(c)'.g].sync /\ grp'[Frame(c)'.g].procId = c[1]
               /\ Frame(c)'.ph = "join" \/ (Frame(c)'.ph = "dequeue" /\ Frame(c)'.knt = 0) =>
                    grp'[Frame(c)'.g].ntodo = 0
    <3>1. CASE c \in Calls
      BY <1>1, <1>8, <2>1, <3>1 DEF UntilAstray, WaitsOK
    <3>2. CASE c \notin Calls
      BY <1>13, <2>1, <3>2
    <3> QED BY <3>1, <3>2
  <2>2. ASSUME NEW c \in Calls', NEW d \in Calls', Frame(c)'.k = "wait", Frame(d)'.k = "wait",
               Frame(c)'.g = Frame(d)'.g
        PROVE  c = d
    <3>1. CASE c \in Calls /\ d \in Calls
      BY <1>1, <2>2, <3>1 DEF UntilAstray, WaitsOK
    <3>2. CASE c \notin Calls /\ d \notin Calls
      BY <1>1, <2>2, <3>2
    <3>3. ~(c \in Calls /\ d \notin Calls) /\ ~(c \notin Calls /\ d \in Calls)
      BY <1>1, <1>8, <1>13, <2>2
    <3> QED BY <3>1, <3>2, <3>3
  <2> QED BY <2>1, <2>2 DEF WaitsOK
<1>16. \A c \in Calls' : Frame(c)'.ph = "enqueue" =>
         c \in Calls /\ Frame(c)' = Frame(c) /\ Frame(c).ph = "enqueue" /\ Busy(c)
  BY <1>1, <1>13 DEF Busy
<1>17. EnteringOK'
  <2>1. ASSUME NEW c \in Calls', Frame(c)'.ph = "enqueue"
        PROVE  LET u == Frame(c)'.knt
               IN  /\ u \in 1..added' /\ queued'[u] = 0
                   /\ task'[u].st = "live" /\ task'[u].extra
                   /\ task'[u].g = Frame(c)'.g /\ task'[u].serial = Frame(c)'.serial
                   /\ \A d \in Calls' : Frame(d)'.t # u
    <3> DEFINE u == Frame(c).knt
    <3>1. c \in Calls /\ Frame(c)' = Frame(c) /\ Frame(c).ph = "enqueue"
      BY <1>16, <2>1
    <3>2. /\ u \in 1..added /\ queued[u] = 0
          /\ task[u].st = "live" /\ task[u].extra
          /\ task[u].g = Frame(c).g /\ task[u].serial = Frame(c).serial
          /\ \A d \in Calls : Frame(d).t # u
      BY <3>1 DEF UntilAstray, EnteringOK
    <3>3. u \in Tasks /\ u # 0
      BY <3>2, TaskGroupAssumption DEF Tasks, TypeOK
    <3>4. ~(todo[u] > 0)
      BY <3>2, <3>3 DEF Members
    <3>5. queued'[u] = 0
      BY <1>10, <3>2, <3>3, <3>4
    <3>6. \A d \in Calls' : Frame(d)'.t # u
      BY <1>1, <1>13, <3>2, <3>3
    <3> QED BY <3>1, <3>2, <3>5, <3>6
  <2>2. \A c, d \in Calls' : Frame(c)'.ph = "enqueue" /\ Frame(d)'.ph = "enqueue"
                             /\ Frame(c)'.knt = Frame(d)'.knt => c = d
    BY <1>16 DEF UntilAstray, EnteringOK
  <2> QED BY <2>1, <2>2 DEF EnteringOK
<1>18. EndsOK'
  <2>1. ASSUME NEW c \in Calls', (Frame(c).ph = "post" /\ Frame(c).lastTask /\ Lives(Frame(c)))'
        PROVE  (grp[Frame(c).g].sync)'
    <3>1. c \in Calls /\ Frame(c)' = Frame(c)
      BY <1>1, <1>13, <2>1
    <3>2. Of(Frame(c).g, Frame(c))'
      BY <2>1 DEF Lives
    <3>3. Frame(c).g # g
      <4>1. Frame(c).g = g => Of(g, Frame(c))
        BY <3>1, <3>2 DEF Of
      <4> QED BY <3>1, <4>1 DEF UntilAstray, CallsOK
    <3>4. grp'[Frame(c).g] = grp[Frame(c).g] /\ Frame(c).g \in Tgs
      BY <1>7, <3>1, <3>3
    <3>5. Lives(Frame(c))
      BY <2>1, <3>1, <3>4 DEF Lives, Of
    <3> QED BY <2>1, <3>1, <3>4, <3>5 DEF UntilAstray, EndsOK
  <2>2. doomed' = {}
    BY DEF UntilAstray, EndsOK
  <2>3. \A c \in Calls' : Frame(c)'.fail => Frame(c)'.serial \in failed'
    BY <1>1, <1>13 DEF UntilAstray, EndsOK
  <2>4. \A h \in Tgs : grp'[h].st \in {"open", "run"} =>
          grp[h].st \in {"open", "run"} /\ grp'[h].serial = grp[h].serial
    OBVIOUS
  <2>5. \A h \in Tgs : grp'[h].st \in {"open", "run"} => grp'[h].serial > 0
    BY <2>4 DEF UntilAstray, EndsOK
  <2>6. \A h \in Tgs : grp'[h].error => grp[h].error \/ grp[h].serial \in failed'
    OBVIOUS
  <2>7. \A h \in Tgs : grp'[h].st \in {"open", "run"} /\ grp'[h].error => grp'[h].serial \in failed'
    BY <2>4, <2>6 DEF UntilAstray, EndsOK
  <2>8. \A s \in 1..MaxGroups : answer'[s] = "ERROR" => s \in failed'
    BY DEF UntilAstray, EndsOK
  <2> QED BY <2>1, <2>2, <2>3, <2>5, <2>7, <2>8 DEF EndsOK
<1>19. NtodoExact'
  <2>1. /\ \A u : u \in Entering <=> \E c \in Calls : Frame(c).ph = "enqueue" /\ u = Frame(c).knt
        /\ \A u : u \in Entering' <=> \E c \in Calls' : Frame(c)'.ph = "enqueue"
                                                        /\ u = Frame(c)'.knt
    BY DEF Entering
  <2>2. \A u : u \in Entering' <=> u \in Entering
    BY <1>1, <1>16, <2>1
  <2>3. ASSUME NEW h \in Tgs, (grp[h].st = "run" /\ ~astray)'
        PROVE  (grp[h].ntodo = Outstanding(h) + (IF grp[h].sync THEN 0 ELSE 1))'
    <3>1. \A c : c \in BusyCalls(h) <=> c \in Calls /\ Of(h, Frame(c)) /\ Busy(c)
      BY DEF BusyCalls
    <3>2. \A c : c \in BusyCalls(h)' <=> c \in Calls' /\ Of(h, Frame(c))' /\ Busy(c)'
      BY DEF BusyCalls
    <3>3. Left(h) \in Counts /\ Left(h)' \in Counts
      BY <1>6, LeftTyped
    <3>4. CASE h # g
      <4>1. grp'[h] = grp[h] /\ grp[h].st = "run"
        BY <2>3, <3>4
      <4>2. ASSUME NEW u \in Tasks PROVE Left(h)'[u] = Left(h)[u]
        <5>1. CASE Of(h, task[u])
          <6>1. task[u].g # g
            BY <3>4, <5>1 DEF Of
          <6>2. ~(todo[u] > 0)
            BY <6>1 DEF Members
          <6>3. queued'[u] = queued[u]
            BY <1>10, <6>2
          <6> QED BY <2>2, <4>1, <6>3 DEF Left, Of
        <5>2. CASE ~Of(h, task[u])
          BY <4>1, <5>2 DEF Left, Of
        <5> QED BY <5>1, <5>2
      <4>3. \A c \in Calls : (Of(h, Frame(c))' <=> Of(h, Frame(c))) /\ (Busy(c)' <=> Busy(c))
        BY <1>1, <4>1 DEF Of, Busy
      <4>4. \A c \in Calls' \ Calls : ~Of(h, Frame(c))'
        BY <1>13, <3>4 DEF Of
      <4>5. BusyCalls(h)' = BusyCalls(h)
        BY <1>1, <3>1, <3>2, <4>3, <4>4
      <4>6. Left(h)' = Left(h)
        BY <3>3, <4>2 DEF Counts
      <4>7. Repetitions(Left(h))' = Repetitions(Left(h))
        BY <4>6 DEF Repetitions
      <4>8. Outstanding(h)' = Outstanding(h)
        BY <4>5, <4>7 DEF Outstanding
      <4>9. grp[h].ntodo = Outstanding(h) + (IF grp[h].sync THEN 0 ELSE 1)
        BY <4>1 DEF UntilAstray, NtodoExact
      <4> QED BY <4>1, <4>8, <4>9
    <3>5. CASE h = g
      <4>1. ASSUME NEW u \in Tasks PROVE Left(g)'[u] = todo[u]
        <5>1. u \notin Entering \/ task[u].g # g
          <6>1. ASSUME NEW c \in Calls, Frame(c).ph = "enqueue", u = Frame(c).knt
                PROVE  task[u].g # g
            <7>1. Frame(c).g # g
              BY <1>8, <6>1 DEF Busy
            <7> QED BY <6>1, <7>1 DEF UntilAstray, EnteringOK
          <6> QED BY <2>1, <6>1
        <5>2. CASE Of(g, task[u])
          <6>1. Of(g, task[u])' /\ u \notin Entering'
            BY <2>2, <5>1, <5>2 DEF Of
          <6>2. ~(queued[u] > 0)
            BY <1>9, <5>2 DEF Of
          <6>3. queued'[u] = todo[u]
            BY <1>10, <6>2
          <6> QED BY <6>1, <6>3 DEF Left
        <5>3. CASE ~Of(g, task[u])
          <6>1. ~Of(g, task[u])'
            BY <5>3 DEF Of
          <6>2. ~(todo[u] > 0)
            BY <5>3 DEF Members, Of
          <6>3. todo[u] = 0
            BY <1>10, <6>2
          <6> QED BY <6>1, <6>3 DEF Left
        <5> QED BY <5>2, <5>3
      <4>2. Left(g)' = todo
        BY <3>3, <3>5, <4>1 DEF Counts
      <4>3. Repetitions(Left(g))' = Repetitions(todo)
        BY <4>2 DEF Repetitions
      <4>4. Cardinality(Repetitions(todo)) \in Nat
        BY RepsFinite
      <4>5. \A c \in Calls : ~(Of(g, Frame(c))' /\ Busy(c)')
        BY <1>1, <1>8 DEF Of, Busy
      <4>6. \A c \in Calls' \ Calls : Of(g, Frame(c))' /\ (Busy(c)' <=> Frame(c)'.k = "task")
        BY <1>13 DEF Of, Busy
      <4>7. CASE sync
        <5>1. PICK b \in Calls' \ Calls : Frame(b)'.k = "task"
          BY <1>1, <4>7
        <5>2. BusyCalls(g)' = {b}
          BY <1>1, <3>2, <3>5, <4>5, <4>6, <5>1
        <5>3. Cardinality(BusyCalls(g)') = 1
          BY <5>2, FS_Singleton
        <5>4. Outstanding(g)' = Cardinality(Repetitions(todo)) + 1
          BY <3>5, <4>3, <5>3 DEF Outstanding
        <5>5. grp'[g].sync /\ grp'[g].ntodo = 1 + Cardinality(Repetitions(todo))
          BY <4>7 DEF TotalTodo
        <5> QED BY <3>5, <4>4, <5>4, <5>5
      <4>8. CASE ~sync
        <5>1. BusyCalls(g)' = {}
          BY <1>1, <3>2, <3>5, <4>5, <4>6, <4>8
        <5>2. Cardinality(BusyCalls(g)') = 0
          BY <5>1, FS_EmptySet
        <5> QED BY <3>5, <4>3, <4>4, <4>8, <5>2 DEF Outstanding, TotalTodo
      <4> QED BY <4>7, <4>8
    <3> QED BY <3>4, <3>5
  <2> QED BY <2>3 DEF NtodoExact
<1> QED BY <1>5, <1>6, <1>11, <1>14, <1>15, <1>17, <1>18, <1>19 DEF UntilAstray

(* The step of ExProcessTaskGroup, of either kind.                         *)
LEMMA ExProcessIInv ==
  ASSUME TypeOK, UntilAstray, ~astray, NEW p \in Procs, NEW sync \in BOOLEAN, NEW err \in BOOLEAN,
         ExProcessTaskGroup(p, sync, err)
  PROVE  TypeOK' /\ UntilAstray'
<1> DEFINE m == Members(Head(open[p]), grp[Head(open[p])].serial)
           todo(own) == [t \in Tasks |-> IF t \notin m THEN 0
                                         ELSE IF t = own THEN task[t].rep - 1
                                         ELSE task[t].rep]
           G(own) == [grp EXCEPT ![Head(open[p])].st = "run", ![Head(open[p])].sync = sync,
                                 ![Head(open[p])].error = @ \/ err,
                                 ![Head(open[p])].ntodo = TotalTodo(todo(own))]
           start(own) ==
             /\ grp' = G(own)
             /\ queued' = [t \in Tasks |-> queued[t] + todo(own)[t]]
             /\ failed' = IF err THEN failed \cup {grp[Head(open[p])].serial} ELSE failed
             /\ UNCHANGED <<task, freeTasks>>
<1>1. /\ InUser(p) /\ Len(open[p]) > Depth(p) /\ open' = [open EXCEPT ![p] = Tail(@)]
      /\ UNCHANGED <<doomed, created, added, answer, astray>>
  BY DEF ExProcessTaskGroup
<1>2. PICK g : g = Head(open[p])
  OBVIOUS
<1>3. /\ open[p] # << >> /\ g \in Tgs /\ grp[g].st = "open" /\ grp[g].procId = p
      /\ Len(open[p]) \in Nat \ {0} /\ Shorter(open, p, g, open')
  BY <1>1, <1>2, OpenHead DEF Shorter
<1>4. CASE m = {}
  <2>1. Destroy(Head(open[p]), p, grp) /\ UNCHANGED <<queued, stack, failed>>
    BY <1>4 DEF ExProcessTaskGroup
  <2> QED BY <1>1, <2>1, NeverRunStep
<1>5. grp[g] \in Groups /\ grp[g].serial > 0 /\ grp[g].serial \in 1..MaxGroups
  <2>1. grp[g] \in Groups /\ created \in 0..MaxGroups /\ created \in Nat
    BY <1>3, TaskGroupAssumption DEF TypeOK
  <2>2. grp[g].serial > 0
    BY <1>3 DEF UntilAstray, EndsOK
  <2> QED BY <2>1, <2>2, TaskGroupAssumption DEF Groups
<1>6. \A t \in Tasks : task[t].rep \in Nat /\ (t \in m => task[t].rep > 0)
  BY DEF TypeOK, TaskBlocks, UntilAstray, TasksOK, Members
<1>7. ASSUME NEW own
      PROVE  /\ todo(own) \in Counts
             /\ \A t \in Tasks : todo(own)[t] > 0 => t \in Members(g, grp[g].serial)
             /\ Cardinality(Repetitions(todo(own))) \in Nat
  <2>1. \A t \in Tasks : todo(own)[t] \in Nat /\ (todo(own)[t] > 0 => t \in m)
    BY <1>6
  <2>2. todo(own) \in Counts
    BY <2>1 DEF Counts
  <2> HIDE DEF todo
  <2> QED BY <1>2, <2>1, <2>2, RepsFinite
<1>8. ASSUME NEW own, start(own)
      PROVE  /\ UNCHANGED <<task, freeTasks>>
             /\ grp' \in [Tgs -> Groups] /\ \A h \in Tgs : h # g => grp'[h] = grp[h]
             /\ grp'[g].st = "run" /\ grp'[g].serial = grp[g].serial /\ grp'[g].procId = p
             /\ grp'[g].sync = sync /\ (grp'[g].error => grp[g].error \/ grp[g].serial \in failed')
             /\ failed' \subseteq 1..MaxGroups /\ failed \subseteq failed'
             /\ grp'[g].ntodo = TotalTodo(todo(own))
             /\ \A t \in Tasks : queued'[t] = queued[t] + todo(own)[t]
             /\ queued' \in [Tasks -> Nat]
  <2>1. /\ grp' = G(own) /\ UNCHANGED <<task, freeTasks>>
        /\ queued' = [t \in Tasks |-> queued[t] + todo(own)[t]]
        /\ failed' = IF err THEN failed \cup {grp[g].serial} ELSE failed
    BY <1>2, <1>8
  <2>2. PICK n : n = TotalTodo(todo(own))
    OBVIOUS
  <2>3. n \in Int
    <3> HIDE DEF todo
    <3> QED BY <1>7, <2>2 DEF TotalTodo
  <2> DEFINE r == [grp[g] EXCEPT !.st = "run", !.sync = sync, !.error = @ \/ err, !.ntodo = n]
  <2>4. grp' = [grp EXCEPT ![g] = r]
    <3> HIDE DEF todo
    <3> QED BY <1>2, <2>1, <2>2
  <2>5. /\ r \in Groups /\ r.st = "run" /\ r.serial = grp[g].serial /\ r.procId = grp[g].procId
        /\ r.sync = sync /\ (r.error => grp[g].error \/ err) /\ r.ntodo = n
    BY <1>5, <2>3 DEF Groups
  <2> HIDE DEF r
  <2>6. grp' \in [Tgs -> Groups] /\ grp'[g] = r /\ \A h \in Tgs : h # g => grp'[h] = grp[h]
    BY <1>3, <2>4, <2>5 DEF TypeOK
  <2>7. failed' \subseteq 1..MaxGroups /\ failed \subseteq failed' /\ (err => grp[g].serial \in failed')
    BY <1>5, <2>1 DEF TypeOK
  <2>8. /\ \A t \in Tasks : queued'[t] = queued[t] + todo(own)[t]
        /\ queued' \in [Tasks -> Nat]
    <3> HIDE DEF todo
    <3>1. todo(own) \in Counts
      BY <1>7
    <3>2. \A t \in Tasks : todo(own)[t] \in Nat /\ queued[t] \in Nat
      BY <3>1 DEF Counts, TypeOK
    <3> QED BY <2>1, <3>2
  <2> HIDE DEF todo
  <2> QED BY <1>3, <2>1, <2>2, <2>5, <2>6, <2>7, <2>8
<1>9. CASE m # {} /\ ~sync
  <2>1. start(0) /\ UNCHANGED stack
    BY <1>9 DEF ExProcessTaskGroup
  <2> HIDE DEF start
  <2>2. PICK n \in Counts : n = todo(0)
    BY <1>7
  <2>3. StartCalls(g, p, sync)
    <3>1. Calls' = Calls /\ \A c \in Calls : Frame(c)' = Frame(c)
      BY <2>1 DEF Calls, Frame
    <3> QED BY <1>9, <3>1 DEF StartCalls
  <2>4. stack' \in [Procs -> Seq(Frames)]
    BY <2>1 DEF TypeOK
  <2>5. \A t \in Tasks : n[t] > 0 => t \in Members(g, grp[g].serial)
    BY <1>7, <2>2
  <2> HIDE DEF todo
  <2>6. /\ UNCHANGED <<task, freeTasks>>
        /\ grp' \in [Tgs -> Groups] /\ \A h \in Tgs : h # g => grp'[h] = grp[h]
        /\ grp'[g].st = "run" /\ grp'[g].serial = grp[g].serial /\ grp'[g].procId = p
        /\ grp'[g].sync = sync /\ (grp'[g].error => grp[g].error \/ grp[g].serial \in failed')
        /\ failed' \subseteq 1..MaxGroups /\ failed \subseteq failed'
        /\ grp'[g].ntodo = TotalTodo(n)
        /\ \A t \in Tasks : queued'[t] = queued[t] + n[t]
        /\ queued' \in [Tasks -> Nat]
    BY <1>8, <2>1, <2>2
  <2> QED BY <1>1, <1>3, <1>9, <2>3, <2>4, <2>5, <2>6, StartStep
<1>10. CASE m # {} /\ sync
  <2>1. PICK own \in m :
          /\ start(own)
          /\ Push(p, <<WaitFrame(g, grp[g].serial),
                       [TaskFrame(own, p) EXCEPT !.depth = Len(open[p]) - 1]>>)
    BY <1>2, <1>10 DEF ExProcessTaskGroup
  <2> HIDE DEF start
  <2> DEFINE a == WaitFrame(g, grp[g].serial)
             b == [TaskFrame(own, p) EXCEPT !.depth = Len(open[p]) - 1]
  <2>2. /\ own \in Tasks /\ task[own].st = "live" /\ ~task[own].extra
        /\ task[own].g = g /\ task[own].serial = grp[g].serial
    BY <1>2, <2>1 DEF Members
  <2>3. own \in 1..added
    <3>1. ~(own > added)
      BY <2>2 DEF UntilAstray, TasksOK, NoTask
    <3> QED BY <2>2, <3>1, TaskGroupAssumption DEF Tasks, TypeOK
  <2>4. a \in Frames /\ a.k = "wait" /\ Starts(a, g, sync)
    BY <1>3, <1>5, <1>10 DEF WaitFrame, Frames, WaitPhases, Starts
  <2>5. PICK r : r = TaskFrame(own, p)
    OBVIOUS
  <2>6. /\ r \in Frames /\ r.k = "task" /\ r.g = g /\ r.serial = grp[g].serial /\ r.t = own
        /\ r.ph = "run" /\ ~r.fail /\ ~r.lastTask
    <3>1. PICK n \in Nat : n = Len(open[p])
      BY <1>3
    <3>2. r = [k |-> "task", g |-> g, serial |-> grp[g].serial, t |-> own, ph |-> "run",
               depth |-> n, fail |-> FALSE, lastTask |-> FALSE, knt |-> 0]
      BY <2>2, <2>5, <3>1 DEF TaskFrame
    <3> QED BY <1>3, <1>5, <2>2, <3>2 DEF Frames, TaskPhases
  <2>7. PICK n \in Nat : n = Len(open[p]) - 1
    BY <1>3
  <2>8. b = [r EXCEPT !.depth = n]
    BY <2>5, <2>7
  <2> HIDE DEF b
  <2>9. b \in Frames /\ b.k = "task" /\ Starts(b, g, sync)
    <3>1. /\ b \in Frames /\ b.k = "task" /\ b.g = r.g /\ b.serial = r.serial /\ b.t = r.t
          /\ b.ph = r.ph /\ b.fail = r.fail /\ b.lastTask = r.lastTask
      BY <2>6, <2>7, <2>8 DEF Frames
    <3> QED BY <2>2, <2>3, <2>6, <3>1 DEF Starts
  <2> HIDE DEF a
  <2>10. /\ stack' \in [Procs -> Seq(Frames)]
        /\ Calls' = Calls \cup {NextCall(p), SecondCall(p)}
        /\ NextCall(p) \notin Calls /\ SecondCall(p) \notin Calls
        /\ NextCall(p) # SecondCall(p)
        /\ \A c \in Calls' : Frame(c)' = IF c = NextCall(p) THEN a
                                         ELSE IF c = SecondCall(p) THEN b ELSE Frame(c)
    <3>1. Push(p, <<a, b>>)
      BY <2>1 DEF a, b
    <3> QED BY <2>4, <2>9, <3>1, PushTwoCalls
  <2>11. NextCall(p)[1] = p /\ SecondCall(p)[1] = p
    BY DEF NextCall, SecondCall
  <2>12. StartCalls(g, p, sync)
    BY <1>10, <2>4, <2>9, <2>10, <2>11 DEF StartCalls
  <2>13. PICK x \in Counts : x = todo(own)
    BY <1>7
  <2>14. \A t \in Tasks : x[t] > 0 => t \in Members(g, grp[g].serial)
    BY <1>7, <2>13
  <2> HIDE DEF todo
  <2>15. /\ UNCHANGED <<task, freeTasks>>
         /\ grp' \in [Tgs -> Groups] /\ \A h \in Tgs : h # g => grp'[h] = grp[h]
         /\ grp'[g].st = "run" /\ grp'[g].serial = grp[g].serial /\ grp'[g].procId = p
         /\ grp'[g].sync = sync /\ (grp'[g].error => grp[g].error \/ grp[g].serial \in failed')
         /\ failed' \subseteq 1..MaxGroups /\ failed \subseteq failed'
         /\ grp'[g].ntodo = TotalTodo(x)
         /\ \A t \in Tasks : queued'[t] = queued[t] + x[t]
         /\ queued' \in [Tasks -> Nat]
    BY <1>8, <2>1, <2>13
  <2> QED BY <1>1, <1>3, <2>10, <2>12, <2>14, <2>15, StartStep
<1> QED BY <1>4, <1>9, <1>10

-----------------------------------------------------------------------------
(* The creation of a group.                                                *)

(* A block that p recycles leaves its free list.                           *)
LEMMA FreeTaken ==
  ASSUME freeTasks \in [Procs -> Seq(Tgs)], HoldsIn(freeTasks, grp, "free"),
         NEW p \in Procs, NEW g \in Tgs, grp'[g].st # "free",
         \A h \in Tgs : h # g => grp'[h].st = grp[h].st /\ grp'[h].procId = grp[h].procId,
         Shorter(freeTasks, p, g, freeTasks')
  PROVE  freeTasks' \in [Procs -> Seq(Tgs)] /\ HoldsIn(freeTasks', grp', "free")
BY ListsTail

(* A new group is put on the stack of open ones.                           *)
LEMMA OpenAdded ==
  ASSUME open \in [Procs -> Seq(Tgs)], HoldsIn(open, grp, "open"),
         NEW p \in Procs, NEW g \in Tgs, grp[g].st # "open", grp'[g].st = "open",
         grp'[g].procId = p,
         \A h \in Tgs : h # g => grp'[h].st = grp[h].st /\ grp'[h].procId = grp[h].procId,
         Longer(open, p, g, open')
  PROVE  open' \in [Procs -> Seq(Tgs)] /\ HoldsIn(open', grp', "open")
BY ListsCons

(* A new group, in a block that no list has, or that was on the free list. *)
LEMMA CreateStep ==
  ASSUME TypeOK, UntilAstray, ~astray, NEW p \in Procs, NEW g \in Tgs,
         created < MaxGroups, created' = created + 1, Longer(open, p, g, open'),
         \/ grp[g].st = "heap" /\ freeTasks' = freeTasks
         \/ grp[g].st = "free" /\ Shorter(freeTasks, p, g, freeTasks'),
         NEW b, grp' = [grp EXCEPT ![g] = b],
         b.st = "open", b.serial = created + 1, b.procId = p, b.error = FALSE,
         b \in [st : {"open"}, serial : {created + 1}, sync : BOOLEAN, error : BOOLEAN,
                ntodo : Int, procId : Procs],
         UNCHANGED <<task, queued, doomed, stack, added, history>>
  PROVE  TypeOK' /\ UntilAstray'
<1>1. created \in 0..MaxGroups /\ created \in Nat /\ created' \in 0..MaxGroups /\ created' \in Nat
  BY TaskGroupAssumption DEF TypeOK
<1>2. /\ grp \in [Tgs -> Groups] /\ task \in [Tasks -> TaskBlocks]
      /\ freeTasks \in [Procs -> Seq(Tgs)] /\ open \in [Procs -> Seq(Tgs)]
  BY DEF TypeOK
<1>3. grp'[g] = b /\ \A h \in Tgs : h # g => grp'[h] = grp[h]
  BY <1>2
<1>4. /\ grp'[g].st = "open" /\ grp'[g].serial = created + 1 /\ ~grp'[g].error
      /\ grp'[g].procId = p /\ grp[g].st # "open" /\ grp[g].st # "run"
      /\ \A h \in Tgs : h # g => grp'[h].st = grp[h].st /\ grp'[h].procId = grp[h].procId
  BY <1>3
<1>5. HoldsIn(freeTasks, grp, "free") /\ HoldsIn(open, grp, "open")
  BY DEF UntilAstray, PlacesOK
<1>6. open' \in [Procs -> Seq(Tgs)] /\ HoldsIn(open', grp', "open")
  BY <1>2, <1>4, <1>5, OpenAdded
<1>7. freeTasks' \in [Procs -> Seq(Tgs)] /\ HoldsIn(freeTasks', grp', "free")
  <2>1. CASE grp[g].st = "heap" /\ freeTasks' = freeTasks
    <3>1. \A h \in Tgs : /\ grp'[h].st = "free" <=> grp[h].st = "free"
                         /\ grp[h].st = "free" => grp'[h].procId = grp[h].procId
      BY <1>4, <2>1
    <3>2. HoldsIn(freeTasks, grp', "free")
      BY <1>2, <1>5, <3>1, ListsKept
    <3> QED BY <1>2, <2>1, <3>2
  <2>2. CASE grp[g].st = "free" /\ Shorter(freeTasks, p, g, freeTasks')
    <3>1. grp'[g].st # "free"
      BY <1>4
    <3> QED BY <1>2, <1>4, <1>5, <2>2, <3>1, FreeTaken
  <2> QED BY <2>1, <2>2
<1>8. PlacesOK'
  BY <1>6, <1>7 DEF PlacesOK
<1>9. TypeOK'
  <2>1. 0..created \subseteq 0..created' /\ created + 1 \in 0..created'
    BY <1>1
  <2>2. \A h \in Tgs : grp[h] \in Groups /\ Groups \subseteq Groups'
    BY <1>2, <2>1 DEF Groups
  <2>3. b \in Groups'
    BY <2>1 DEF Groups
  <2>4. grp' \in [Tgs -> Groups']
    BY <1>2, <2>2, <2>3
  <2>5. TaskBlocks \subseteq TaskBlocks'
    BY <2>1 DEF TaskBlocks
  <2>6. task' \in [Tasks -> TaskBlocks']
    BY <1>2, <2>5
  <2> QED BY <1>1, <1>6, <1>7, <2>4, <2>6 DEF TypeOK, history
<1>10. Calls' = Calls /\ \A c \in Calls : Frame(c)' = Frame(c)
  BY DEF Calls, Frame
<1>11. \A c \in Calls : Frame(c) \in Frames /\ Frame(c).g \in Tgs
  BY CallsAre DEF Frames
<1>12. \A r : Lives(r) => r.g \in Tgs /\ r.g # g /\ grp'[r.g] = grp[r.g]
                          /\ grp'[r.g].st = "run" /\ r.serial = grp'[r.g].serial
  BY <1>3, <1>4 DEF Lives, Of
<1>13. ASSUME NEW c \in Calls, Busy(c) \/ Frame(c).k = "wait"
       PROVE  /\ Frame(c).g # g /\ grp'[Frame(c).g] = grp[Frame(c).g]
              /\ Lives(Frame(c))'
  <2>1. Lives(Frame(c))
    BY <1>13 DEF UntilAstray, CallsOK
  <2> QED BY <1>10, <1>12, <2>1 DEF Lives, Of
<1>14. TasksOK'
  <2>1. ASSUME NEW t \in Tasks, queued'[t] > 0 PROVE task'[t].st = "live" /\ Lives(task[t])'
    <3>1. queued[t] > 0 /\ task'[t] = task[t]
      BY <2>1
    <3>2. task[t].st = "live" /\ Lives(task[t])
      BY <3>1 DEF UntilAstray, TasksOK
    <3> QED BY <1>12, <3>1, <3>2 DEF Lives, Of
  <2> QED BY <2>1 DEF UntilAstray, TasksOK
<1>15. CallsOK'
  <2>1. \A c \in Calls' : Frame(c)'.serial <= created'
    <3>1. \A c \in Calls : Frame(c).serial \in 1..MaxGroups /\ Frame(c).serial <= created
      BY <1>11 DEF Frames, UntilAstray, CallsOK
    <3> QED BY <1>1, <1>10, <3>1, TaskGroupAssumption
  <2>2. \A c \in Calls' : /\ Frame(c)'.k = "task" <=> Frame(c)'.ph \in TaskPhases
                          /\ Frame(c)'.k = "task" => Frame(c)'.t \in 1..added'
                          /\ Frame(c)'.k = "wait" => Frame(c)'.t = 0
    BY <1>10 DEF UntilAstray, CallsOK
  <2>3. \A c \in Calls' : Busy(c)' \/ Frame(c)'.k = "wait" => Lives(Frame(c))'
    BY <1>10, <1>13 DEF Busy
  <2>4. ASSUME NEW c \in Calls', Of(Frame(c).g, Frame(c))' PROVE grp'[Frame(c)'.g].st # "open"
    <3>1. c \in Calls /\ Frame(c)' = Frame(c) /\ Frame(c).g \in Tgs
      BY <1>10, <1>11
    <3>2. Frame(c).g # g
      <4>1. Frame(c).serial \in 1..MaxGroups /\ Frame(c).serial <= created
        BY <1>11, <3>1 DEF Frames, UntilAstray, CallsOK
      <4>2. Frame(c).serial # created + 1
        BY <1>1, <4>1, TaskGroupAssumption
      <4> QED BY <1>4, <2>4, <3>1, <4>2 DEF Of
    <3>3. grp'[Frame(c).g] = grp[Frame(c).g]
      BY <1>3, <3>1, <3>2
    <3> QED BY <2>4, <3>1, <3>3 DEF UntilAstray, CallsOK, Of
  <2> QED BY <2>1, <2>2, <2>3, <2>4 DEF CallsOK
<1>16. WaitsOK'
  <2>1. ASSUME NEW c \in Calls', Frame(c)'.k = "wait"
        PROVE  /\ grp'[Frame(c)'.g].sync /\ grp'[Frame(c)'.g].procId = c[1]
               /\ Frame(c)'.ph = "join" \/ (Frame(c)'.ph = "dequeue" /\ Frame(c)'.knt = 0) =>
                    grp'[Frame(c)'.g].ntodo = 0
    BY <1>10, <1>13, <2>1 DEF UntilAstray, WaitsOK
  <2>2. \A c, d \in Calls' : Frame(c)'.k = "wait" /\ Frame(d)'.k = "wait"
                             /\ Frame(c)'.g = Frame(d)'.g => c = d
    BY <1>10 DEF UntilAstray, WaitsOK
  <2> QED BY <2>1, <2>2 DEF WaitsOK
<1>17. EnteringOK'
  <2>1. ASSUME NEW c \in Calls', Frame(c)'.ph = "enqueue"
        PROVE  LET u == Frame(c)'.knt
               IN  /\ u \in 1..added' /\ queued'[u] = 0
                   /\ task'[u].st = "live" /\ task'[u].extra
                   /\ task'[u].g = Frame(c)'.g /\ task'[u].serial = Frame(c)'.serial
                   /\ \A d \in Calls' : Frame(d)'.t # u
    BY <1>10, <2>1 DEF UntilAstray, EnteringOK
  <2>2. \A c, d \in Calls' : Frame(c)'.ph = "enqueue" /\ Frame(d)'.ph = "enqueue"
                             /\ Frame(c)'.knt = Frame(d)'.knt => c = d
    BY <1>10 DEF UntilAstray, EnteringOK
  <2> QED BY <2>1, <2>2 DEF EnteringOK
<1>18. EndsOK'
  <2>1. ASSUME NEW c \in Calls', (Frame(c).ph = "post" /\ Frame(c).lastTask /\ Lives(Frame(c)))'
        PROVE  (grp[Frame(c).g].sync)'
    <3>1. Frame(c).g # g /\ grp'[Frame(c).g] = grp[Frame(c).g]
      BY <1>3, <1>4, <1>10, <1>11, <2>1 DEF Lives
    <3>2. Lives(Frame(c))
      BY <1>10, <1>11, <2>1, <3>1 DEF Lives, Of
    <3> QED BY <1>10, <2>1, <3>1, <3>2 DEF UntilAstray, EndsOK
  <2>2. doomed' = {} /\ failed' = failed /\ answer' = answer
    BY DEF UntilAstray, EndsOK, history
  <2>3. \A c \in Calls' : Frame(c)'.fail => Frame(c)'.serial \in failed'
    BY <1>10, <2>2 DEF UntilAstray, EndsOK
  <2>4. \A h \in Tgs : grp'[h].st \in {"open", "run"} => grp'[h].serial > 0
    BY <1>1, <1>3, <1>4 DEF UntilAstray, EndsOK
  <2>5. \A h \in Tgs : grp'[h].st \in {"open", "run"} /\ grp'[h].error => grp'[h].serial \in failed'
    BY <1>3, <1>4, <2>2 DEF UntilAstray, EndsOK
  <2>6. \A s \in 1..MaxGroups : answer'[s] = "ERROR" => s \in failed'
    BY <2>2 DEF UntilAstray, EndsOK
  <2> QED BY <2>1, <2>2, <2>3, <2>4, <2>5, <2>6 DEF EndsOK
<1>19. NtodoExact'
  <2>1. ASSUME NEW h \in Tgs, (grp[h].st = "run" /\ ~astray)'
        PROVE  (grp[h].ntodo = Outstanding(h) + (IF grp[h].sync THEN 0 ELSE 1))'
    <3>1. h # g /\ grp'[h] = grp[h] /\ grp[h].st = "run"
      BY <1>3, <1>4, <2>1
    <3>2. Entering' = Entering
      BY <1>10 DEF Entering
    <3>3. Left(h)' = Left(h)
      BY <3>1, <3>2 DEF Left, Of
    <3>4. BusyCalls(h)' = BusyCalls(h)
      BY <1>10, <3>1 DEF BusyCalls, Busy, Of
    <3>5. Repetitions(Left(h))' = Repetitions(Left(h))
      BY <3>3 DEF Repetitions
    <3>6. Outstanding(h)' = Outstanding(h)
      BY <3>4, <3>5 DEF Outstanding
    <3>7. grp[h].ntodo = Outstanding(h) + (IF grp[h].sync THEN 0 ELSE 1)
      BY <3>1 DEF UntilAstray, NtodoExact
    <3> QED BY <3>1, <3>6, <3>7
  <2> QED BY <2>1 DEF NtodoExact
<1> QED BY <1>8, <1>9, <1>14, <1>15, <1>16, <1>17, <1>18, <1>19 DEF UntilAstray

(* The step of DXCreateTaskGroup.                                          *)
LEMMA CreateIInv ==
  ASSUME TypeOK, UntilAstray, ~astray, NEW p \in Procs, DXCreateTaskGroup(p)
  PROVE  TypeOK' /\ UntilAstray'
<1>1. /\ created < MaxGroups /\ created' = created + 1
      /\ UNCHANGED <<task, queued, doomed, stack, added, history>>
  BY DEF DXCreateTaskGroup
<1>2. created \in Nat /\ created + 1 \in Nat
  BY TaskGroupAssumption DEF TypeOK
<1> DEFINE New == [st : {"open"}, serial : {created + 1}, sync : BOOLEAN, error : BOOLEAN,
                   ntodo : Int, procId : Procs]
<1>3. CASE freeTasks[p] = << >>
  <2>1. PICK g \in Tgs : /\ grp[g].st = "heap" /\ grp' = [grp EXCEPT ![g] = NewGroup(p)]
                         /\ open' = [open EXCEPT ![p] = <<g>> \o @] /\ freeTasks' = freeTasks
    BY <1>3 DEF DXCreateTaskGroup
  <2>2. PICK b : b = NewGroup(p)
    OBVIOUS
  <2>3. b.st = "open" /\ b.serial = created + 1 /\ b.procId = p /\ b.error = FALSE /\ b \in New
    BY <2>2 DEF NewGroup
  <2>4. Longer(open, p, g, open')
    BY <2>1 DEF Longer
  <2> QED BY <1>1, <2>1, <2>2, <2>3, <2>4, CreateStep
<1>4. CASE freeTasks[p] # << >>
  <2>1. PICK g : g = Head(freeTasks[p])
    OBVIOUS
  <2>2. /\ grp' = [grp EXCEPT ![g] = Recycled(g)]
        /\ open' = [open EXCEPT ![p] = <<g>> \o @]
        /\ freeTasks' = [freeTasks EXCEPT ![p] = Tail(@)]
    BY <1>4, <2>1 DEF DXCreateTaskGroup
  <2>3. g \in Tgs /\ grp[g].st = "free" /\ grp[g].procId = p
    <3>1. /\ freeTasks[p] \in Seq(Tgs) /\ Len(freeTasks[p]) \in Nat \ {0}
          /\ DOMAIN freeTasks[p] = 1..Len(freeTasks[p])
      BY <1>4, EmptySeq, LenProperties DEF TypeOK
    <3>2. g = freeTasks[p][1] /\ g \in Tgs
      BY <1>4, <2>1, <3>1, HeadTailProperties
    <3>3. 1 \in DOMAIN freeTasks[p]
      BY <3>1
    <3> QED BY <3>2, <3>3 DEF UntilAstray, PlacesOK, HoldsIn
  <2>4. grp[g] \in Groups
    BY <2>3 DEF TypeOK
  <2>5. PICK b : b = Recycled(g)
    OBVIOUS
  <2>6. b.st = "open" /\ b.serial = created + 1 /\ b.procId = p /\ b.error = FALSE /\ b \in New
    <3>1. b = [st |-> "open", serial |-> created + 1, sync |-> FALSE, error |-> FALSE,
               ntodo |-> 0, procId |-> p]
      BY <2>3, <2>4, <2>5 DEF Recycled, Groups
    <3> QED BY <3>1
  <2>7. Longer(open, p, g, open') /\ Shorter(freeTasks, p, g, freeTasks')
    BY <1>4, <2>1, <2>2 DEF Longer, Shorter
  <2> QED BY <1>1, <2>2, <2>3, <2>5, <2>6, <2>7, CreateStep
<1> QED BY <1>3, <1>4

-----------------------------------------------------------------------------
(* The invariant.                                                          *)

(* It holds before anything has been created.                              *)
LEMMA InitIInv ==
  ASSUME Init
  PROVE  IInv
<1> USE DEF Init
<1>1. 0 \in 0..MaxGroups /\ 0 \in 0..MaxTasks /\ created = 0 /\ added = 0
  BY TaskGroupAssumption
<1>2. << >> \in Seq(Tgs) /\ << >> \in Seq(Frames) /\ \A i : i \notin DOMAIN << >>
  OBVIOUS
<1>3. NoTask \in TaskBlocks /\ NoTask.st = "none"
  BY <1>1, TaskGroupAssumption DEF NoTask, TaskBlocks
<1>4. /\ \A g \in Tgs : grp[g] \in Groups /\ grp[g].st = "heap"
      /\ \A t \in Tasks : task[t] = NoTask /\ queued[t] = 0
      /\ \A p \in Procs : freeTasks[p] = << >> /\ open[p] = << >> /\ stack[p] = << >>
  BY <1>1 DEF Groups
<1>5. TypeOK
  <2>1. grp \in [Tgs -> Groups] /\ task \in [Tasks -> TaskBlocks] /\ queued \in [Tasks -> Nat]
    BY <1>3, <1>4
  <2>2. /\ freeTasks \in [Procs -> Seq(Tgs)] /\ open \in [Procs -> Seq(Tgs)]
        /\ stack \in [Procs -> Seq(Frames)]
    BY <1>2
  <2> QED BY <1>1, <2>1, <2>2 DEF TypeOK
<1>6. Calls = {}
  BY <1>2, <1>4 DEF Calls
<1>7. PlacesOK
  BY <1>2, <1>4 DEF PlacesOK, HoldsIn
<1>8. TasksOK
  <2>1. \A t \in Tasks : task[t] = NoTask /\ ~(queued[t] > 0)
    BY <1>4
  <2> HIDE DEF Init
  <2> QED BY <1>3, <2>1 DEF TasksOK
<1>9. CallsOK /\ WaitsOK /\ EnteringOK
  BY <1>6 DEF CallsOK, WaitsOK, EnteringOK
<1>10. EndsOK
  <2>1. \A s \in 1..MaxGroups : answer[s] # "ERROR"
    OBVIOUS
  <2>2. doomed = {}
    OBVIOUS
  <2> HIDE DEF Init
  <2> QED BY <1>4, <1>6, <2>1, <2>2 DEF EndsOK
<1>11. NtodoExact
  BY <1>4 DEF NtodoExact
<1> QED BY <1>5, <1>7, <1>8, <1>9, <1>10, <1>11 DEF IInv, UntilAstray

(* After a late finisher has gone astray, only its deletion is described,  *)
(* and the types are all that stays.                                       *)
LEMMA AstrayIInv ==
  ASSUME TypeOK, astray, NEW p \in Procs, Step(p)
  PROVE  IInv'
<1>1. ServeDestroy(p)
  BY DEF Step, DXCreateTaskGroup, DXAddLikeTasks, DXAddLikeTasksRunning, AddEnqueue,
         DXAbortTaskGroup, ExProcessTaskGroup, TaskReturn, Countdown, Post, WaitPoll,
         WaitDequeue, Join, ServeTask, InUser, At
<1>2. PICK g \in doomed : Destroy(g, p, grp) /\ doomed' = doomed \ {g}
  BY <1>1 DEF ServeDestroy
<1>3. UNCHANGED <<queued, open, stack, created, added, history>>
  BY <1>1 DEF ServeDestroy
<1>4. g \in Tgs
  BY <1>2 DEF TypeOK
<1>5. /\ grp' \in [Tgs -> Groups] /\ task' \in [Tasks -> TaskBlocks]
      /\ \/ grp'[g].st = "heap" /\ freeTasks' = freeTasks
         \/ grp'[g].st = "free" /\ freeTasks' = [freeTasks EXCEPT ![p] = <<g>> \o @]
  BY <1>2, <1>4, Destroyed
<1>6. freeTasks' \in [Procs -> Seq(Tgs)]
  <2>1. freeTasks \in [Procs -> Seq(Tgs)] /\ <<g>> \in Seq(Tgs)
    BY <1>4 DEF TypeOK
  <2>2. <<g>> \o freeTasks[p] \in Seq(Tgs)
    BY <2>1, ConcatProperties
  <2> QED BY <1>5, <2>1, <2>2
<1>7. grp' \in [Tgs -> Groups'] /\ task' \in [Tasks -> TaskBlocks']
  BY <1>3, <1>5 DEF Groups, TaskBlocks
<1>8. TypeOK' /\ astray'
  BY <1>2, <1>3, <1>6, <1>7 DEF TypeOK, history
<1> QED BY <1>8 DEF IInv

(* Every step keeps it.                                                    *)
LEMMA StepIInv ==
  ASSUME IInv, NEW p \in Procs, Step(p)
  PROVE  IInv'
<1>1. TypeOK /\ astray \in BOOLEAN
  BY DEF IInv, TypeOK
<1>2. CASE astray
  BY <1>1, <1>2, AstrayIInv
<1>3. CASE ~astray
  <2>1. UntilAstray
    BY <1>3 DEF IInv
  <2> USE <1>1, <1>3, <2>1
  <2>2. CASE DXCreateTaskGroup(p)
    BY <2>2, CreateIInv DEF IInv
  <2>3. CASE \E r \in Repeats : DXAddLikeTasks(p, r)
    BY <2>3, AddLikeIInv DEF IInv
  <2>4. CASE \E r \in RuntimeRepeats : DXAddLikeTasksRunning(p, r)
    BY <2>4, AddRunningIInv DEF IInv
  <2>5. CASE AddEnqueue(p)
    BY <2>5, AddEnqueueIInv DEF IInv
  <2>6. CASE DXAbortTaskGroup(p)
    BY <2>6, AbortIInv DEF IInv
  <2>7. CASE \E sync \in Syncs, err \in BOOLEAN : ExProcessTaskGroup(p, sync, err)
    BY <2>7, ExProcessIInv, TaskGroupAssumption DEF IInv
  <2>8. CASE \E err \in BOOLEAN : TaskReturn(p, err)
    BY <2>8, TaskReturnIInv DEF IInv
  <2>9. CASE Countdown(p)
    BY <2>9, CountdownIInv DEF IInv
  <2>10. CASE Post(p)
    BY <2>10, PostIInv
  <2>11. CASE WaitPoll(p)
    BY <2>11, WaitPollIInv DEF IInv
  <2>12. CASE WaitDequeue(p)
    BY <2>12, WaitDequeueIInv DEF IInv
  <2>13. CASE Join(p)
    BY <2>13, JoinIInv DEF IInv
  <2>14. CASE ServeTask(p)
    BY <2>14, ServeTaskIInv DEF IInv
  <2>15. CASE ServeDestroy(p)
    BY <2>15 DEF ServeDestroy, UntilAstray, EndsOK
  <2> QED BY <2>2, <2>3, <2>4, <2>5, <2>6, <2>7, <2>8, <2>9, <2>10, <2>11, <2>12, <2>13,
             <2>14, <2>15 DEF Step
<1> QED BY <1>1, <1>2, <1>3

(* The inductive invariant: until a late finisher goes astray, blocks,     *)
(* tasks, calls and counts agree.                                          *)
THEOREM Invariant == Spec => []IInv
<1>1. Init => IInv
  BY InitIInv
<1>2. IInv /\ [Next]_vars => IInv'
  <2> SUFFICES ASSUME IInv, [Next]_vars PROVE IInv'
    OBVIOUS
  <2>1. CASE \E p \in Procs : Step(p)
    BY <2>1, StepIInv
  <2>2. CASE UNCHANGED vars
    <3>1. /\ grp' = grp /\ task' = task /\ queued' = queued /\ doomed' = doomed
          /\ freeTasks' = freeTasks /\ open' = open /\ stack' = stack
          /\ created' = created /\ added' = added
          /\ failed' = failed /\ answer' = answer /\ astray' = astray
      BY <2>2 DEF vars
    <3>2. TypeOK'
      BY <3>1 DEF IInv, TypeOK, Groups, TaskBlocks
    <3>3. Calls' = Calls /\ \A c \in Calls : Frame(c)' = Frame(c)
      BY <3>1 DEF Calls, Frame
    <3>4. ASSUME UntilAstray PROVE UntilAstray'
      <4>1. PlacesOK' /\ TasksOK'
        BY <3>1, <3>4 DEF UntilAstray, PlacesOK, HoldsIn, TasksOK, Lives, Of
      <4>2. CallsOK' /\ WaitsOK'
        BY <3>1, <3>3, <3>4 DEF UntilAstray, CallsOK, WaitsOK, Busy, Lives, Of
      <4>3. EnteringOK' /\ EndsOK'
        BY <3>1, <3>3, <3>4 DEF UntilAstray, EnteringOK, EndsOK, Lives, Of
      <4>4. \A g : Left(g)' = Left(g) /\ BusyCalls(g)' = BusyCalls(g)
        BY <3>1, <3>3 DEF Left, BusyCalls, Busy, Entering, Of
      <4>5. \A g : Outstanding(g)' = Outstanding(g)
        BY <4>4 DEF Outstanding, Repetitions
      <4>6. NtodoExact'
        BY <3>1, <3>4, <4>5 DEF UntilAstray, NtodoExact
      <4> QED BY <4>1, <4>2, <4>3, <4>6 DEF UntilAstray
    <3> QED BY <3>1, <3>2, <3>4 DEF IInv
  <2> QED BY <2>1, <2>2 DEF Next, Done
<1> QED BY <1>1, <1>2, PTL DEF Spec

(* Every variable has its type, also when the blocks mean nothing any more. *)
THEOREM TypeCorrect == Spec => []TypeOK
<1>1. IInv => TypeOK
  BY DEF IInv
<1> QED BY <1>1, Invariant, PTL

(* ntodo counts the repetitions of the group that have not counted down.   *)
THEOREM TodoExact == Spec => []NtodoExact
<1>1. IInv => NtodoExact
  BY DEF IInv, UntilAstray, NtodoExact
<1> QED BY <1>1, Invariant, PTL

(* A group is there, executing, as long as a repetition of it is queued or *)
(* running, or its creator waits.                                          *)
THEOREM GroupsOutlive == Spec => []GroupOutlivesItsTasks
<1>1. IInv => GroupOutlivesItsTasks
  BY DEF IInv, UntilAstray, TasksOK, CallsOK, Lives, GroupOutlivesItsTasks
<1> QED BY <1>1, Invariant, PTL

(* A block is on one list, once, and on a list of its creator.             *)
THEOREM OnePlace == Spec => []BlocksInOnePlace
<1>1. ASSUME NEW L \in [Procs -> Seq(Tgs)], NEW G, NEW st, HoldsIn(L, G, st), NEW g \in Tgs
      PROVE  /\ Cardinality(Places(g, L)) = IF G[g].st = st THEN 1 ELSE 0
             /\ \A c \in Places(g, L) : G[g].procId = c[1]
  <2>1. \A c : c \in Places(g, L) <=>
          \E p \in Procs : \E i \in DOMAIN L[p] : L[p][i] = g /\ c = <<p, i>>
    BY DEF Places
  <2>2. \A c \in Places(g, L) : G[g].procId = c[1] /\ G[g].st = st
    BY <1>1, <2>1 DEF HoldsIn
  <2>3. CASE G[g].st = st
    <3>1. PICK q \in Procs : q = G[g].procId /\ \E i \in DOMAIN L[q] : L[q][i] = g
      BY <1>1, <2>3 DEF HoldsIn
    <3>2. PICK i \in DOMAIN L[q] : L[q][i] = g
      BY <3>1
    <3>3. <<q, i>> \in Places(g, L)
      BY <2>1, <3>2
    <3>4. ASSUME NEW c \in Places(g, L) PROVE c = <<q, i>>
      <4>1. PICK p \in Procs : \E j \in DOMAIN L[p] : L[p][j] = g /\ c = <<p, j>>
        BY <2>1
      <4>2. PICK j \in DOMAIN L[p] : L[p][j] = g /\ c = <<p, j>>
        BY <4>1
      <4>3. p = q
        BY <2>2, <3>1, <4>2
      <4> QED BY <1>1, <3>2, <4>2, <4>3 DEF HoldsIn
    <3>5. Places(g, L) = {<<q, i>>}
      BY <3>3, <3>4
    <3>6. Cardinality(Places(g, L)) = 1
      BY <3>5, FS_Singleton
    <3> QED BY <2>2, <2>3, <3>6
  <2>4. CASE G[g].st # st
    <3>1. Places(g, L) = {}
      BY <2>2, <2>4
    <3>2. Cardinality(Places(g, L)) = 0
      BY <3>1, FS_EmptySet
    <3> QED BY <2>2, <2>4, <3>2
  <2> QED BY <2>3, <2>4
<1>2. ASSUME IInv PROVE BlocksInOnePlace
  <2>1. SUFFICES ASSUME ~astray, NEW g \in Tgs
                 PROVE  LET f == Places(g, freeTasks)
                            o == Places(g, open)
                        IN  /\ Cardinality(f) = IF grp[g].st = "free" THEN 1 ELSE 0
                            /\ Cardinality(o) = IF grp[g].st = "open" THEN 1 ELSE 0
                            /\ \A c \in f \cup o : grp[g].procId = c[1]
    BY DEF BlocksInOnePlace
  <2>2. /\ freeTasks \in [Procs -> Seq(Tgs)] /\ open \in [Procs -> Seq(Tgs)]
        /\ HoldsIn(freeTasks, grp, "free") /\ HoldsIn(open, grp, "open")
    BY <1>2, <2>1 DEF IInv, UntilAstray, PlacesOK, TypeOK
  <2>3. /\ Cardinality(Places(g, freeTasks)) = IF grp[g].st = "free" THEN 1 ELSE 0
        /\ \A c \in Places(g, freeTasks) : grp[g].procId = c[1]
    BY <1>1, <2>2
  <2>4. /\ Cardinality(Places(g, open)) = IF grp[g].st = "open" THEN 1 ELSE 0
        /\ \A c \in Places(g, open) : grp[g].procId = c[1]
    BY <1>1, <2>2
  <2> QED BY <2>3, <2>4
<1>3. IInv => BlocksInOnePlace
  BY <1>2
<1> QED BY <1>3, Invariant, PTL

(* An error that is reported is an error of the group.                     *)
THEOREM NoForeign == Spec => []NoForeignError
<1>1. IInv => NoForeignError
  BY DEF IInv, UntilAstray, EndsOK, NoForeignError
<1> QED BY <1>1, Invariant, PTL
=============================================================================
