--------------------------- MODULE NativeRunProofs ---------------------------
(***************************************************************************)
(* What NativeRun keeps for every set of calls and tasks and every limit.  *)
(***************************************************************************)
EXTENDS NativeRun, SequenceTheorems, WellFoundedInduction, TLAPS

------------------------------------------------------------------------------
(* Lemmas on the operators of NativeRun.                                   *)

\* Saving a message adds the calls it names to those of its role, and no others.
LEMMA NamedAppend ==
  ASSUME NEW ms \in Seq(Message), NEW m \in Message, NEW role
  PROVE  Named(Append(ms, m), role) =
           IF m.role = role THEN Named(ms, role) \cup Range(m.calls) ELSE Named(ms, role)
<1> DEFINE ns == Append(ms, m)
           n == Len(ms) + 1
<1>1. /\ Len(ms) \in Nat
      /\ DOMAIN ms = 1 .. Len(ms)
      /\ DOMAIN ns = 1 .. n
      /\ ns[n] = m
      /\ \A i \in DOMAIN ms : ns[i] = ms[i]
  OBVIOUS
<1>2. \A i \in DOMAIN ns : i = n \/ i \in DOMAIN ms
  BY <1>1
<1>3. DOMAIN ms \subseteq DOMAIN ns /\ n \in DOMAIN ns
  BY <1>1
<1>4. ASSUME NEW c PROVE c \in Named(ns, role) <=>
        \E i \in DOMAIN ns : ns[i].role = role /\ c \in Range(ns[i].calls)
  BY DEF Named
<1>5. ASSUME NEW c PROVE c \in Named(ms, role) <=>
        \E i \in DOMAIN ms : ms[i].role = role /\ c \in Range(ms[i].calls)
  BY DEF Named
<1> HIDE DEF ns, n
<1>6. ASSUME NEW c
      PROVE  c \in Named(ns, role) <=>
               c \in Named(ms, role) \/ (m.role = role /\ c \in Range(m.calls))
  BY <1>1, <1>2, <1>3, <1>4, <1>5
<1>7. Named(ns, role) =
        IF m.role = role THEN Named(ms, role) \cup Range(m.calls) ELSE Named(ms, role)
  BY <1>6
<1> QED BY <1>7 DEF ns

\* The calls resume looks at are a sequence the model asked for.
LEMMA OpenOrderAsked ==
  ASSUME NEW ms \in Seq(Message)
  PROVE  OpenOrder(ms) \in Seq(Call) /\ Range(OpenOrder(ms)) \subseteq Asked(ms)
<1> DEFINE marks == {i \in DOMAIN ms : \/ ms[i].role = "user"
                                       \/ ms[i].role = "assistant" /\ ms[i].calls # <<>>}
           open == {i \in marks : /\ ms[i].role = "assistant"
                                  /\ \A j \in marks : j <= i}
<1>1. CASE open = {}
  <2>1. LastOpen(ms) = 0
    BY <1>1 DEF LastOpen
  <2>2. OpenOrder(ms) = <<>>
    BY <2>1 DEF OpenOrder
  <2> QED BY <2>2 DEF Range
<1>2. CASE open # {}
  <2>1. LastOpen(ms) \in open
    BY <1>2 DEF LastOpen
  <2> DEFINE k == LastOpen(ms)
  <2>2. k \in DOMAIN ms /\ ms[k].role = "assistant"
    BY <2>1
  <2>3. k # 0
    BY <2>2
  <2>4. OpenOrder(ms) = ms[k].calls
    BY <2>3 DEF OpenOrder
  <2>5. ms[k] \in Message
    BY <2>2
  <2> QED BY <2>2, <2>4, <2>5 DEF Asked, Named, Message
<1> QED BY <1>1, <1>2

\* The first of a non-empty part of a batch is one of that part and comes before the
\* others of it.
LEMMA FirstMember ==
  ASSUME NEW order \in Seq(Call), NEW S, S \subseteq Range(order), S # {}
  PROVE  First(order, S) \in S /\ \A d \in S : Before(order, First(order, S), d)
<1> DEFINE T == {i \in DOMAIN order : order[i] \in S}
<1>1. DOMAIN order = 1 .. Len(order) /\ Len(order) \in Nat
  OBVIOUS
<1>2. T \subseteq Nat /\ T # {}
  BY <1>1 DEF Range
<1> DEFINE R == OpToRel(<, Nat)
<1>3. \A i, j \in Nat : <<j, i>> \in R <=> j < i
  BY DEF OpToRel
<1>4. IsWellFoundedOn(R, Nat)
  BY NatLessThanWellFounded
<1> HIDE DEF R
<1>5. PICK i \in T : \A j \in T : <<j, i>> \notin R
  BY <1>2, <1>4, WFMin
<1>6. ASSUME NEW j \in T PROVE i <= j
  <2>1. i \in Nat /\ j \in Nat
    BY <1>2
  <2>2. ~ (j < i)
    BY <1>3, <1>5, <2>1
  <2> QED BY <2>1, <2>2
<1>7. \A d \in S : \E j \in T : order[j] = d
  BY DEF Range
<1>8. order[i] \in S /\ \A d \in S : Before(order, order[i], d)
  BY <1>6, <1>7 DEF Before
<1> QED BY <1>8 DEF First

\* A reply is a batch of calls that were never asked for before.
LEMMA RepliesFresh ==
  ASSUME NEW s \in Replies
  PROVE  s \in Seq(Call) /\ Range(s) \cap Asked(messages) = {}
<1>1. PICK n \in 0 .. MaxBatch : s \in [1 .. n -> Call \ Asked(messages)]
  BY DEF Replies
<1>2. n \in Nat
  BY BoundsAssumption
<1>3. s \in Seq(Call \ Asked(messages))
  BY <1>1, <1>2
<1> QED BY <1>1, <1>3, SeqMonotonic DEF Range

\* A group is part of what is left of the batch, and unless it is a single call
\* nothing in it may have a side effect.
LEMMA NextGroupTogether ==
  ASSUME NEW td \in Todo,
         td.left \subseteq Range(td.order), td.left # {}
  PROVE  /\ NextGroupOf(td) \subseteq td.left
         /\ \A c, d \in NextGroupOf(td) : c # d => c \in td.refused \cup ReadOnly
<1> DEFINE first == First(td.order, td.left)
           run == {c \in td.left : \A d \in td.left :
                     Before(td.order, d, c) => d \in Together(td)}
<1>0. td.order \in Seq(Call)
  BY DEF Todo
<1>1. first \in td.left
  BY <1>0, FirstMember
<1>2. ASSUME NEW c \in td.left PROVE Before(td.order, c, c)
  <2>1. PICK i \in DOMAIN td.order : td.order[i] = c
    BY DEF Range
  <2>2. i \in Nat
    BY <1>0, <2>1
  <2> QED BY <2>1, <2>2 DEF Before
<1>3. \A c \in run : c \in Together(td)
  BY <1>2
<1>4. NextGroupOf(td) = IF first \in Together(td) THEN run ELSE {first}
  BY DEF NextGroupOf
<1> QED BY <1>1, <1>3, <1>4 DEF Together

------------------------------------------------------------------------------
(* Types and batches.                                                      *)

\* A batch in progress: its group is part of what is left, only the calls of the
\* group have been touched, none of them against a refusal, and none that may
\* have a side effect shares its group.
BatchOf(t) ==
  /\ todo[t].group \subseteq todo[t].left
  /\ todo[t].left \subseteq Range(todo[t].order)
  /\ pc[t] \notin {"calls", "persist"} => todo[t].group = {}
  /\ \A c, d \in todo[t].group : c # d => c \in todo[t].refused \cup ReadOnly
  /\ \A c \in Call : phase[t][c] # "waiting" => c \in todo[t].group
  /\ \A c \in Call : phase[t][c] \in {"admitted", "running", "ran"}
                       => c \notin todo[t].refused

BatchOK == \A t \in Task : BatchOf(t)

LEMMA TypeInit == Init => TypeOK /\ BatchOK
BY LimitsAssumption, BoundsAssumption
DEF Init, TypeOK, BatchOK, BatchOf, Message, Event, NoJob, NoTodo, Settled, Run, Status, InTry,
    Label, Phase, LogEntry, Job, Todo

\* What the parts of a step produce.
LEMMA NoJobType == NoJob \in Job
BY LimitsAssumption, BoundsAssumption DEF NoJob, Job, Status

LEMMA JobStart ==
  ASSUME NEW r \in 0 .. MaxRuns, NEW b \in BOOLEAN
  PROVE  [NoJob EXCEPT !.run = r, !.resuming = b] \in Job
BY NoJobType DEF Job

LEMMA JobStatus ==
  ASSUME NEW j \in Job, NEW s \in Status
  PROVE  [j EXCEPT !.status = s] \in Job
BY DEF Job

LEMMA JobStop ==
  ASSUME NEW j \in Job
  PROVE  [j EXCEPT !.stop = TRUE] \in Job
BY DEF Job

LEMMA JobTurn ==
  ASSUME NEW j \in Job, j.turn < MaxTurns
  PROVE  [j EXCEPT !.turn = j.turn + 1] \in Job
<1>1. j.turn + 1 \in 0 .. MaxTurns
  BY LimitsAssumption DEF Job
<1> QED BY <1>1 DEF Job

LEMMA JobEvent ==
  ASSUME NEW j \in Job, NEW e \in {"none", "progress", "RUN_FINISHED"}
  PROVE  Event(e, j.run) \in LogEntry
BY DEF Job, Event, LogEntry

\* Every step keeps the types.
LEMMA TypeStep == TypeOK /\ BatchOK /\ [Next]_vars => TypeOK'
<1> SUFFICES ASSUME TypeOK, BatchOK, [Next]_vars PROVE TypeOK'
  OBVIOUS
<1> USE DEF Goto, Progress, durable, volatile, history
<1>a. ASSUME NEW t \in Task
      PROVE  /\ job[t] \in Job
             /\ Progress(t) \in LogEntry
             /\ \A s \in Status : [job[t] EXCEPT !.status = s] \in Job
  <2>1. job[t] \in Job
    BY DEF TypeOK
  <2> QED BY <2>1, JobEvent, JobStatus
<1>1. ASSUME NEW t \in Task, SendMessage(t) PROVE TypeOK'
  <2>1. User \in Message
    BY DEF User, Message
  <2>2. minted + 1 \in 0 .. MaxRuns
    BY <1>1, BoundsAssumption DEF SendMessage, TypeOK
  <2>3. [NoJob EXCEPT !.run = minted + 1, !.resuming = FALSE] \in Job
    BY <2>2, JobStart
  <2> QED BY <1>1, <2>1, <2>2, <2>3 DEF SendMessage, Start, TypeOK, Label
<1>2. ASSUME NEW t \in Task, AnnounceUser(t) PROVE TypeOK'
  BY <1>a, <1>2 DEF AnnounceUser, TypeOK, Label, InTry
<1>3. ASSUME NEW t \in Task, Resume(t) PROVE TypeOK'
  <2>1. lastEvent.run \in 0 .. MaxRuns /\ minted \in 0 .. MaxRuns
    BY DEF TypeOK, LogEntry
  <2>2. PICK r \in 0 .. MaxRuns : Start(t, r, TRUE)
    <3>1. CASE lastEvent.type = "none"
      <4>1. minted < MaxRuns /\ Start(t, minted + 1, TRUE)
        BY <1>3, <3>1 DEF Resume
      <4>2. minted + 1 \in 0 .. MaxRuns
        BY <2>1, <4>1, BoundsAssumption
      <4> QED BY <4>1, <4>2
    <3>2. CASE lastEvent.type # "none"
      BY <1>3, <2>1, <3>2 DEF Resume
    <3> QED BY <3>1, <3>2
  <2>3. \/ minted' = minted
        \/ minted < MaxRuns /\ minted' = minted + 1
    BY <1>3 DEF Resume
  <2>5. minted' \in 0 .. MaxRuns
    BY <2>1, <2>3, BoundsAssumption
  <2>4. [NoJob EXCEPT !.run = r, !.resuming = TRUE] \in Job
    BY JobStart
  <2> QED BY <1>3, <2>2, <2>4, <2>5 DEF Resume, Start, TypeOK, Label, InTry
<1>4. ASSUME NEW t \in Task, PrepareResume(t) PROVE TypeOK'
  <2>1. OpenOrder(messages) \in Seq(Call) /\ Pending(messages) \subseteq Call
    BY OpenOrderAsked DEF Pending, Range, TypeOK
  <2>2. [NoTodo EXCEPT !.order = OpenOrder(messages), !.left = Pending(messages)] \in Todo
    BY <2>1 DEF NoTodo, Todo
  <2>3. job' \in [Task -> Job]
    BY <1>a, <1>4 DEF PrepareResume, TypeOK, Status
  <2>4. todo' \in [Task -> Todo]
    BY <1>4, <2>2 DEF PrepareResume, TypeOK
  <2> QED BY <1>4, <2>3, <2>4 DEF PrepareResume, TypeOK, Label, InTry
<1>5. ASSUME NEW t \in Task, StopAtHead(t) PROVE TypeOK'
  <2>1. PICK s \in Status : job' = [job EXCEPT ![t] = [job[t] EXCEPT !.status = s]]
    BY <1>5 DEF StopAtHead
  <2>2. job' \in [Task -> Job]
    BY <1>a, <2>1 DEF TypeOK
  <2> QED BY <1>5, <2>2 DEF StopAtHead, TypeOK, Label
<1>6. ASSUME NEW t \in Task, StartTurn(t) PROVE TypeOK'
  <2>1. job[t] \in Job /\ job' = [job EXCEPT ![t] = [job[t] EXCEPT !.turn = job[t].turn + 1]]
    BY <1>6 DEF StartTurn, TypeOK
  <2>2. [job[t] EXCEPT !.turn = job[t].turn + 1] \in Job /\ lastEvent' \in LogEntry
    BY <1>a, <1>6, <2>1, JobTurn DEF StartTurn
  <2> QED BY <1>6, <2>1, <2>2 DEF StartTurn, TypeOK, Label, InTry
<1>7. ASSUME NEW t \in Task, ModelReply(t) PROVE TypeOK'
  <2>1. PICK calls \in IF job[t].stop THEN {<<>>} ELSE Replies :
          /\ messages' = Append(messages, Assistant(calls))
          /\ todo' = [todo EXCEPT ![t] = Batch(calls)]
    BY <1>7 DEF ModelReply
  <2>2. calls \in Seq(Call)
    BY RepliesFresh, EmptySeq
  <2>3. Assistant(calls) \in Message /\ Range(calls) \subseteq Call
    BY <2>2 DEF Assistant, Message, Range
  <2>4. Batch(calls) \in Todo
    BY <2>2, <2>3 DEF Batch, NoTodo, Todo
  <2>5. halted' \subseteq 0 .. MaxRuns
    BY <1>a, <1>7 DEF ModelReply, TypeOK, Job
  <2> QED BY <1>7, <2>1, <2>3, <2>4, <2>5 DEF ModelReply, TypeOK, Label, InTry
<1>8. ASSUME NEW t \in Task, AfterReply(t) PROVE TypeOK'
  <2>1. NoTodo \in Todo
    BY DEF NoTodo, Todo
  <2>2. todo' \in [Task -> Todo]
    BY <1>8, <2>1 DEF AfterReply, TypeOK
  <2>3. job' \in [Task -> Job]
    BY <1>a, <1>8 DEF AfterReply, TypeOK, Status
  <2> QED BY <1>a, <1>8, <2>2, <2>3 DEF AfterReply, TypeOK, Label, InTry
<1>9. ASSUME NEW t \in Task, Authorize(t) PROVE TypeOK'
  <2>1. PICK refused \in SUBSET todo[t].left :
          todo' = [todo EXCEPT ![t] = [todo[t] EXCEPT !.refused = refused]]
    BY <1>9 DEF Authorize
  <2>2. todo[t] \in Todo
    BY DEF TypeOK
  <2>3. [todo[t] EXCEPT !.refused = refused] \in Todo
    BY <2>2 DEF Todo
  <2> QED BY <1>9, <2>1, <2>3 DEF Authorize, TypeOK, Label, InTry
<1>10. ASSUME NEW t \in Task, NextGroup(t) PROVE TypeOK'
  <2>1. NoTodo \in Todo
    BY DEF NoTodo, Todo
  <2>2. todo[t] \in Todo
    BY DEF TypeOK
  <2>3. todo[t].left # {} => NextGroupOf(todo[t]) \subseteq Call
    BY <2>2, NextGroupTogether DEF BatchOK, BatchOf, Todo
  <2>4. todo[t].left # {} => [todo[t] EXCEPT !.group = NextGroupOf(todo[t])] \in Todo
    BY <2>2, <2>3 DEF Todo
  <2>5. todo' \in [Task -> Todo]
    BY <1>10, <2>1, <2>4 DEF NextGroup, TypeOK
  <2> QED BY <1>10, <2>5 DEF NextGroup, TypeOK, Label, InTry
<1>11. ASSUME NEW t \in Task, NEW c \in Call, OpenCall(t, c) PROVE TypeOK'
  <2>1. PICK p \in Phase : phase' = [phase EXCEPT ![t][c] = p]
    BY <1>11 DEF OpenCall, SetPhase, Phase
  <2>2. phase' \in [Task -> [Call -> Phase]]
    BY <2>1 DEF TypeOK
  <2> QED BY <1>a, <1>11, <2>2 DEF OpenCall, TypeOK
<1>12. ASSUME NEW t \in Task, NEW c \in Call, RunCall(t, c) PROVE TypeOK'
  <2>1. effects[c] + 1 \in Nat /\ lateWrites[t] + 1 \in Nat
    BY DEF TypeOK
  <2>2. effects' \in [Call -> Nat]
    BY <1>12, <2>1 DEF RunCall, TypeOK
  <2>3. lateWrites' \in [Task -> Nat]
    BY <1>12, <2>1 DEF RunCall, TypeOK
  <2> QED BY <1>12, <2>2, <2>3 DEF RunCall, SetPhase, TypeOK, Phase
<1>13. ASSUME NEW t \in Task, NEW c \in Call, FinishCall(t, c) PROVE TypeOK'
  BY <1>a, <1>13 DEF FinishCall, SetPhase, TypeOK, Phase
<1>14. ASSUME NEW t \in Task, GroupDone(t) PROVE TypeOK'
  BY <1>14 DEF GroupDone, TypeOK, Label, InTry
<1>15. ASSUME NEW t \in Task, PersistResult(t) PROVE TypeOK'
  <2> DEFINE c == First(todo[t].order, todo[t].group)
  <2>1. todo[t] \in Todo
    BY DEF TypeOK
  <2>2. todo[t].order \in Seq(Call) /\ todo[t].group \subseteq Range(todo[t].order)
    BY <2>1 DEF BatchOK, BatchOf, Todo
  <2>3. c \in todo[t].group
    BY <1>15, <2>2, FirstMember DEF PersistResult
  <2>4. c \in Call
    BY <2>1, <2>3 DEF Todo
  <2>5. ToolResult(c) \in Message
    BY <2>4 DEF ToolResult, Message
  <2>6. /\ messages' = Append(messages, ToolResult(c))
        /\ phase' = [phase EXCEPT ![t][c] = "waiting"]
        /\ todo' = [todo EXCEPT ![t] = [todo[t] EXCEPT !.group = todo[t].group \ {c},
                                                       !.left = todo[t].left \ {c}]]
    BY <1>15 DEF PersistResult, SetPhase
  <2>7. [todo[t] EXCEPT !.group = todo[t].group \ {c},
                        !.left = todo[t].left \ {c}] \in Todo
    BY <2>1 DEF Todo
  <2>8. phase' \in [Task -> [Call -> Phase]]
    BY <2>4, <2>6 DEF TypeOK, Phase
  <2> HIDE DEF c
  <2>9. messages' \in Seq(Message) /\ todo' \in [Task -> Todo]
    BY <2>5, <2>6, <2>7 DEF TypeOK
  <2> QED BY <1>a, <1>15, <2>8, <2>9 DEF PersistResult, TypeOK
<1>16. ASSUME NEW t \in Task, GroupSaved(t) PROVE TypeOK'
  BY <1>16 DEF GroupSaved, TypeOK, Label, InTry
<1>17. ASSUME NEW t \in Task, SaveRun(t) PROVE TypeOK'
  BY <1>17 DEF SaveRun, TypeOK, Label, Job
<1>18. ASSUME NEW t \in Task, Publish(t) PROVE TypeOK'
  <2>1. job[t] \in Job /\ job[t].status \in Status
    BY DEF TypeOK, Job
  <2>2. \A r \in Run : Append(receipts[r], job[t].status) \in Seq(Status)
    BY <2>1 DEF TypeOK
  <2>3. receipts' \in [Run -> Seq(Status)]
    BY <1>18, <2>2 DEF Publish, TypeOK
  <2>4. lastEvent' \in LogEntry
    BY <1>18, <2>1, JobEvent DEF Publish
  <2>5. End({t})
    BY <1>18 DEF Publish
  <2>6. /\ pc' \in [Task -> Label]
        /\ job' \in [Task -> Job]
        /\ lateWrites' \in [Task -> Nat]
    BY <2>5, NoJobType DEF End, TypeOK, Label
  <2> QED BY <1>18, <2>3, <2>4, <2>6 DEF Publish, TypeOK
<1>19. ASSUME NEW t \in Task, Cancel(t) PROVE TypeOK'
  <2>1. [job[t] EXCEPT !.stop = TRUE] \in Job
    BY <1>a, JobStop
  <2> QED BY <1>19, <2>1 DEF Cancel, TypeOK
<1>20. ASSUME NEW S \in SUBSET Task, Drop(S)
       PROVE  /\ faults' \in 0 .. MaxFaults
              /\ todo' \in [Task -> Todo]
              /\ phase' \in [Task -> [Call -> Phase]]
              /\ lost' \in [Call -> Nat]
  <2>1. NoTodo \in Todo /\ Settled \in [Call -> Phase]
    BY DEF NoTodo, Todo, Settled, Phase
  <2>2. faults' \in 0 .. MaxFaults
    BY <1>20, BoundsAssumption DEF Drop, TypeOK
  <2>3. lost' \in [Call -> Nat]
    BY <1>20 DEF Drop, TypeOK
  <2> QED BY <1>20, <2>1, <2>2, <2>3 DEF Drop, TypeOK
<1>21. ASSUME NEW S \in SUBSET Task, End(S)
       PROVE  /\ pc' \in [Task -> Label]
              /\ job' \in [Task -> Job]
              /\ lateWrites' \in [Task -> Nat]
  BY <1>21, NoJobType DEF End, TypeOK, Label
<1>22. ASSUME NEW t \in Task, Fail(t) PROVE TypeOK'
  <2>1. {t} \in SUBSET Task /\ Drop({t})
    BY <1>22 DEF Fail
  <2>2. job' \in [Task -> Job] /\ lastEvent' \in LogEntry
    BY <1>a, <1>22 DEF Fail, TypeOK, Status
  <2>3. orphans' \subseteq 0 .. MaxRuns /\ outlived' \subseteq 0 .. MaxRuns
    BY <1>a, <1>22 DEF Fail, TypeOK, Job
  <2> QED BY <1>20, <1>22, <2>1, <2>2, <2>3 DEF Fail, TypeOK, Label
<1>23. ASSUME NEW t \in Task, Abort(t) PROVE TypeOK'
  <2>1. {t} \in SUBSET Task /\ Drop({t}) /\ End({t})
    BY <1>23 DEF Abort
  <2> QED BY <1>20, <1>21, <1>23, <2>1 DEF Abort, TypeOK
<1>24. CASE Crash
  <2>1. Drop(Task) /\ End(Task)
    BY <1>24 DEF Crash
  <2> QED BY <1>20, <1>21, <1>24, <2>1 DEF Crash, TypeOK
<1>25. ASSUME NEW r \in Run, OrphanEvent(r) PROVE TypeOK'
  BY <1>25 DEF OrphanEvent, TypeOK, Event, LogEntry, Run
<1>26. CASE UNCHANGED vars
  BY <1>26 DEF vars, TypeOK
<1> QED
  BY <1>1, <1>2, <1>3, <1>4, <1>5, <1>6, <1>7, <1>8, <1>9, <1>10, <1>11, <1>12,
     <1>13, <1>14, <1>15, <1>16, <1>17, <1>18, <1>19, <1>22, <1>23, <1>24, <1>25,
     <1>26
  DEF Next, LoopStep, CallStep, Request, ResumeFinished, Fault

\* Every step keeps the batches in order.
LEMMA BatchStep == TypeOK /\ BatchOK /\ [Next]_vars => BatchOK'
<1> SUFFICES ASSUME TypeOK, BatchOK, [Next]_vars, NEW u \in Task PROVE BatchOf(u)'
  BY DEF BatchOK
<1> USE DEF durable, volatile, history, Goto
<1>a. /\ pc \in [Task -> Label]
      /\ todo \in [Task -> Todo]
      /\ phase \in [Task -> [Call -> Phase]]
      /\ BatchOf(u)
  BY DEF TypeOK, BatchOK
<1>b. todo[u].left \subseteq Call /\ todo[u].group \subseteq Call
  BY <1>a DEF Todo
\* Nothing of u's batch moved.
<1>c. ASSUME todo'[u] = todo[u], phase'[u] = phase[u],
             \/ pc'[u] = pc[u]
             \/ pc'[u] \in {"calls", "persist"}
             \/ todo[u].group = {}
      PROVE  BatchOf(u)'
  BY <1>a, <1>c DEF BatchOf
\* No group of u is being served, before and after.
<1>d. ASSUME pc[u] \notin {"calls", "persist"}, todo'[u].group = {},
             todo'[u].left \subseteq Range(todo'[u].order), phase'[u] = phase[u]
      PROVE  BatchOf(u)'
  BY <1>a, <1>d DEF BatchOf
\* u's batch is given up.
<1>e. ASSUME todo'[u] = NoTodo, phase'[u] = Settled
      PROVE  BatchOf(u)'
  BY <1>e DEF BatchOf, NoTodo, Settled
<1>1. ASSUME NEW t \in Task, SendMessage(t) PROVE BatchOf(u)'
  BY <1>1, <1>a, <1>c DEF SendMessage, BatchOf, MayStart
<1>2. ASSUME NEW t \in Task, AnnounceUser(t) PROVE BatchOf(u)'
  BY <1>2, <1>a, <1>c DEF AnnounceUser, BatchOf
<1>3. ASSUME NEW t \in Task, Resume(t) PROVE BatchOf(u)'
  BY <1>3, <1>a, <1>c DEF Resume, BatchOf, MayResume, MayStart
<1>4. ASSUME NEW t \in Task, PrepareResume(t) PROVE BatchOf(u)'
  <2>1. CASE todo' = todo
    BY <1>4, <1>a, <1>c, <2>1 DEF PrepareResume, BatchOf
  <2>2. CASE todo' = [todo EXCEPT ![t] =
                        [NoTodo EXCEPT !.order = OpenOrder(messages),
                                       !.left = Pending(messages)]]
    <3>1. CASE u = t
      <4>1. todo'[u] = [NoTodo EXCEPT !.order = OpenOrder(messages),
                                      !.left = Pending(messages)]
        BY <1>a, <2>2, <3>1
      <4>2. todo'[u].group = {} /\ todo'[u].left \subseteq Range(todo'[u].order)
        BY <4>1 DEF NoTodo, Pending
      <4> QED BY <1>4, <1>d, <3>1, <4>2 DEF PrepareResume
    <3>2. CASE u # t
      BY <1>4, <1>a, <1>c, <2>2, <3>2 DEF PrepareResume
    <3> QED BY <3>1, <3>2
  <2> QED BY <1>4, <2>1, <2>2 DEF PrepareResume
<1>5. ASSUME NEW t \in Task, StopAtHead(t) PROVE BatchOf(u)'
  BY <1>5, <1>a, <1>c DEF StopAtHead, BatchOf
<1>6. ASSUME NEW t \in Task, StartTurn(t) PROVE BatchOf(u)'
  BY <1>6, <1>a, <1>c DEF StartTurn, BatchOf
<1>7. ASSUME NEW t \in Task, ModelReply(t) PROVE BatchOf(u)'
  <2>1. PICK calls : todo' = [todo EXCEPT ![t] = Batch(calls)]
    BY <1>7 DEF ModelReply
  <2>2. CASE u = t
    <3>1. todo'[u] = Batch(calls)
      BY <1>a, <2>1, <2>2
    <3>2. todo'[u].group = {} /\ todo'[u].left \subseteq Range(todo'[u].order)
      BY <3>1 DEF Batch, NoTodo
    <3> QED BY <1>7, <1>d, <2>2, <3>2 DEF ModelReply
  <2>3. CASE u # t
    BY <1>7, <1>a, <1>c, <2>1, <2>3 DEF ModelReply
  <2> QED BY <2>2, <2>3
<1>8. ASSUME NEW t \in Task, AfterReply(t) PROVE BatchOf(u)'
  <2>1. CASE todo' = todo
    BY <1>8, <1>a, <1>c, <2>1 DEF AfterReply, BatchOf
  <2>2. CASE u = t /\ todo' = [todo EXCEPT ![t] = NoTodo]
    <3>1. todo'[u].group = {} /\ todo'[u].left \subseteq Range(todo'[u].order)
      BY <1>a, <2>2 DEF NoTodo
    <3> QED BY <1>8, <1>d, <2>2, <3>1 DEF AfterReply
  <2>3. CASE u # t /\ todo' = [todo EXCEPT ![t] = NoTodo]
    BY <1>8, <1>a, <1>c, <2>3 DEF AfterReply
  <2> QED BY <1>8, <2>1, <2>2, <2>3 DEF AfterReply
<1>9. ASSUME NEW t \in Task, Authorize(t) PROVE BatchOf(u)'
  <2>1. PICK refused : todo' = [todo EXCEPT ![t] = [todo[t] EXCEPT !.refused = refused]]
    BY <1>9 DEF Authorize
  <2>2. todo[u].group = {} \/ u # t
    BY <1>9, <1>a DEF Authorize, BatchOf
  <2>3. CASE u = t
    <3>1. /\ todo'[u].group = todo[u].group
          /\ todo'[u].left = todo[u].left
          /\ todo'[u].order = todo[u].order
      BY <1>a, <2>1, <2>3 DEF Todo
    <3> QED BY <1>9, <1>a, <1>d, <2>2, <2>3, <3>1 DEF Authorize, BatchOf
  <2>4. CASE u # t
    BY <1>9, <1>a, <1>c, <2>1, <2>4 DEF Authorize
  <2> QED BY <2>3, <2>4
<1>10. ASSUME NEW t \in Task, NextGroup(t) PROVE BatchOf(u)'
  <2>1. CASE u # t
    BY <1>10, <1>a, <1>c, <2>1 DEF NextGroup
  <2>2. CASE u = t /\ todo[t].left = {}
    <3>1. todo'[u].group = {} /\ todo'[u].left \subseteq Range(todo'[u].order)
      BY <1>10, <1>a, <2>2 DEF NextGroup, NoTodo
    <3> QED BY <1>10, <1>d, <2>2, <3>1 DEF NextGroup
  <2>3. CASE u = t /\ todo[t].left # {}
    <3>1. \A c \in Call : phase[u][c] = "waiting"
      BY <1>10, <1>a, <2>3 DEF NextGroup, BatchOf
    <3>2. /\ NextGroupOf(todo[u]) \subseteq todo[u].left
          /\ \A c, d \in NextGroupOf(todo[u]) :
               c # d => c \in todo[u].refused \cup ReadOnly
      BY <1>a, <2>3, NextGroupTogether DEF BatchOf
    <3>3. /\ todo'[u].group = NextGroupOf(todo[u])
          /\ todo'[u].left = todo[u].left
          /\ todo'[u].order = todo[u].order
          /\ todo'[u].refused = todo[u].refused
      BY <1>10, <1>a, <2>3 DEF NextGroup, Todo
    <3>4. pc'[u] \in {"calls", "persist"} /\ phase'[u] = phase[u]
      BY <1>10, <1>a, <2>3 DEF NextGroup
    <3> QED BY <1>a, <3>1, <3>2, <3>3, <3>4 DEF BatchOf
  <2> QED BY <2>1, <2>2, <2>3
\* A call of the group moves on.
<1>f. ASSUME NEW t \in Task, NEW c \in Call, NEW p \in Phase, pc[t] = "calls",
             c \in todo[t].group, p \in {"skipped", "waiting"} \/ c \notin todo[t].refused,
             phase' = [phase EXCEPT ![t][c] = p], UNCHANGED <<todo, pc>>
      PROVE  BatchOf(u)'
  <2>1. CASE u # t
    BY <1>a, <1>c, <1>f, <2>1
  <2>2. CASE u = t
    <3>1. \A d \in Call : phase'[u][d] = IF d = c THEN p ELSE phase[u][d]
      BY <1>a, <1>f, <2>2
    <3> QED BY <1>a, <1>f, <2>2, <3>1 DEF BatchOf
  <2> QED BY <2>1, <2>2
<1>11. ASSUME NEW t \in Task, NEW c \in Call, OpenCall(t, c) PROVE BatchOf(u)'
  <2>1. PICK p \in Phase : /\ phase' = [phase EXCEPT ![t][c] = p]
                           /\ p = "skipped" \/ c \notin todo[t].refused
    BY <1>11 DEF OpenCall, SetPhase, Phase
  <2> QED BY <1>11, <1>f, <2>1 DEF OpenCall
<1>12. ASSUME NEW t \in Task, NEW c \in Call, RunCall(t, c) PROVE BatchOf(u)'
  <2>1. c \notin todo[t].refused
    BY <1>12 DEF RunCall, BatchOK, BatchOf
  <2>2. "running" \in Phase
    BY DEF Phase
  <2> QED BY <1>12, <1>f, <2>1, <2>2 DEF RunCall, SetPhase
<1>13. ASSUME NEW t \in Task, NEW c \in Call, FinishCall(t, c) PROVE BatchOf(u)'
  <2>1. c \notin todo[t].refused
    BY <1>13 DEF FinishCall, BatchOK, BatchOf
  <2>2. "ran" \in Phase
    BY DEF Phase
  <2> QED BY <1>13, <1>f, <2>1, <2>2 DEF FinishCall, SetPhase
<1>14. ASSUME NEW t \in Task, GroupDone(t) PROVE BatchOf(u)'
  BY <1>14, <1>a, <1>c DEF GroupDone
<1>15. ASSUME NEW t \in Task, PersistResult(t) PROVE BatchOf(u)'
  <2> DEFINE c == First(todo[t].order, todo[t].group)
  <2>1. /\ phase' = [phase EXCEPT ![t][c] = "waiting"]
        /\ todo' = [todo EXCEPT ![t] = [todo[t] EXCEPT !.group = todo[t].group \ {c},
                                                       !.left = todo[t].left \ {c}]]
        /\ pc' = pc
    BY <1>15 DEF PersistResult, SetPhase
  <2> HIDE DEF c
  <2>2. CASE u # t
    BY <1>a, <1>c, <2>1, <2>2
  <2>3. CASE u = t
    <3>1. \A d \in Call : phase'[u][d] = IF d = c THEN "waiting" ELSE phase[u][d]
      BY <1>a, <2>1, <2>3
    <3>2. /\ todo'[u].group = todo[u].group \ {c}
          /\ todo'[u].left = todo[u].left \ {c}
          /\ todo'[u].order = todo[u].order
          /\ todo'[u].refused = todo[u].refused
      BY <1>a, <2>1, <2>3 DEF Todo
    <3> QED BY <1>a, <2>1, <3>1, <3>2 DEF BatchOf
  <2> QED BY <2>2, <2>3
<1>16. ASSUME NEW t \in Task, GroupSaved(t) PROVE BatchOf(u)'
  BY <1>16, <1>a, <1>c DEF GroupSaved
<1>17. ASSUME NEW t \in Task, SaveRun(t) PROVE BatchOf(u)'
  BY <1>17, <1>a, <1>c DEF SaveRun, BatchOf
<1>18. ASSUME NEW t \in Task, Publish(t) PROVE BatchOf(u)'
  BY <1>18, <1>a, <1>c DEF Publish, End, BatchOf
<1>19. ASSUME NEW t \in Task, Cancel(t) PROVE BatchOf(u)'
  BY <1>19, <1>c DEF Cancel
<1>20. ASSUME NEW t \in Task, Fail(t) PROVE BatchOf(u)'
  BY <1>20, <1>a, <1>c, <1>e DEF Fail, Drop
<1>21. ASSUME NEW t \in Task, Abort(t) PROVE BatchOf(u)'
  BY <1>21, <1>c, <1>e DEF Abort, Drop, End
<1>22. CASE Crash
  BY <1>22, <1>e DEF Crash, Drop
<1>23. ASSUME NEW r \in Run, OrphanEvent(r) PROVE BatchOf(u)'
  BY <1>23, <1>c DEF OrphanEvent
<1>24. CASE UNCHANGED vars
  BY <1>24, <1>c DEF vars
<1> QED
  BY <1>1, <1>2, <1>3, <1>4, <1>5, <1>6, <1>7, <1>8, <1>9, <1>10, <1>11, <1>12,
     <1>13, <1>14, <1>15, <1>16, <1>17, <1>18, <1>19, <1>20, <1>21, <1>22, <1>23,
     <1>24
  DEF Next, LoopStep, CallStep, Request, ResumeFinished, Fault

\* The variables keep their types.
THEOREM TypeCorrect == Spec => []TypeOK
BY TypeInit, TypeStep, BatchStep, PTL DEF Spec

\* A write that has begun and is not yet saved is the only call of its run that
\* has: whatever is served at the same time.
THEOREM WriteBarrierHolds == Spec => []WriteBarrier
<1>1. TypeOK /\ BatchOK => WriteBarrier
  <2> SUFFICES ASSUME TypeOK, BatchOK, NEW t \in Task, NEW c \in Unsaved(t),
                      NEW d \in Call \ {c}, phase[t][d] # "waiting"
               PROVE  FALSE
    BY DEF WriteBarrier
  <2>1. BatchOf(t)
    BY DEF BatchOK
  <2>2. c \in Call /\ c \notin ReadOnly /\ c \in todo[t].group /\ c \notin todo[t].refused
    BY <2>1 DEF BatchOf, Unsaved, Write
  <2>3. d \in todo[t].group
    BY <2>1 DEF BatchOf
  <2> QED BY <2>1, <2>2, <2>3 DEF BatchOf
<1> QED BY <1>1, TypeInit, TypeStep, BatchStep, PTL DEF Spec

------------------------------------------------------------------------------
(* Side effects, when one request is served at a time.                     *)

Serving == {"replied", "authorize", "groups", "calls", "persist"}

OneServed == \A t, u \in Task : pc[t] # "idle" /\ pc[u] # "idle" => t = u

\* What is left of a batch was asked for and has no result yet.
FreshOf(t) ==
  pc[t] \in Serving =>
    todo[t].left \subseteq Asked(messages) \ Answered(messages)

\* Every effect of c is a lost one, but for the one that is saved or about to be.
Accounted(c) ==
  effects[c] <= lost[c] + (IF \/ c \in Answered(messages)
                              \/ \E t \in Task : c \in Unsaved(t)
                             THEN 1 ELSE 0)

SerialOK ==
  /\ OneServed
  /\ Answered(messages) \subseteq Asked(messages)
  /\ \A t \in Task : FreshOf(t)
  /\ \A c \in Write : Accounted(c)
  /\ AnsweredOnce

SerialInv == TypeOK /\ BatchOK /\ SerialOK

LEMMA SerialInit == Init => SerialInv
<1> SUFFICES ASSUME Init PROVE SerialInv
  OBVIOUS
<1>1. Answered(messages) = {} /\ DOMAIN messages = {}
  BY DEF Init, Answered, Named
<1>2. \A c \in Write : Accounted(c)
  BY DEF Init, Accounted, Write
<1> QED BY <1>1, <1>2, TypeInit
        DEF Init, SerialInv, SerialOK, OneServed, FreshOf, Serving, AnsweredOnce

\* A request is only taken up when no other is served.
LEMMA OneServedStep == ~Overlap /\ SerialInv /\ [Next]_vars => OneServed'
<1> SUFFICES ASSUME ~Overlap, SerialInv, [Next]_vars PROVE OneServed'
  OBVIOUS
<1> USE DEF durable, volatile, history, Goto
<1>a. OneServed /\ pc \in [Task -> Label]
  BY DEF SerialInv, SerialOK, TypeOK
<1>b. ASSUME NEW t \in Task, pc[t] # "idle" \/ \A u \in Task : pc[u] = "idle",
             \A u \in Task \ {t} : pc'[u] = pc[u]
      PROVE  OneServed'
  BY <1>a, <1>b DEF OneServed
<1>1. ASSUME NEW t \in Task, SendMessage(t) \/ Resume(t) PROVE OneServed'
  BY <1>1, <1>a, <1>b DEF SendMessage, Resume, MayResume, MayStart
<1>2. ASSUME NEW t \in Task,
             \/ AnnounceUser(t) \/ PrepareResume(t) \/ StopAtHead(t) \/ StartTurn(t)
             \/ ModelReply(t) \/ AfterReply(t) \/ Authorize(t)
      PROVE  OneServed'
  BY <1>2, <1>a, <1>b DEF AnnounceUser, PrepareResume, StopAtHead, StartTurn,
     ModelReply, AfterReply, Authorize
<1>3. ASSUME NEW t \in Task,
             \/ NextGroup(t) \/ GroupDone(t) \/ GroupSaved(t) \/ SaveRun(t)
      PROVE  OneServed'
  BY <1>3, <1>a, <1>b DEF NextGroup, GroupDone, GroupSaved, SaveRun
<1>4. ASSUME NEW t \in Task,
             \/ PersistResult(t) \/ Cancel(t)
             \/ \E c \in Call : OpenCall(t, c) \/ RunCall(t, c) \/ FinishCall(t, c)
      PROVE  OneServed'
  BY <1>4, <1>a DEF PersistResult, Cancel, OpenCall, RunCall, FinishCall, OneServed
<1>5. ASSUME NEW t \in Task, Publish(t) \/ Fail(t) \/ Abort(t) PROVE OneServed'
  <2>1. pc[t] # "idle"
    BY <1>5 DEF Publish, Fail, Abort, InTry
  <2>2. \A u \in Task \ {t} : pc'[u] = pc[u]
    BY <1>5, <1>a DEF Publish, Fail, Abort, End
  <2> QED BY <1>b, <2>1, <2>2
<1>6. CASE Crash
  BY <1>6 DEF Crash, End, OneServed
<1>7. CASE (\E r \in Run : OrphanEvent(r)) \/ UNCHANGED vars
  BY <1>7, <1>a DEF OrphanEvent, vars, OneServed
<1> QED BY <1>1, <1>2, <1>3, <1>4, <1>5, <1>6, <1>7
        DEF Next, LoopStep, CallStep, Request, ResumeFinished, Fault

\* A reply is a batch of calls never asked for before, and it is what is left.
LEMMA ReplyShape ==
  ASSUME NEW t \in Task, ModelReply(t)
  PROVE  \E s \in Seq(Call) :
           /\ messages' = Append(messages, Assistant(s))
           /\ todo' = [todo EXCEPT ![t] = Batch(s)]
           /\ Range(s) \cap Asked(messages) = {}
<1>1. PICK s \in IF job[t].stop THEN {<<>>} ELSE Replies :
        /\ messages' = Append(messages, Assistant(s))
        /\ todo' = [todo EXCEPT ![t] = Batch(s)]
  BY DEF ModelReply
<1>2. s \in Seq(Call) /\ Range(s) \cap Asked(messages) = {}
  <2>1. CASE s = <<>>
    BY <2>1, EmptySeq DEF Range
  <2>2. CASE s \in Replies
    BY <2>2, RepliesFresh
  <2> QED BY <1>1, <2>1, <2>2
<1> QED BY <1>1, <1>2

\* A result is saved for a call of the group.
LEMMA ResultShape ==
  ASSUME TypeOK, BatchOK, NEW t \in Task, PersistResult(t)
  PROVE  \E c \in todo[t].group :
           /\ c = First(todo[t].order, todo[t].group)
           /\ c \in Call /\ c \in todo[t].left
           /\ messages' = Append(messages, ToolResult(c))
           /\ todo' = [todo EXCEPT ![t] = [todo[t] EXCEPT !.group = todo[t].group \ {c},
                                                          !.left = todo[t].left \ {c}]]
           /\ phase' = [phase EXCEPT ![t][c] = "waiting"]
<1> DEFINE c == First(todo[t].order, todo[t].group)
<1>1. todo[t] \in Todo /\ BatchOf(t)
  BY DEF TypeOK, BatchOK
<1>2. todo[t].order \in Seq(Call) /\ todo[t].group \subseteq Range(todo[t].order)
  BY <1>1 DEF BatchOf, Todo
<1>3. c \in todo[t].group
  BY <1>2, FirstMember DEF PersistResult
<1>4. c \in Call /\ c \in todo[t].left
  BY <1>1, <1>3 DEF Todo, BatchOf
<1>5. /\ messages' = Append(messages, ToolResult(c))
      /\ todo' = [todo EXCEPT ![t] = [todo[t] EXCEPT !.group = todo[t].group \ {c},
                                                     !.left = todo[t].left \ {c}]]
      /\ phase' = [phase EXCEPT ![t][c] = "waiting"]
  BY DEF PersistResult, SetPhase
<1>6. c = First(todo[t].order, todo[t].group)
  OBVIOUS
<1> HIDE DEF c
<1> QED BY <1>3, <1>4, <1>5, <1>6

\* What each step saves.
LEMMA Saves ==
  ASSUME TypeOK, BatchOK, [Next]_vars
  PROVE  \/ messages' = messages
         \/ messages' = Append(messages, User)
         \/ \E t \in Task : \E s \in Seq(Call) :
              ModelReply(t) /\ messages' = Append(messages, Assistant(s))
         \/ \E t \in Task : \E c \in todo[t].left \cap Call :
              PersistResult(t) /\ messages' = Append(messages, ToolResult(c))
<1> USE DEF durable, volatile, history
<1>1. ASSUME NEW t \in Task, ModelReply(t)
      PROVE  \E s \in Seq(Call) : messages' = Append(messages, Assistant(s))
  BY <1>1, ReplyShape
<1>2. ASSUME NEW t \in Task, PersistResult(t)
      PROVE  \E c \in todo[t].left \cap Call : messages' = Append(messages, ToolResult(c))
  BY <1>2, ResultShape
<1>3. ASSUME NEW t \in Task, SendMessage(t) PROVE messages' = Append(messages, User)
  BY <1>3 DEF SendMessage
<1>4. ASSUME NEW t \in Task,
             \/ AnnounceUser(t) \/ PrepareResume(t) \/ StopAtHead(t) \/ StartTurn(t)
             \/ AfterReply(t) \/ Authorize(t) \/ NextGroup(t) \/ CallStep(t)
             \/ GroupDone(t) \/ GroupSaved(t) \/ SaveRun(t) \/ Publish(t)
      PROVE  messages' = messages
  BY <1>4 DEF AnnounceUser, PrepareResume, StopAtHead, StartTurn, AfterReply, Authorize,
     NextGroup, CallStep, OpenCall, RunCall, FinishCall, GroupDone, GroupSaved, SaveRun,
     Publish
<1>5. ASSUME NEW t \in Task, Resume(t) \/ ResumeFinished(t) \/ Cancel(t)
      PROVE  messages' = messages
  BY <1>5 DEF Resume, ResumeFinished, Cancel, vars
<1>6. CASE Fault \/ (\E r \in Run : OrphanEvent(r)) \/ UNCHANGED vars
  BY <1>6 DEF Fault, Crash, Fail, Abort, OrphanEvent, vars
<1> QED BY <1>1, <1>2, <1>3, <1>4, <1>5, <1>6 DEF Next, LoopStep, Request

\* How a saved message moves what was asked and what was answered.
LEMMA NamedBySave ==
  ASSUME NEW ms \in Seq(Message)
  PROVE  /\ Asked(Append(ms, User)) = Asked(ms)
         /\ Answered(Append(ms, User)) = Answered(ms)
         /\ \A s \in Seq(Call) :
              /\ Asked(Append(ms, Assistant(s))) = Asked(ms) \cup Range(s)
              /\ Answered(Append(ms, Assistant(s))) = Answered(ms)
         /\ \A c \in Call :
              /\ Asked(Append(ms, ToolResult(c))) = Asked(ms)
              /\ Answered(Append(ms, ToolResult(c))) = Answered(ms) \cup {c}
<1>1. User \in Message /\ User.role = "user"
  BY DEF User, Message
<1>2. Asked(Append(ms, User)) = Asked(ms) /\ Answered(Append(ms, User)) = Answered(ms)
  <2>1. Named(Append(ms, User), "assistant") = Named(ms, "assistant")
    BY <1>1, NamedAppend
  <2>2. Named(Append(ms, User), "tool") = Named(ms, "tool")
    BY <1>1, NamedAppend
  <2> QED BY <2>1, <2>2 DEF Asked, Answered
<1>3. ASSUME NEW s \in Seq(Call)
      PROVE  /\ Asked(Append(ms, Assistant(s))) = Asked(ms) \cup Range(s)
             /\ Answered(Append(ms, Assistant(s))) = Answered(ms)
  <2> DEFINE m == Assistant(s)
  <2>1. m \in Message /\ m.role = "assistant" /\ m.calls = s
    BY DEF Assistant, Message
  <2> HIDE DEF m
  <2>2. Named(Append(ms, m), "assistant") = Named(ms, "assistant") \cup Range(s)
    BY <2>1, NamedAppend
  <2>3. Named(Append(ms, m), "tool") = Named(ms, "tool")
    BY <2>1, NamedAppend
  <2> QED BY <2>2, <2>3 DEF Asked, Answered, m
<1>4. ASSUME NEW c \in Call
      PROVE  /\ Asked(Append(ms, ToolResult(c))) = Asked(ms)
             /\ Answered(Append(ms, ToolResult(c))) = Answered(ms) \cup {c}
  <2> DEFINE m == ToolResult(c)
  <2>1. m \in Message /\ m.role = "tool" /\ Range(m.calls) = {c}
    BY DEF ToolResult, Message, Range
  <2> HIDE DEF m
  <2>2. Named(Append(ms, m), "assistant") = Named(ms, "assistant")
    BY <2>1, NamedAppend
  <2>3. Named(Append(ms, m), "tool") = Named(ms, "tool") \cup {c}
    BY <2>1, NamedAppend
  <2> QED BY <2>2, <2>3 DEF Asked, Answered, m
<1> QED BY <1>2, <1>3, <1>4

\* Results are only ever added, and only to calls that were asked for and that
\* still lack one.
LEMMA AnswersStep ==
  ASSUME SerialInv, [Next]_vars
  PROVE  /\ Asked(messages) \subseteq Asked(messages')
         /\ Answered(messages) \subseteq Answered(messages')
         /\ Answered(messages') \subseteq Asked(messages')
<1>1. messages \in Seq(Message) /\ TypeOK /\ BatchOK
  BY DEF SerialInv, TypeOK
<1>2. Answered(messages) \subseteq Asked(messages)
  BY DEF SerialInv, SerialOK
<1>3. CASE messages' = messages
  BY <1>2, <1>3
<1>4. CASE messages' = Append(messages, User)
  BY <1>1, <1>2, <1>4, NamedBySave
<1>5. ASSUME NEW s \in Seq(Call), messages' = Append(messages, Assistant(s))
      PROVE  /\ Asked(messages) \subseteq Asked(messages')
             /\ Answered(messages) \subseteq Answered(messages')
             /\ Answered(messages') \subseteq Asked(messages')
  BY <1>1, <1>2, <1>5, NamedBySave
<1>6. ASSUME NEW t \in Task, NEW c \in Call, PersistResult(t), c \in todo[t].left,
             messages' = Append(messages, ToolResult(c))
      PROVE  /\ Asked(messages) \subseteq Asked(messages')
             /\ Answered(messages) \subseteq Answered(messages')
             /\ Answered(messages') \subseteq Asked(messages')
  <2>1. c \in Asked(messages)
    BY <1>6 DEF PersistResult, SerialInv, SerialOK, FreshOf, Serving
  <2> QED BY <1>1, <1>2, <1>6, <2>1, NamedBySave
<1> QED BY <1>1, <1>3, <1>4, <1>5, <1>6, Saves

\* A task that is not the one served is idle, and has no call in flight.
LEMMA OthersIdle ==
  ASSUME SerialInv, NEW t \in Task, pc[t] # "idle", NEW u \in Task \ {t}
  PROVE  pc[u] = "idle" /\ Unsaved(u) = {}
<1>1. pc[u] = "idle"
  BY DEF SerialInv, SerialOK, OneServed
<1>2. BatchOf(u)
  BY DEF SerialInv, BatchOK
<1> QED BY <1>1, <1>2 DEF BatchOf, Unsaved, Write

\* What is left of a batch stays fresh.
LEMMA FreshStep ==
  ASSUME ~Overlap, SerialInv, [Next]_vars, NEW u \in Task
  PROVE  FreshOf(u)'
<1> USE DEF durable, volatile, history, Goto
<1>a. /\ pc \in [Task -> Label] /\ todo \in [Task -> Todo] /\ messages \in Seq(Message)
      /\ FreshOf(u) /\ TypeOK /\ BatchOK
      /\ Answered(messages) \subseteq Asked(messages)
  BY DEF SerialInv, SerialOK, TypeOK
<1>b. ASSUME pc'[u] \notin Serving PROVE FreshOf(u)'
  BY <1>b DEF FreshOf
<1>c. ASSUME messages' = messages, pc[u] \in Serving, todo'[u].left \subseteq todo[u].left
      PROVE  FreshOf(u)'
  BY <1>a, <1>c DEF FreshOf
<1>d. ASSUME messages' = messages, pc'[u] = pc[u], todo'[u].left \subseteq todo[u].left
      PROVE  FreshOf(u)'
  BY <1>a, <1>d DEF FreshOf
<1>1. ASSUME NEW t \in Task, SendMessage(t) PROVE FreshOf(u)'
  BY <1>1, <1>a, <1>b DEF SendMessage, MayStart, Serving
<1>2. ASSUME NEW t \in Task, Resume(t) PROVE FreshOf(u)'
  BY <1>2, <1>a, <1>b, <1>d DEF Resume, Serving
<1>3. ASSUME NEW t \in Task, AnnounceUser(t) PROVE FreshOf(u)'
  BY <1>3, <1>a, <1>b, <1>d DEF AnnounceUser, Serving
<1>4. ASSUME NEW t \in Task, PrepareResume(t) PROVE FreshOf(u)'
  <2>1. CASE u # t
    BY <1>4, <1>a, <1>d, <2>1 DEF PrepareResume
  <2>2. CASE u = t /\ pc'[u] \in {"record", "head"}
    BY <1>b, <2>2 DEF Serving
  <2>3. CASE u = t /\ todo' = [todo EXCEPT ![t] =
                        [NoTodo EXCEPT !.order = OpenOrder(messages),
                                       !.left = Pending(messages)]]
    <3>1. todo'[u].left = Pending(messages)
      BY <1>a, <2>3 DEF NoTodo
    <3>2. Pending(messages) \subseteq Asked(messages) \ Answered(messages)
      BY <1>a, OpenOrderAsked DEF Pending
    <3>3. messages' = messages
      BY <1>4 DEF PrepareResume
    <3> QED BY <3>1, <3>2, <3>3 DEF FreshOf
  <2> QED BY <1>4, <1>a, <2>1, <2>2, <2>3 DEF PrepareResume
<1>5. ASSUME NEW t \in Task, StopAtHead(t) \/ StartTurn(t) PROVE FreshOf(u)'
  BY <1>5, <1>a, <1>b, <1>d DEF StopAtHead, StartTurn, Serving
<1>6. ASSUME NEW t \in Task, ModelReply(t) PROVE FreshOf(u)'
  <2>1. PICK s \in Seq(Call) :
          /\ messages' = Append(messages, Assistant(s))
          /\ todo' = [todo EXCEPT ![t] = Batch(s)]
          /\ Range(s) \cap Asked(messages) = {}
    BY <1>6, ReplyShape
  <2>2. CASE u = t
    <3>1. todo'[u].left = Range(s)
      BY <1>a, <2>1, <2>2 DEF Batch, NoTodo
    <3>2. Asked(messages') = Asked(messages) \cup Range(s)
          /\ Answered(messages') = Answered(messages)
      BY <1>a, <2>1, NamedBySave
    <3> QED BY <1>a, <2>1, <3>1, <3>2 DEF FreshOf
  <2>3. CASE u # t
    <3>1. pc[t] # "idle" /\ pc'[u] = pc[u]
      BY <1>6, <1>a, <2>3 DEF ModelReply
    <3> QED BY <1>b, <2>3, <3>1, OthersIdle DEF Serving
  <2> QED BY <2>2, <2>3
<1>7. ASSUME NEW t \in Task, AfterReply(t) PROVE FreshOf(u)'
  <2>1. CASE u # t
    BY <1>7, <1>a, <1>d, <2>1 DEF AfterReply
  <2>2. CASE u = t
    BY <1>7, <1>a, <1>b, <1>c, <2>2 DEF AfterReply, Serving
  <2> QED BY <2>1, <2>2
<1>8. ASSUME NEW t \in Task, Authorize(t) PROVE FreshOf(u)'
  <2>1. PICK refused : todo' = [todo EXCEPT ![t] = [todo[t] EXCEPT !.refused = refused]]
    BY <1>8 DEF Authorize
  <2>2. todo'[u].left = todo[u].left
    BY <1>a, <2>1 DEF Todo
  <2> QED BY <1>8, <1>a, <1>c, <1>d, <2>2 DEF Authorize, Serving
<1>9. ASSUME NEW t \in Task, NextGroup(t) PROVE FreshOf(u)'
  <2>1. todo'[u].left = todo[u].left \/ (u = t /\ pc'[u] = "head")
    BY <1>9, <1>a DEF NextGroup, Todo
  <2> QED BY <1>9, <1>a, <1>b, <1>c, <1>d, <2>1 DEF NextGroup, Serving
<1>10. ASSUME NEW t \in Task, CallStep(t) PROVE FreshOf(u)'
  BY <1>10, <1>d DEF CallStep, OpenCall, RunCall, FinishCall
<1>11. ASSUME NEW t \in Task, GroupDone(t) \/ GroupSaved(t) PROVE FreshOf(u)'
  BY <1>11, <1>a, <1>c, <1>d DEF GroupDone, GroupSaved, Serving
<1>12. ASSUME NEW t \in Task, PersistResult(t) PROVE FreshOf(u)'
  <2>1. pc[t] = "persist" /\ pc' = pc
    BY <1>12 DEF PersistResult
  <2>4. PICK c \in Call :
          /\ messages' = Append(messages, ToolResult(c))
          /\ todo' = [todo EXCEPT ![t] = [todo[t] EXCEPT !.group = todo[t].group \ {c},
                                                         !.left = todo[t].left \ {c}]]
    BY <1>a, <1>12, ResultShape
  <2>5. Asked(messages') = Asked(messages) /\ Answered(messages') = Answered(messages) \cup {c}
    BY <1>a, <2>4, NamedBySave
  <2>6. CASE u = t
    <3>1. todo'[u].left = todo[u].left \ {c}
      BY <1>a, <2>4, <2>6 DEF Todo
    <3> QED BY <1>a, <2>1, <2>5, <3>1 DEF FreshOf
  <2>7. CASE u # t
    BY <1>b, <2>1, <2>7, OthersIdle DEF Serving
  <2> QED BY <2>6, <2>7
<1>13. ASSUME NEW t \in Task, SaveRun(t) PROVE FreshOf(u)'
  BY <1>13, <1>a, <1>b, <1>d DEF SaveRun, Serving
<1>14. ASSUME NEW t \in Task, Publish(t) PROVE FreshOf(u)'
  BY <1>14, <1>a, <1>b, <1>d DEF Publish, End, Serving
<1>15. ASSUME NEW t \in Task, Cancel(t) PROVE FreshOf(u)'
  BY <1>15, <1>d DEF Cancel
<1>16. ASSUME NEW t \in Task, Fail(t) PROVE FreshOf(u)'
  BY <1>16, <1>a, <1>b, <1>d DEF Fail, Drop, Serving
<1>17. ASSUME NEW t \in Task, Abort(t) PROVE FreshOf(u)'
  BY <1>17, <1>a, <1>b, <1>d DEF Abort, Drop, End, Serving
<1>18. CASE Crash
  BY <1>18, <1>b DEF Crash, End, Serving
<1>19. CASE (\E r \in Run : OrphanEvent(r)) \/ UNCHANGED vars
  BY <1>19, <1>d DEF OrphanEvent, vars
<1>20. ASSUME NEW t \in Task, ResumeFinished(t) PROVE FreshOf(u)'
  BY <1>20, <1>d DEF ResumeFinished, vars
<1> QED BY <1>1, <1>2, <1>3, <1>4, <1>5, <1>6, <1>7, <1>8, <1>9, <1>10, <1>11, <1>12,
           <1>13, <1>14, <1>15, <1>16, <1>17, <1>18, <1>19, <1>20
        DEF Next, LoopStep, Request, Fault

\* A call in flight was asked for and has no saved result.
LEMMA GroupUnanswered ==
  ASSUME SerialInv, NEW t \in Task, pc[t] \in {"calls", "persist"}, NEW c \in todo[t].group
  PROVE  c \notin Answered(messages)
<1>1. c \in todo[t].left
  BY DEF SerialInv, BatchOK, BatchOf
<1> QED BY <1>1 DEF SerialInv, SerialOK, FreshOf, Serving

\* Every effect stays accounted for.
LEMMA AccountedStep ==
  ASSUME ~Overlap, SerialInv, [Next]_vars, NEW c \in Write
  PROVE  Accounted(c)'
<1> USE DEF durable, volatile, history
<1>a. /\ phase \in [Task -> [Call -> Phase]] /\ TypeOK /\ BatchOK
      /\ effects \in [Call -> Nat] /\ lost \in [Call -> Nat]
      /\ c \in Call /\ Accounted(c)
      /\ Answered(messages) \subseteq Answered(messages')
  BY AnswersStep DEF SerialInv, SerialOK, TypeOK, Write
\* Nothing happened, and what was about to be saved still is or was saved.
<1>b. ASSUME effects'[c] = effects[c], lost'[c] = lost[c],
             \A t \in Task : c \in Unsaved(t) =>
               c \in Unsaved(t)' \/ c \in Answered(messages')
      PROVE  Accounted(c)'
  <2>1. effects[c] \in Nat /\ lost[c] \in Nat
    BY <1>a
  <2>2. CASE c \in Answered(messages) \/ \E t \in Task : c \in Unsaved(t)
    BY <1>a, <1>b, <2>1, <2>2 DEF Accounted
  <2>3. CASE ~ (c \in Answered(messages) \/ \E t \in Task : c \in Unsaved(t))
    BY <1>a, <1>b, <2>1, <2>3 DEF Accounted
  <2> QED BY <2>2, <2>3
<1>c. ASSUME UNCHANGED <<effects, lost, phase>> PROVE Accounted(c)'
  BY <1>b, <1>c DEF Unsaved
\* What was in flight is lost.
<1>d. ASSUME NEW S \in SUBSET Task, Drop(S), UNCHANGED effects PROVE Accounted(c)'
  <2>1. effects[c] \in Nat /\ lost[c] \in Nat
    BY <1>a
  <2>2. CASE \E t \in S : c \in Unsaved(t)
    <3>1. lost'[c] = lost[c] + 1
      BY <1>a, <1>d, <2>2 DEF Drop
    <3>2. effects'[c] <= lost'[c]
      BY <1>a, <1>d, <2>1, <3>1 DEF Accounted
    <3> QED BY <1>d, <2>1, <3>1, <3>2 DEF Accounted
  <2>3. CASE ~ \E t \in S : c \in Unsaved(t)
    <3>1. lost'[c] = lost[c]
      BY <1>a, <1>d, <2>3 DEF Drop
    <3>2. \A t \in Task \ S : phase'[t] = phase[t]
      BY <1>d DEF Drop
    <3>3. \A t \in Task : c \in Unsaved(t) => c \in Unsaved(t)'
      BY <2>3, <3>2 DEF Unsaved
    <3> QED BY <1>b, <1>d, <3>1, <3>3
  <2> QED BY <2>2, <2>3
<1>1. ASSUME NEW t \in Task,
             \/ SendMessage(t) \/ Resume(t) \/ ResumeFinished(t) \/ Cancel(t)
             \/ AnnounceUser(t) \/ PrepareResume(t) \/ StopAtHead(t) \/ StartTurn(t)
             \/ ModelReply(t) \/ AfterReply(t) \/ Authorize(t) \/ NextGroup(t)
      PROVE  Accounted(c)'
  BY <1>1, <1>c DEF SendMessage, Resume, ResumeFinished, Cancel, AnnounceUser,
     PrepareResume, StopAtHead, StartTurn, ModelReply, AfterReply, Authorize, NextGroup,
     vars
<1>2. ASSUME NEW t \in Task,
             \/ GroupDone(t) \/ GroupSaved(t) \/ SaveRun(t) \/ Publish(t)
      PROVE  Accounted(c)'
  BY <1>2, <1>c DEF GroupDone, GroupSaved, SaveRun, Publish
\* A call of t moves on without a new effect of c.
<1>e. ASSUME NEW t \in Task, NEW d \in Call, NEW p \in Phase,
             phase' = [phase EXCEPT ![t][d] = p], effects'[c] = effects[c],
             UNCHANGED lost, c = d /\ c \in Unsaved(t) => p \in {"running", "ran"}
      PROVE  Accounted(c)'
  <2>1. ASSUME NEW v \in Task, c \in Unsaved(v) PROVE c \in Unsaved(v)'
    <3>1. phase'[v][c] = IF v = t /\ c = d THEN p ELSE phase[v][c]
      BY <1>a, <1>e
    <3> QED BY <1>e, <2>1, <3>1 DEF Unsaved
  <2> QED BY <1>b, <1>e, <2>1
<1>3. ASSUME NEW t \in Task, NEW d \in Call, OpenCall(t, d) PROVE Accounted(c)'
  <2>1. PICK p \in Phase : phase' = [phase EXCEPT ![t][d] = p]
    BY <1>3 DEF OpenCall, SetPhase, Phase
  <2>2. phase[t][d] = "waiting" /\ UNCHANGED <<effects, lost>>
    BY <1>3 DEF OpenCall
  <2> QED BY <1>e, <2>1, <2>2 DEF Unsaved
<1>4. ASSUME NEW t \in Task, NEW d \in Call, FinishCall(t, d) PROVE Accounted(c)'
  <2>1. "ran" \in Phase
    BY DEF Phase
  <2> QED BY <1>4, <1>e, <2>1 DEF FinishCall, SetPhase
<1>5. ASSUME NEW t \in Task, NEW d \in Call, RunCall(t, d) PROVE Accounted(c)'
  <2>1. "running" \in Phase /\ phase' = [phase EXCEPT ![t][d] = "running"] /\ lost' = lost
    BY <1>5 DEF RunCall, SetPhase, Phase
  <2>2. CASE c # d
    <3>1. effects'[c] = effects[c]
      BY <1>5, <1>a, <2>2 DEF RunCall
    <3> QED BY <1>e, <2>1, <2>2, <3>1
  <2>3. CASE c = d
    <3>1. effects'[c] = effects[c] + 1
      BY <1>5, <1>a, <2>3 DEF RunCall
    <3>2. c \notin Answered(messages)
      BY <1>5, <2>3, GroupUnanswered DEF RunCall
    <3>3. c \notin Unsaved(t)
      BY <1>5, <2>3 DEF RunCall, Unsaved
    <3>4. \A v \in Task \ {t} : Unsaved(v) = {}
      BY <1>5, OthersIdle DEF RunCall
    <3>5. effects[c] <= lost[c]
      BY <1>a, <3>2, <3>3, <3>4 DEF Accounted
    <3>6. phase'[t][c] = "running"
      BY <1>a, <2>1, <2>3
    <3>7. c \in Unsaved(t)'
      BY <3>6 DEF Unsaved
    <3> QED BY <1>a, <2>1, <3>1, <3>5, <3>7 DEF Accounted
  <2> QED BY <2>2, <2>3
<1>6. ASSUME NEW t \in Task, PersistResult(t) PROVE Accounted(c)'
  <2>1. PICK d \in Call : /\ messages' = Append(messages, ToolResult(d))
                          /\ phase' = [phase EXCEPT ![t][d] = "waiting"]
    BY <1>6, <1>a, ResultShape
  <2>2. d \in Answered(messages')
    BY <1>a, <2>1, NamedBySave DEF TypeOK
  <2>3. ASSUME NEW v \in Task, c \in Unsaved(v)
        PROVE  c \in Unsaved(v)' \/ c \in Answered(messages')
    <3>1. phase'[v][c] = phase[v][c] \/ c = d
      BY <1>a, <2>1
    <3> QED BY <2>2, <2>3, <3>1 DEF Unsaved
  <2>4. UNCHANGED <<effects, lost>>
    BY <1>6 DEF PersistResult
  <2> QED BY <1>b, <2>3, <2>4
<1>7. ASSUME NEW t \in Task, Fail(t) \/ Abort(t) PROVE Accounted(c)'
  <2>1. {t} \in SUBSET Task /\ Drop({t}) /\ UNCHANGED effects
    BY <1>7 DEF Fail, Abort
  <2> QED BY <1>d, <2>1
<1>8. CASE Crash
  <2>1. Drop(Task) /\ UNCHANGED effects
    BY <1>8 DEF Crash
  <2> QED BY <1>d, <2>1
<1>9. CASE (\E r \in Run : OrphanEvent(r)) \/ UNCHANGED vars
  BY <1>9, <1>c DEF OrphanEvent, vars
<1> QED BY <1>1, <1>2, <1>3, <1>4, <1>5, <1>6, <1>7, <1>8, <1>9
        DEF Next, LoopStep, CallStep, Request, Fault

\* No call gets a second result.
LEMMA AnsweredOnceStep ==
  ASSUME ~Overlap, SerialInv, [Next]_vars
  PROVE  AnsweredOnce'
<1>1. messages \in Seq(Message) /\ AnsweredOnce /\ TypeOK /\ BatchOK
  BY DEF SerialInv, SerialOK, TypeOK
<1>2. ASSUME NEW m, messages' = Append(messages, m), m.role # "tool"
      PROVE  AnsweredOnce'
  <2> DEFINE n == Len(messages) + 1
  <2>1. /\ Len(messages) \in Nat
        /\ DOMAIN messages = 1 .. Len(messages)
        /\ DOMAIN messages' = 1 .. n
        /\ messages'[n] = m
        /\ \A i \in DOMAIN messages : messages'[i] = messages[i]
    BY <1>1, <1>2
  <2>2. \A i \in DOMAIN messages' : i = n \/ i \in DOMAIN messages
    BY <2>1
  <2> HIDE DEF n
  <2>3. \A i \in DOMAIN messages' :
          messages'[i].role = "tool" =>
            i \in DOMAIN messages /\ messages'[i] = messages[i]
    BY <2>1, <2>2, <1>2
  <2> SUFFICES ASSUME NEW i \in DOMAIN messages', NEW j \in DOMAIN messages',
                      messages'[i].role = "tool", messages'[j].role = "tool",
                      Range(messages'[i].calls) \cap Range(messages'[j].calls) # {}
               PROVE  i = j
    BY DEF AnsweredOnce
  <2> QED BY <1>1, <2>3 DEF AnsweredOnce
<1>3. CASE messages' = messages
  BY <1>1, <1>3 DEF AnsweredOnce
<1>4. CASE messages' = Append(messages, User)
  BY <1>2, <1>4 DEF User
<1>5. ASSUME NEW s \in Seq(Call), messages' = Append(messages, Assistant(s))
      PROVE  AnsweredOnce'
  BY <1>2, <1>5 DEF Assistant
<1>6. ASSUME NEW t \in Task, NEW c \in todo[t].left \cap Call, PersistResult(t),
             messages' = Append(messages, ToolResult(c))
      PROVE  AnsweredOnce'
  <2>1. c \notin Answered(messages)
    BY <1>6 DEF PersistResult, SerialInv, SerialOK, FreshOf, Serving
  <2> DEFINE n == Len(messages) + 1
  <2>2. /\ Len(messages) \in Nat
        /\ DOMAIN messages = 1 .. Len(messages)
        /\ DOMAIN messages' = 1 .. n
        /\ messages'[n] = ToolResult(c)
        /\ \A i \in DOMAIN messages : messages'[i] = messages[i]
    BY <1>1, <1>6
  <2>3. \A i \in DOMAIN messages' : i = n \/ i \in DOMAIN messages
    BY <2>2
  <2>4. Range(ToolResult(c).calls) = {c}
    BY DEF ToolResult, Range
  <2>5. \A i \in DOMAIN messages :
          messages[i].role = "tool" => c \notin Range(messages[i].calls)
    BY <2>1 DEF Answered, Named
  <2> HIDE DEF n
  <2> SUFFICES ASSUME NEW i \in DOMAIN messages', NEW j \in DOMAIN messages',
                      messages'[i].role = "tool", messages'[j].role = "tool",
                      Range(messages'[i].calls) \cap Range(messages'[j].calls) # {}
               PROVE  i = j
    BY DEF AnsweredOnce
  <2>6. CASE i = n /\ j = n
    BY <2>6
  <2>7. CASE i = n /\ j \in DOMAIN messages
    BY <2>2, <2>4, <2>5, <2>7
  <2>8. CASE i \in DOMAIN messages /\ j = n
    BY <2>2, <2>4, <2>5, <2>8
  <2>9. CASE i \in DOMAIN messages /\ j \in DOMAIN messages
    BY <1>1, <2>2, <2>9 DEF AnsweredOnce
  <2> QED BY <2>3, <2>6, <2>7, <2>8, <2>9
<1> QED BY <1>1, <1>3, <1>4, <1>5, <1>6, Saves

LEMMA SerialStep == ~Overlap /\ SerialInv /\ [Next]_vars => SerialInv'
BY TypeStep, BatchStep, OneServedStep, AnswersStep, FreshStep, AccountedStep,
   AnsweredOnceStep
DEF SerialInv, SerialOK, Write

\* A write happens at most once more than faults cut it off before its result was
\* saved.
THEOREM AtMostOncePerLossHolds ==
  ASSUME ~Overlap PROVE Spec => []AtMostOncePerLoss
<1>1. SerialInv => AtMostOncePerLoss
  <2> SUFFICES ASSUME SerialInv, NEW c \in Write PROVE effects[c] <= 1 + lost[c]
    BY DEF AtMostOncePerLoss
  <2>1. effects[c] \in Nat /\ lost[c] \in Nat
    BY DEF SerialInv, TypeOK, Write
  <2>2. Accounted(c)
    BY DEF SerialInv, SerialOK
  <2> QED BY <2>1, <2>2 DEF Accounted
<1>2. SerialInv /\ [Next]_vars => SerialInv'
  BY SerialStep
<1> QED BY <1>1, <1>2, SerialInit, PTL DEF Spec

\* No call ever has two results.
THEOREM AnsweredOnceHolds ==
  ASSUME ~Overlap PROVE Spec => []AnsweredOnce
<1>1. SerialInv => AnsweredOnce
  BY DEF SerialInv, SerialOK
<1>2. SerialInv /\ [Next]_vars => SerialInv'
  BY SerialStep
<1> QED BY <1>1, <1>2, SerialInit, PTL DEF Spec

\* A call whose result is saved never runs its side effect again.
THEOREM SavedNeverRerunHolds ==
  ASSUME ~Overlap PROVE Spec => SavedNeverRerun
<1>1. SerialInv /\ [Next]_vars =>
        [\A c \in Answered(messages) : effects'[c] = effects[c]]_vars
  <2> SUFFICES ASSUME SerialInv, Next, NEW c \in Answered(messages)
               PROVE  effects'[c] = effects[c]
    OBVIOUS
  <2>1. effects \in [Call -> Nat]
    BY DEF SerialInv, TypeOK
  <2>2. ASSUME NEW t \in Task, NEW d \in Call, RunCall(t, d)
        PROVE  effects'[c] = effects[c]
    <3>1. d # c
      BY <2>2, GroupUnanswered DEF RunCall
    <3>2. effects' = IF d \in Write THEN [effects EXCEPT ![d] = @ + 1] ELSE effects
      BY <2>2 DEF RunCall
    <3>3. c \in Call
      <4>1. PICK i \in DOMAIN messages : c \in Range(messages[i].calls)
        BY DEF Answered, Named
      <4>2. messages \in Seq(Message)
        BY DEF SerialInv, TypeOK
      <4>3. messages[i] \in Message
        BY <4>1, <4>2
      <4>4. messages[i].calls \in Seq(Call)
        BY <4>3 DEF Message
      <4> QED BY <4>1, <4>4 DEF Range
    <3>4. CASE d \in Write
      BY <2>1, <3>1, <3>2, <3>3, <3>4
    <3> QED BY <3>2, <3>4
  <2>3. CASE UNCHANGED effects
    BY <2>3
  <2>4. UNCHANGED effects \/ \E t \in Task, d \in Call : RunCall(t, d)
    BY DEF Next, LoopStep, CallStep, Request, Fault, history, vars, SendMessage, Resume,
       ResumeFinished, Cancel, AnnounceUser, PrepareResume, StopAtHead, StartTurn,
       ModelReply, AfterReply, Authorize, NextGroup, OpenCall, FinishCall, GroupDone,
       PersistResult, GroupSaved, SaveRun, Publish, Crash, Fail, Abort, OrphanEvent
  <2> QED BY <2>2, <2>3, <2>4
<1>2. SerialInv /\ [Next]_vars => SerialInv'
  BY SerialStep
<1> QED BY <1>1, <1>2, SerialInit, PTL DEF Spec, SavedNeverRerun

------------------------------------------------------------------------------
(* Stops and receipts.                                                     *)

\* A write that began after the stop was the last its group still had to begin, and
\* no group begins after it.
LateOf(t) ==
  /\ lateWrites[t] <= 1
  /\ pc[t] = "idle" => lateWrites[t] = 0
  /\ lateWrites[t] # 0 =>
       /\ job[t].stop
       /\ pc[t] = "calls" =>
            \A c \in todo[t].group \cap Write : phase[t][c] \notin {"waiting", "admitted"}

LateOK == \A t \in Task : LateOf(t)

LEMMA LateStep == TypeOK /\ BatchOK /\ LateOK /\ [Next]_vars => LateOK'
<1> SUFFICES ASSUME TypeOK, BatchOK, LateOK, [Next]_vars, NEW u \in Task PROVE LateOf(u)'
  BY DEF LateOK
<1> USE DEF durable, volatile, history, Goto
<1>a. /\ pc \in [Task -> Label] /\ job \in [Task -> Job] /\ todo \in [Task -> Todo]
      /\ phase \in [Task -> [Call -> Phase]] /\ lateWrites \in [Task -> Nat]
      /\ LateOf(u)
  BY DEF TypeOK, LateOK
<1>b. job[u] \in Job
  BY <1>a
\* u begins no write, takes up no group and forgets no stop.
<1>c. ASSUME lateWrites'[u] = lateWrites[u],
             lateWrites[u] # 0 => job[u].stop = job'[u].stop,
             lateWrites[u] # 0 => pc'[u] # "idle",
             pc'[u] = "idle" => pc[u] = "idle",
             pc'[u] = "calls" /\ lateWrites[u] # 0 =>
               /\ pc[u] = "calls" /\ todo'[u].group = todo[u].group
               /\ \A c \in todo[u].group \cap Write :
                    phase[u][c] \notin {"waiting", "admitted"} =>
                      phase'[u][c] \notin {"waiting", "admitted"}
      PROVE  LateOf(u)'
  BY <1>a, <1>c DEF LateOf
\* u's coroutine ended.
<1>d. ASSUME lateWrites'[u] = 0 PROVE LateOf(u)'
  BY <1>d DEF LateOf
<1>1. ASSUME NEW t \in Task, SendMessage(t) \/ Resume(t) PROVE LateOf(u)'
  <2>1. lateWrites'[u] = lateWrites[u] /\ pc[t] = "idle"
    BY <1>1 DEF SendMessage, Resume, MayResume, MayStart
  <2>2. CASE u = t
    BY <1>a, <1>d, <2>1, <2>2 DEF LateOf
  <2>3. CASE u # t
    <3>1. UNCHANGED <<pc[u], job[u], todo[u], phase[u]>>
      BY <1>1, <1>a, <2>3 DEF SendMessage, Resume, Start
    <3> QED BY <1>a, <1>c, <2>1, <3>1 DEF LateOf
  <2> QED BY <2>2, <2>3
<1>2. ASSUME NEW t \in Task,
             \/ AnnounceUser(t) \/ PrepareResume(t) \/ StopAtHead(t) \/ StartTurn(t)
             \/ ModelReply(t) \/ AfterReply(t) \/ Authorize(t)
      PROVE  LateOf(u)'
  <2>1. lateWrites' = lateWrites /\ phase' = phase
    BY <1>2 DEF AnnounceUser, PrepareResume, StopAtHead, StartTurn, ModelReply, AfterReply,
       Authorize
  <2>2. pc[t] \notin {"idle", "calls"} /\ \E l \in Label \ {"idle", "calls"} : Goto(t, l)
    BY <1>2 DEF AnnounceUser, PrepareResume, StopAtHead, StartTurn, ModelReply, AfterReply,
       Authorize, Label, InTry
  <2>3. pc'[u] = pc[u] \/ pc'[u] \notin {"idle", "calls"}
    BY <1>a, <2>2
  <2>4. \/ job' = job
        \/ \E s \in Status : job' = [job EXCEPT ![t] = [job[t] EXCEPT !.status = s]]
        \/ \E n \in Nat : job' = [job EXCEPT ![t] = [job[t] EXCEPT !.turn = n]]
    <3>1. CASE StartTurn(t)
      <4>1. job[t].turn + 1 \in Nat
        BY <1>a DEF Job
      <4> QED BY <3>1, <4>1 DEF StartTurn
    <3>2. CASE StopAtHead(t)
      BY <3>2 DEF StopAtHead
    <3> QED BY <1>2, <3>1, <3>2 DEF AnnounceUser, PrepareResume, ModelReply, AfterReply,
               Authorize, Status
  <2>5. job'[u].stop = job[u].stop
    <3>1. CASE job' = job
      BY <3>1
    <3>2. CASE \E s \in Status : job' = [job EXCEPT ![t] = [job[t] EXCEPT !.status = s]]
      BY <1>a, <1>b, <3>2 DEF Job
    <3>3. CASE \E n \in Nat : job' = [job EXCEPT ![t] = [job[t] EXCEPT !.turn = n]]
      BY <1>a, <1>b, <3>3 DEF Job
    <3> QED BY <2>4, <3>1, <3>2, <3>3
  <2>6. u # t => todo'[u] = todo[u]
    BY <1>2, <1>a DEF AnnounceUser, PrepareResume, StopAtHead, StartTurn, ModelReply,
       AfterReply, Authorize
  <2>7. u = t => pc'[u] # "calls"
    BY <1>a, <2>2
  <2> QED BY <1>a, <1>c, <2>1, <2>3, <2>5, <2>6, <2>7 DEF LateOf
<1>3. ASSUME NEW t \in Task, NextGroup(t) PROVE LateOf(u)'
  <2>1. UNCHANGED <<lateWrites, phase, job>>
    BY <1>3 DEF NextGroup
  <2>2. CASE u = t
    <3>1. pc'[u] # "idle" /\ (pc'[u] = "calls" => ~ job[u].stop)
      BY <1>3, <1>a, <2>2 DEF NextGroup
    <3> QED BY <1>a, <1>c, <2>1, <3>1 DEF LateOf
  <2>3. CASE u # t
    <3>1. pc'[u] = pc[u] /\ todo'[u] = todo[u]
      BY <1>3, <1>a, <2>3 DEF NextGroup
    <3> QED BY <1>a, <1>c, <2>1, <3>1 DEF LateOf
  <2> QED BY <2>2, <2>3
<1>4. ASSUME NEW t \in Task, NEW d \in Call, OpenCall(t, d) \/ FinishCall(t, d)
      PROVE  LateOf(u)'
  <2>1. UNCHANGED <<lateWrites, pc, job, todo>>
    BY <1>4 DEF OpenCall, FinishCall
  <2>2. \A c \in Call : phase[u][c] \notin {"waiting", "admitted"} =>
                          phase'[u][c] \notin {"waiting", "admitted"}
    BY <1>4, <1>a DEF OpenCall, FinishCall, SetPhase
  <2> QED BY <1>a, <1>c, <2>1, <2>2 DEF LateOf, Write
<1>5. ASSUME NEW t \in Task, NEW d \in Call, RunCall(t, d) PROVE LateOf(u)'
  <2>1. /\ UNCHANGED <<pc, job, todo>> /\ pc[t] = "calls" /\ d \in todo[t].group
        /\ phase[t][d] = "admitted" /\ phase' = [phase EXCEPT ![t][d] = "running"]
    BY <1>5 DEF RunCall, SetPhase
  <2>2. \A c \in Call : phase[u][c] \notin {"waiting", "admitted"} =>
                          phase'[u][c] \notin {"waiting", "admitted"}
    BY <1>a, <2>1
  <2>3. CASE lateWrites'[u] = lateWrites[u]
    BY <1>a, <1>c, <2>1, <2>2, <2>3 DEF LateOf, Write
  <2>4. CASE lateWrites'[u] # lateWrites[u]
    <3>1. u = t /\ d \in Write /\ job[t].stop /\ lateWrites'[u] = lateWrites[u] + 1
      BY <1>5, <1>a, <2>4 DEF RunCall
    <3>2. lateWrites[u] = 0
      BY <1>a, <2>1, <3>1 DEF LateOf
    <3>3. \A c \in todo[u].group : c = d
      BY <2>1, <3>1 DEF BatchOK, BatchOf, Write
    <3>4. phase'[u][d] = "running"
      BY <1>a, <2>1, <3>1
    <3> QED BY <2>1, <3>1, <3>2, <3>3, <3>4 DEF LateOf
  <2> QED BY <2>3, <2>4
<1>6. ASSUME NEW t \in Task, GroupDone(t) \/ GroupSaved(t) \/ SaveRun(t) PROVE LateOf(u)'
  <2>1. UNCHANGED <<lateWrites, phase, job, todo>>
    BY <1>6 DEF GroupDone, GroupSaved, SaveRun
  <2>2. pc'[u] = pc[u] \/ pc'[u] \notin {"idle", "calls"}
    BY <1>6, <1>a DEF GroupDone, GroupSaved, SaveRun
  <2> QED BY <1>a, <1>c, <2>1, <2>2 DEF LateOf
<1>7. ASSUME NEW t \in Task, PersistResult(t) PROVE LateOf(u)'
  <2>1. PICK c \in Call :
          /\ todo' = [todo EXCEPT ![t] = [todo[t] EXCEPT !.group = todo[t].group \ {c},
                                                         !.left = todo[t].left \ {c}]]
          /\ phase' = [phase EXCEPT ![t][c] = "waiting"]
    BY <1>7, ResultShape
  <2>2. UNCHANGED <<lateWrites, pc, job>> /\ pc[t] = "persist"
    BY <1>7 DEF PersistResult
  <2>3. u # t => todo'[u] = todo[u] /\ phase'[u] = phase[u]
    BY <1>a, <2>1
  <2> QED BY <1>a, <1>c, <2>2, <2>3 DEF LateOf
<1>8. ASSUME NEW t \in Task, Cancel(t) PROVE LateOf(u)'
  <2>1. UNCHANGED <<lateWrites, pc, todo, phase>> /\ (job[u].stop => job'[u].stop)
    BY <1>8, <1>a, <1>b DEF Cancel, Job
  <2> QED BY <1>a, <2>1 DEF LateOf
<1>9. ASSUME NEW t \in Task, Fail(t) PROVE LateOf(u)'
  <2>1. lateWrites' = lateWrites /\ pc[t] # "idle"
    BY <1>9 DEF Fail, InTry
  <2>2. job'[u].stop = job[u].stop
    BY <1>9, <1>a, <1>b DEF Fail, Job
  <2>3. IF u = t THEN pc'[u] = "record"
        ELSE UNCHANGED <<pc[u], todo[u], phase[u]>>
    BY <1>9, <1>a DEF Fail, Drop
  <2> QED BY <1>a, <1>c, <2>1, <2>2, <2>3 DEF LateOf
<1>10. ASSUME NEW S \in SUBSET Task, End(S),
              \A v \in Task \ S : UNCHANGED <<todo[v], phase[v]>>
       PROVE  LateOf(u)'
  <2>1. CASE u \in S
    BY <1>10, <1>d, <2>1 DEF End
  <2>2. CASE u \notin S
    <3>1. UNCHANGED <<lateWrites[u], pc[u], job[u], todo[u], phase[u]>>
      BY <1>10, <2>2 DEF End
    <3> QED BY <1>a, <1>c, <3>1 DEF LateOf
  <2> QED BY <2>1, <2>2
<1>11. ASSUME NEW t \in Task, Publish(t) \/ Abort(t) PROVE LateOf(u)'
  <2>1. {t} \in SUBSET Task /\ End({t}) /\ \A v \in Task \ {t} : UNCHANGED <<todo[v], phase[v]>>
    BY <1>11 DEF Publish, Abort, Drop
  <2> QED BY <1>10, <2>1
<1>12. CASE Crash
  BY <1>10, <1>12 DEF Crash
<1>13. CASE (\E r \in Run : OrphanEvent(r)) \/ UNCHANGED vars
  <2>1. UNCHANGED <<lateWrites, pc, job, todo, phase>>
    BY <1>13 DEF OrphanEvent, vars
  <2> QED BY <1>a, <2>1 DEF LateOf
<1> QED
  BY <1>1, <1>2, <1>3, <1>4, <1>5, <1>6, <1>7, <1>8, <1>9, <1>11, <1>12, <1>13
  DEF Next, LoopStep, CallStep, Request, ResumeFinished, Fault

\* However long a run goes on after it was stopped, it begins at most one more write.
THEOREM StopBoundsHolds == Spec => []StopBoundsWrites
<1>1. Init => LateOK
  BY DEF Init, LateOK, LateOf
<1>2. LateOK => StopBoundsWrites
  BY DEF LateOK, LateOf, StopBoundsWrites
<1> QED BY <1>1, <1>2, TypeInit, TypeStep, BatchStep, LateStep, PTL DEF Spec

\* A run without a receipt, or one a gathered sibling outlived.
Unsealed(r) == r \notin outlived => receipts[r] = <<>>

\* What is served, and what the log would have resumed, has no receipt yet; the status
\* about to be announced is the one on record.
ReceiptOK ==
  /\ \A t \in Task : pc[t] # "idle" => job[t].run \in 1 .. minted /\ Unsealed(job[t].run)
  /\ \A t \in Task : pc[t] = "publish" => records[job[t].run] = job[t].status
  /\ lastEvent.type = "progress" => lastEvent.run \in 1 .. minted /\ Unsealed(lastEvent.run)
  /\ \A r \in Run : r > minted => receipts[r] = <<>>
  /\ orphans \subseteq outlived /\ orphans \subseteq 1 .. minted
  /\ OneReceiptPerRun

LEMMA ReceiptStep == ~Overlap /\ SerialInv /\ ReceiptOK /\ [Next]_vars => ReceiptOK'
<1> SUFFICES ASSUME ~Overlap, SerialInv, ReceiptOK, [Next]_vars PROVE ReceiptOK'
  OBVIOUS
<1> USE DEF durable, volatile, history, Goto
<1>a. /\ pc \in [Task -> Label] /\ job \in [Task -> Job] /\ minted \in 0 .. MaxRuns
      /\ records \in [Run -> Status] /\ receipts \in [Run -> Seq(Status)]
      /\ lastEvent \in LogEntry /\ MaxRuns \in Nat /\ OneServed
  BY BoundsAssumption DEF SerialInv, SerialOK, TypeOK
<1>b. \A t \in Task : job[t] \in Job
  BY <1>a
\* No run is started, recorded or announced.
<1>c. ASSUME UNCHANGED <<records, receipts, minted>>,
             outlived \subseteq outlived', orphans' \subseteq outlived',
             orphans' \subseteq 1 .. minted,
             \A v \in Task : pc'[v] # "idle" =>
               /\ pc[v] # "idle" /\ job'[v].run = job[v].run
               /\ pc'[v] = "publish" => pc[v] = "publish" /\ job'[v].status = job[v].status,
             \/ lastEvent' = lastEvent
             \/ \E t \in Task : pc[t] # "idle" /\ lastEvent' = Progress(t)
             \/ \E r \in orphans : lastEvent' = Event("progress", r)
      PROVE  ReceiptOK'
  <2>1. \A t \in Task : pc'[t] # "idle" => (job[t].run \in 1 .. minted /\ Unsealed(job[t].run))'
    BY <1>c DEF ReceiptOK, Unsealed
  <2>2. \A t \in Task : pc'[t] = "publish" => records'[job'[t].run] = job'[t].status
    BY <1>c DEF ReceiptOK
  <2>3. lastEvent'.type = "progress" =>
          (lastEvent.run \in 1 .. minted /\ Unsealed(lastEvent.run))'
    BY <1>c DEF ReceiptOK, Unsealed, Progress, Event
  <2> QED BY <1>c, <2>1, <2>2, <2>3 DEF ReceiptOK, OneReceiptPerRun
<1>1. ASSUME NEW t \in Task, SendMessage(t) \/ Resume(t) PROVE ReceiptOK'
  <2>1. /\ UNCHANGED <<records, receipts, lastEvent, orphans, outlived>>
        /\ \A v \in Task \ {t} : pc[v] = "idle" /\ pc'[v] = "idle"
        /\ pc'[t] # "publish"
    BY <1>1, <1>a DEF SendMessage, Resume, MayResume, MayStart
  <2>2. PICK r \in 1 .. minted' : Unsealed(r) /\ \E b \in BOOLEAN : Start(t, r, b)
    <3>1. CASE minted < MaxRuns /\ minted' = minted + 1 /\ \E b \in BOOLEAN : Start(t, minted + 1, b)
      <4>1. receipts[minted + 1] = <<>> /\ minted + 1 \in 1 .. minted'
        BY <1>a, <3>1 DEF ReceiptOK, Run
      <4> QED BY <3>1, <4>1 DEF Unsealed
    <3>2. CASE minted' = minted /\ lastEvent.type = "progress" /\ Start(t, lastEvent.run, TRUE)
      BY <3>2 DEF ReceiptOK
    <3>3. \/ minted < MaxRuns /\ minted' = minted + 1 /\ \E b \in BOOLEAN : Start(t, minted + 1, b)
          \/ /\ minted' = minted /\ Start(t, lastEvent.run, TRUE)
             /\ lastEvent.type \notin {"none", "RUN_FINISHED"}
      BY <1>1 DEF SendMessage, Resume
    <3>4. lastEvent.type \in {"none", "progress", "RUN_FINISHED"}
      BY <1>a DEF LogEntry
    <3> QED BY <3>1, <3>2, <3>3, <3>4
  <2>3. job'[t].run = r
    BY <1>a, <2>2 DEF Start, NoJob
  <2>4. minted' \in Nat /\ minted <= minted'
    <3>1. minted' = minted \/ minted' = minted + 1
      BY <1>1 DEF SendMessage, Resume
    <3>2. minted \in Nat
      BY <1>a
    <3> QED BY <3>1, <3>2
  <2>5. \A v \in Task : pc'[v] # "idle" => (job[v].run \in 1 .. minted /\ Unsealed(job[v].run))'
    <3>1. (Unsealed(r))'
      BY <2>1, <2>2 DEF Unsealed
    <3>2. \A v \in Task : pc'[v] # "idle" => v = t
      BY <2>1
    <3> QED BY <2>2, <2>3, <3>1, <3>2
  <2>6. lastEvent'.type = "progress" =>
          (lastEvent.run \in 1 .. minted /\ Unsealed(lastEvent.run))'
    BY <1>a, <2>1, <2>4 DEF ReceiptOK, Unsealed
  <2>7. \A x \in Run : x > minted' => receipts'[x] = <<>>
    BY <1>a, <2>1, <2>4 DEF ReceiptOK, Run
  <2>8. orphans' \subseteq outlived' /\ orphans' \subseteq 1 .. minted'
    BY <1>a, <2>1, <2>4 DEF ReceiptOK
  <2> QED BY <2>1, <2>5, <2>6, <2>7, <2>8 DEF ReceiptOK, OneReceiptPerRun
<1>2. ASSUME NEW t \in Task,
             \/ AnnounceUser(t) \/ PrepareResume(t) \/ StopAtHead(t) \/ StartTurn(t)
             \/ ModelReply(t) \/ AfterReply(t) \/ Authorize(t) \/ NextGroup(t)
             \/ GroupDone(t) \/ GroupSaved(t)
      PROVE  ReceiptOK'
  <2>1. /\ UNCHANGED <<records, receipts, minted, orphans, outlived>>
        /\ lastEvent' = lastEvent \/ lastEvent' = Progress(t)
        /\ pc[t] # "idle"
        /\ \E l \in Label \ {"idle", "publish"} : Goto(t, l)
    BY <1>2 DEF AnnounceUser, PrepareResume, StopAtHead, StartTurn, ModelReply, AfterReply,
       Authorize, NextGroup, GroupDone, GroupSaved, Label, InTry
  <2>2. \/ job' = job
        \/ \E s \in Status : job' = [job EXCEPT ![t] = [job[t] EXCEPT !.status = s]]
        \/ \E n \in Nat : job' = [job EXCEPT ![t] = [job[t] EXCEPT !.turn = n]]
    <3>1. CASE StartTurn(t)
      <4>1. job[t].turn + 1 \in Nat
        BY <1>b DEF Job
      <4> QED BY <3>1, <4>1 DEF StartTurn
    <3>2. CASE StopAtHead(t)
      BY <3>2 DEF StopAtHead
    <3> QED BY <1>2, <3>1, <3>2 DEF AnnounceUser, PrepareResume, ModelReply, AfterReply,
               Authorize, NextGroup, GroupDone, GroupSaved, Status
  <2>3. \A v \in Task : job'[v].run = job[v].run /\ (v # t => job'[v] = job[v])
    <3>1. CASE job' = job
      BY <3>1
    <3>2. CASE \E s \in Status : job' = [job EXCEPT ![t] = [job[t] EXCEPT !.status = s]]
      BY <1>a, <1>b, <3>2 DEF Job
    <3>3. CASE \E n \in Nat : job' = [job EXCEPT ![t] = [job[t] EXCEPT !.turn = n]]
      BY <1>a, <1>b, <3>3 DEF Job
    <3> QED BY <2>2, <3>1, <3>2, <3>3
  <2>4. \A v \in Task : pc'[v] # "idle" =>
          /\ pc[v] # "idle" /\ job'[v].run = job[v].run
          /\ pc'[v] = "publish" => pc[v] = "publish" /\ job'[v].status = job[v].status
    BY <1>a, <2>1, <2>3
  <2>5. orphans \subseteq outlived /\ orphans \subseteq 1 .. minted
    BY DEF ReceiptOK
  <2> QED BY <1>c, <2>1, <2>4, <2>5
<1>3. ASSUME NEW t \in Task, CallStep(t) \/ PersistResult(t) \/ Cancel(t) PROVE ReceiptOK'
  <2>1. /\ UNCHANGED <<records, receipts, minted, orphans, outlived, pc>>
        /\ lastEvent' = lastEvent \/ (pc[t] # "idle" /\ lastEvent' = Progress(t))
    BY <1>3 DEF CallStep, OpenCall, RunCall, FinishCall, PersistResult, Cancel
  <2>2. \A v \in Task : job'[v].run = job[v].run /\ job'[v].status = job[v].status
    <3>1. job' = job \/ job' = [job EXCEPT ![t] = [job[t] EXCEPT !.stop = TRUE]]
      BY <1>3 DEF CallStep, OpenCall, RunCall, FinishCall, PersistResult, Cancel
    <3> QED BY <1>a, <1>b, <3>1 DEF Job
  <2>3. orphans \subseteq outlived /\ orphans \subseteq 1 .. minted
    BY DEF ReceiptOK
  <2> QED BY <1>c, <2>1, <2>2, <2>3
<1>4. ASSUME NEW t \in Task, SaveRun(t) PROVE ReceiptOK'
  <2> DEFINE r == job[t].run
  <2>1. /\ UNCHANGED <<receipts, minted, lastEvent, orphans, outlived, job>>
        /\ records' = [records EXCEPT ![r] = job[t].status]
        /\ pc[t] # "idle" /\ pc' = [pc EXCEPT ![t] = "publish"]
    BY <1>4 DEF SaveRun
  <2>2. r \in 1 .. minted /\ Unsealed(r) /\ r \in Run
    BY <1>a, <2>1 DEF ReceiptOK, Run
  <2>3. \A v \in Task \ {t} : pc'[v] = "idle"
    BY <1>a, <2>1 DEF OneServed
  <2>4. records'[r] = job[t].status
    BY <1>a, <2>1, <2>2
  <2>5. \A x \in Run \ {r} : records'[x] = records[x]
    BY <1>a, <2>1
  <2>6. OneReceiptPerRun'
    BY <2>1, <2>2, <2>5 DEF ReceiptOK, OneReceiptPerRun, Unsealed
  <2>7. \A v \in Task : pc'[v] = "publish" => v = t
    BY <2>3
  <2> QED BY <2>1, <2>2, <2>3, <2>4, <2>6, <2>7 DEF ReceiptOK, Unsealed
<1>5. ASSUME NEW t \in Task, Publish(t) PROVE ReceiptOK'
  <2> DEFINE r == job[t].run
  <2>1. /\ UNCHANGED <<records, minted, orphans, outlived>>
        /\ receipts' = [receipts EXCEPT ![r] = Append(receipts[r], job[t].status)]
        /\ lastEvent'.type = "RUN_FINISHED"
        /\ pc[t] = "publish" /\ End({t})
    BY <1>5 DEF Publish, Event
  <2>2. r \in 1 .. minted /\ Unsealed(r) /\ r \in Run /\ records[r] = job[t].status
    BY <1>a, <2>1 DEF ReceiptOK, Run
  <2>3. \A v \in Task : pc'[v] = "idle"
    BY <1>a, <2>1 DEF OneServed, End
  <2>4. r \notin outlived => receipts'[r] = <<records[r]>>
    <3>1. receipts'[r] = Append(receipts[r], job[t].status)
      BY <1>a, <2>1, <2>2
    <3>2. r \notin outlived => receipts[r] = <<>>
      BY <2>2 DEF Unsealed
    <3>3. Append(<<>>, records[r]) = <<records[r]>>
      OBVIOUS
    <3> QED BY <2>2, <3>1, <3>2, <3>3
  <2>5. \A x \in Run \ {r} : receipts'[x] = receipts[x]
    BY <1>a, <2>1
  <2>6. OneReceiptPerRun'
    BY <2>1, <2>4, <2>5 DEF ReceiptOK, OneReceiptPerRun
  <2>7. \A x \in Run : x > minted => receipts'[x] = <<>>
    BY <1>a, <2>2, <2>5 DEF ReceiptOK, Run
  <2> QED BY <2>1, <2>3, <2>6, <2>7 DEF ReceiptOK
<1>6. ASSUME NEW t \in Task, Fail(t) PROVE ReceiptOK'
  <2>1. /\ UNCHANGED <<records, receipts, minted>> /\ pc[t] # "idle"
        /\ lastEvent' = Progress(t) /\ pc' = [pc EXCEPT ![t] = "record"]
        /\ job' = [job EXCEPT ![t] = [job[t] EXCEPT !.status = "ERROR"]]
    BY <1>6 DEF Fail, InTry
  <2>2. job[t].run \in 1 .. minted
    BY <2>1 DEF ReceiptOK
  <2>3. /\ outlived \subseteq outlived' /\ orphans' \subseteq outlived'
        /\ orphans' \subseteq 1 .. minted
    BY <1>6, <2>2 DEF Fail, ReceiptOK
  <2>4. \A v \in Task : job'[v].run = job[v].run /\ (v # t => job'[v] = job[v] /\ pc'[v] = pc[v])
    BY <1>a, <1>b, <2>1 DEF Job
  <2>5. pc'[t] = "record"
    BY <1>a, <2>1
  <2> QED BY <1>c, <2>1, <2>3, <2>4, <2>5
<1>7. ASSUME NEW S \in SUBSET Task, End(S), UNCHANGED <<durable, outlived>>,
             orphans' \subseteq orphans
      PROVE  ReceiptOK'
  <2>1. \A v \in Task : pc'[v] # "idle" => pc'[v] = pc[v] /\ job'[v] = job[v]
    BY <1>7 DEF End
  <2>2. orphans' \subseteq outlived' /\ orphans' \subseteq 1 .. minted
    BY <1>7 DEF ReceiptOK
  <2> QED BY <1>c, <1>7, <2>1, <2>2
<1>8. ASSUME NEW t \in Task, Abort(t) PROVE ReceiptOK'
  <2>1. {t} \in SUBSET Task /\ End({t}) /\ UNCHANGED <<durable, outlived, orphans>>
    BY <1>8 DEF Abort
  <2> QED BY <1>7, <2>1
<1>9. CASE Crash
  BY <1>7, <1>9 DEF Crash
<1>10. ASSUME NEW r \in Run, OrphanEvent(r) PROVE ReceiptOK'
  <2>1. /\ UNCHANGED <<records, receipts, minted, outlived, pc, job>> /\ r \in orphans
        /\ lastEvent' = Event("progress", r) /\ orphans' \subseteq orphans
    BY <1>10 DEF OrphanEvent
  <2>2. orphans' \subseteq outlived' /\ orphans' \subseteq 1 .. minted
    BY <2>1 DEF ReceiptOK
  <2> QED BY <1>c, <2>1, <2>2
<1>11. CASE UNCHANGED vars
  BY <1>11 DEF vars, ReceiptOK, Unsealed, OneReceiptPerRun
<1> QED
  BY <1>1, <1>2, <1>3, <1>4, <1>5, <1>6, <1>8, <1>9, <1>10, <1>11
  DEF Next, LoopStep, Request, ResumeFinished, Fault

\* A run is announced finished at most once and as it is recorded, through any number of
\* failures, crashes and resumes.
THEOREM OneReceiptHolds ==
  ASSUME ~Overlap PROVE Spec => []OneReceiptPerRun
<1>1. Init => ReceiptOK
  BY DEF Init, ReceiptOK, OneReceiptPerRun, Event
<1>2. SerialInv /\ ReceiptOK /\ [Next]_vars => SerialInv' /\ ReceiptOK'
  BY SerialStep, ReceiptStep
<1>3. ReceiptOK => OneReceiptPerRun
  BY DEF ReceiptOK
<1> QED BY <1>1, <1>2, <1>3, SerialInit, PTL DEF Spec

------------------------------------------------------------------------------
(* Results follow the order the model asked in.                            *)

\* The calls of all replies are different ones.
AskedOnce ==
  \A k, l \in DOMAIN messages :
    messages[k].role = "assistant" /\ messages[l].role = "assistant" =>
      \A i \in DOMAIN messages[k].calls, j \in DOMAIN messages[l].calls :
        messages[k].calls[i] = messages[l].calls[j] => k = l /\ i = j

\* A call with a result comes after every earlier call of its reply has one.
InAskedOrder(ms) ==
  \A k \in DOMAIN ms : ms[k].role = "assistant" =>
    \A i, j \in DOMAIN ms[k].calls :
      i < j /\ ms[k].calls[j] \in Answered(ms) => ms[k].calls[i] \in Answered(ms)

\* What is left of a batch is what its reply still lacks, in the order of the reply,
\* and a group has nothing left before it; a model is asked when nothing is left.
RestOf(t) ==
  /\ pc[t] \in {"head", "model"} => Pending(messages) = {}
  /\ pc[t] \in Serving => todo[t].left = Pending(messages)
  /\ pc[t] \in Serving /\ todo[t].left # {} => todo[t].order = OpenOrder(messages)
  /\ \A c \in todo[t].group : \A d \in todo[t].left :
       Before(todo[t].order, d, c) => d \in todo[t].group

TurnOK == AskedOnce /\ InAskedOrder(messages) /\ \A t \in Task : RestOf(t)

\* Which reply is open is settled by the messages that are marks, and only by them.
LEMMA OpenBySave ==
  ASSUME NEW ms \in Seq(Message), NEW m \in Message
  PROVE  /\ m.role = "tool" \/ (m.role = "assistant" /\ m.calls = <<>>) =>
              OpenOrder(Append(ms, m)) = OpenOrder(ms)
         /\ m.role = "assistant" /\ m.calls # <<>> => OpenOrder(Append(ms, m)) = m.calls
<1> DEFINE ns == Append(ms, m)
           n == Len(ms) + 1
           Marks(qs) == {i \in DOMAIN qs : \/ qs[i].role = "user"
                                           \/ qs[i].role = "assistant" /\ qs[i].calls # <<>>}
           Opens(qs) == {i \in Marks(qs) : /\ qs[i].role = "assistant"
                                           /\ \A j \in Marks(qs) : j <= i}
<1>1. /\ Len(ms) \in Nat /\ n \in Nat
      /\ DOMAIN ms = 1 .. Len(ms)
      /\ DOMAIN ns = 1 .. n
      /\ ns[n] = m
      /\ \A i \in DOMAIN ms : ns[i] = ms[i] /\ i \in Nat /\ i < n
  OBVIOUS
<1>2. \A i : i \in DOMAIN ns <=> i = n \/ i \in DOMAIN ms
  BY <1>1
<1>3. \A qs : LastOpen(qs) = IF Opens(qs) = {} THEN 0 ELSE CHOOSE i \in Opens(qs) : TRUE
  BY DEF LastOpen
<1> HIDE DEF ns, n
<1>4. ASSUME m.role = "tool" \/ (m.role = "assistant" /\ m.calls = <<>>)
      PROVE  OpenOrder(ns) = OpenOrder(ms)
  <2>1. Marks(ns) = Marks(ms)
    BY <1>1, <1>2, <1>4
  <2>2. Opens(ns) = Opens(ms)
    BY <1>1, <2>1
  <2>3. LastOpen(ns) = LastOpen(ms)
    BY <1>3, <2>2
  <2>4. LastOpen(ms) # 0 => LastOpen(ms) \in DOMAIN ms
    <3>1. CASE Opens(ms) = {}
      BY <1>3, <3>1
    <3>2. CASE Opens(ms) # {}
      <4>1. LastOpen(ms) \in Opens(ms)
        BY <1>3, <3>2
      <4> QED BY <4>1
    <3> QED BY <3>1, <3>2
  <2> QED BY <1>1, <2>3, <2>4 DEF OpenOrder
<1>5. ASSUME m.role = "assistant", m.calls # <<>>
      PROVE  OpenOrder(ns) = m.calls
  <2>1. n \in Marks(ns) /\ \A i \in Marks(ns) : i \in Nat /\ i <= n
    BY <1>1, <1>2, <1>5
  <2>2. n \in Opens(ns) /\ \A i \in Opens(ns) : i = n
    BY <1>1, <1>5, <2>1
  <2>3. LastOpen(ns) = n /\ n # 0
    BY <1>1, <1>3, <2>2
  <2> QED BY <1>1, <2>3 DEF OpenOrder
<1> QED BY <1>4, <1>5 DEF ns

\* An order that is open is the order of one reply.
LEMMA OpenReply ==
  ASSUME NEW ms \in Seq(Message), OpenOrder(ms) # <<>>
  PROVE  \E k \in DOMAIN ms : ms[k].role = "assistant" /\ ms[k].calls = OpenOrder(ms)
<1> DEFINE marks == {i \in DOMAIN ms : \/ ms[i].role = "user"
                                       \/ ms[i].role = "assistant" /\ ms[i].calls # <<>>}
           open == {i \in marks : /\ ms[i].role = "assistant"
                                  /\ \A j \in marks : j <= i}
<1>1. LastOpen(ms) # 0
  BY DEF OpenOrder
<1>2. LastOpen(ms) \in open
  BY <1>1 DEF LastOpen
<1> QED BY <1>1, <1>2 DEF OpenOrder

\* A reply asks for every call once.
LEMMA ReplyInjective ==
  ASSUME NEW t \in Task, ModelReply(t)
  PROVE  \E s \in Seq(Call) :
           /\ messages' = Append(messages, Assistant(s))
           /\ todo' = [todo EXCEPT ![t] = Batch(s)]
           /\ Range(s) \cap Asked(messages) = {}
           /\ \A i, j \in DOMAIN s : s[i] = s[j] => i = j
<1>1. PICK s \in IF job[t].stop THEN {<<>>} ELSE Replies :
        /\ messages' = Append(messages, Assistant(s))
        /\ todo' = [todo EXCEPT ![t] = Batch(s)]
  BY DEF ModelReply
<1>2. /\ s \in Seq(Call) /\ Range(s) \cap Asked(messages) = {}
      /\ \A i, j \in DOMAIN s : s[i] = s[j] => i = j
  <2>1. CASE s = <<>>
    BY <2>1, EmptySeq DEF Range
  <2>2. CASE s \in Replies
    <3>1. IsInjective(s)
      BY <2>2 DEF Replies
    <3>2. s \in Seq(Call) /\ Range(s) \cap Asked(messages) = {}
      BY <2>2, RepliesFresh
    <3> QED BY <3>1, <3>2 DEF IsInjective
  <2> QED BY <1>1, <2>1, <2>2
<1> QED BY <1>1, <1>2

\* Of a batch without repetitions, what comes before a member of the next group is in it.
LEMMA NextGroupClosed ==
  ASSUME NEW td \in Todo, td.left \subseteq Range(td.order), td.left # {},
         \A i, j \in DOMAIN td.order : td.order[i] = td.order[j] => i = j,
         NEW c \in NextGroupOf(td), NEW d \in td.left, Before(td.order, d, c)
  PROVE  d \in NextGroupOf(td)
<1> DEFINE first == First(td.order, td.left)
           run == {x \in td.left : \A y \in td.left :
                     Before(td.order, y, x) => y \in Together(td)}
<1>0. td.order \in Seq(Call) /\ DOMAIN td.order \subseteq Nat
  BY DEF Todo
<1>1. first \in td.left /\ \A x \in td.left : Before(td.order, first, x)
  BY <1>0, FirstMember
<1>2. NextGroupOf(td) = IF first \in Together(td) THEN run ELSE {first}
  BY DEF NextGroupOf
<1>3. PICK i, j \in DOMAIN td.order : i <= j /\ td.order[i] = d /\ td.order[j] = c
  BY DEF Before
<1>4. CASE first \in Together(td)
  <2>1. ASSUME NEW y \in td.left, Before(td.order, y, d) PROVE Before(td.order, y, c)
    <3>1. PICK k, l \in DOMAIN td.order : k <= l /\ td.order[k] = y /\ td.order[l] = d
      BY <2>1 DEF Before
    <3>2. k <= j
      BY <1>0, <1>3, <3>1
    <3> QED BY <1>3, <3>1, <3>2 DEF Before
  <2>2. c \in run
    BY <1>2, <1>4
  <2> QED BY <1>2, <1>4, <2>1, <2>2
<1>5. CASE first \notin Together(td)
  <2>1. c = first
    BY <1>2, <1>5
  <2>2. PICK k, l \in DOMAIN td.order : k <= l /\ td.order[k] = c /\ td.order[l] = d
    BY <1>1, <2>1 DEF Before
  <2>3. k = j /\ l = i
    BY <1>3, <2>2
  <2>4. i = j
    BY <1>0, <1>3, <2>2, <2>3
  <2> QED BY <1>2, <1>3, <1>5, <2>1, <2>4
<1> QED BY <1>4, <1>5

\* The order of a batch has no repetitions.
LEMMA OrderOnce ==
  ASSUME messages \in Seq(Message), AskedOnce
  PROVE  \A i, j \in DOMAIN OpenOrder(messages) :
           OpenOrder(messages)[i] = OpenOrder(messages)[j] => i = j
<1>1. CASE OpenOrder(messages) = <<>>
  BY <1>1
<1>2. CASE OpenOrder(messages) # <<>>
  <2>1. PICK k \in DOMAIN messages :
          messages[k].role = "assistant" /\ messages[k].calls = OpenOrder(messages)
    BY <1>2, OpenReply
  <2> QED BY <2>1 DEF AskedOnce
<1> QED BY <1>1, <1>2

LEMMA AskedOnceStep ==
  ASSUME SerialInv, AskedOnce, [Next]_vars
  PROVE  AskedOnce'
<1>1. messages \in Seq(Message) /\ TypeOK /\ BatchOK
  BY DEF SerialInv, TypeOK
<1> DEFINE n == Len(messages) + 1
<1>2. ASSUME NEW m, messages' = Append(messages, m)
      PROVE  /\ \A i : i \in DOMAIN messages' <=> i = n \/ i \in DOMAIN messages
             /\ n \notin DOMAIN messages
             /\ messages'[n] = m
             /\ \A i \in DOMAIN messages : messages'[i] = messages[i]
  BY <1>1, <1>2
<1> HIDE DEF n
<1>3. ASSUME NEW m, messages' = Append(messages, m), m.role # "assistant"
      PROVE  AskedOnce'
  BY <1>2, <1>3 DEF AskedOnce
<1>4. CASE messages' = messages
  BY <1>4 DEF AskedOnce
<1>5. CASE messages' = Append(messages, User)
  BY <1>3, <1>5 DEF User
<1>6. ASSUME NEW c, messages' = Append(messages, ToolResult(c))
      PROVE  AskedOnce'
  BY <1>3, <1>6 DEF ToolResult
<1>7. ASSUME NEW t \in Task, ModelReply(t) PROVE AskedOnce'
  <2>1. PICK s \in Seq(Call) : /\ messages' = Append(messages, Assistant(s))
                               /\ Range(s) \cap Asked(messages) = {}
                               /\ \A i, j \in DOMAIN s : s[i] = s[j] => i = j
    BY <1>7, ReplyInjective
  <2>2. messages'[n].calls = s
    BY <1>2, <2>1 DEF Assistant
  <2>3. ASSUME NEW k \in DOMAIN messages, messages[k].role = "assistant",
               NEW i \in DOMAIN messages[k].calls, NEW j \in DOMAIN s
        PROVE  messages[k].calls[i] # s[j]
    <3>1. messages[k].calls[i] \in Asked(messages)
      BY <2>3 DEF Asked, Named, Range
    <3>2. s[j] \in Range(s)
      BY DEF Range
    <3> QED BY <2>1, <3>1, <3>2
  <2> SUFFICES ASSUME NEW k \in DOMAIN messages', NEW l \in DOMAIN messages',
                      messages'[k].role = "assistant", messages'[l].role = "assistant",
                      NEW i \in DOMAIN messages'[k].calls, NEW j \in DOMAIN messages'[l].calls,
                      messages'[k].calls[i] = messages'[l].calls[j]
               PROVE  k = l /\ i = j
    BY DEF AskedOnce
  <2>4. CASE k = n /\ l = n
    BY <2>1, <2>2, <2>4
  <2>5. CASE k = n /\ l \in DOMAIN messages
    BY <1>2, <2>1, <2>2, <2>3, <2>5
  <2>6. CASE k \in DOMAIN messages /\ l = n
    BY <1>2, <2>1, <2>2, <2>3, <2>6
  <2>7. CASE k \in DOMAIN messages /\ l \in DOMAIN messages
    BY <1>2, <2>1, <2>7 DEF AskedOnce
  <2> QED BY <1>2, <2>1, <2>4, <2>5, <2>6, <2>7
<1> QED BY <1>1, <1>4, <1>5, <1>6, <1>7, Saves

LEMMA AskedOrderStep ==
  ASSUME SerialInv, TurnOK, [Next]_vars
  PROVE  InAskedOrder(messages')
<1>1. /\ messages \in Seq(Message) /\ TypeOK /\ BatchOK
      /\ InAskedOrder(messages) /\ AskedOnce
      /\ Answered(messages) \subseteq Asked(messages)
  BY DEF SerialInv, SerialOK, TypeOK, TurnOK
<1> DEFINE n == Len(messages) + 1
<1>2. ASSUME NEW m, messages' = Append(messages, m)
      PROVE  /\ \A i : i \in DOMAIN messages' <=> i = n \/ i \in DOMAIN messages
             /\ messages'[n] = m
             /\ \A i \in DOMAIN messages : messages'[i] = messages[i]
  BY <1>1, <1>2
<1> HIDE DEF n
<1>3. CASE messages' = messages
  BY <1>1, <1>3
<1>4. CASE messages' = Append(messages, User)
  <2>1. Answered(messages') = Answered(messages)
    BY <1>1, <1>4, NamedBySave
  <2>2. User.role # "assistant"
    BY DEF User
  <2> QED BY <1>1, <1>2, <1>4, <2>1, <2>2 DEF InAskedOrder
<1>5. ASSUME NEW t \in Task, ModelReply(t) PROVE InAskedOrder(messages')
  <2>1. PICK s \in Seq(Call) : /\ messages' = Append(messages, Assistant(s))
                               /\ Range(s) \cap Asked(messages) = {}
    BY <1>5, ReplyInjective
  <2>2. Answered(messages') = Answered(messages)
    BY <1>1, <2>1, NamedBySave
  <2>3. messages'[n].calls = s
    BY <1>2, <2>1 DEF Assistant
  <2>4. \A j \in DOMAIN s : s[j] \notin Answered(messages')
    BY <1>1, <2>1, <2>2 DEF Range
  <2> QED BY <1>1, <1>2, <2>1, <2>2, <2>3, <2>4 DEF InAskedOrder
<1>6. ASSUME NEW t \in Task, PersistResult(t) PROVE InAskedOrder(messages')
  <2> DEFINE order == todo[t].order
  <2>1. PICK c \in todo[t].group :
          /\ c \in Call /\ c \in todo[t].left
          /\ c = First(order, todo[t].group)
          /\ messages' = Append(messages, ToolResult(c))
    BY <1>1, <1>6, ResultShape
  <2>2. /\ order = OpenOrder(messages) /\ todo[t].left = Pending(messages)
        /\ \A d \in todo[t].left : Before(order, d, c) => d \in todo[t].group
    BY <1>6, <2>1 DEF PersistResult, TurnOK, RestOf, Serving
  <2>3. BatchOf(t) /\ todo[t] \in Todo
    BY <1>1 DEF BatchOK, TypeOK
  <2>4. order \in Seq(Call) /\ DOMAIN order \subseteq Nat /\ todo[t].group \subseteq Range(order)
    BY <2>3 DEF BatchOf, Todo
  <2>5. \A d \in todo[t].group : Before(order, c, d)
    BY <2>1, <2>4, FirstMember
  <2>6. PICK j0 \in DOMAIN order : order[j0] = c
    BY <2>1, <2>4 DEF Range
  <2>7. PICK k0 \in DOMAIN messages :
          messages[k0].role = "assistant" /\ messages[k0].calls = order
    BY <1>1, <2>2, <2>6, OpenReply
  <2>8. Answered(messages') = Answered(messages) \cup {c}
    BY <1>1, <2>1, NamedBySave
  <2>9. ToolResult(c).role # "assistant"
    BY DEF ToolResult
  <2> HIDE DEF order
  <2> SUFFICES ASSUME NEW k \in DOMAIN messages, messages[k].role = "assistant",
                      NEW i \in DOMAIN messages[k].calls, NEW j \in DOMAIN messages[k].calls,
                      i < j, messages[k].calls[j] \in Answered(messages')
               PROVE  messages[k].calls[i] \in Answered(messages')
    BY <1>2, <2>1, <2>9 DEF InAskedOrder
  <2>10. CASE messages[k].calls[j] \in Answered(messages)
    BY <1>1, <2>8, <2>10 DEF InAskedOrder
  <2>11. CASE messages[k].calls[j] = c
    <3>1. k = k0 /\ j = j0
      BY <1>1, <2>6, <2>7, <2>11 DEF AskedOnce
    <3>2. i \in DOMAIN order /\ messages[k].calls[i] = order[i] /\ i < j0
      BY <2>7, <3>1
    <3>3. Before(order, order[i], c)
      BY <2>4, <2>6, <3>2 DEF Before
    <3>4. order[i] \notin todo[t].group
      <4>1. SUFFICES ASSUME order[i] \in todo[t].group PROVE FALSE
        OBVIOUS
      <4>2. PICK a, b \in DOMAIN order : a <= b /\ order[a] = c /\ order[b] = order[i]
        BY <2>5, <4>1 DEF Before
      <4>3. a = j0 /\ b = i
        BY <1>1, <2>6, <2>7, <3>2, <4>2 DEF AskedOnce
      <4> QED BY <2>4, <3>2, <4>2, <4>3
    <3>5. order[i] \notin Pending(messages)
      BY <2>2, <3>3, <3>4
    <3> QED BY <2>2, <2>8, <3>2, <3>5 DEF Pending, Range
  <2> QED BY <2>8, <2>10, <2>11
<1> QED BY <1>1, <1>3, <1>4, <1>5, <1>6, Saves

LEMMA RestStep ==
  ASSUME ~Overlap, SerialInv, TurnOK, [Next]_vars, NEW u \in Task
  PROVE  RestOf(u)'
<1> USE DEF durable, volatile, history, Goto
<1>a. /\ pc \in [Task -> Label] /\ todo \in [Task -> Todo] /\ messages \in Seq(Message)
      /\ RestOf(u) /\ TypeOK /\ BatchOK /\ todo[u] \in Todo
      /\ \A i, j \in DOMAIN OpenOrder(messages) :
           OpenOrder(messages)[i] = OpenOrder(messages)[j] => i = j
  BY OrderOnce DEF SerialInv, TypeOK, TurnOK
\* Outside a group being served there is no group to compare with the rest.
<1>b. pc'[u] \notin {"calls", "persist"} => todo'[u].group = {}
  <2>1. BatchOf(u)'
    BY <1>a, BatchStep DEF BatchOK
  <2> QED BY <2>1 DEF BatchOf
\* u has no batch and asks no model.
<1>c. ASSUME pc'[u] \notin Serving \cup {"head", "model"} PROVE RestOf(u)'
  BY <1>b, <1>c DEF RestOf, Serving
\* u's batch stays, or what it serves stays.
<1>d. ASSUME messages' = messages, pc[u] \in Serving, pc'[u] \in Serving,
             todo'[u].left = todo[u].left, todo'[u].order = todo[u].order,
             todo'[u].group = todo[u].group \/ todo'[u].group = {}
      PROVE  RestOf(u)'
  BY <1>a, <1>d DEF RestOf, Serving
<1>e. ASSUME messages' = messages, pc'[u] = pc[u], todo'[u] = todo[u] PROVE RestOf(u)'
  BY <1>a, <1>e DEF RestOf
<1>f. ASSUME messages' = messages, pc'[u] \in {"head", "model"}, Pending(messages) = {}
      PROVE  RestOf(u)'
  BY <1>b, <1>f DEF RestOf, Serving
\* u is not the task served.
<1>g. ASSUME NEW t \in Task, pc[t] # "idle", u # t, pc'[u] = pc[u] PROVE RestOf(u)'
  BY <1>c, <1>g, OthersIdle DEF Serving
<1>1. ASSUME NEW t \in Task, SendMessage(t) \/ Resume(t) PROVE RestOf(u)'
  <2>1. pc'[u] \in {"idle", "announce", "load"}
    BY <1>1, <1>a DEF SendMessage, Resume, MayResume, MayStart
  <2> QED BY <1>c, <2>1 DEF Serving
<1>2. ASSUME NEW t \in Task, AnnounceUser(t) PROVE RestOf(u)'
  BY <1>2, <1>a, <1>c, <1>g DEF AnnounceUser, Serving
<1>3. ASSUME NEW t \in Task, PrepareResume(t) PROVE RestOf(u)'
  <2>1. CASE u # t
    BY <1>3, <1>a, <1>g, <2>1 DEF PrepareResume
  <2>2. CASE u = t /\ pc'[u] = "record"
    BY <1>c, <2>2 DEF Serving
  <2>3. CASE u = t /\ pc'[u] = "head" /\ Pending(messages) = {}
    BY <1>3, <1>f, <2>3 DEF PrepareResume
  <2>4. CASE u = t /\ pc'[u] = "authorize" /\
             todo' = [todo EXCEPT ![t] = [NoTodo EXCEPT !.order = OpenOrder(messages),
                                                        !.left = Pending(messages)]]
    <3>1. todo'[u].left = Pending(messages) /\ todo'[u].order = OpenOrder(messages)
      BY <1>a, <2>4 DEF NoTodo
    <3>2. messages' = messages
      BY <1>3 DEF PrepareResume
    <3> QED BY <1>b, <2>4, <3>1, <3>2 DEF RestOf
  <2> QED BY <1>3, <1>a, <2>1, <2>2, <2>3, <2>4 DEF PrepareResume
<1>4. ASSUME NEW t \in Task, StopAtHead(t) \/ SaveRun(t) PROVE RestOf(u)'
  BY <1>4, <1>a, <1>c, <1>g DEF StopAtHead, SaveRun, Serving
<1>5. ASSUME NEW t \in Task, StartTurn(t) PROVE RestOf(u)'
  <2>1. CASE u # t
    BY <1>5, <1>a, <1>g, <2>1 DEF StartTurn
  <2>2. CASE u = t
    BY <1>5, <1>a, <1>f, <2>2 DEF StartTurn, RestOf
  <2> QED BY <2>1, <2>2
<1>6. ASSUME NEW t \in Task, ModelReply(t) PROVE RestOf(u)'
  <2>1. PICK s \in Seq(Call) :
          /\ messages' = Append(messages, Assistant(s))
          /\ todo' = [todo EXCEPT ![t] = Batch(s)]
          /\ Range(s) \cap Asked(messages) = {}
    BY <1>6, ReplyInjective
  <2>2. pc[t] = "model" /\ pc' = [pc EXCEPT ![t] = "replied"]
    BY <1>6 DEF ModelReply
  <2>3. CASE u # t
    BY <1>a, <1>g, <2>2, <2>3
  <2>4. CASE u = t
    <3>1. todo'[u].left = Range(s) /\ todo'[u].order = s
      BY <1>a, <2>1, <2>4 DEF Batch, NoTodo
    <3>2. Answered(messages') = Answered(messages)
      BY <1>a, <2>1, NamedBySave
    <3>3. Assistant(s) \in Message /\ Assistant(s).role = "assistant" /\ Assistant(s).calls = s
      BY DEF Assistant, Message
    <3>4. Range(s) \cap Answered(messages) = {}
      BY <2>1 DEF SerialInv, SerialOK
    <3>5. CASE s = <<>>
      <4>1. OpenOrder(messages') = OpenOrder(messages)
        BY <1>a, <2>1, <3>3, <3>5, OpenBySave
      <4>2. Pending(messages') = Pending(messages) /\ Pending(messages) = {}
        BY <1>a, <2>2, <2>4, <3>2, <4>1 DEF Pending, RestOf
      <4>3. Range(s) = {}
        BY <3>5 DEF Range
      <4>4. todo'[u].left = Pending(messages') /\ todo'[u].left = {}
        BY <3>1, <4>2, <4>3
      <4> QED BY <1>b, <1>a, <2>2, <2>4, <4>4 DEF RestOf
    <3>6. CASE s # <<>>
      <4>1. OpenOrder(messages') = s
        BY <1>a, <2>1, <3>3, <3>6, OpenBySave
      <4>2. Pending(messages') = Range(s)
        BY <3>2, <3>4, <4>1 DEF Pending
      <4> QED BY <1>b, <1>a, <2>2, <2>4, <3>1, <4>1, <4>2 DEF RestOf
    <3> QED BY <3>5, <3>6
  <2> QED BY <2>3, <2>4
<1>7. ASSUME NEW t \in Task, AfterReply(t) PROVE RestOf(u)'
  <2>1. CASE u # t
    BY <1>7, <1>a, <1>g, <2>1 DEF AfterReply
  <2>2. CASE u = t /\ pc'[u] = "record"
    BY <1>c, <2>2 DEF Serving
  <2>3. CASE u = t /\ pc'[u] # "record"
    BY <1>7, <1>a, <1>d, <2>3 DEF AfterReply, Serving
  <2> QED BY <2>1, <2>2, <2>3
<1>8. ASSUME NEW t \in Task, Authorize(t) PROVE RestOf(u)'
  <2>1. PICK refused : todo' = [todo EXCEPT ![t] = [todo[t] EXCEPT !.refused = refused]]
    BY <1>8 DEF Authorize
  <2>2. /\ todo'[u].left = todo[u].left /\ todo'[u].order = todo[u].order
        /\ todo'[u].group = todo[u].group
    BY <1>a, <2>1 DEF Todo
  <2>3. CASE u # t
    BY <1>8, <1>a, <1>g, <2>3 DEF Authorize
  <2>4. CASE u = t
    BY <1>8, <1>a, <1>d, <2>2, <2>4 DEF Authorize, Serving
  <2> QED BY <2>3, <2>4
<1>9. ASSUME NEW t \in Task, NextGroup(t) PROVE RestOf(u)'
  <2>1. CASE u # t
    BY <1>9, <1>a, <1>g, <2>1 DEF NextGroup
  <2>2. CASE u = t /\ todo[t].left = {}
    <3>1. Pending(messages) = {}
      BY <1>9, <1>a, <2>2 DEF NextGroup, RestOf, Serving
    <3> QED BY <1>9, <1>a, <1>f, <2>2, <3>1 DEF NextGroup
  <2>3. CASE u = t /\ todo[t].left # {}
    <3>1. /\ todo'[u] = [todo[u] EXCEPT !.group = NextGroupOf(todo[u])]
          /\ pc[u] = "groups" /\ pc'[u] \in {"persist", "calls"}
          /\ messages' = messages
      BY <1>9, <1>a, <2>3 DEF NextGroup
    <3>2. /\ todo'[u].left = todo[u].left /\ todo'[u].order = todo[u].order
          /\ todo'[u].group = NextGroupOf(todo[u])
      BY <1>a, <3>1 DEF Todo
    <3>3. todo[u].left = Pending(messages) /\ todo[u].order = OpenOrder(messages)
      BY <1>a, <2>3, <3>1 DEF RestOf, Serving
    <3>4. todo[u].left \subseteq Range(todo[u].order)
      BY <1>a DEF BatchOK, BatchOf
    <3>5. \A c \in NextGroupOf(todo[u]) : \A d \in todo[u].left :
            Before(todo[u].order, d, c) => d \in NextGroupOf(todo[u])
      BY <1>a, <2>3, <3>3, <3>4, NextGroupClosed
    <3> QED BY <3>1, <3>2, <3>3, <3>5 DEF RestOf
  <2> QED BY <2>1, <2>2, <2>3
<1>10. ASSUME NEW t \in Task, CallStep(t) \/ Cancel(t) PROVE RestOf(u)'
  BY <1>10, <1>e DEF CallStep, OpenCall, RunCall, FinishCall, Cancel
<1>11. ASSUME NEW t \in Task, GroupDone(t) \/ GroupSaved(t) PROVE RestOf(u)'
  <2>1. CASE u # t
    BY <1>11, <1>a, <1>g, <2>1 DEF GroupDone, GroupSaved
  <2>2. CASE u = t
    BY <1>11, <1>a, <1>d, <2>2 DEF GroupDone, GroupSaved, Serving
  <2> QED BY <2>1, <2>2
<1>12. ASSUME NEW t \in Task, PersistResult(t) PROVE RestOf(u)'
  <2>1. pc[t] = "persist" /\ pc' = pc
    BY <1>12 DEF PersistResult
  <2>2. CASE u # t
    BY <1>g, <2>1, <2>2
  <2>3. CASE u = t
    <3>1. PICK c \in Call :
            /\ messages' = Append(messages, ToolResult(c))
            /\ todo' = [todo EXCEPT ![t] = [todo[t] EXCEPT !.group = todo[t].group \ {c},
                                                           !.left = todo[t].left \ {c}]]
      BY <1>a, <1>12, ResultShape
    <3>2. /\ todo'[u].left = todo[u].left \ {c} /\ todo'[u].order = todo[u].order
          /\ todo'[u].group = todo[u].group \ {c}
      BY <1>a, <2>3, <3>1 DEF Todo
    <3>3. ToolResult(c) \in Message /\ ToolResult(c).role = "tool"
      BY DEF ToolResult, Message
    <3>4. OpenOrder(messages') = OpenOrder(messages)
      BY <1>a, <3>1, <3>3, OpenBySave
    <3>5. Answered(messages') = Answered(messages) \cup {c}
      BY <1>a, <3>1, NamedBySave
    <3>6. Pending(messages') = Pending(messages) \ {c}
      BY <3>4, <3>5 DEF Pending
    <3> QED BY <1>a, <2>1, <2>3, <3>2, <3>4, <3>6 DEF RestOf, Serving
  <2> QED BY <2>2, <2>3
<1>13. ASSUME NEW t \in Task, Publish(t) PROVE RestOf(u)'
  <2>1. pc[t] # "idle" /\ pc'[u] = IF u = t THEN "idle" ELSE pc[u]
    BY <1>13, <1>a DEF Publish, End
  <2> QED BY <1>c, <1>g, <2>1 DEF Serving
<1>14. ASSUME NEW t \in Task, Fail(t) PROVE RestOf(u)'
  <2>1. pc[t] # "idle" /\ pc'[u] = IF u = t THEN "record" ELSE pc[u]
    BY <1>14, <1>a DEF Fail, InTry
  <2> QED BY <1>c, <1>g, <2>1 DEF Serving
<1>15. ASSUME NEW t \in Task, Abort(t) PROVE RestOf(u)'
  <2>1. pc[t] # "idle" /\ pc'[u] = IF u = t THEN "idle" ELSE pc[u]
    BY <1>15, <1>a DEF Abort, End
  <2> QED BY <1>c, <1>g, <2>1 DEF Serving
<1>16. CASE Crash
  <2>1. pc'[u] = "idle"
    BY <1>16 DEF Crash, End
  <2> QED BY <1>c, <2>1 DEF Serving
<1>17. CASE (\E r \in Run : OrphanEvent(r)) \/ UNCHANGED vars
  BY <1>17, <1>e DEF OrphanEvent, vars
<1> QED BY <1>1, <1>2, <1>3, <1>4, <1>5, <1>6, <1>7, <1>8, <1>9, <1>10, <1>11, <1>12,
           <1>13, <1>14, <1>15, <1>16, <1>17
        DEF Next, LoopStep, Request, ResumeFinished, Fault

\* Every call of the turn has its result when a model is asked, and results are saved in
\* the order the model asked in, through stops, failures, crashes and resumes.
THEOREM CurrentTurnHolds ==
  ASSUME ~Overlap PROVE Spec => []CurrentTurnAnswered
<1>1. Init => TurnOK
  <2> SUFFICES ASSUME Init PROVE TurnOK
    OBVIOUS
  <2>1. DOMAIN messages = {} /\ \A t \in Task : pc[t] = "idle" /\ todo[t].group = {}
    BY DEF Init, NoTodo
  <2> QED BY <2>1 DEF TurnOK, AskedOnce, InAskedOrder, RestOf, Serving
<1>2. SerialInv /\ TurnOK /\ [Next]_vars => SerialInv' /\ TurnOK'
  BY SerialStep, AskedOnceStep, AskedOrderStep, RestStep DEF TurnOK
<1>3. TurnOK => CurrentTurnAnswered
  BY DEF TurnOK, RestOf, Pending, InAskedOrder, CurrentTurnAnswered
<1> QED BY <1>1, <1>2, <1>3, SerialInit, PTL DEF Spec

==============================================================================
