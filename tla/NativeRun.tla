------------------------------ MODULE NativeRun ------------------------------
(***************************************************************************)
(* One session of agent-native: AgentService.send_message / resume_run and *)
(* the AgentLoop.run each of them drives, over the session's durable       *)
(* messages, event log and run records.                                    *)
(*                                                                         *)
(* A task is one coroutine running send_message or resume_run.  It is cut  *)
(* at every await between two durable or observable effects, so that a     *)
(* stop, an exception, a cancelled coroutine or a crash of the process can *)
(* fall between them.  Text, usage, tracing, hooks that only observe and   *)
(* compaction are left out.                                                *)
(***************************************************************************)
EXTENDS Naturals, Sequences, FiniteSets, Functions

CONSTANTS Task,             \* coroutines serving this session
          Call,             \* tool calls a model can ask for, by id
          ReadOnly,         \* the calls of read-only tools
          MaxTurns,         \* Limits.max_turns
          MaxParallelTools, \* Limits.max_parallel_tools
          Overlap,          \* may a request start while another is served?
          MaxRuns,          \* bound: run ids minted
          MaxFaults,        \* bound: exceptions, cancelled tasks and crashes
          MaxBatch          \* bound: tool calls in one reply

ASSUME CallsAssumption == ReadOnly \subseteq Call
ASSUME LimitsAssumption == MaxTurns \in Nat /\ MaxParallelTools \in Nat
ASSUME OverlapAssumption == Overlap \in BOOLEAN
ASSUME BoundsAssumption == MaxRuns \in Nat /\ MaxFaults \in Nat /\ MaxBatch \in Nat

VARIABLES
  messages,  \* the session's saved messages, oldest first
  lastEvent, \* the last event of the session's log, helper runs left out
  records,   \* run id -> the status save_run stored for it
  receipts,  \* run id -> statuses its RUN_FINISHED events carried
  minted,    \* run ids minted so far
  pc,        \* task -> where its coroutine is suspended
  job,       \* task -> the run it serves
  todo,      \* task -> the tool calls of _run_calls still to be answered
  phase,     \* task -> call -> how far _run_one_call got with it
  orphans    \* runs that ended with a gathered sibling call still running

\* What happened, for the properties only: no action reads these.
VARIABLES
  effects,    \* call -> times its side effect happened
  lost,       \* call -> times its effect was cut off before its result was saved
  lateWrites, \* task -> side effects begun after the stop was requested
  halted,     \* runs whose reply was cut off by a stop
  outlived,   \* runs that have ever been in orphans
  faults      \* faults so far

durable == <<messages, lastEvent, records, receipts, minted>>
volatile == <<pc, job, todo, phase, orphans>>
history == <<effects, lost, lateWrites, halted, outlived, faults>>
vars == <<durable, volatile, history>>

Run == 1 .. MaxRuns
Status == {"RUNNING", "FINISHED", "CANCELLED", "LIMIT_REACHED", "ERROR"}
Write == Call \ ReadOnly

\* The suspension points inside the try of AgentLoop.run, and all of them.
InTry == {"load", "head", "model", "replied", "authorize", "groups", "calls", "persist"}
Label == InTry \cup {"idle", "announce", "record", "publish"}
Phase == {"waiting", "admitted", "running", "ran", "skipped"}

LogEntry == [type : {"none", "progress", "RUN_FINISHED"}, run : 0 .. MaxRuns]
Job == [run : 0 .. MaxRuns, resuming : BOOLEAN, turn : 0 .. MaxTurns,
        stop : BOOLEAN, status : Status]
Todo == [order : Seq(Call), left : SUBSET Call, refused : SUBSET Call,
         group : SUBSET Call]

------------------------------------------------------------------------------
(* Messages.  Message.tool_calls() serves an assistant message and a tool  *)
(* result alike, so a message is its role and the calls it names.          *)

Message == [role : {"user", "assistant", "tool"}, calls : Seq(Call)]

User == [role |-> "user", calls |-> <<>>]
Assistant(calls) == [role |-> "assistant", calls |-> calls]
ToolResult(c) == [role |-> "tool", calls |-> <<c>>]

Named(ms, role) ==
  UNION {Range(ms[i].calls) : i \in {j \in DOMAIN ms : ms[j].role = role}}
Asked(ms) == Named(ms, "assistant")
Answered(ms) == Named(ms, "tool")
IsValid(ms) == Asked(ms) \subseteq Answered(ms)

\* Index of the assistant message whose calls the tail still answers, 0 if a
\* user message comes later.
LastOpen(ms) ==
  LET marks == {i \in DOMAIN ms : \/ ms[i].role = "user"
                                  \/ ms[i].role = "assistant" /\ ms[i].calls # <<>>}
      open == {i \in marks : /\ ms[i].role = "assistant"
                             /\ \A j \in marks : j <= i}
  IN IF open = {} THEN 0 ELSE CHOOSE i \in open : TRUE

OpenOrder(ms) == IF LastOpen(ms) = 0 THEN <<>> ELSE ms[LastOpen(ms)].calls
\* Mutant of Pending: resume runs the whole batch again.
PendingIgnoresResults(ms) == Range(OpenOrder(ms))

Pending(ms) == Range(OpenOrder(ms)) \ Answered(ms)

FinalAnswerSaved(ms) ==
  /\ ms # <<>>
  /\ ms[Len(ms)].role = "assistant"
  /\ ms[Len(ms)].calls = <<>>

Event(type, run) == [type |-> type, run |-> run]
Progress(t) == Event("progress", job[t].run)

------------------------------------------------------------------------------
(* Jobs and tool batches.                                                  *)

NoJob == [run |-> 0, resuming |-> FALSE, turn |-> 0, stop |-> FALSE,
          status |-> "RUNNING"]
NoTodo == [order |-> <<>>, left |-> {}, refused |-> {}, group |-> {}]
Settled == [c \in Call |-> "waiting"]

\* c is asked for no later than d in the batch
Before(order, c, d) ==
  \E i, j \in DOMAIN order : i <= j /\ order[i] = c /\ order[j] = d

First(order, S) == CHOOSE c \in S : \A d \in S : Before(order, c, d)

\* Mutant of Together: every call may share a group.
TogetherAlways(td) == td.left

\* A refusal runs nothing and a read disturbs nothing: these may share a group.
Together(td) == td.refused \cup ReadOnly

\* _group_calls, one group at a time.
NextGroupOf(td) ==
  LET first == First(td.order, td.left)
      run == {c \in td.left : \A d \in td.left :
                 Before(td.order, d, c) => d \in Together(td)}
  IN IF first \in Together(td) THEN run ELSE {first}

\* Mutant of Slots: the limit is taken as it is given.
SlotsUnclamped == MaxParallelTools

\* asyncio.Semaphore(max(1, max_parallel_tools)), taken only in a shared group
Slots == IF MaxParallelTools > 1 THEN MaxParallelTools ELSE 1

InFlight(t) == {c \in todo[t].group : phase[t][c] = "running"}

HasSlot(t) ==
  Cardinality(todo[t].group) > 1 => Cardinality(InFlight(t)) < Slots

\* Side effects that happened and whose result is not saved.
Unsaved(t) == {c \in Write : phase[t][c] \in {"running", "ran"}}

------------------------------------------------------------------------------
Init ==
  /\ messages = <<>>
  /\ lastEvent = Event("none", 0)
  /\ records = [r \in Run |-> "RUNNING"]
  /\ receipts = [r \in Run |-> <<>>]
  /\ minted = 0
  /\ pc = [t \in Task |-> "idle"]
  /\ job = [t \in Task |-> NoJob]
  /\ todo = [t \in Task |-> NoTodo]
  /\ phase = [t \in Task |-> Settled]
  /\ orphans = {}
  /\ effects = [c \in Call |-> 0]
  /\ lost = [c \in Call |-> 0]
  /\ lateWrites = [t \in Task |-> 0]
  /\ halted = {}
  /\ outlived = {}
  /\ faults = 0

Goto(t, label) == pc' = [pc EXCEPT ![t] = label]

MayStart(t) == pc[t] = "idle" /\ (Overlap \/ \A u \in Task : pc[u] = "idle")

Start(t, run, resuming) ==
  job' = [job EXCEPT ![t] = [NoJob EXCEPT !.run = run, !.resuming = resuming]]

\* The coroutines of S are gone, and everything they held in memory with them.
End(S) ==
  /\ pc' = [t \in Task |-> IF t \in S THEN "idle" ELSE pc[t]]
  /\ job' = [t \in Task |-> IF t \in S THEN NoJob ELSE job[t]]
  /\ lateWrites' = [t \in Task |-> IF t \in S THEN 0 ELSE lateWrites[t]]

\* send_message: mint a run, save the user's message ...
SendMessage(t) ==
  /\ MayStart(t)
  /\ minted < MaxRuns
  /\ minted' = minted + 1
  /\ messages' = Append(messages, User)
  /\ Start(t, minted + 1, FALSE)
  /\ Goto(t, "announce")
  /\ UNCHANGED <<lastEvent, records, receipts, todo, phase, orphans,
                 history>>

\* ... then log MESSAGE_ADDED, which ties the run to the log.
AnnounceUser(t) ==
  /\ pc[t] = "announce"
  /\ lastEvent' = Progress(t)
  /\ Goto(t, "load")
  /\ UNCHANGED <<messages, records, receipts, minted, job, todo, phase, orphans,
                 history>>

MayResume(t) == MayStart(t) /\ \A u \in Task : pc[u] # "idle" => ~job[u].resuming

\* resume_run of a log that ends with RUN_FINISHED hands the receipt back.
ResumeFinished(t) ==
  /\ MayResume(t)
  /\ lastEvent.type = "RUN_FINISHED"
  /\ UNCHANGED vars

\* Mutant of Resume: the end of the log is not looked at.
ResumeAnyLog(t) ==
  /\ MayResume(t)
  /\ lastEvent.type # "none"
  /\ Start(t, lastEvent.run, TRUE)
  /\ Goto(t, "load")
  /\ UNCHANGED <<durable, todo, phase, orphans, history>>

\* resume_run of any other log continues its latest run.
Resume(t) ==
  /\ MayResume(t)
  /\ lastEvent.type # "RUN_FINISHED"
  /\ IF lastEvent.type = "none"
       THEN /\ minted < MaxRuns
            /\ minted' = minted + 1
            /\ Start(t, minted + 1, TRUE)
       ELSE /\ Start(t, lastEvent.run, TRUE)
            /\ UNCHANGED minted
  /\ Goto(t, "load")
  /\ UNCHANGED <<messages, lastEvent, records, receipts, todo, phase, orphans,
                 history>>

\* Mutant of PrepareResume: the loop starts with the calls in flight unsettled.
PrepareResumeForgets(t) ==
  /\ pc[t] = "load"
  /\ Goto(t, "head")
  /\ UNCHANGED <<durable, job, todo, phase, orphans, history>>

\* load_conversation, then _prepare_resume
PrepareResume(t) ==
  /\ pc[t] = "load"
  /\ IF FinalAnswerSaved(messages)
       THEN /\ job' = [job EXCEPT ![t].status = "FINISHED"]
            /\ Goto(t, "record")
            /\ UNCHANGED todo
       ELSE /\ UNCHANGED job
            /\ IF Pending(messages) = {}
                 THEN Goto(t, "head") /\ UNCHANGED todo
                 ELSE /\ todo' = [todo EXCEPT ![t] =
                           [NoTodo EXCEPT !.order = OpenOrder(messages),
                                          !.left = Pending(messages)]]
                      /\ Goto(t, "authorize")
  /\ UNCHANGED <<durable, phase, orphans, history>>

\* The head of the while loop ends the run with this status.
EndsAtHead(t, status) ==
  \/ status = "CANCELLED" /\ job[t].stop
  \/ status = "LIMIT_REACHED" /\ ~job[t].stop   \* a turn, clock, cost or token ceiling

StopAtHead(t) ==
  /\ pc[t] = "head"
  /\ \E status \in Status :
       /\ EndsAtHead(t, status)
       /\ job' = [job EXCEPT ![t].status = status]
  /\ Goto(t, "record")
  /\ UNCHANGED <<durable, todo, phase, orphans, history>>

\* Mutant of StartTurn: turns are not counted against the limit.
StartTurnUnlimited(t) ==
  /\ pc[t] = "head"
  /\ ~job[t].stop
  /\ job' = [job EXCEPT ![t].turn = @ + 1]
  /\ lastEvent' = Progress(t)
  /\ Goto(t, "model")
  /\ UNCHANGED <<messages, records, receipts, minted, todo, phase, orphans, history>>

StartTurn(t) ==
  /\ pc[t] = "head"
  /\ ~job[t].stop
  /\ job[t].turn < MaxTurns
  /\ job' = [job EXCEPT ![t].turn = @ + 1]
  /\ lastEvent' = Progress(t)
  /\ Goto(t, "model")
  /\ UNCHANGED <<messages, records, receipts, minted, todo, phase, orphans, history>>

Replies == {s \in UNION {[1 .. n -> Call \ Asked(messages)] : n \in 0 .. MaxBatch} :
              IsInjective(s)}

Batch(calls) == [NoTodo EXCEPT !.order = calls, !.left = Range(calls)]

\* run_turn's reply is saved.  A stop seen between two chunks keeps the text
\* and drops the half-formed calls.
ModelReply(t) ==
  /\ pc[t] = "model"
  /\ \E calls \in IF job[t].stop THEN {<<>>} ELSE Replies :
       /\ messages' = Append(messages, Assistant(calls))
       /\ todo' = [todo EXCEPT ![t] = Batch(calls)]
  /\ halted' = IF job[t].stop THEN halted \cup {job[t].run} ELSE halted
  /\ Goto(t, "replied")
  /\ UNCHANGED <<lastEvent, records, receipts, minted, job, phase, orphans,
                 effects, lost, lateWrites, outlived, faults>>

\* MESSAGE_ADDED is logged, the stop is looked at, and only then the tools.
AfterReply(t) ==
  /\ pc[t] = "replied"
  /\ lastEvent' = Progress(t)
  /\ IF ~job[t].stop /\ todo[t].left # {}
       THEN Goto(t, "authorize") /\ UNCHANGED <<job, todo>>
       ELSE /\ job' = [job EXCEPT ![t].status = IF job[t].stop THEN "CANCELLED"
                                                               ELSE "FINISHED"]
            /\ todo' = [todo EXCEPT ![t] = NoTodo]
            /\ Goto(t, "record")
  /\ UNCHANGED <<messages, records, receipts, minted, phase, orphans, history>>

\* Every call of the batch is authorized, in order, before any of them runs.
Authorize(t) ==
  /\ pc[t] = "authorize"
  /\ \E refused \in SUBSET todo[t].left :
       todo' = [todo EXCEPT ![t].refused = refused]
  /\ Goto(t, "groups")
  /\ UNCHANGED <<durable, job, phase, orphans, history>>

\* Mutant of NextGroup: the stop is not looked at between groups.
NextGroupIgnoresStop(t) ==
  /\ pc[t] = "groups"
  /\ IF todo[t].left = {}
       THEN /\ todo' = [todo EXCEPT ![t] = NoTodo]
            /\ Goto(t, "head")
       ELSE /\ todo' = [todo EXCEPT ![t].group = NextGroupOf(todo[t])]
            /\ Goto(t, "calls")
  /\ UNCHANGED <<durable, job, phase, orphans, history>>

\* The next group runs, unless the run was stopped: then each of its calls gets
\* a result that says so.
NextGroup(t) ==
  /\ pc[t] = "groups"
  /\ IF todo[t].left = {}
       THEN /\ todo' = [todo EXCEPT ![t] = NoTodo]
            /\ Goto(t, "head")
       ELSE /\ todo' = [todo EXCEPT ![t].group = NextGroupOf(todo[t])]
            /\ Goto(t, IF job[t].stop THEN "persist" ELSE "calls")
  /\ UNCHANGED <<durable, job, phase, orphans, history>>

SetPhase(t, c, p) == phase' = [phase EXCEPT ![t][c] = p]

\* TOOL_STARTED is logged.  A refused call, or one the pre-tool hook vetoes, has
\* its result without running; the others wait for a slot.
OpenCall(t, c) ==
  /\ pc[t] = "calls"
  /\ c \in todo[t].group
  /\ phase[t][c] = "waiting"
  /\ lastEvent' = Progress(t)
  /\ \/ SetPhase(t, c, "skipped")
     \/ c \notin todo[t].refused /\ SetPhase(t, c, "admitted")
  /\ UNCHANGED <<messages, records, receipts, minted, pc, job, todo, orphans, history>>

\* run_authorized: the tool begins.
RunCall(t, c) ==
  /\ pc[t] = "calls"
  /\ c \in todo[t].group
  /\ phase[t][c] = "admitted"
  /\ HasSlot(t)
  /\ SetPhase(t, c, "running")
  /\ IF c \in Write
       THEN /\ effects' = [effects EXCEPT ![c] = @ + 1]
            /\ lateWrites' = IF job[t].stop
                               THEN [lateWrites EXCEPT ![t] = @ + 1]
                               ELSE lateWrites
       ELSE UNCHANGED <<effects, lateWrites>>
  /\ UNCHANGED <<durable, pc, job, todo, orphans, lost, halted, outlived, faults>>

\* Mutant of FinishCall: a tool that failed is run again.
FinishCallRetries(t, c) ==
  /\ pc[t] = "calls"
  /\ c \in todo[t].group
  /\ phase[t][c] = "running"
  /\ lastEvent' = Progress(t)
  /\ \E p \in {"ran", "admitted"} : SetPhase(t, c, p)
  /\ UNCHANGED <<messages, records, receipts, minted, pc, job, todo, orphans, history>>

\* The tool returns, its slot is free, TOOL_FINISHED is logged.
FinishCall(t, c) ==
  /\ pc[t] = "calls"
  /\ c \in todo[t].group
  /\ phase[t][c] = "running"
  /\ lastEvent' = Progress(t)
  /\ SetPhase(t, c, "ran")
  /\ UNCHANGED <<messages, records, receipts, minted, pc, job, todo, orphans, history>>

\* asyncio.gather returns once every call of the group has its result.
GroupDone(t) ==
  /\ pc[t] = "calls"
  /\ \A c \in todo[t].group : phase[t][c] \in {"ran", "skipped"}
  /\ Goto(t, "persist")
  /\ UNCHANGED <<durable, job, todo, phase, orphans, history>>

\* _persist_tool_result, one call at a time and in the model's order.
PersistResult(t) ==
  LET c == First(todo[t].order, todo[t].group) IN
  /\ pc[t] = "persist"
  /\ todo[t].group # {}
  /\ messages' = Append(messages, ToolResult(c))
  /\ lastEvent' = Progress(t)
  /\ todo' = [todo EXCEPT ![t].group = @ \ {c}, ![t].left = @ \ {c}]
  /\ SetPhase(t, c, "waiting")
  /\ UNCHANGED <<records, receipts, minted, pc, job, orphans, history>>

GroupSaved(t) ==
  /\ pc[t] = "persist"
  /\ todo[t].group = {}
  /\ Goto(t, "groups")
  /\ UNCHANGED <<durable, job, todo, phase, orphans, history>>

\* _finish: save_run, then RUN_FINISHED.
SaveRun(t) ==
  /\ pc[t] = "record"
  /\ records' = [records EXCEPT ![job[t].run] = job[t].status]
  /\ Goto(t, "publish")
  /\ UNCHANGED <<messages, lastEvent, receipts, minted, job, todo, phase, orphans,
                 history>>

Publish(t) ==
  /\ pc[t] = "publish"
  /\ receipts' = [receipts EXCEPT ![job[t].run] = Append(@, job[t].status)]
  /\ lastEvent' = Event("RUN_FINISHED", job[t].run)
  /\ End({t})
  /\ UNCHANGED <<messages, records, minted, todo, phase, orphans,
                 effects, lost, halted, outlived, faults>>

\* Cancellation.cancel(): a flag that only the checks above read.  Cancelling
\* twice is cancelling once.
Cancel(t) ==
  /\ pc[t] # "idle"
  /\ job' = [job EXCEPT ![t].stop = TRUE]
  /\ UNCHANGED <<durable, pc, todo, phase, orphans, history>>

------------------------------------------------------------------------------
(* Faults.                                                                 *)

Drop(S) ==
  /\ faults < MaxFaults
  /\ faults' = faults + 1
  /\ todo' = [t \in Task |-> IF t \in S THEN NoTodo ELSE todo[t]]
  /\ phase' = [t \in Task |-> IF t \in S THEN Settled ELSE phase[t]]
  /\ lost' = [c \in Call |->
                IF \E t \in S : c \in Unsaved(t) THEN lost[c] + 1 ELSE lost[c]]

\* gather was given no return_exceptions: when one call raises, its siblings
\* are not cancelled and still log their own events.
MayLeaveSiblings(t) ==
  /\ pc[t] = "calls"
  /\ \E c \in todo[t].group : \E d \in todo[t].group \ {c} :
       phase[t][d] \in {"waiting", "admitted", "running"}

\* An exception inside the try of AgentLoop.run: ERROR is logged, and the run
\* goes on to _finish.
Fail(t) ==
  /\ pc[t] \in InTry
  /\ Drop({t})
  /\ job' = [job EXCEPT ![t].status = "ERROR"]
  /\ lastEvent' = Progress(t)
  /\ Goto(t, "record")
  /\ \/ UNCHANGED <<orphans, outlived>>
     \/ /\ MayLeaveSiblings(t)
        /\ orphans' = orphans \cup {job[t].run}
        /\ outlived' = outlived \cup {job[t].run}
  /\ UNCHANGED <<messages, records, receipts, minted, effects, lateWrites, halted>>

\* A sibling left behind logs TOOL_STARTED or TOOL_FINISHED under its old run.
\* Its last event stands for all of them.
OrphanEvent(r) ==
  /\ r \in orphans
  /\ lastEvent' = Event("progress", r)
  /\ orphans' = orphans \ {r}
  /\ UNCHANGED <<messages, records, receipts, minted, pc, job, todo, phase, history>>

\* The coroutine is cancelled from outside, or raises outside that try.
Abort(t) ==
  /\ pc[t] # "idle"
  /\ Drop({t})
  /\ End({t})
  /\ UNCHANGED <<durable, orphans, effects, halted, outlived>>

\* The process dies and is restarted.
Crash ==
  /\ \E t \in Task : pc[t] # "idle"
  /\ Drop(Task)
  /\ End(Task)
  /\ orphans' = {}
  /\ UNCHANGED <<durable, effects, halted, outlived>>

------------------------------------------------------------------------------
CallStep(t) == \E c \in Call : OpenCall(t, c) \/ RunCall(t, c) \/ FinishCall(t, c)

LoopStep(t) ==
  \/ AnnounceUser(t) \/ PrepareResume(t) \/ StopAtHead(t) \/ StartTurn(t)
  \/ ModelReply(t) \/ AfterReply(t) \/ Authorize(t) \/ NextGroup(t)
  \/ CallStep(t) \/ GroupDone(t) \/ PersistResult(t) \/ GroupSaved(t)
  \/ SaveRun(t) \/ Publish(t)

Request(t) == SendMessage(t) \/ Resume(t) \/ ResumeFinished(t) \/ Cancel(t)

Fault == Crash \/ \E t \in Task : Fail(t) \/ Abort(t)

Next ==
  \/ \E t \in Task : LoopStep(t) \/ Request(t)
  \/ \E r \in Run : OrphanEvent(r)
  \/ Fault

Spec == Init /\ [][Next]_vars

\* Every provider call, tool and permission prompt returns in the end.
Fairness == \A t \in Task : WF_vars(LoopStep(t))
FairSpec == Spec /\ Fairness

------------------------------------------------------------------------------
(* Properties.                                                             *)

\* The variables keep the shapes above.
TypeOK ==
  /\ messages \in Seq(Message)
  /\ lastEvent \in LogEntry
  /\ records \in [Run -> Status]
  /\ receipts \in [Run -> Seq(Status)]
  /\ minted \in 0 .. MaxRuns
  /\ pc \in [Task -> Label]
  /\ job \in [Task -> Job]
  /\ todo \in [Task -> Todo]
  /\ phase \in [Task -> [Call -> Phase]]
  /\ orphans \subseteq 0 .. MaxRuns
  /\ effects \in [Call -> Nat]
  /\ lost \in [Call -> Nat]
  /\ lateWrites \in [Task -> Nat]
  /\ halted \subseteq 0 .. MaxRuns
  /\ outlived \subseteq 0 .. MaxRuns
  /\ faults \in 0 .. MaxFaults

\* No call ever has two results: whatever a stop, an exception or a crash left
\* behind, resume answers exactly the calls that still lack one.
AnsweredOnce ==
  \A i, j \in DOMAIN messages :
    /\ messages[i].role = "tool" /\ messages[j].role = "tool"
    /\ Range(messages[i].calls) \cap Range(messages[j].calls) # {}
    => i = j

\* When the model is asked, every call since the user's last message has its
\* result: what the wire format needs, within one turn of the conversation.  And
\* results follow the order the model asked in, across groups that ran together,
\* groups a stop answered and a resume that answered the rest: a call that has a
\* result comes after every earlier call of its reply has one.
CurrentTurnAnswered ==
  /\ \A t \in Task :
       pc[t] = "model" => Range(OpenOrder(messages)) \subseteq Answered(messages)
  /\ \A k \in DOMAIN messages :
       messages[k].role = "assistant" =>
         LET asked == messages[k].calls IN
         \A i, j \in DOMAIN asked :
           i < j /\ asked[j] \in Answered(messages) => asked[i] \in Answered(messages)

\* Only reads share a group: while a write has begun and its result is not yet
\* saved, no other call of its run has begun or holds an unsaved result.
WriteBarrier ==
  \A t \in Task : \A c \in Unsaved(t) :
    \A d \in Call \ {c} : phase[t][d] = "waiting"

\* A write happens once, and once more for each time a fault struck between its
\* beginning and the save of its result - never for any other reason.
AtMostOncePerLoss == \A c \in Write : effects[c] <= 1 + lost[c]

\* A stop is looked at between groups only, and that is often enough: at most one
\* write begins after it.
StopBoundsWrites == \A t \in Task : lateWrites[t] <= 1

\* A run is announced finished at most once, with the status its saved record has,
\* even if it was interrupted and resumed on the way - unless a gathered sibling
\* call outlived it.
OneReceiptPerRun ==
  \A r \in Run \ outlived :
    receipts[r] # <<>> => receipts[r] = <<records[r]>>

\* A call whose result is saved never runs its side effect again, however the run
\* ended and was resumed.
SavedNeverRerun ==
  [][\A c \in Answered(messages) : effects'[c] = effects[c]]_vars

\* Every request ends, whatever the size of its batches and the limit on them.
RunSettles == \A t \in Task : pc[t] # "idle" ~> pc[t] = "idle"

------------------------------------------------------------------------------
(* What the code's comments promise, and the code does not keep.           *)

AllIdle == \A t \in Task : pc[t] = "idle"

\* loop.py 989-991 and service.py 375-378: a resume repeats no side effect.
NoSideEffectTwice == \A c \in Write : effects[c] <= 1

\* loop.py 764-770 and 922-924: every call in what is sent to the model has a
\* result.
WireAlwaysValid == \A t \in Task : pc[t] = "model" => IsValid(messages)

\* service.py 372-374: if the log ends with RUN_FINISHED, the run completed.
InterruptedRunResumes ==
  AllIdle /\ lastEvent.type = "RUN_FINISHED" /\ minted # 0 => receipts[minted] # <<>>

\* loop.py 982-985: an answer without calls at the end is the final answer, so a
\* run whose answer a stop cut off is not reported as finished.
StoppedStaysStopped ==
  \A r \in halted \cap Run : "FINISHED" \notin Range(receipts[r])

\* service.py 372-374: a run that has its receipt is not run again.
FinishedIsFinal == \A r \in Run : Len(receipts[r]) <= 1

\* messages.py 69-71: no two loops on one run id.
SingleLoopPerRun ==
  \A t, u \in Task :
    pc[t] # "idle" /\ pc[u] # "idle" /\ job[t].run = job[u].run => t = u

==============================================================================
