---------------------------- MODULE GraphRunProofs ----------------------------
(***************************************************************************)
(* What a thread of the LangGraph engine keeps to, for any tools, gates    *)
(* and budgets, plans of any length and any number of turns, faults and    *)
(* resumes, from whatever checkpoint and as whatever task.                 *)
(*                                                                         *)
(* A resume may go on from any checkpoint, so what is invariant of the     *)
(* thread's state must hold of every checkpoint as well: what ends in "At" *)
(* is said of one, and of all Points by the invariant.  TypedAt is type    *)
(* correctness; BudgetedAt follows the replans to the retries behind them, *)
(* EndingAt a refusal to the responder, BackedAt a completed step to its   *)
(* stored call.  Due follows a call to the store a resume reads, Agreed a  *)
(* yes in the store to a human's.                                          *)
(***************************************************************************)
EXTENDS GraphRun, SequenceTheorems, TLAPS

Kind == {"failed", "rejected", "blocked"}
PlanStep == [action : Action, status : {"PENDING", "COMPLETED", "FAILED"},
             verified : BOOLEAN, output : {"none", "ok"} \cup Kind]

\* The states of the thread a run may be in or be resumed from.
Points == {Here, latest, NoCheckpoint} \cup kept

StepAt(c) == c.plan.steps[c.current]

\* What a checkpoint is.
TypedAt(c) ==
  /\ c.node \in Node
  /\ c.plan \in [steps : Seq(PlanStep), remediate : BOOLEAN]
  /\ Len(c.plan.steps) <= MaxSteps
  /\ \A i \in 1 .. Len(c.plan.steps) :
       c.plan.steps[i].status = "FAILED" => c.plan.steps[i].output \in Kind
  /\ c.current \in 1 .. MaxSteps + 1
  /\ c.retries \in Nat
  /\ c.error \in {"none", "failed", "rejected", "blocked"}
  /\ c.phase \in Phase
  /\ c.findings \subseteq 1 .. MaxTasks
  /\ c.goal \in 0 .. MaxTasks
  /\ c.node \in {"executor", "verifier", "error_handler"} => c.current <= Len(c.plan.steps)

\* What the plan may hold, and what the stages of the executor know.
Placed ==
  /\ plan \in [steps : Seq(PlanStep), remediate : BOOLEAN]
  /\ \A i \in 1 .. Len(plan.steps) : plan.steps[i].status = "FAILED" => plan.steps[i].output \in Kind
  /\ node # "none" \/ run = "RUNNING" => task > 0
  /\ stage \in {"input", "idle", "asked"} => attempt = 0
  /\ stage = "backoff" => attempt < Attempts
  /\ stage = "asked" => gate = "human"

Saved == \A c \in Points : TypedAt(c)

Typed == TypeOK /\ Placed /\ Saved

\* Steps the executor has not come to are as they were planned.
FreshAt(c) ==
  /\ c.node = "executor" => \A i \in c.current .. Len(c.plan.steps) :
       c.plan.steps[i].status = "PENDING" /\ c.plan.steps[i].output = "none"
  /\ c.node = "verifier" =>
       /\ StepAt(c).status = "PENDING" => StepAt(c).output = "none"
       /\ \A i \in c.current + 1 .. Len(c.plan.steps) :
            c.plan.steps[i].status = "PENDING" /\ c.plan.steps[i].output = "none"

Fresh == \A c \in Points : FreshAt(c)

\* Replans since a success are no more than the failures counted since, and there is
\* budget left wherever the graph may still plan or call.
BudgetedAt(c) ==
  /\ c.streak \in Nat
  /\ c.streak < MaxReplans /\ c.retries <= MaxReplans
  /\ c.node \in {"planner", "executor", "phase_transition"} =>
       c.streak <= c.retries /\ c.retries < MaxReplans
  /\ c.node = "verifier" =>
       IF StepAt(c).status = "FAILED" THEN c.streak < c.retries
       ELSE c.streak <= c.retries /\ c.retries < MaxReplans
  /\ c.node = "error_handler" => c.streak < c.retries

Budgeted == \A c \in Points : BudgetedAt(c)

\* A call that was made and not excused is in what the run, or the next one, knows.
Due ==
  /\ runs \in 0 .. 1
  /\ stage = "called" => runs = 1
  /\ stage \in {"input", "backoff"} => runs = 0
  /\ stage = "stored" => TheCall \in finished
  /\ node = "executor" /\ stage \in {"idle", "asked"} /\ runs = 1 =>
       TheCall \in IF run = "RUNNING" THEN known ELSE finished

\* A refusal is on its way from the failed step to the responder.
EndingAt(c) ==
  c.refused =>
    \/ /\ c.node = "verifier"
       /\ StepAt(c).status = "FAILED" /\ StepAt(c).output \in {"rejected", "blocked"}
    \/ c.node = "error_handler" /\ c.error \in {"rejected", "blocked"}
    \/ c.node \in {"responder", "end"}

Ending == \A c \in Points : EndingAt(c)

\* A step has a stored call, of whatever task of the thread.
Stored(a, i) ==
  \E t \in 1 .. turns, p \in {"INVESTIGATE", "REMEDIATE"} :
    [task |-> t, phase |-> p, step |-> i, action |-> a] \in finished

\* A completed step has a stored call, and a failure that nothing made up for an error.
BackedAt(c) ==
  /\ c.node \in {"planner", "executor", "verifier", "error_handler", "phase_transition"} =>
       c.phase # "COMPLETE"
  /\ \A i \in 1 .. Len(c.plan.steps) :
       c.plan.steps[i].status = "COMPLETED" => Stored(c.plan.steps[i].action, i)
  /\ c.node \in {"planner", "executor", "phase_transition", "error_handler", "responder", "end"} =>
       (c.failing => c.error # "none")

Backed == \A c \in Points : BackedAt(c)

\* A completed run has completed steps.
Completed ==
  run = "COMPLETED" /\ task > 0 =>
    /\ node = "end" /\ ~failing
    /\ \A i \in 1 .. Len(plan.steps) : plan.steps[i].status = "COMPLETED"

\* Remediation has something to remedy.
FoundAt(c) == c.phase = "REMEDIATE" => c.findings # {}

Found == \A c \in Points : FoundAt(c)

\* A yes in the store is a human's.
Agreed == \A c \in Call : approval[ApprovalId(c)] = "yes" => c \in agreed

------------------------------------------------------------------------------
(* Checkpoints.                                                             *)

\* What a step leaves of the checkpoints, and where a resume comes from.
LEMMA PointsStep ==
  ASSUME [Next]_vars
  PROVE  \A c \in Points' : c \in Points \/ c = Here'
<1>1. CASE Keep \/ UNCHANGED vars
  BY <1>1 DEF Keep, vars, checkpoints, Points
<1>2. CASE latest' = Here' /\ UNCHANGED kept
  BY <1>2 DEF Points
<1>3. CASE UNCHANGED checkpoints
  BY <1>3 DEF checkpoints, Points
<1> QED
  BY <1>1, <1>2, <1>3 DEF Next, Graph

\* The steps of the system, one by one.
LEMMA Steps ==
  ASSUME [Next]_vars
  PROVE  \/ Begin \/ Resume \/ Abort \/ Keep \/ Human \/ TakeInput \/ Planner
         \/ OverIterations \/ Refuse \/ Denied \/ ToolFailure \/ Reuse \/ Succeed
         \/ Ask \/ CallTool \/ Transient \/ EmitFinished
         \/ Accept \/ Reject \/ ErrorHandler \/ PhaseTransition \/ Responder
         \/ OutOfSteps \/ NothingToDo \/ UNCHANGED vars
BY DEF Next, Graph, Returns, Within

\* The steps that move the thread.
LEMMA Moves ==
  ASSUME [Next]_vars
  PROVE  \/ Resume \/ TakeInput \/ Planner
         \/ OverIterations \/ Refuse \/ Denied \/ ToolFailure \/ Reuse \/ Succeed
         \/ Accept \/ Reject \/ ErrorHandler \/ PhaseTransition \/ Responder
         \/ UNCHANGED <<thread, refused, failing, streak>>
BY Steps DEF Begin, Keep, Human, Abort, OutOfSteps, NothingToDo, Ask, Decide, CallTool,
       Transient, EmitFinished, vars, budget

\* A resume goes on from a checkpoint.
LEMMA GoesOn ==
  ASSUME Resume
  PROVE  \E t \in 1 .. turns, c \in Points : ResumeFrom(t, c)
BY DEF Resume, Points

------------------------------------------------------------------------------
(* Plans.                                                                   *)

\* A plan of the planner is well formed and none of its steps has run.
LEMMA NewPlan ==
  ASSUME NEW p \in Plan
  PROVE  /\ p \in [steps : Seq(PlanStep), remediate : BOOLEAN]
         /\ Len(p.steps) \in 0 .. MaxSteps
         /\ p.steps # <<>> => Len(p.steps) > 0
         /\ \A i \in 1 .. Len(p.steps) :
              p.steps[i].status = "PENDING" /\ p.steps[i].output = "none"
<1>1. PICK n \in 0 .. MaxSteps : p.steps \in [1 .. n -> {Step(a) : a \in Action}]
  BY DEF Plan
<1>2. n \in Nat
  BY ConfigAssumption
<1>3. \A a \in Action : Step(a) \in PlanStep /\ Step(a).status = "PENDING" /\ Step(a).output = "none"
  BY DEF Step, PlanStep
<1>4. p.steps \in [1 .. n -> PlanStep]
  BY <1>1, <1>3
<1>5. p.steps \in Seq(PlanStep)
  BY <1>2, <1>4, SeqDef
<1>6. Len(p.steps) = n
  BY <1>2, <1>4, <1>5, LenProperties
<1>7. \A i \in 1 .. n : p.steps[i].status = "PENDING" /\ p.steps[i].output = "none"
  BY <1>1, <1>3
<1>8. p.steps # <<>> => n > 0
  BY <1>2, <1>5, <1>6, EmptySeq
<1>9. p \in [steps : Seq(PlanStep), remediate : BOOLEAN]
  BY <1>5 DEF Plan
<1> QED
  BY <1>6, <1>7, <1>8, <1>9

\* What putting another step in the current one's place does to the plan.
LEMMA Replaced ==
  ASSUME plan \in [steps : Seq(PlanStep), remediate : BOOLEAN],
         StepsLeft, current \in Nat \ {0},
         NEW s \in PlanStep,
         plan' = [plan EXCEPT !.steps = [plan.steps EXCEPT ![current] = s]]
  PROVE  /\ plan' \in [steps : Seq(PlanStep), remediate : BOOLEAN]
         /\ Len(plan'.steps) = Len(plan.steps)
         /\ plan'.steps[current] = s
         /\ \A i \in 1 .. Len(plan.steps) : i # current => plan'.steps[i] = plan.steps[i]
<1> DEFINE n == Len(plan.steps)
           new == [plan.steps EXCEPT ![current] = s]
<1>1. n \in Nat /\ plan.steps \in [1 .. n -> PlanStep]
  BY LenProperties
<1>2. current \in 1 .. n
  BY <1>1 DEF StepsLeft
<1>3. new \in [1 .. n -> PlanStep]
  BY <1>1
<1>4. new \in Seq(PlanStep)
  BY <1>1, <1>3, SeqDef
<1>5. Len(new) = n
  BY <1>1, <1>3, <1>4, LenProperties
<1>6. new[current] = s /\ \A i \in 1 .. n : i # current => new[i] = plan.steps[i]
  BY <1>1, <1>2
<1>7. plan'.steps = new /\ plan' \in [steps : Seq(PlanStep), remediate : BOOLEAN]
  BY <1>4
<1> QED
  BY <1>5, <1>6, <1>7

\* The current step and its call.
LEMMA StepType ==
  ASSUME Typed, node \in {"executor", "verifier", "error_handler"}
  PROVE  /\ StepsLeft /\ current \in 1 .. MaxSteps /\ current \in 1 .. Len(plan.steps)
         /\ Len(plan.steps) \in Nat
         /\ TheStep \in PlanStep /\ TheCall \in Call
<1>1. StepsLeft /\ current \in 1 .. MaxSteps + 1 /\ Len(plan.steps) <= MaxSteps /\ MaxSteps \in Nat
  BY ConfigAssumption DEF Typed, TypeOK
<1>2. Len(plan.steps) \in Nat /\ plan.steps \in [1 .. Len(plan.steps) -> PlanStep]
  BY LenProperties DEF Typed, Placed
<1>3. current \in 1 .. MaxSteps /\ current \in 1 .. Len(plan.steps)
  BY <1>1, <1>2 DEF StepsLeft
<1>4. TheStep \in PlanStep
  BY <1>2, <1>3 DEF TheStep
<1>5. TheStep.action \in Action
  BY <1>4 DEF PlanStep
<1>6. task \in 1 .. MaxTasks /\ phase \in Phase
  BY ConfigAssumption DEF Typed, TypeOK, Placed
<1>7. TheCall \in Call
  BY <1>3, <1>5, <1>6 DEF TheCall, Call
<1> QED
  BY <1>1, <1>2, <1>3, <1>4, <1>7

\* What the executor's failure and its success write.
LEMMA Set ==
  ASSUME Typed, node \in {"executor", "verifier", "error_handler"},
         NEW status \in {"COMPLETED", "FAILED"}, NEW output \in {"ok"} \cup Kind,
         SetStep(status, output)
  PROVE  /\ plan' \in [steps : Seq(PlanStep), remediate : BOOLEAN]
         /\ Len(plan'.steps) = Len(plan.steps)
         /\ plan'.steps[current] = [TheStep EXCEPT !.status = status, !.output = output]
         /\ \A i \in 1 .. Len(plan.steps) : i # current => plan'.steps[i] = plan.steps[i]
<1> DEFINE s == [TheStep EXCEPT !.status = status, !.output = output]
<1>1. StepsLeft /\ current \in Nat \ {0} /\ TheStep \in PlanStep /\ current \in 1 .. Len(plan.steps)
  BY StepType
<1>2. s \in PlanStep
  BY <1>1 DEF PlanStep
<1>3. plan \in [steps : Seq(PlanStep), remediate : BOOLEAN] /\ plan.steps \in [1 .. Len(plan.steps) -> PlanStep]
  BY LenProperties DEF Typed, Placed
<1>4. plan' = [plan EXCEPT !.steps = [plan.steps EXCEPT ![current] = s]]
  BY <1>1, <1>3 DEF SetStep, TheStep
<1> QED
  BY <1>1, <1>2, <1>3, <1>4, Replaced

------------------------------------------------------------------------------
(* Types.                                                                   *)

LEMMA TypedInit == Init => Typed
<1> SUFFICES ASSUME Init PROVE Typed
  OBVIOUS
<1>1. <<>> \in Seq(PlanStep) /\ Len(<<>>) = 0
  BY EmptySeq
<1>2. plan \in [steps : Seq(PlanStep), remediate : BOOLEAN] /\ Len(plan.steps) = 0
  BY <1>1 DEF Init, NoPlan
<1>3. fuel \in 0 .. SuperSteps
  BY ConfigAssumption DEF Init, SuperSteps
<1>4. TypeOK /\ Placed
  BY <1>1, <1>2, <1>3, ConfigAssumption
     DEF Init, NoPlan, TypeOK, Placed, Phase, Node, ApprovalIds
<1>5. TypedAt(NoCheckpoint)
  BY <1>1, ConfigAssumption DEF NoCheckpoint, NoPlan, TypedAt, Phase, Node
<1>6. \A c \in Points : c = NoCheckpoint
  BY DEF Init, Points, Here, NoCheckpoint
<1> QED
  BY <1>4, <1>5, <1>6 DEF Typed, Saved

\* The executor's failure returns.
LEMMA TypedFail ==
  ASSUME Typed, node = "executor", NEW kind \in Kind, FailStep(kind),
         fuel' \in 0 .. SuperSteps,
         UNCHANGED <<current, phase, findings, goal, turns, task, run, gate, store, agreed,
                     resumes, faults>>
  PROVE  TypeOK' /\ Placed'
<1>1. /\ StepsLeft /\ current \in 1 .. Len(plan.steps)
      /\ TheStep \in PlanStep
  BY StepType
<1>2. SetStep("FAILED", kind)
  BY DEF FailStep
<1>3. /\ plan' \in [steps : Seq(PlanStep), remediate : BOOLEAN]
      /\ Len(plan'.steps) = Len(plan.steps)
      /\ plan'.steps[current] = [TheStep EXCEPT !.status = "FAILED", !.output = kind]
      /\ \A i \in 1 .. Len(plan.steps) : i # current => plan'.steps[i] = plan.steps[i]
  BY <1>2, Set
<1>4. plan'.steps[current].output = kind
  BY <1>1, <1>3 DEF PlanStep
<1>5. \A i \in 1 .. Len(plan'.steps) : plan'.steps[i].status = "FAILED" => plan'.steps[i].output \in Kind
  BY <1>3, <1>4 DEF Typed, Placed
<1>6. node' = "verifier" /\ stage' = "idle" /\ attempt' = 0 /\ error' = kind /\ retries' = retries + 1
  BY DEF FailStep
<1> error' \in {"none", "failed", "rejected", "blocked"} /\ retries' \in Nat
  BY <1>6 DEF Typed, TypeOK, Kind
<1>7. StepsLeft' /\ plan'.remediate \in BOOLEAN /\ Len(plan'.steps) <= MaxSteps
  BY <1>1, <1>3 DEF Typed, TypeOK, StepsLeft
<1>8. TypeOK'
  BY <1>6, <1>7, ConfigAssumption DEF Typed, TypeOK, Node, store
<1>9. Placed'
  BY <1>3, <1>5, <1>6 DEF Typed, Placed
<1> QED
  BY <1>8, <1>9

\* The executor's success return.
LEMMA TypedDone ==
  ASSUME Typed, node = "executor", StepDone,
         fuel' \in 0 .. SuperSteps,
         UNCHANGED <<current, phase, findings, goal, turns, task, run, gate, store, agreed,
                     resumes, faults>>
  PROVE  TypeOK' /\ Placed'
<1>1. /\ StepsLeft /\ current \in 1 .. Len(plan.steps)
      /\ TheStep \in PlanStep
  BY StepType
<1>2. SetStep("COMPLETED", "ok")
  BY DEF StepDone
<1>3. /\ plan' \in [steps : Seq(PlanStep), remediate : BOOLEAN]
      /\ Len(plan'.steps) = Len(plan.steps)
      /\ plan'.steps[current] = [TheStep EXCEPT !.status = "COMPLETED", !.output = "ok"]
      /\ \A i \in 1 .. Len(plan.steps) : i # current => plan'.steps[i] = plan.steps[i]
  BY <1>2, Set
<1>4. plan'.steps[current].status = "COMPLETED"
  BY <1>1, <1>3 DEF PlanStep
<1>5. \A i \in 1 .. Len(plan'.steps) : plan'.steps[i].status = "FAILED" => plan'.steps[i].output \in Kind
  BY <1>3, <1>4 DEF Typed, Placed
<1>6. node' = "verifier" /\ stage' = "idle" /\ attempt' = 0 /\ error' = "none" /\ retries' = 0
  BY DEF StepDone
<1>7. StepsLeft' /\ plan'.remediate \in BOOLEAN /\ Len(plan'.steps) <= MaxSteps
  BY <1>1, <1>3 DEF Typed, TypeOK, StepsLeft
<1>8. TypeOK'
  BY <1>6, <1>7, ConfigAssumption DEF Typed, TypeOK, Node, store
<1>9. Placed'
  BY <1>3, <1>5, <1>6 DEF Typed, Placed
<1> QED
  BY <1>8, <1>9

\* What the verifier writes into the step.
LEMMA Judged ==
  ASSUME Typed, node = "verifier", NEW b \in BOOLEAN,
         NEW status \in {"PENDING", "COMPLETED", "FAILED"},
         plan' = [plan EXCEPT !.steps[current].verified = b, !.steps[current].status = status]
  PROVE  /\ plan' \in [steps : Seq(PlanStep), remediate : BOOLEAN]
         /\ Len(plan'.steps) = Len(plan.steps)
         /\ plan'.steps[current] = [TheStep EXCEPT !.verified = b, !.status = status]
         /\ \A i \in 1 .. Len(plan.steps) : i # current => plan'.steps[i] = plan.steps[i]
<1> DEFINE s == [TheStep EXCEPT !.verified = b, !.status = status]
<1>1. StepsLeft /\ current \in Nat \ {0} /\ TheStep \in PlanStep /\ current \in 1 .. Len(plan.steps)
  BY StepType
<1>2. s \in PlanStep
  BY <1>1 DEF PlanStep
<1>3. plan \in [steps : Seq(PlanStep), remediate : BOOLEAN] /\ plan.steps \in [1 .. Len(plan.steps) -> PlanStep]
  BY LenProperties DEF Typed, Placed
<1>4. plan' = [plan EXCEPT !.steps = [plan.steps EXCEPT ![current] = s]]
  BY <1>1, <1>3 DEF TheStep
<1> QED
  BY <1>1, <1>2, <1>3, <1>4, Replaced

\* A good verdict and a bad one.
LEMMA Accepted ==
  ASSUME Typed, Accept
  PROVE  /\ node = "verifier" /\ current \in 1 .. Len(plan.steps) /\ TheStep \in PlanStep
         /\ plan' \in [steps : Seq(PlanStep), remediate : BOOLEAN]
         /\ Len(plan'.steps) = Len(plan.steps)
         /\ plan'.steps[current].status = "COMPLETED" /\ TheStep.status # "FAILED"
         /\ TheStep.output # "none"
         /\ plan'.steps[current].action = TheStep.action
         /\ \A i \in 1 .. Len(plan.steps) : i # current => plan'.steps[i] = plan.steps[i]
<1>1. node = "verifier" /\ current \in 1 .. Len(plan.steps) /\ TheStep \in PlanStep
  BY StepType DEF Accept, Enter
<1>2. plan' = [plan EXCEPT !.steps[current].verified = TRUE, !.steps[current].status = "COMPLETED"]
  BY DEF Accept
<1>3. /\ plan' \in [steps : Seq(PlanStep), remediate : BOOLEAN]
      /\ Len(plan'.steps) = Len(plan.steps)
      /\ plan'.steps[current] = [TheStep EXCEPT !.verified = TRUE, !.status = "COMPLETED"]
      /\ \A i \in 1 .. Len(plan.steps) : i # current => plan'.steps[i] = plan.steps[i]
  BY <1>1, <1>2, Judged
<1>4. plan'.steps[current].status = "COMPLETED" /\ plan'.steps[current].action = TheStep.action
  BY <1>1, <1>3 DEF PlanStep
<1>5. TheStep.status # "FAILED" /\ TheStep.output # "none"
  BY DEF Accept
<1> QED
  BY <1>1, <1>3, <1>4, <1>5

LEMMA Rejected ==
  ASSUME Typed, Reject
  PROVE  /\ node = "verifier" /\ current \in 1 .. Len(plan.steps) /\ TheStep \in PlanStep
         /\ plan' \in [steps : Seq(PlanStep), remediate : BOOLEAN]
         /\ Len(plan'.steps) = Len(plan.steps)
         /\ plan'.steps[current].status # "COMPLETED"
         /\ plan'.steps[current].output = TheStep.output
         /\ plan'.steps[current].status = "FAILED" <=> TheStep.status = "FAILED"
         /\ \A i \in 1 .. Len(plan.steps) : i # current => plan'.steps[i] = plan.steps[i]
<1> DEFINE status == IF TheStep.status = "FAILED" THEN "FAILED" ELSE "PENDING"
<1>1. node = "verifier" /\ current \in 1 .. Len(plan.steps) /\ TheStep \in PlanStep
  BY StepType DEF Reject, Enter
<1>2. plan.steps \in [1 .. Len(plan.steps) -> PlanStep] /\ plan \in [steps : Seq(PlanStep), remediate : BOOLEAN]
  BY LenProperties DEF Typed, Placed
<1>3. plan' = [plan EXCEPT !.steps[current].verified = FALSE, !.steps[current].status = status]
  BY <1>1, <1>2 DEF Reject, TheStep, PlanStep
<1>4. /\ plan' \in [steps : Seq(PlanStep), remediate : BOOLEAN]
      /\ Len(plan'.steps) = Len(plan.steps)
      /\ plan'.steps[current] = [TheStep EXCEPT !.verified = FALSE, !.status = status]
      /\ \A i \in 1 .. Len(plan.steps) : i # current => plan'.steps[i] = plan.steps[i]
  BY <1>1, <1>3, Judged
<1> QED
  BY <1>1, <1>4 DEF PlanStep

\* Where the executor stands when it calls, and what is left of the run's budget.
LEMMA Calling ==
  ASSUME Typed, MayCall
  PROVE  /\ node = "executor" /\ run = "RUNNING" /\ stage \in {"idle", "asked"}
         /\ attempt = 0 /\ fuel' \in 0 .. SuperSteps
BY ConfigAssumption DEF MayCall, Enter, Typed, TypeOK, Placed, SuperSteps

LEMMA TypedMove ==
  ASSUME Typed, [Next]_vars
  PROVE  TypeOK' /\ Placed'
<1> USE ConfigAssumption
<1>0. \A n : Enter(n) => node = n /\ run = "RUNNING" /\ stage = "idle" /\ fuel' \in 0 .. SuperSteps
  BY DEF Enter, Typed, TypeOK, SuperSteps
<1>1. CASE Begin
  <2>1. fuel' \in 0 .. SuperSteps
    BY <1>1 DEF Begin, SuperSteps
  <2>2. stage = "idle" /\ turns' \in 1 .. MaxTasks /\ task' = turns'
    BY <1>1 DEF Begin, Typed, TypeOK
  <2>3. TypeOK'
    BY <1>1, <2>1, <2>2 DEF Begin, Typed, TypeOK, StepsLeft, thread
  <2> QED
    BY <1>1, <2>2, <2>3 DEF Begin, Typed, Placed, thread
<1>2. CASE Resume
  <2>1. PICK t \in 1 .. turns, c \in Points : ResumeFrom(t, c)
    BY <1>2, GoesOn
  <2>2. TypedAt(c) /\ GoOnFrom(c)
    BY <2>1 DEF Typed, Saved, ResumeFrom
  <2>3. fuel' \in 0 .. SuperSteps /\ stage = "idle" /\ task' \in 1 .. turns
    BY <2>1 DEF ResumeFrom, SuperSteps, Typed, TypeOK
  <2>4. known' \subseteq finished /\ resumes' \in 0 .. MaxResumes /\ faults' \in 0 .. MaxFaults
    BY <2>1 DEF ResumeFrom, KnownTo, Typed, TypeOK
  <2>5. TypeOK'
    BY <2>1, <2>2, <2>3, <2>4 DEF ResumeFrom, GoOnFrom, TypedAt, Typed, TypeOK, StepsLeft
  <2>6. Placed'
    BY <2>1, <2>2, <2>3 DEF ResumeFrom, GoOnFrom, TypedAt, Typed, Placed
  <2> QED
    BY <2>5, <2>6
<1>3. CASE Abort
  BY <1>3 DEF Abort, EndRun, SuperSteps, Typed, TypeOK, Placed, StepsLeft, thread
<1>4. CASE OutOfSteps \/ NothingToDo
  <2>1. /\ run' \in {"COMPLETED", "FAILED"} /\ fuel' = 0 /\ known' = {} /\ stage = "idle"
        /\ UNCHANGED <<thread, turns, task, gate, executor, finished, approval,
                       agreed, resumes, faults>>
    BY <1>4 DEF OutOfSteps, NothingToDo, EndRun, AsItEnded
  <2> QED
    BY <2>1 DEF SuperSteps, Typed, TypeOK, Placed, StepsLeft, thread, executor
<1>a. CASE TakeInput
  <2>1. plan' \in [steps : Seq(PlanStep), remediate : BOOLEAN] /\ Len(plan'.steps) = 0
    BY <1>a, EmptySeq DEF TakeInput, NoPlan
  <2>2. findings' \subseteq 1 .. MaxTasks /\ task \in 1 .. MaxTasks
    BY <1>a DEF TakeInput, Typed, TypeOK, Placed, Saved, TypedAt, Points
  <2>3. TypeOK'
    BY <1>a, <2>1, <2>2 DEF TakeInput, Typed, TypeOK, Node, Phase, store
  <2> QED
    BY <1>a, <2>1, <2>2, <2>3 DEF TakeInput, Typed, Placed
<1>b. CASE Keep
  BY <1>b DEF Keep, Typed, TypeOK, Placed, StepsLeft, thread, executor, store
<1>5. CASE Planner
  <2>1. fuel' \in 0 .. SuperSteps /\ stage = "idle" /\ node = "planner" /\ plan' \in Plan
    BY <1>0, <1>5 DEF Planner
  <2>2. /\ plan' \in [steps : Seq(PlanStep), remediate : BOOLEAN]
        /\ Len(plan'.steps) \in 0 .. MaxSteps
        /\ plan'.steps # <<>> => Len(plan'.steps) > 0
        /\ \A i \in 1 .. Len(plan'.steps) : plan'.steps[i].status = "PENDING"
    BY <2>1, NewPlan
  <2>3. TypeOK'
    BY <1>5, <2>1, <2>2 DEF Planner, Typed, TypeOK, Node, StepsLeft, store
  <2> QED
    BY <1>5, <2>1, <2>2, <2>3 DEF Planner, Typed, Placed
<1>6. CASE OverIterations
  BY <1>0, <1>6 DEF OverIterations, Typed, TypeOK, Placed, Node, StepsLeft, executor, store
<1>7. CASE Refuse
  <2>1. PICK kind \in Kind : FailStep(kind)
    BY <1>7 DEF Refuse, Kind
  <2> QED
    BY <1>0, <1>7, <2>1, TypedFail DEF Refuse
<1>8. CASE Ask
  <2>1. fuel' \in 0 .. SuperSteps /\ stage = "idle" /\ node = "executor" /\ run = "RUNNING"
    BY <1>0, <1>8 DEF Ask
  <2>2. approval' \in [ApprovalIds -> {"none", "pending", "yes", "no"}]
    BY <1>8 DEF Ask, Typed, TypeOK
  <2> QED
    BY <1>8, <2>1, <2>2 DEF Ask, Typed, TypeOK, Placed, StepsLeft, thread
<1>9. CASE Human
  <2>1. PICK c \in Call : Decide(c)
    BY <1>9 DEF Human
  <2>2. approval' \in [ApprovalIds -> {"none", "pending", "yes", "no"}] /\ agreed' \subseteq Call
    BY <2>1 DEF Decide, Typed, TypeOK
  <2> QED
    BY <2>1, <2>2 DEF Decide, Typed, TypeOK, Placed, StepsLeft, thread, executor
<1>10. CASE Denied
  <2>1. node = "executor" /\ FailStep("rejected") /\ fuel' \in 0 .. SuperSteps
    BY <1>10 DEF Denied, Typed, TypeOK
  <2> QED
    BY <1>10, <2>1, TypedFail DEF Denied, Kind
<1>11. CASE Reuse
  BY <1>11, Calling, TypedDone DEF Reuse
<1>12. CASE CallTool
  <2>1. /\ node = "executor" /\ run = "RUNNING" /\ attempt < Attempts /\ fuel' \in 0 .. SuperSteps
    <3>1. CASE MayCall
      BY <3>1, Calling
    <3>2. CASE stage = "backoff" /\ run = "RUNNING" /\ UNCHANGED fuel
      BY <3>2 DEF Typed, TypeOK, Placed
    <3> QED
      BY <1>12, <3>1, <3>2 DEF CallTool
  <2> QED
    BY <1>12, <2>1 DEF CallTool, Typed, TypeOK, Placed, StepsLeft, thread, store
<1>13. CASE Transient
  BY <1>13 DEF Transient, Typed, TypeOK, Placed, StepsLeft, thread, store
<1>14. CASE ToolFailure
  <2>1. node = "executor" /\ FailStep("failed") /\ fuel' \in 0 .. SuperSteps
    BY <1>14 DEF ToolFailure, Typed, TypeOK
  <2> QED
    BY <1>14, <2>1, TypedFail DEF ToolFailure, Kind
<1>15. CASE EmitFinished
  <2>1. node = "executor" /\ TheCall \in Call
    BY <1>15, StepType DEF EmitFinished, Typed, TypeOK
  <2> QED
    BY <1>15, <2>1 DEF EmitFinished, Typed, TypeOK, Placed, StepsLeft, thread
<1>16. CASE Succeed
  <2>1. node = "executor" /\ fuel' \in 0 .. SuperSteps
    BY <1>16 DEF Succeed, Typed, TypeOK
  <2> QED
    BY <1>16, <2>1, TypedDone DEF Succeed
<1>17. CASE Accept
  <2>1. fuel' \in 0 .. SuperSteps /\ stage = "idle"
    BY <1>0, <1>17 DEF Accept
  <2>2. /\ node = "verifier" /\ current \in 1 .. Len(plan.steps)
        /\ plan' \in [steps : Seq(PlanStep), remediate : BOOLEAN]
        /\ Len(plan'.steps) = Len(plan.steps)
        /\ plan'.steps[current].status = "COMPLETED"
        /\ \A i \in 1 .. Len(plan.steps) : i # current => plan'.steps[i] = plan.steps[i]
    BY <1>17, Accepted
  <2>3. \A i \in 1 .. Len(plan'.steps) : plan'.steps[i].status = "FAILED" => plan'.steps[i].output \in Kind
    BY <2>2 DEF Typed, Placed
  <2>4. node' = IF current + 1 <= Len(plan.steps) THEN "executor" ELSE "phase_transition"
    BY <1>17 DEF Accept, AfterAccept
  <2> Len(plan.steps) \in Nat /\ current' = current + 1 /\ error' = "none"
    BY <1>17, <2>2, StepType DEF Accept
  <2>6. (node' \in {"executor", "verifier", "error_handler"} => StepsLeft')
        /\ current' \in 1 .. MaxSteps + 1
    BY <2>2, <2>4 DEF StepsLeft, Typed, TypeOK
  <2>7. plan'.remediate \in BOOLEAN /\ Len(plan'.steps) <= MaxSteps
    BY <2>2 DEF Typed, TypeOK
  <2>8. node' \in Node /\ stage' = stage /\ run' = run
    BY <1>17, <2>4 DEF Accept, Node
  <2>5. TypeOK'
    BY <1>17, <2>1, <2>6, <2>7, <2>8 DEF Accept, Typed, TypeOK, store
  <2> QED
    BY <1>17, <2>1, <2>2, <2>3, <2>4, <2>5 DEF Accept, Typed, Placed
<1>18. CASE Reject
  <2>1. fuel' \in 0 .. SuperSteps /\ stage = "idle"
    BY <1>0, <1>18 DEF Reject
  <2>2. /\ node = "verifier" /\ current \in 1 .. Len(plan.steps) /\ TheStep \in PlanStep
        /\ plan' \in [steps : Seq(PlanStep), remediate : BOOLEAN]
        /\ Len(plan'.steps) = Len(plan.steps)
        /\ plan'.steps[current].output = TheStep.output
        /\ plan'.steps[current].status = "FAILED" <=> TheStep.status = "FAILED"
        /\ \A i \in 1 .. Len(plan.steps) : i # current => plan'.steps[i] = plan.steps[i]
    BY <1>18, Rejected
  <2>3. TheStep.status = "FAILED" => TheStep.output \in Kind
    BY <2>2 DEF Typed, Placed, TheStep
  <2>4. \A i \in 1 .. Len(plan'.steps) : plan'.steps[i].status = "FAILED" => plan'.steps[i].output \in Kind
    BY <2>2, <2>3 DEF Typed, Placed
  <2>5. error' \in Kind /\ retries' \in Nat
    <3>1. error' \in Kind
      BY <1>18, <2>3 DEF Reject, Verdict, Kind
    <3>2. retries \in Nat /\ Counted \in Nat /\ retries' = retries + Counted
      BY <1>18 DEF Reject, Counted, Typed, TypeOK
    <3> QED
      BY <3>1, <3>2
  <2> Len(plan.steps) \in Nat /\ error' \in {"none", "failed", "rejected", "blocked"}
    BY <2>2, <2>5, StepType DEF Kind
  <2>7. StepsLeft' /\ current' = current
    BY <1>18, <2>2 DEF Reject, StepsLeft
  <2>8. plan'.remediate \in BOOLEAN /\ Len(plan'.steps) <= MaxSteps
    BY <2>2 DEF Typed, TypeOK
  <2>9. node' \in Node /\ stage' = stage /\ run' = run
    BY <1>18 DEF Reject, Node, executor
  <2>6. TypeOK'
    BY <1>18, <2>1, <2>5, <2>7, <2>8, <2>9 DEF Reject, Typed, TypeOK, executor, store
  <2> QED
    BY <1>18, <2>1, <2>2, <2>4, <2>6 DEF Reject, Typed, Placed, executor
<1>19. CASE ErrorHandler
  <2>1. node' \in {"planner", "responder"} /\ node = "error_handler"
    BY <1>0, <1>19 DEF ErrorHandler
  <2> QED
    BY <1>0, <1>19, <2>1 DEF ErrorHandler, Typed, TypeOK, Placed, Node, executor, store
<1>20. CASE PhaseTransition
  <2>1. node' \in {"planner", "responder"} /\ node = "phase_transition"
    BY <1>0, <1>20 DEF PhaseTransition
  <2>2. phase' \in Phase
    BY <1>20 DEF PhaseTransition, NextPhase, Phase
  <2>3. task \in 1 .. MaxTasks /\ findings \subseteq 1 .. MaxTasks
    BY <2>1 DEF Typed, TypeOK, Placed
  <2>4. findings' \subseteq 1 .. MaxTasks
    BY <1>20, <2>3 DEF PhaseTransition
  <2> QED
    BY <1>0, <1>20, <2>1, <2>2, <2>4 DEF PhaseTransition, Typed, TypeOK, Placed, Node, executor, store
<1>21. CASE Responder
  <2>1. run' \in {"COMPLETED", "FAILED"} /\ fuel' = 0 /\ known' = {} /\ stage = "idle"
    BY <1>21 DEF Responder, EndRun
  <2> QED
    BY <1>21, <2>1 DEF Responder, SuperSteps, Typed, TypeOK, Placed, Node, executor
<1>22. CASE UNCHANGED vars
  BY <1>22 DEF Typed, TypeOK, Placed, StepsLeft, vars, thread, executor, store, budget
<1> QED
  BY Steps, <1>1, <1>2, <1>3, <1>4, <1>5, <1>6, <1>7, <1>8, <1>9, <1>10, <1>11, <1>12, <1>13, <1>14,
     <1>15, <1>16, <1>17, <1>18, <1>19, <1>20, <1>21, <1>22, <1>a, <1>b

\* The same, of every checkpoint too.
LEMMA TypedStep ==
  ASSUME Typed, [Next]_vars
  PROVE  Typed'
<1>1. TypeOK' /\ Placed'
  BY TypedMove
<1>2. TypedAt(Here')
  BY <1>1 DEF TypeOK, Placed, TypedAt, Here, StepsLeft
<1>3. \A c \in Points' : TypedAt(c)
  BY <1>2, PointsStep DEF Typed, Saved
<1> QED
  BY <1>1, <1>3 DEF Typed, Saved

\* The state of a thread keeps its types: plans are well formed, the executor works on a
\* step that is there, and no budget is overdrawn.
THEOREM TypeHolds == Spec => []TypeOK
<1>1. Spec => []Typed
  BY TypedInit, TypedStep, PTL DEF Spec
<1> QED
  BY <1>1, PTL DEF Typed

------------------------------------------------------------------------------
(* What each step does to the place and the counters.                       *)

\* The nodes and what follows them.
LEMMA Places ==
  ASSUME Typed
  PROVE  /\ TakeInput => node' = "planner"
         /\ Planner => stage = "idle" /\ node = "planner" /\ node' \in {"executor", "responder"}
         /\ OverIterations \/ Refuse \/ Denied \/ ToolFailure \/ Reuse \/ Succeed =>
              node = "executor" /\ node' = "verifier"
         /\ Ask \/ CallTool \/ Transient \/ EmitFinished =>
              node = "executor" /\ UNCHANGED node
         /\ Accept => stage = "idle" /\ node = "verifier" /\ node' \in {"executor", "phase_transition"}
         /\ Reject => stage = "idle" /\ node = "verifier" /\ node' = "error_handler"
         /\ ErrorHandler => stage = "idle" /\ node = "error_handler" /\ node' \in {"planner", "responder"}
         /\ PhaseTransition =>
              stage = "idle" /\ node = "phase_transition" /\ node' \in {"planner", "responder"}
         /\ Responder => stage = "idle" /\ node = "responder" /\ node' = "end"
<1>1. Reuse => node = "executor" /\ node' = "verifier"
  BY Calling DEF Reuse, StepDone
<1>2. CallTool => node = "executor" /\ UNCHANGED node
  BY Calling DEF CallTool, Typed, TypeOK, thread
<1>3. OverIterations \/ Refuse \/ Denied \/ ToolFailure \/ Succeed =>
        node = "executor" /\ node' = "verifier"
  BY DEF OverIterations, Refuse, Denied, ToolFailure, Succeed, FailStep, StepDone, Enter,
         Typed, TypeOK
<1>4. Ask \/ Transient \/ EmitFinished => node = "executor" /\ UNCHANGED node
  BY DEF Ask, Transient, EmitFinished, Enter, Typed, TypeOK, thread
<1>5. Accept => stage = "idle" /\ node = "verifier" /\ node' \in {"executor", "phase_transition"}
  BY DEF Accept, AfterAccept, Enter
<1> QED
  BY <1>1, <1>2, <1>3, <1>4, <1>5
     DEF TakeInput, Planner, Reject, ErrorHandler, PhaseTransition, Responder, Enter

\* The step the executor leaves to the verifier.
LEMMA Written ==
  ASSUME Typed, node = "executor", NEW status \in {"COMPLETED", "FAILED"},
         NEW output \in {"ok"} \cup Kind, SetStep(status, output), UNCHANGED current
  PROVE  /\ TheStep' \in PlanStep /\ TheStep'.status = status /\ TheStep'.output = output
         /\ TheStep'.action = TheStep.action
         /\ Len(plan'.steps) = Len(plan.steps) /\ current \in 1 .. Len(plan.steps)
         /\ \A i \in 1 .. Len(plan.steps) : i # current => plan'.steps[i] = plan.steps[i]
<1>1. TheStep \in PlanStep /\ current \in 1 .. Len(plan.steps)
  BY StepType
<1>2. TheStep' = [TheStep EXCEPT !.status = status, !.output = output]
  BY Set DEF TheStep
<1> QED
  BY <1>1, <1>2, Set DEF PlanStep

LEMMA Fails ==
  ASSUME Typed, Refuse \/ Denied \/ ToolFailure
  PROVE  \E kind \in Kind :
           /\ kind = "failed" => ToolFailure
           /\ FailStep(kind) /\ node = "executor" /\ UNCHANGED current
           /\ TheStep'.status = "FAILED" /\ TheStep'.output = kind
           /\ Len(plan'.steps) = Len(plan.steps) /\ current \in 1 .. Len(plan.steps)
           /\ \A i \in 1 .. Len(plan.steps) : i # current => plan'.steps[i] = plan.steps[i]
<1>1. node = "executor" /\ UNCHANGED current
  BY Places DEF Refuse, Denied, ToolFailure
<1>2. PICK kind \in Kind : FailStep(kind) /\ (kind = "failed" => ToolFailure)
  BY DEF Refuse, Denied, ToolFailure, Kind
<1>3. SetStep("FAILED", kind)
  BY <1>2 DEF FailStep
<1> QED
  BY <1>1, <1>2, <1>3, Written

LEMMA Succeeds ==
  ASSUME Typed, Reuse \/ Succeed
  PROVE  /\ StepDone /\ node = "executor" /\ UNCHANGED current
         /\ TheStep'.status = "COMPLETED" /\ TheStep'.output = "ok"
         /\ TheStep'.action = TheStep.action
         /\ Len(plan'.steps) = Len(plan.steps) /\ current \in 1 .. Len(plan.steps)
         /\ \A i \in 1 .. Len(plan.steps) : i # current => plan'.steps[i] = plan.steps[i]
<1>1. node = "executor" /\ UNCHANGED current /\ StepDone
  BY Places DEF Reuse, Succeed
<1>2. SetStep("COMPLETED", "ok")
  BY <1>1 DEF StepDone
<1> QED
  BY <1>1, <1>2, Written

------------------------------------------------------------------------------
(* The retry budget.                                                        *)

LEMMA FreshMove ==
  ASSUME Typed, FreshAt(Here), [Next]_vars, ~ Resume
  PROVE  FreshAt(Here)'
<1>1. CASE UNCHANGED <<thread, refused, failing, streak>>
  BY <1>1 DEF FreshAt, StepAt, Here, thread
<1>2. CASE Planner
  <2>1. plan' \in Plan /\ current' = 1
    BY <1>2 DEF Planner
  <2>2. \A i \in 1 .. Len(plan'.steps) :
          plan'.steps[i].status = "PENDING" /\ plan'.steps[i].output = "none"
    BY <2>1, NewPlan
  <2> QED
    BY <1>2, <2>1, <2>2, Places DEF FreshAt, StepAt, Here, TheStep
<1>3. CASE OverIterations
  <2>1. current \in 1 .. Len(plan.steps) /\ node = "executor" /\ node' = "verifier"
    BY <1>3, StepType, Places
  <2> QED
    BY <1>3, <2>1 DEF FreshAt, StepAt, Here, OverIterations
<1>4. CASE Refuse \/ Denied \/ ToolFailure
  <2>1. node = "executor" /\ node' = "verifier"
    BY <1>4, Places
  <2> QED
    BY <1>4, <2>1, Fails DEF FreshAt, StepAt, Here, TheStep
<1>5. CASE Reuse \/ Succeed
  <2>1. node = "executor" /\ node' = "verifier"
    BY <1>5, Places
  <2> QED
    BY <1>5, <2>1, Succeeds DEF FreshAt, StepAt, Here, TheStep
<1>6. CASE Accept
  <2>1. current' = current + 1 /\ node' \in {"executor", "phase_transition"}
    BY <1>6, Places DEF Accept
  <2> QED
    BY <1>6, <2>1, Accepted DEF FreshAt, StepAt, Here, TheStep
<1>7. CASE TakeInput \/ Reject \/ ErrorHandler \/ PhaseTransition \/ Responder
  BY <1>7, Places DEF FreshAt, StepAt, Here, TheStep
<1> QED
  BY <1>1, <1>2, <1>3, <1>4, <1>5, <1>6, <1>7, Moves

LEMMA FreshStep ==
  ASSUME Typed, Fresh, [Next]_vars
  PROVE  Fresh'
<1>1. CASE Resume
  <2>1. PICK t \in 1 .. turns, c \in Points : ResumeFrom(t, c)
    BY <1>1, GoesOn
  <2>2. FreshAt(c) /\ GoOnFrom(c)
    BY <2>1 DEF Fresh, ResumeFrom
  <2>3. FreshAt(Here)'
    BY <2>2 DEF GoOnFrom, FreshAt, StepAt, Here
  <2> QED
    BY <2>3, PointsStep DEF Fresh
<1>2. CASE ~ Resume
  <2>1. FreshAt(Here)'
    BY <1>2, FreshMove DEF Fresh, Points
  <2> QED
    BY <2>1, PointsStep DEF Fresh
<1> QED
  BY <1>1, <1>2

LEMMA BudgetedMove ==
  ASSUME Typed, FreshAt(Here), BudgetedAt(Here), [Next]_vars, ~ Resume
  PROVE  BudgetedAt(Here)'
<1> USE ConfigAssumption
<1>0. retries \in Nat
  BY DEF Typed, TypeOK
<1>1. CASE UNCHANGED <<thread, refused, failing, streak>>
  BY <1>1 DEF BudgetedAt, StepAt, Here, thread
<1>2. CASE TakeInput
  BY <1>2 DEF BudgetedAt, Here, TakeInput
<1>3. CASE Planner
  BY <1>3, Places DEF BudgetedAt, StepAt, TheStep, Here, Planner, budget
<1>4. CASE OverIterations
  <2>1. current \in 1 .. Len(plan.steps) /\ node = "executor" /\ node' = "verifier"
    BY <1>4, StepType, Places
  <2>2. TheStep' = TheStep /\ TheStep.status = "PENDING"
    BY <1>4, <2>1 DEF FreshAt, StepAt, Here, OverIterations, TheStep
  <2> QED
    BY <1>4, <2>1, <2>2 DEF BudgetedAt, StepAt, TheStep, Here, OverIterations, budget
<1>5. CASE Refuse \/ Denied \/ ToolFailure
  <2>1. /\ node = "executor" /\ node' = "verifier" /\ TheStep'.status = "FAILED"
        /\ retries' = retries + 1 /\ streak' = streak
    BY <1>5, Fails, Places DEF FailStep, Refuse, Denied, ToolFailure, budget
  <2> QED
    BY <1>0, <2>1 DEF BudgetedAt, StepAt, TheStep, Here
<1>6. CASE Reuse \/ Succeed
  <2>1. node' = "verifier" /\ TheStep'.status = "COMPLETED" /\ retries' = 0 /\ streak' = 0
    BY <1>6, Succeeds DEF StepDone
  <2> QED
    BY <2>1 DEF BudgetedAt, StepAt, TheStep, Here
<1>7. CASE Accept
  <2>1. /\ node = "verifier" /\ TheStep.status # "FAILED"
        /\ node' \in {"executor", "phase_transition"} /\ UNCHANGED <<retries, streak>>
    BY <1>7, Accepted, Places DEF Accept, budget
  <2> QED
    BY <2>1 DEF BudgetedAt, StepAt, TheStep, Here
<1>8. CASE Reject
  <2>1. /\ node = "verifier" /\ node' = "error_handler" /\ streak' = streak
        /\ retries' = IF TheStep.status = "FAILED" THEN retries ELSE retries + 1
    BY <1>0, <1>8, Places DEF Reject, Counted, budget
  <2> QED
    BY <1>0, <2>1 DEF BudgetedAt, StepAt, TheStep, Here
<1>9. CASE ErrorHandler
  BY <1>0, <1>9, Places DEF ErrorHandler, GiveUp, BudgetedAt, Here, budget
<1>10. CASE PhaseTransition \/ Responder
  BY <1>10, Places DEF PhaseTransition, Responder, BudgetedAt, Here, budget
<1> QED
  BY <1>1, <1>2, <1>3, <1>4, <1>5, <1>6, <1>7, <1>8, <1>9, <1>10, Moves

LEMMA BudgetedStep ==
  ASSUME Typed, Fresh, Budgeted, [Next]_vars
  PROVE  Budgeted'
<1>1. CASE Resume
  <2>1. PICK t \in 1 .. turns, c \in Points : ResumeFrom(t, c)
    BY <1>1, GoesOn
  <2>2. BudgetedAt(c) /\ GoOnFrom(c)
    BY <2>1 DEF Budgeted, ResumeFrom
  <2>3. BudgetedAt(Here)'
    BY <2>2 DEF GoOnFrom, BudgetedAt, StepAt, Here
  <2> QED
    BY <2>3, PointsStep DEF Budgeted
<1>2. CASE ~ Resume
  <2>1. BudgetedAt(Here)'
    BY <1>2, BudgetedMove DEF Fresh, Budgeted, Points
  <2> QED
    BY <2>1, PointsStep DEF Budgeted
<1> QED
  BY <1>1, <1>2

\* While no tool succeeds, the graph plans again fewer times than the budget says, however
\* long its plans are and wherever they fail.
THEOREM StreakHolds == Spec => []StreakWithinBudget
<1>1. Init => Fresh /\ Budgeted
  <2>1. Init => \A c \in Points : c = NoCheckpoint
    BY DEF Init, Points, Here, NoCheckpoint
  <2>2. FreshAt(NoCheckpoint) /\ BudgetedAt(NoCheckpoint)
    BY ConfigAssumption DEF NoCheckpoint, FreshAt, BudgetedAt
  <2> QED
    BY <2>1, <2>2 DEF Fresh, Budgeted
<1>2. Spec => [](Typed /\ Fresh /\ Budgeted)
  BY <1>1, TypedInit, TypedStep, FreshStep, BudgetedStep, PTL DEF Spec
<1>3. Budgeted => StreakWithinBudget
  <2>1. Budgeted => BudgetedAt(Here)
    BY DEF Budgeted, Points
  <2> QED
    BY <2>1 DEF BudgetedAt, Here, StreakWithinBudget
<1> QED
  BY <1>2, <1>3, PTL

------------------------------------------------------------------------------
(* Calls.                                                                   *)

LEMMA DueStep ==
  ASSUME Typed, Due, [Next]_vars
  PROVE  Due'
<1>0. /\ known \subseteq finished /\ (stage # "idle" => run = "RUNNING")
      /\ stage \notin {"idle", "input"} => node = "executor"
  BY DEF Typed, TypeOK
<1>1. CASE TakeInput \/ ErrorHandler \/ PhaseTransition \/ Responder
  <2>1. node' # "executor" /\ stage' = "idle" /\ runs' = runs
    BY <1>1, Places DEF TakeInput, ErrorHandler, PhaseTransition, Responder, executor
  <2> QED
    BY <2>1 DEF Due
<1>2. CASE Resume
  <2>1. PICK t \in 1 .. turns, c \in Points : ResumeFrom(t, c)
    BY <1>2, GoesOn
  <2>2. stage = "idle" /\ stage' = "idle" /\ run # "RUNNING" /\ run' = "RUNNING" /\ finished' = finished
    BY <1>0, <2>1 DEF ResumeFrom
  <2>3. CASE runs' = 0
    BY <2>2, <2>3 DEF Due
  <2>4. CASE t = task /\ c = Here /\ runs' = runs /\ known' = KnownTo(t)
    <3>1. node' = node /\ TheCall' = TheCall
      BY <2>1, <2>4 DEF ResumeFrom, GoOnFrom, Here, TheCall, TheStep
    <3>2. TheCall.task = t
      BY <2>4 DEF TheCall
    <3> QED
      BY <2>2, <2>4, <3>1, <3>2 DEF Due, KnownTo
  <2> QED
    BY <2>1, <2>3, <2>4 DEF ResumeFrom
<1>14. CASE Begin
  BY <1>14 DEF Due, Begin
<1>3. CASE Abort
  <2>1. /\ stage' = "idle" /\ run' # "RUNNING" /\ finished' = finished /\ node' = node
        /\ runs' = IF stage = "called" THEN runs - 1 ELSE runs
        /\ TheCall' = TheCall
    BY <1>3 DEF Abort, EndRun, TheCall, TheStep, thread
  <2>2. runs' \in 0 .. 1
    BY <2>1 DEF Due
  <2>3. runs' = 1 /\ node = "executor" => TheCall \in finished
    BY <1>0, <1>3, <2>1 DEF Due, Abort, Typed, TypeOK
  <2> QED
    BY <2>1, <2>2, <2>3 DEF Due
<1>4. CASE OutOfSteps \/ NothingToDo \/ Keep
  <2>1. CASE Keep
    BY <2>1 DEF Due, Keep, TheCall, TheStep, thread, executor, store
  <2>2. CASE OutOfSteps \/ NothingToDo
    <3>1. stage = "idle" /\ run = "RUNNING" /\ run' # "RUNNING" /\ UNCHANGED <<thread, task, executor, finished>>
      BY <2>2 DEF OutOfSteps, NothingToDo, EndRun, AsItEnded
    <3> QED
      BY <1>0, <3>1 DEF Due, TheCall, TheStep, thread, executor
  <2> QED
    BY <1>4, <2>1, <2>2
<1>5. CASE Planner \/ Accept
  <2>1. stage' = "idle" /\ runs' = 0
    BY <1>5, Places DEF Planner, Accept
  <2> QED
    BY <2>1 DEF Due
<1>6. CASE OverIterations \/ Reject
  <2>1. node' # "executor" /\ stage' = stage /\ stage = "idle" /\ runs' = runs
    BY <1>6, Places DEF OverIterations, Reject, Enter, executor
  <2> QED
    BY <2>1 DEF Due
<1>7. CASE Refuse \/ Denied \/ ToolFailure \/ Reuse \/ Succeed
  <2>1. node' # "executor" /\ stage' = "idle" /\ runs' = runs
    BY <1>7, Places
       DEF Refuse, Denied, ToolFailure, Reuse, Succeed, FailStep, StepDone
  <2> QED
    BY <2>1 DEF Due
<1>8. CASE Ask
  BY <1>8 DEF Due, Ask, Enter, TheCall, TheStep, thread
<1>9. CASE CallTool
  <2>1. runs = 0
    BY <1>9, Calling DEF CallTool, Due
  <2> QED
    BY <1>9, <2>1 DEF CallTool, Due
<1>10. CASE Transient
  BY <1>10 DEF Due, Transient
<1>11. CASE EmitFinished
  BY <1>11 DEF Due, EmitFinished, TheCall, TheStep, thread
<1>12. CASE Human
  BY <1>12 DEF Due, Human, Decide, TheCall, TheStep, thread, executor
<1>13. CASE UNCHANGED vars
  BY <1>13 DEF Due, vars, TheCall, TheStep, thread, executor, store
<1> QED
  BY <1>1, <1>2, <1>3, <1>4, <1>5, <1>6, <1>7, <1>8, <1>9, <1>10, <1>11, <1>12, <1>13,
     <1>14, Steps

LEMMA EndingMove ==
  ASSUME Typed, EndingAt(Here), [Next]_vars, ~ Resume
  PROVE  EndingAt(Here)'
<1>1. CASE UNCHANGED <<thread, refused, failing, streak>>
  BY <1>1 DEF EndingAt, StepAt, Here, thread
<1>2. CASE TakeInput
  BY <1>2 DEF EndingAt, Here, TakeInput
<1>3. CASE Planner \/ OverIterations \/ PhaseTransition
  <2>1. node \in {"planner", "executor", "phase_transition"} /\ refused' = refused
    BY <1>3, Places DEF Planner, OverIterations, PhaseTransition
  <2> QED
    BY <2>1 DEF EndingAt, Here
<1>4. CASE Reuse \/ Succeed
  <2>1. node = "executor" /\ refused' = refused
    BY <1>4, Places DEF Reuse, Succeed
  <2> QED
    BY <2>1 DEF EndingAt, Here
<1>5. CASE ToolFailure
  BY <1>5, Places DEF EndingAt, StepAt, TheStep, Here, ToolFailure
<1>6. CASE Refuse \/ Denied
  <2>1. PICK kind \in {"rejected", "blocked"} : FailStep(kind)
    BY <1>6 DEF Refuse, Denied
  <2>2. SetStep("FAILED", kind) /\ node = "executor" /\ node' = "verifier" /\ UNCHANGED current
    BY <1>6, <2>1, Places DEF FailStep, Refuse, Denied
  <2>3. kind \in Kind
    BY DEF Kind
  <2>4. TheStep'.status = "FAILED" /\ TheStep'.output = kind
    BY <2>2, <2>3, Written
  <2> QED
    BY <2>2, <2>4 DEF EndingAt, StepAt, TheStep, Here
<1>7. CASE Accept
  BY <1>7, Accepted DEF EndingAt, StepAt, TheStep, Here, Accept
<1>8. CASE Reject
  BY <1>8, Places DEF EndingAt, StepAt, TheStep, Here, Reject, Verdict
<1>9. CASE ErrorHandler
  BY <1>9, Places DEF EndingAt, StepAt, TheStep, Here, ErrorHandler, GiveUp
<1>10. CASE Responder
  BY <1>10, Places DEF EndingAt, StepAt, TheStep, Here, Responder
<1> QED
  BY <1>1, <1>2, <1>3, <1>4, <1>5, <1>6, <1>7, <1>8, <1>9, <1>10, Moves

LEMMA EndingStep ==
  ASSUME Typed, Ending, [Next]_vars
  PROVE  Ending'
<1>1. CASE Resume
  <2>1. PICK t \in 1 .. turns, c \in Points : ResumeFrom(t, c)
    BY <1>1, GoesOn
  <2>2. EndingAt(c) /\ GoOnFrom(c)
    BY <2>1 DEF Ending, ResumeFrom
  <2>3. EndingAt(Here)'
    BY <2>2 DEF GoOnFrom, EndingAt, StepAt, Here
  <2> QED
    BY <2>3, PointsStep DEF Ending
<1>2. CASE ~ Resume
  <2>1. EndingAt(Here)'
    BY <1>2, EndingMove DEF Ending, Points
  <2> QED
    BY <2>1, PointsStep DEF Ending
<1> QED
  BY <1>1, <1>2

\* A planned step calls its tool once, and again only after a transient failure, a fault that
\* hid the result, or a resume that goes back to an earlier checkpoint or goes on as another
\* task; and once a call was refused, no checkpoint from there on to the end of the turn lets
\* a run call a tool, whatever was planned besides and whichever of them a resume names.
THEOREM CallsHold == Spec => []CallsAreDue
<1>1. Init => Due /\ Ending
  <2>1. Init => \A c \in Points : ~ c.refused
    BY DEF Init, Points, Here, NoCheckpoint
  <2> QED
    BY <2>1 DEF Init, Due, Ending, EndingAt
<1>2. Spec => [](Typed /\ Due /\ Ending)
  BY <1>1, TypedInit, TypedStep, DueStep, EndingStep, PTL DEF Spec
<1>3. Typed /\ Due /\ Ending => CallsAreDue
  <2>1. Ending => EndingAt(Here)
    BY DEF Ending, Points
  <2>2. EndingAt(Here) => (refused => node # "executor")
    BY DEF EndingAt, Here
  <2> QED
    BY <2>1, <2>2 DEF Typed, TypeOK, Due, CallsAreDue
<1> QED
  BY <1>2, <1>3, PTL

------------------------------------------------------------------------------
(* Success.                                                                 *)

\* What is stored stays stored.
LEMMA Stays ==
  ASSUME Typed, [Next]_vars
  PROVE  /\ finished \subseteq finished'
         /\ turns \in Nat /\ turns' \in Nat /\ turns <= turns'
         /\ \A c \in Points : BackedAt(c) => BackedAt(c)'
<1>1. finished \subseteq finished'
  BY Steps DEF Begin, Resume, ResumeFrom, Abort, Keep, Human, Decide, TakeInput, Planner,
         OverIterations, Refuse, Denied, ToolFailure, Reuse, Succeed, Ask, CallTool, Transient,
         EmitFinished, Accept, Reject, ErrorHandler, PhaseTransition, Responder, OutOfSteps,
         NothingToDo, vars, store
<1>2. turns \in Nat
  BY ConfigAssumption DEF Typed, TypeOK
<1>3. turns' = turns \/ turns' = turns + 1
  BY Steps DEF Begin, Resume, ResumeFrom, Abort, Keep, Human, Decide, TakeInput, Planner,
         OverIterations, Refuse, Denied, ToolFailure, Reuse, Succeed, Ask, CallTool, Transient,
         EmitFinished, Accept, Reject, ErrorHandler, PhaseTransition, Responder, OutOfSteps,
         NothingToDo, vars
<1>4. turns' \in Nat /\ turns <= turns'
  BY <1>2, <1>3
<1>5. \A i, a : Stored(a, i) => Stored(a, i)'
  BY <1>1, <1>2, <1>4 DEF Stored
<1>6. \A c \in Points : BackedAt(c) => BackedAt(c)'
  BY <1>5 DEF BackedAt
<1> QED
  BY <1>1, <1>2, <1>4, <1>6

LEMMA BackedMove ==
  ASSUME Typed, FreshAt(Here), Due, BackedAt(Here), [Next]_vars, ~ Resume
  PROVE  BackedAt(Here)'
<1> DEFINE busy == {"planner", "executor", "verifier", "error_handler", "phase_transition"}
           settled == {"planner", "executor", "phase_transition", "error_handler", "responder", "end"}
           done(i) == plan.steps[i].status = "COMPLETED"
           has(i) == Stored(plan.steps[i].action, i)
<1>0. /\ node \in busy => phase # "COMPLETE"
      /\ \A i \in 1 .. Len(plan.steps) : done(i) => has(i)
      /\ node \in settled => (failing => error # "none")
  BY DEF BackedAt, Here
<1>a. ASSUME /\ node' \in busy => phase' # "COMPLETE"
             /\ \A i \in 1 .. Len(plan'.steps) : done(i)' => has(i)'
             /\ node' \in settled => (failing' => error' # "none")
      PROVE  BackedAt(Here)'
  BY <1>a DEF BackedAt, Here
<1>b. \A i, a : Stored(a, i) => Stored(a, i)'
  BY Stays DEF Stored
<1>1. CASE UNCHANGED <<thread, refused, failing, streak>>
  BY <1>0, <1>1, <1>a, <1>b DEF thread
<1>2. CASE TakeInput
  <2>1. Len(plan'.steps) = 0
    BY <1>2, EmptySeq DEF TakeInput, NoPlan
  <2> QED
    BY <1>2, <1>a, <2>1 DEF TakeInput
<1>4. CASE Planner
  <2>1. plan' \in Plan
    BY <1>4 DEF Planner
  <2>2. \A i \in 1 .. Len(plan'.steps) : ~ done(i)'
    BY <2>1, NewPlan
  <2> QED
    BY <1>0, <1>4, <1>a, <2>1, <2>2, Places DEF Planner
<1>5. CASE OverIterations
  <2>1. node = "executor" /\ node' = "verifier" /\ UNCHANGED <<phase, plan>>
    BY <1>5, Places DEF OverIterations
  <2> QED
    BY <1>0, <1>a, <1>b, <2>1
<1>6. CASE Refuse \/ Denied \/ ToolFailure
  <2>1. node = "executor" /\ node' = "verifier" /\ UNCHANGED phase
    BY <1>6, Places DEF Refuse, Denied, ToolFailure
  <2>2. \A i \in 1 .. Len(plan'.steps) : done(i)' => plan'.steps[i] = plan.steps[i]
    BY <1>6, Fails DEF TheStep
  <2>3. Len(plan'.steps) = Len(plan.steps)
    BY <1>6, Fails
  <2> QED
    BY <1>0, <1>a, <1>b, <2>1, <2>2, <2>3
<1>7. CASE Reuse \/ Succeed
  <2>1. /\ node = "executor" /\ node' = "verifier" /\ UNCHANGED <<phase, finished, current>>
        /\ run = "RUNNING"
    BY <1>7, Places, Calling DEF Reuse, Succeed, store
  <2>2. TheCall \in finished /\ phase \in {"INVESTIGATE", "REMEDIATE"}
    BY <1>0, <1>7, <2>1 DEF Reuse, Succeed, Due, Typed, TypeOK, Phase
  <2>3. TheCall = [task |-> task, phase |-> phase, step |-> current, action |-> plan'.steps[current].action]
    BY <1>7, <2>1, Succeeds DEF TheCall, TheStep
  <2>4. \A i \in 1 .. Len(plan.steps) : i # current => plan'.steps[i] = plan.steps[i]
    BY <1>7, Succeeds
  <2>5. task \in 1 .. turns
    BY <2>1, Stays DEF Typed, TypeOK, Placed
  <2>6. Stored(plan'.steps[current].action, current)
    BY <2>2, <2>3, <2>5 DEF Stored
  <2>7. Len(plan'.steps) = Len(plan.steps)
    BY <1>7, Succeeds
  <2>8. \A i \in 1 .. Len(plan'.steps) : done(i)' => has(i)'
    BY <1>0, <1>b, <2>4, <2>6, <2>7
  <2> QED
    BY <1>0, <1>a, <2>1, <2>8
<1>8. CASE Accept
  <2>1. node = "verifier" /\ UNCHANGED phase /\ ~ failing'
    BY <1>8, Places DEF Accept
  <2>2. done(current) /\ current \in 1 .. Len(plan.steps)
    BY <1>8, <2>1, Accepted DEF FreshAt, StepAt, Here, PlanStep, TheStep
  <2>3. \A i \in 1 .. Len(plan.steps) : plan'.steps[i].action = plan.steps[i].action
    BY <1>8, Accepted DEF TheStep
  <2>4. \A i \in 1 .. Len(plan.steps) : done(i)' => done(i)
    BY <1>8, <2>2, Accepted
  <2>5. Len(plan'.steps) = Len(plan.steps)
    BY <1>8, Accepted
  <2> QED
    BY <1>0, <1>a, <1>b, <2>1, <2>3, <2>4, <2>5
<1>9. CASE Reject
  <2>1. node = "verifier" /\ UNCHANGED phase
    BY <1>9, Places DEF Reject
  <2>2. \A i \in 1 .. Len(plan.steps) : done(i)' => plan'.steps[i] = plan.steps[i]
    BY <1>9, Rejected
  <2>3. TheStep.status = "FAILED" => TheStep.output \in Kind
    BY <1>9, Rejected DEF Typed, Placed, TheStep
  <2>4. error' # "none"
    BY <1>9, <2>3 DEF Reject, Verdict, Kind
  <2>5. Len(plan'.steps) = Len(plan.steps)
    BY <1>9, Rejected
  <2> QED
    BY <1>0, <1>a, <1>b, <2>1, <2>2, <2>4, <2>5
<1>10. CASE ErrorHandler
  BY <1>0, <1>10, <1>a, <1>b, Places DEF ErrorHandler
<1>11. CASE PhaseTransition
  BY <1>0, <1>11, <1>a, <1>b, Places DEF PhaseTransition, NextPhase
<1>12. CASE Responder
  <2>1. node = "responder" /\ node' = "end" /\ UNCHANGED <<plan, failing, error>>
    BY <1>12, Places DEF Responder
  <2> QED
    BY <1>0, <1>a, <1>b, <2>1
<1> QED
  BY <1>1, <1>2, <1>4, <1>5, <1>6, <1>7, <1>8, <1>9, <1>10, <1>11, <1>12, Moves

LEMMA BackedStep ==
  ASSUME Typed, Fresh, Due, Backed, [Next]_vars
  PROVE  Backed'
<1>1. CASE Resume
  <2>1. PICK t \in 1 .. turns, c \in Points : ResumeFrom(t, c)
    BY <1>1, GoesOn
  <2>2. BackedAt(c)' /\ GoOnFrom(c)
    BY <2>1, Stays DEF Backed, ResumeFrom
  <2>3. BackedAt(Here)'
    BY <2>2 DEF GoOnFrom, BackedAt, Here
  <2> QED
    BY <2>3, Stays, PointsStep DEF Backed
<1>2. CASE ~ Resume
  <2>1. BackedAt(Here)'
    BY <1>2, BackedMove DEF Fresh, Backed, Points
  <2> QED
    BY <2>1, Stays, PointsStep DEF Backed
<1> QED
  BY <1>1, <1>2

\* Who reports a run COMPLETED has looked at every step.
LEMMA CompletedStep ==
  ASSUME Typed, Backed, Completed, [Next]_vars
  PROVE  Completed'
<1> DEFINE done(i) == plan.steps[i].status = "COMPLETED"
<1>1. CASE Begin \/ Resume \/ Abort \/ OutOfSteps
  BY <1>1 DEF Begin, Resume, ResumeFrom, Abort, OutOfSteps, EndRun, Completed
<1>2. CASE Human \/ Keep \/ UNCHANGED vars
  BY <1>2 DEF Human, Decide, Keep, vars, thread, Completed
<1>3. CASE Responder \/ NothingToDo
  <2>1. DOMAIN plan.steps = 1 .. Len(plan.steps)
    BY LenProperties DEF Typed, Placed
  <2>2. /\ node \in {"responder", "end", "none"} /\ UNCHANGED <<plan, failing>>
        /\ run' = "COMPLETED" => node' = "end" /\ node # "none" /\ Succeeded
    BY <1>3, Places DEF Responder, NothingToDo, EndRun, AsItEnded, thread
  <2>3. Succeeded /\ node # "none" => ~ failing /\ \A i \in 1 .. Len(plan.steps) : done(i)
    <3>1. BackedAt(Here)
      BY DEF Backed, Points
    <3>2. node \in {"responder", "end"} => (failing => error # "none")
      BY <3>1 DEF BackedAt, Here
    <3> QED
      BY <2>1, <2>2, <3>2 DEF Succeeded
  <2> QED
    BY <2>2, <2>3 DEF Completed
<1>4. CASE \/ TakeInput \/ Planner \/ OverIterations \/ Refuse \/ Denied \/ ToolFailure \/ Reuse
           \/ Succeed \/ Ask \/ CallTool \/ Transient \/ EmitFinished \/ Accept \/ Reject
           \/ ErrorHandler \/ PhaseTransition
  <2>1. run' = "RUNNING"
    BY <1>4, Calling
       DEF TakeInput, Planner, OverIterations, Refuse, Denied, ToolFailure, Reuse, Succeed, Ask,
           CallTool, Transient, EmitFinished, Accept, Reject, ErrorHandler, PhaseTransition, Enter
  <2> QED
    BY <2>1 DEF Completed
<1> QED
  BY <1>1, <1>2, <1>3, <1>4, Steps

\* A run reported COMPLETED has a stored successful call behind every step of its last plan
\* and left no failure behind, whatever was replanned, reused or resumed on the way, from
\* whatever checkpoint and as whatever task of the thread.
THEOREM SuccessHolds == Spec => []NoFalseSuccess
<1>1. Init => Fresh /\ Due /\ Backed /\ Completed
  <2>1. Init => \A c \in Points : c = NoCheckpoint
    BY DEF Init, Points, Here, NoCheckpoint
  <2>2. FreshAt(NoCheckpoint) /\ BackedAt(NoCheckpoint)
    BY EmptySeq DEF NoCheckpoint, NoPlan, FreshAt, BackedAt
  <2>3. Init => Due /\ Completed
    BY DEF Init, Due, Completed
  <2> QED
    BY <2>1, <2>2, <2>3 DEF Fresh, Backed
<1>2. Spec => [](Typed /\ Fresh /\ Due /\ Backed /\ Completed)
  BY <1>1, TypedInit, TypedStep, FreshStep, DueStep, BackedStep, CompletedStep, PTL DEF Spec
<1>3. Typed /\ Backed /\ Completed => NoFalseSuccess
  <2>1. Typed => DOMAIN plan.steps = 1 .. Len(plan.steps)
    BY LenProperties DEF Typed, Placed
  <2>2. Backed => \A i \in 1 .. Len(plan.steps) :
                    plan.steps[i].status = "COMPLETED" => Stored(plan.steps[i].action, i)
    <3>1. Backed => BackedAt(Here)
      BY DEF Backed, Points
    <3> QED
      BY <3>1 DEF BackedAt, Here
  <2> QED
    BY <2>1, <2>2 DEF Completed, Stored, NoFalseSuccess
<1> QED
  BY <1>2, <1>3, PTL

------------------------------------------------------------------------------
(* Approval.                                                                *)

LEMMA ApprovedStep ==
  ASSUME Typed, Agreed, ApprovedAsShown, [Next]_vars
  PROVE  Agreed' /\ ApprovedAsShown'
<1> DEFINE free == TheStep.action \in Risky =>
                     \/ gate = "human" /\ TheCall \in agreed
                     \/ gate = "off" /\ TheStep.action \notin Blocked
<1>1. CASE Begin \/ TakeInput \/ OutOfSteps \/ NothingToDo \/ Resume
  <2>1. stage' \in {"input", "idle"} /\ UNCHANGED <<approval, agreed>>
    BY <1>1 DEF Begin, TakeInput, OutOfSteps, NothingToDo, Resume, ResumeFrom, executor, store,
                Typed, TypeOK
  <2> QED
    BY <2>1 DEF Agreed, ApprovedAsShown
<1>3. CASE Abort
  BY <1>3 DEF Abort, Agreed, ApprovedAsShown, store
<1>4. CASE Planner \/ OverIterations \/ Accept \/ Reject \/ ErrorHandler \/ PhaseTransition \/ Responder
  <2>1. stage = "idle" /\ UNCHANGED <<stage, approval, agreed>>
    BY <1>4 DEF Planner, OverIterations, Accept, Reject, ErrorHandler, PhaseTransition,
                Responder, Enter, executor, store
  <2> QED
    BY <2>1 DEF Agreed, ApprovedAsShown
<1>5. CASE Refuse \/ Denied \/ ToolFailure \/ Reuse \/ Succeed
  <2>1. stage' = "idle" /\ UNCHANGED <<approval, agreed>>
    BY <1>5 DEF Refuse, Denied, ToolFailure, Reuse, Succeed, FailStep, StepDone, store
  <2> QED
    BY <2>1 DEF Agreed, ApprovedAsShown
<1>6. CASE Ask
  <2>1. \A c \in Call : approval'[ApprovalId(c)] = "yes" => approval[ApprovalId(c)] = "yes"
    BY <1>6 DEF Ask, Typed, TypeOK, ApprovalId, ApprovalIds
  <2> QED
    BY <1>6, <2>1 DEF Ask, Agreed, ApprovedAsShown
<1>7. CASE Human
  <2>1. PICK c \in Call : Decide(c)
    BY <1>7 DEF Human
  <2>2. PICK answer \in {"yes", "no"} :
          /\ approval' = [approval EXCEPT ![ApprovalId(c)] = answer]
          /\ agreed' = IF answer = "yes" THEN agreed \cup {c} ELSE agreed
    BY <2>1 DEF Decide
  <2>3. Agreed'
    BY <2>2 DEF Agreed, ApprovalId, ApprovalIds, Typed, TypeOK
  <2>4. agreed \subseteq agreed'
    BY <2>2
  <2>5. UNCHANGED <<stage, task, gate, thread>>
    BY <2>1 DEF Decide, executor
  <2>6. ApprovedAsShown'
    BY <2>4, <2>5 DEF ApprovedAsShown, TheStep, TheCall, thread
  <2> QED
    BY <2>3, <2>6
<1>8. CASE CallTool
  <2>1. UNCHANGED <<thread, task, gate, approval, agreed>>
    BY <1>8 DEF CallTool, store
  <2>2. free
    <3>1. CASE stage = "backoff"
      BY <3>1 DEF ApprovedAsShown
    <3>2. CASE MayCall /\ stage = "asked"
      <4>1. TheCall \in Call /\ gate = "human"
        BY <3>2, Calling, StepType DEF Typed, Placed
      <4> QED
        BY <3>2, <4>1 DEF MayCall, Enter, Agreed
    <3>3. CASE MayCall /\ stage = "idle"
      BY <3>3 DEF MayCall
    <3> QED
      BY <1>8, <3>1, <3>2, <3>3, Calling DEF CallTool
  <2> QED
    BY <2>1, <2>2 DEF Agreed, ApprovedAsShown, TheStep, TheCall, thread
<1>9. CASE Transient \/ EmitFinished
  <2>1. stage = "called" /\ UNCHANGED <<thread, task, gate, approval, agreed>>
    BY <1>9 DEF Transient, EmitFinished, store
  <2> QED
    BY <2>1 DEF Agreed, ApprovedAsShown, TheStep, TheCall, thread
<1>10. CASE Keep \/ UNCHANGED vars
  BY <1>10 DEF Keep, Agreed, ApprovedAsShown, TheStep, TheCall, vars, thread, executor, store
<1> QED
  BY <1>1, <1>3, <1>4, <1>5, <1>6, <1>7, <1>8, <1>9, <1>10, Steps

\* A risky tool is called only when a human said yes to this very call of this task, however
\* often the step was planned again or the run resumed under another gate in between.
THEOREM ApprovalHolds == Spec => []ApprovedAsShown
<1>1. Init => Agreed /\ ApprovedAsShown
  BY DEF Init, Agreed, ApprovedAsShown, ApprovalId, ApprovalIds
<1>2. Spec => [](Typed /\ Agreed /\ ApprovedAsShown)
  BY <1>1, TypedInit, TypedStep, ApprovedStep, PTL DEF Spec
<1> QED
  BY <1>2, PTL

------------------------------------------------------------------------------
(* Phases.                                                                  *)

LEMMA FoundStep ==
  ASSUME Typed, Found, [Next]_vars
  PROVE  Found'
<1>1. CASE Resume
  <2>1. PICK t \in 1 .. turns, c \in Points : ResumeFrom(t, c)
    BY <1>1, GoesOn
  <2>2. FoundAt(c) /\ GoOnFrom(c)
    BY <2>1 DEF Found, ResumeFrom
  <2>3. FoundAt(Here)'
    BY <2>2 DEF GoOnFrom, FoundAt, Here
  <2> QED
    BY <2>3, PointsStep DEF Found
<1>2. CASE TakeInput
  <2>1. FoundAt(Here)'
    BY <1>2 DEF TakeInput, FoundAt, Here
  <2> QED
    BY <2>1, PointsStep DEF Found
<1>3. CASE PhaseTransition
  <2>1. /\ findings \subseteq findings' /\ phase' = NextPhase
        /\ Harvest # {} => task \in findings'
    BY <1>3 DEF PhaseTransition
  <2>2. FoundAt(Here)'
    BY <2>1 DEF NextPhase, FoundAt, Here
  <2> QED
    BY <2>2, PointsStep DEF Found
<1>4. CASE UNCHANGED <<phase, findings>>
  <2>1. FoundAt(Here)'
    <3>1. FoundAt(Here)
      BY DEF Found, Points
    <3> QED
      BY <1>4, <3>1 DEF FoundAt, Here
  <2> QED
    BY <2>1, PointsStep DEF Found
<1>5. Resume \/ TakeInput \/ PhaseTransition \/ UNCHANGED <<phase, findings>>
  BY Moves DEF Planner, OverIterations, Refuse, Denied, ToolFailure, Reuse, Succeed,
               Accept, Reject, ErrorHandler, Responder, thread
<1> QED
  BY <1>1, <1>2, <1>3, <1>4, <1>5

LEMMA PhaseStep ==
  ASSUME Typed, [Next]_vars, run = "RUNNING", stage # "input"
  PROVE  /\ phase = "REMEDIATE" => phase' # "INVESTIGATE"
         /\ phase = "COMPLETE" => phase' = "COMPLETE"
         /\ phase # "REMEDIATE" /\ phase' = "REMEDIATE" => task \in findings'
<1>1. CASE PhaseTransition
  <2>1. /\ findings \subseteq findings' /\ phase' = NextPhase
        /\ Harvest # {} => task \in findings'
    BY <1>1 DEF PhaseTransition
  <2> QED
    BY <2>1 DEF NextPhase
<1>2. PhaseTransition \/ UNCHANGED phase
  BY Moves DEF Resume, ResumeFrom, TakeInput, Planner, OverIterations, Refuse, Denied,
               ToolFailure, Reuse, Succeed, Accept, Reject, ErrorHandler, Responder, thread
<1> QED
  BY <1>1, <1>2 DEF Typed, TypeOK

\* Within a run, phases only go forward, through replans and faults, and it enters
\* remediation with findings of its own task, never with those of another; and whatever
\* checkpoint a run goes on from, it remediates with findings.
THEOREM PhasesHold == Spec => PhasesForward
<1>1. Init => Found
  <2>1. Init => \A c \in Points : c = NoCheckpoint
    BY DEF Init, Points, Here, NoCheckpoint
  <2>2. FoundAt(NoCheckpoint)
    BY DEF NoCheckpoint, FoundAt
  <2> QED
    BY <2>1, <2>2 DEF Found
<1>2. Spec => [](Typed /\ Found)
  BY <1>1, TypedInit, TypedStep, FoundStep, PTL DEF Spec
<1>3. Typed /\ Found /\ [Next]_vars => Found'
  BY FoundStep
<1>4. Typed /\ Found /\ [Next]_vars =>
        [/\ run = "RUNNING" /\ stage # "input" =>
              /\ phase = "REMEDIATE" => phase' # "INVESTIGATE"
              /\ phase = "COMPLETE" => phase' = "COMPLETE"
              /\ phase # "REMEDIATE" /\ phase' = "REMEDIATE" => task \in findings'
         /\ phase' = "REMEDIATE" => findings' # {}]_vars
  <2>1. Found' /\ phase' = "REMEDIATE" => findings' # {}
    <3>1. Found' => FoundAt(Here')
      BY DEF Found, Points
    <3> QED
      BY <3>1 DEF FoundAt, Here
  <2> QED
    BY <1>3, <2>1, PhaseStep
<1> QED
  BY <1>2, <1>4, PTL DEF Spec, PhasesForward

==============================================================================
