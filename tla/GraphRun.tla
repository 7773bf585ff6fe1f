------------------------------ MODULE GraphRun ------------------------------
(***************************************************************************)
(* One thread of the LangGraph engine: the graph of planner, executor,     *)
(* verifier, phase transition, error handler and responder with their      *)
(* routers, run by LangGraphAgent.run under a limit on super-steps, with   *)
(* tool calls, human approval, and runs that stop, die and are resumed.    *)
(*                                                                         *)
(* A node is one step and ends in a checkpoint, except the executor, which *)
(* awaits the approval, the tool and the event store.  Plans, outcomes and *)
(* verdicts are choices; messages, texts and prompts are left out.  A call *)
(* is known by its task, its phase, its step and its tool with arguments.  *)
(*                                                                         *)
(* The tasks of the thread share its checkpoints.  Any task can be resumed *)
(* while no run is in progress, finished or not, from the latest           *)
(* checkpoint or from an earlier one that the client names.                *)
(***************************************************************************)
EXTENDS Naturals, Sequences, FiniteSets, Functions

CONSTANTS Action,        \* tools with their arguments
          Risky,         \* at or above the risk threshold
          Blocked,       \* classified BLOCKED
          Gates,         \* the ways a run may be configured to treat risky calls
          MaxReplans,    \* execution.max_replans
          MaxIterations, \* execution.max_iterations
          Attempts,      \* execution.retry_attempts + 1
          MaxSteps,      \* bound: steps of a plan
          MaxTasks,      \* bound: turns of the thread
          MaxFaults,     \* bound: exceptions, cancelled runs and crashes
          MaxCounted,    \* bound: replans counted
          MaxResumes,    \* bound: resumes
          MaxKept        \* bound: earlier checkpoints that may be named

ASSUME RiskAssumption == Blocked \subseteq Risky /\ Risky \subseteq Action
\* No approval asked; the gateway asked; approval required and interrupts disabled.
ASSUME GateAssumption == Gates \subseteq {"off", "human", "deny"}
ASSUME ConfigAssumption ==
  /\ MaxReplans \in Nat \ {0} /\ MaxIterations \in Nat \ {0}
  /\ Attempts \in Nat \ {0}
  /\ MaxSteps \in Nat /\ MaxTasks \in Nat /\ MaxFaults \in Nat
  /\ MaxCounted \in Nat /\ MaxKept \in Nat /\ MaxResumes \in Nat

\* The state of the thread that the run works on.
VARIABLES
  node,      \* the node that runs next; "none" where there is no checkpoint
  plan,      \* AgentPlan: its steps and requires_remediation
  current,   \* current_step, counted from 1
  retries,   \* retry_count
  error,     \* last_error: which kind, or "none"
  phase,     \* workflow_phase
  findings,  \* the tasks that have findings
  goal       \* the task whose goal it was given last

\* The run in progress, and what the repository keeps.
VARIABLES
  turns,     \* tasks of the thread
  task,      \* the task of the thread's latest run
  run,       \* status of that run
  gate,      \* the gate it is configured with
  fuel,      \* super-steps left to this run
  stage,     \* how far the executor is in its step
  attempt,   \* tries of the tool in this step
  known,     \* completed_tool_calls of this run
  finished,  \* calls with a successful tool_finished event
  approval,  \* approval id -> its row
  latest,    \* the thread's latest checkpoint
  kept       \* earlier checkpoints whose ids a client has

\* What happened, for the properties.
VARIABLES
  runs,      \* unexcused tries of the current step's tool
  agreed,    \* calls a human said yes to
  refused,   \* was a call refused since the goal was given?
  failing,   \* has a step failed and no step been accepted since?
  streak,    \* replans since a tool last succeeded
  replans,   \* replans since a goal was given
  resumes,   \* resumes and ...
  faults     \* ... faults so far

thread == <<node, plan, current, retries, error, phase, findings, goal>>
executor == <<stage, attempt, runs>>
store == <<known, finished, approval>>
budget == <<streak, replans>>
checkpoints == <<latest, kept>>
vars == <<thread, turns, task, run, gate, fuel, executor, store, checkpoints,
          agreed, refused, failing, budget, resumes, faults>>

Phase == {"INVESTIGATE", "REMEDIATE", "COMPLETE"}
Node == {"planner", "executor", "verifier", "phase_transition",
         "error_handler", "responder", "end", "none"}
Call == [task : 1 .. MaxTasks, phase : Phase, step : 1 .. MaxSteps, action : Action]

Step(a) == [action |-> a, status |-> "PENDING", verified |-> FALSE, output |-> "none"]
Plan == [steps : UNION {[1 .. n -> {Step(a) : a \in Action}] : n \in 0 .. MaxSteps},
         remediate : BOOLEAN]
NoPlan == [steps |-> <<>>, remediate |-> FALSE]

StepsLeft == current <= Len(plan.steps)
TheStep == plan.steps[current]
TheCall == [task |-> task, phase |-> phase, step |-> current, action |-> TheStep.action]

\* Mutant of ApprovalId: the id of the step alone.
ApprovalIdOfStep(c) == [task |-> c.task, phase |-> c.phase, step |-> c.step]

\* _approval_id: derived from the step and the fingerprint of its call.
ApprovalId(c) == c

ApprovalIds == {ApprovalId(c) : c \in Call}

\* recursion_limit
SuperSteps == 4 * MaxIterations

\* What a checkpoint holds, with what happened on the way to it.
Here == [node |-> node, plan |-> plan, current |-> current, retries |-> retries,
         error |-> error, phase |-> phase, findings |-> findings, goal |-> goal,
         refused |-> refused, failing |-> failing, streak |-> streak]

NoCheckpoint ==
  [node |-> "none", plan |-> NoPlan, current |-> 1, retries |-> 0, error |-> "none",
   phase |-> "INVESTIGATE", findings |-> {}, goal |-> 0,
   refused |-> FALSE, failing |-> FALSE, streak |-> 0]

------------------------------------------------------------------------------
Init ==
  /\ node = "none" /\ plan = NoPlan /\ current = 1 /\ retries = 0
  /\ error = "none" /\ phase = "INVESTIGATE" /\ findings = {} /\ goal = 0
  /\ refused = FALSE /\ failing = FALSE /\ streak = 0
  /\ turns = 0 /\ task = 0 /\ run = "COMPLETED" /\ gate \in Gates /\ fuel = 0
  /\ stage = "idle" /\ attempt = 0 /\ runs = 0
  /\ known = {} /\ finished = {} /\ approval = [i \in ApprovalIds |-> "none"]
  /\ latest = NoCheckpoint /\ kept = {}
  /\ agreed = {} /\ replans = 0
  /\ resumes = 0 /\ faults = 0

\* A new task on the thread, and its run.
Begin ==
  /\ run # "RUNNING" /\ turns < MaxTasks
  /\ turns' = turns + 1 /\ task' = turns + 1
  /\ run' = "RUNNING" /\ gate' \in Gates /\ fuel' = SuperSteps
  /\ stage' = "input" /\ known' = {} /\ runs' = 0
  /\ UNCHANGED <<thread, attempt, finished, approval, agreed, refused, failing, budget, resumes, faults>>

\* The input of a new turn: the transcript and the findings of the thread stay, the
\* plan, the counters and the verdicts of its last turn do not.
TakeInput ==
  /\ run = "RUNNING" /\ stage = "input"
  /\ stage' = "idle"
  /\ node' = "planner" /\ plan' = NoPlan /\ current' = 1 /\ retries' = 0
  /\ error' = "none" /\ phase' = "INVESTIGATE"
  /\ findings' = latest.findings /\ goal' = task
  /\ refused' = FALSE /\ failing' = FALSE /\ streak' = 0 /\ replans' = 0
  /\ UNCHANGED <<turns, task, run, gate, fuel, attempt, runs, store, agreed, resumes, faults>>

\* The graph is loaded from checkpoint c.
GoOnFrom(c) ==
  /\ node' = c.node /\ plan' = c.plan /\ current' = c.current /\ retries' = c.retries
  /\ error' = c.error /\ phase' = c.phase /\ findings' = c.findings /\ goal' = c.goal
  /\ refused' = c.refused /\ failing' = c.failing /\ streak' = c.streak

\* Mutant of KnownTo: the history of earlier runs is not read.
KnownToNone(t) == {}

\* completed_tool_calls: what earlier runs of the task finished.
KnownTo(t) == {c \in finished : c.task = t}

\* resume_task: the graph goes on from a checkpoint of the thread as task t, and what
\* that task finished is known, unless its events cannot be read.
ResumeFrom(t, c) ==
  /\ run # "RUNNING" /\ resumes < MaxResumes
  /\ resumes' = resumes + 1
  /\ task' = t /\ run' = "RUNNING" /\ gate' \in Gates /\ fuel' = SuperSteps
  /\ GoOnFrom(c)
  /\ \/ /\ known' = KnownTo(t)
        /\ runs' = IF t = task /\ c = Here THEN runs ELSE 0
        /\ UNCHANGED faults
     \/ /\ faults < MaxFaults /\ faults' = faults + 1
        /\ known' = {} /\ runs' = 0
  /\ UNCHANGED <<turns, stage, attempt, finished, approval, agreed, replans>>

\* The latest checkpoint, one that is named, or a name that is not there.
Resume == \E t \in 1 .. turns, c \in {latest, NoCheckpoint} \cup kept : ResumeFrom(t, c)

\* A client keeps the id of a checkpoint.
Keep ==
  /\ Cardinality(kept) < MaxKept
  /\ kept' = kept \cup {latest}
  /\ UNCHANGED <<thread, turns, task, run, gate, fuel, executor, store, latest,
                 agreed, refused, failing, budget, resumes, faults>>

\* A run that ends leaves nothing of its own behind.
EndRun(status) == run' = status /\ fuel' = 0 /\ known' = {}

\* An exception out of a node or the event store, a cancelled run or a crash: what
\* the node did not return is gone.  (FAILED stands for INTERRUPTED and CANCELLED too.)
Abort ==
  /\ run = "RUNNING" /\ faults < MaxFaults
  /\ faults' = faults + 1
  /\ EndRun("FAILED")
  /\ stage' = "idle" /\ attempt' = 0
  /\ runs' = IF stage = "called" THEN runs - 1 ELSE runs
  /\ UNCHANGED <<thread, turns, task, gate, finished, approval, agreed, refused, failing,
                 budget, resumes>>

\* Mutant of OutOfSteps: the error escapes and the run is never closed.
OutOfStepsEscapes == FALSE

\* GraphRecursionError
OutOfSteps ==
  /\ run = "RUNNING" /\ fuel = 0 /\ stage = "idle"
  /\ EndRun("FAILED")
  /\ UNCHANGED <<thread, turns, task, gate, executor, finished, approval,
                 agreed, refused, failing, budget, resumes, faults>>

\* The next super-step is node n's.
Enter(n) ==
  /\ run = "RUNNING" /\ node = n /\ stage = "idle" /\ fuel > 0
  /\ fuel' = fuel - 1

------------------------------------------------------------------------------
\* PlannerNode and should_execute: a plan for the phase, or none needed.
Planner ==
  /\ Enter("planner")
  /\ plan' \in Plan
  /\ current' = 1 /\ runs' = 0
  /\ node' = IF plan'.steps # <<>> THEN "executor" ELSE "responder"
  /\ UNCHANGED <<retries, error, phase, findings, goal, turns, task, run, gate,
                 stage, attempt, store, agreed, refused, failing, budget, resumes, faults>>

SetStep(status, output) ==
  plan' = [plan EXCEPT !.steps[current].status = status, !.steps[current].output = output]

\* The executor's failure returns: the step fails, the try is counted, and the
\* verifier is next.
FailStep(kind) ==
  /\ SetStep("FAILED", kind)
  /\ error' = kind
  /\ retries' = retries + 1
  /\ failing' = TRUE
  /\ node' = "verifier" /\ stage' = "idle" /\ attempt' = 0

\* A step past the iteration budget is left as it is, under an error.
OverIterations ==
  /\ Enter("executor")
  /\ current > MaxIterations
  /\ error' = "failed"
  /\ failing' = TRUE
  /\ node' = "verifier"
  /\ UNCHANGED <<plan, current, retries, phase, findings, goal, turns, task, run,
                 gate, executor, store, agreed, refused, budget, resumes, faults>>

\* A blocked call without a gate, or a risky one with interrupts disabled.
Refuse ==
  /\ Enter("executor")
  /\ current <= MaxIterations
  /\ \/ gate = "off" /\ TheStep.action \in Blocked /\ FailStep("blocked")
     \/ gate = "deny" /\ TheStep.action \in Risky /\ FailStep("rejected")
  /\ refused' = TRUE
  /\ UNCHANGED <<current, phase, findings, goal, turns, task, run, gate, runs, store,
                 agreed, budget, resumes, faults>>

\* request_approval: a decision on record is taken, a blocked call is denied, any
\* other waits.
Ask ==
  /\ Enter("executor")
  /\ current <= MaxIterations
  /\ gate = "human" /\ TheStep.action \in Risky
  /\ stage' = "asked"
  /\ approval' =
       [approval EXCEPT ![ApprovalId(TheCall)] =
          IF @ # "none" THEN @ ELSE IF TheStep.action \in Blocked THEN "no" ELSE "pending"]
  /\ UNCHANGED <<thread, turns, task, run, gate, attempt, runs, known, finished,
                 agreed, refused, failing, budget, resumes, faults>>

\* A human answers a waiting request; the row stays when the run is gone.
Decide(c) ==
  /\ approval[ApprovalId(c)] = "pending"
  /\ \E answer \in {"yes", "no"} :
       /\ approval' = [approval EXCEPT ![ApprovalId(c)] = answer]
       /\ agreed' = IF answer = "yes" THEN agreed \cup {c} ELSE agreed
  /\ UNCHANGED <<thread, turns, task, run, gate, fuel, executor, known, finished,
                 refused, failing, budget, resumes, faults>>

Denied ==
  /\ run = "RUNNING" /\ stage = "asked"
  /\ approval[ApprovalId(TheCall)] = "no"
  /\ FailStep("rejected")
  /\ refused' = TRUE
  /\ UNCHANGED <<current, phase, findings, goal, turns, task, run, gate, fuel, runs,
                 store, agreed, budget, resumes, faults>>

\* The way to the tool is free.
MayCall ==
  \/ /\ Enter("executor")
     /\ current <= MaxIterations
     /\ TheStep.action \in Risky => gate = "off" /\ TheStep.action \notin Blocked
  \/ /\ run = "RUNNING" /\ stage = "asked"
     /\ approval[ApprovalId(TheCall)] = "yes"
     /\ UNCHANGED fuel

\* The executor's success return: the error and the retries so far are forgotten.
StepDone ==
  /\ SetStep("COMPLETED", "ok")
  /\ error' = "none"
  /\ retries' = 0
  /\ streak' = 0
  /\ node' = "verifier" /\ stage' = "idle" /\ attempt' = 0

\* The call's output is known from an earlier run ...
Reuse ==
  /\ MayCall
  /\ TheCall \in known
  /\ StepDone
  /\ UNCHANGED <<current, phase, findings, goal, turns, task, run, gate, runs, store,
                 agreed, refused, failing, replans, resumes, faults>>

\* ... or the tool is called, and called again while what it meets is transient.
CallTool ==
  /\ \/ MayCall /\ TheCall \notin known
     \/ run = "RUNNING" /\ stage = "backoff" /\ UNCHANGED fuel
  /\ stage' = "called"
  /\ attempt' = attempt + 1
  /\ runs' = runs + 1
  /\ UNCHANGED <<thread, turns, task, run, gate, store, agreed, refused, failing, budget, resumes, faults>>

\* A timeout or a transport error: back off and try again.
Transient ==
  /\ run = "RUNNING" /\ stage = "called" /\ attempt < Attempts
  /\ stage' = "backoff"
  /\ runs' = runs - 1
  /\ UNCHANGED <<thread, turns, task, run, gate, fuel, attempt, store,
                 agreed, refused, failing, budget, resumes, faults>>

\* The tool reports a failure, or the last try meets a transient one.
ToolFailure ==
  /\ run = "RUNNING" /\ stage = "called"
  /\ FailStep("failed")
  /\ UNCHANGED <<current, phase, findings, goal, turns, task, run, gate, fuel, runs,
                 store, agreed, refused, budget, resumes, faults>>

\* The tool succeeds: first its event is stored, ...
EmitFinished ==
  /\ run = "RUNNING" /\ stage = "called"
  /\ finished' = finished \cup {TheCall}
  /\ stage' = "stored"
  /\ UNCHANGED <<thread, turns, task, run, gate, fuel, attempt, runs, known, approval,
                 agreed, refused, failing, budget, resumes, faults>>

\* ... then the node returns.
Succeed ==
  /\ run = "RUNNING" /\ stage = "stored"
  /\ StepDone
  /\ UNCHANGED <<current, phase, findings, goal, turns, task, run, gate, fuel, runs,
                 store, agreed, refused, failing, replans, resumes, faults>>

------------------------------------------------------------------------------
\* Mutant of AfterAccept: the plan never runs out.
AfterAcceptExecutor(n) == "executor"

\* verification_router, after a pass
AfterAccept(n) == IF n <= Len(plan.steps) THEN "executor" ELSE "phase_transition"

\* VerifierNode: a good verdict on an output commits the step.
Accept ==
  /\ Enter("verifier")
  /\ TheStep.status # "FAILED" /\ TheStep.output # "none"
  /\ plan' = [plan EXCEPT !.steps[current].verified = TRUE,
                          !.steps[current].status = "COMPLETED"]
  /\ current' = current + 1
  /\ runs' = 0
  /\ error' = "none"
  /\ failing' = FALSE
  /\ node' = AfterAccept(current + 1)
  /\ UNCHANGED <<retries, phase, findings, goal, turns, task, run, gate, stage,
                 attempt, store, agreed, refused, budget, resumes, faults>>

\* Mutant of Verdict: a failed step's reason loses what the executor said.
VerdictOwnWords == "failed"

\* The reason of a rejection: a failed step's output, or the judge's words.
Verdict == IF TheStep.status = "FAILED" THEN TheStep.output ELSE "failed"

\* A failure the executor has counted is not counted again.
Counted == IF TheStep.status = "FAILED" THEN 0 ELSE 1

\* A failed step, no output or a bad verdict.
Reject ==
  /\ Enter("verifier")
  /\ plan' = [plan EXCEPT !.steps[current].verified = FALSE,
                          !.steps[current].status =
                            IF @ = "FAILED" THEN "FAILED" ELSE "PENDING"]
  /\ error' = Verdict
  /\ retries' = retries + Counted
  /\ failing' = TRUE
  /\ node' = "error_handler"
  /\ UNCHANGED <<current, phase, findings, goal, turns, task, run, gate, executor,
                 store, agreed, refused, budget, resumes, faults>>

\* Mutant of GiveUp: one retry more.
GiveUpLate == retries > MaxReplans \/ error \in {"rejected", "blocked"}

\* retry_router: report instead of planning again.
GiveUp == retries >= MaxReplans \/ error \in {"rejected", "blocked"} \/ ~StepsLeft

CountReplan == replans' = IF replans < MaxCounted THEN replans + 1 ELSE replans

\* ErrorHandlerNode and retry_router.
ErrorHandler ==
  /\ Enter("error_handler")
  /\ IF GiveUp
       THEN node' = "responder" /\ UNCHANGED budget
       ELSE node' = "planner" /\ streak' = streak + 1 /\ CountReplan
  /\ UNCHANGED <<plan, current, retries, error, phase, findings, goal, turns, task,
                 run, gate, executor, store, agreed, refused, failing, resumes, faults>>

\* What _harvest lifts out of an exhausted plan.
Harvest == {i \in DOMAIN plan.steps :
              /\ plan.steps[i].status = "COMPLETED" /\ plan.steps[i].verified
              /\ plan.steps[i].output # "none"}

NextPhase ==
  IF phase = "INVESTIGATE" /\ plan.remediate /\ (Harvest # {} \/ task \in findings)
    THEN "REMEDIATE" ELSE "COMPLETE"

\* PhaseTransitionNode and phase_router.
PhaseTransition ==
  /\ Enter("phase_transition")
  /\ findings' = IF Harvest # {} THEN findings \cup {task} ELSE findings
  /\ phase' = NextPhase
  /\ node' = IF NextPhase = "COMPLETE" THEN "responder" ELSE "planner"
  /\ UNCHANGED <<plan, current, retries, error, goal, turns, task, run, gate,
                 executor, store, agreed, refused, failing, budget, resumes, faults>>

\* Mutant of Succeeded: only the steps count.
SucceededBySteps ==
  \A i \in DOMAIN plan.steps :
    plan.steps[i].status = "COMPLETED" /\ plan.steps[i].verified

\* _succeeded
Succeeded ==
  /\ error = "none"
  /\ \A i \in DOMAIN plan.steps :
       plan.steps[i].status = "COMPLETED" /\ plan.steps[i].verified

\* Mutant of AsItEnded: that it ended is enough.
AsItEndedWell == IF node = "end" THEN "COMPLETED" ELSE "FAILED"

\* _run_status of what the responder left; an empty thread is an error.
AsItEnded == IF node = "end" /\ Succeeded THEN "COMPLETED" ELSE "FAILED"

\* ResponderNode, and the status of the run.
Responder ==
  /\ run = "RUNNING" /\ node = "responder" /\ stage = "idle" /\ fuel > 0
  /\ node' = "end"
  /\ EndRun(IF Succeeded THEN "COMPLETED" ELSE "FAILED")
  /\ UNCHANGED <<plan, current, retries, error, phase, findings, goal, turns, task, gate,
                 executor, finished, approval, agreed, refused, failing, budget, resumes, faults>>

\* A checkpoint that has ended, or none at all, has no node to run.
NothingToDo ==
  /\ run = "RUNNING" /\ stage = "idle" /\ node \in {"end", "none"}
  /\ EndRun(AsItEnded)
  /\ UNCHANGED <<thread, turns, task, gate, executor, finished, approval,
                 agreed, refused, failing, budget, resumes, faults>>

\* A node returns, and the graph writes a checkpoint.
Returns ==
  \/ TakeInput
  \/ Planner
  \/ OverIterations \/ Refuse \/ Denied \/ Reuse \/ ToolFailure \/ Succeed
  \/ Accept \/ Reject
  \/ ErrorHandler \/ PhaseTransition \/ Responder

\* Steps within a node, and ends without one.
Within == Ask \/ CallTool \/ Transient \/ EmitFinished \/ OutOfSteps \/ NothingToDo

Graph ==
  \/ Returns /\ latest' = Here' /\ UNCHANGED kept
  \/ Within /\ UNCHANGED checkpoints

Human == \E c \in Call : Decide(c)

Next ==
  \/ Graph \/ Keep
  \/ (Begin \/ Resume \/ Abort \/ Human) /\ UNCHANGED checkpoints

Spec == Init /\ [][Next]_vars

\* The event loop runs the graph on, and people answer what they are asked.
Fairness == WF_vars(Graph) /\ WF_vars(Human /\ UNCHANGED checkpoints)
FairSpec == Spec /\ Fairness

------------------------------------------------------------------------------
(* Properties.                                                             *)

TypeOK ==
  /\ node \in Node
  /\ plan.remediate \in BOOLEAN /\ Len(plan.steps) <= MaxSteps
  /\ current \in 1 .. MaxSteps + 1
  /\ retries \in Nat
  /\ error \in {"none", "failed", "rejected", "blocked"}
  /\ phase \in Phase
  /\ findings \subseteq 1 .. MaxTasks
  /\ goal \in 0 .. MaxTasks
  /\ turns \in 0 .. MaxTasks /\ task \in 0 .. turns
  /\ run \in {"RUNNING", "COMPLETED", "FAILED"}
  /\ gate \in Gates
  /\ fuel \in 0 .. SuperSteps
  /\ stage \in {"input", "idle", "asked", "called", "backoff", "stored"}
  /\ attempt \in 0 .. Attempts
  /\ known \subseteq finished /\ finished \subseteq Call
  /\ approval \in [ApprovalIds -> {"none", "pending", "yes", "no"}]
  /\ agreed \subseteq Call
  /\ resumes \in 0 .. MaxResumes /\ faults \in 0 .. MaxFaults
  /\ node \in {"executor", "verifier", "error_handler"} => StepsLeft
  /\ stage # "idle" => run = "RUNNING"
  /\ stage \notin {"idle", "input"} => node = "executor"

\* A run is reported COMPLETED only when every step of its last plan has a stored
\* successful call behind it and no failure was left behind - whatever was replanned,
\* reused or resumed on the way, from whatever checkpoint and as whatever task of the
\* thread.  The calls may be another task's: see CompletedItsOwnGoal.
NoFalseSuccess ==
  run = "COMPLETED" /\ task > 0 =>
    /\ ~failing
    /\ \A i \in DOMAIN plan.steps :
         \E t \in 1 .. turns, p \in {"INVESTIGATE", "REMEDIATE"} :
           [task |-> t, phase |-> p, step |-> i, action |-> plan.steps[i].action] \in finished

\* routers/tasks.py 56: a task is resumed from its latest checkpoint, so a run reported
\* COMPLETED has completed the goal of its own task.
CompletedItsOwnGoal == run = "COMPLETED" => goal = task

\* A risky tool is called only when a human said yes to this very call of this
\* task, however often the step was planned again or a run resumed in between.
ApprovedAsShown ==
  stage \in {"called", "backoff", "stored"} /\ TheStep.action \in Risky =>
    \/ gate = "human" /\ TheCall \in agreed
    \/ gate = "off" /\ TheStep.action \notin Blocked

\* A planned step calls its tool once, and again only after a transient failure, a fault
\* that hid the result, or a resume that goes back to an earlier checkpoint or goes on as
\* another task; after a refusal the graph calls no tool any more, also when it is resumed
\* from that checkpoint or a later one of the turn: the refusal's text finds its way
\* through the verifier to the router.
CallsAreDue ==
  /\ runs <= 1
  /\ refused => stage \in {"input", "idle"}

\* While no tool succeeds, fewer replans are made than the budget says.
StreakWithinBudget == streak < MaxReplans /\ retries <= MaxReplans

\* Within a run, phases only go forward, and it enters remediation with findings of its
\* own task; a run that is resumed amid remediation has findings of some task.
PhasesForward ==
  [][/\ run = "RUNNING" /\ stage # "input" =>
          /\ phase = "REMEDIATE" => phase' # "INVESTIGATE"
          /\ phase = "COMPLETE" => phase' = "COMPLETE"
          /\ phase # "REMEDIATE" /\ phase' = "REMEDIATE" => task \in findings'
     /\ phase' = "REMEDIATE" => findings' # {}]_vars

\* Every run ends: the limit on super-steps bounds what the retry budget does not.
RunEnds == run = "RUNNING" ~> run # "RUNNING"

\* routing.py 99-100: a run that keeps failing gives up after the configured budget.
ReplansWithinBudget == replans <= MaxReplans

=============================================================================
