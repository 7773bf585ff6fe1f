------------------------------- MODULE ApiParts -------------------------------
(***************************************************************************)
(* The smaller services of the API side by side, and what each promises.   *)
(* MCServices checks the promises on small instances, ServicesProofs and   *)
(* EvaluationProofs prove them for every value of the constants.  The      *)
(* services share no state.                                                *)
(***************************************************************************)

(* The task repositories in memory and in PostgreSQL. *)
CONSTANTS Thread, Task, ThreadOf, Approval, AskedBy, Usages, DeletesEvaluated, MaxStoredRuns,
          MaxStoredCalls, MaxApprovalRows
VARIABLES mem, sql, ids, stored, raised
storeVars == <<mem, sql, ids, stored, raised>>

Stores == INSTANCE TaskStores
  WITH Request <- Approval, MaxRuns <- MaxStoredRuns, MaxCalls <- MaxStoredCalls,
       MaxRows <- MaxApprovalRows, calls <- stored

\* The repositories answer every question alike, after any calls of the service.
\* (InMemoryTaskRepository, PostgresTaskRepository)
StoresAgree == Stores!StoresAgree

------------------------------------------------------------------------------
(* The plan and verdict records of a graph run. *)
CONSTANTS FaultAt, MaxPlans, MaxSteps, MaxResumes, MaxRecordFaults
VARIABLES planNo, planLen, current, stepIds, stepRow, verdictRow, given, resumes,
          recordFaults
recordVars == <<planNo, planLen, current, stepIds, stepRow, verdictRow, given, resumes,
                recordFaults>>

Records == INSTANCE RunRecords WITH MaxFaults <- MaxRecordFaults, faults <- recordFaults

\* A verdict is kept with the step it was given on, however often the run replans.
\* (TaskService._persist_run_side_effects)
VerdictsOnTheirSteps == Records!VerdictsOnTheirSteps

------------------------------------------------------------------------------
(* Settings that change while runs begin. *)
CONSTANTS Patch, TrackOf, Bodies, EnvKeys, Builds
VARIABLES graph, client, compiled, compiling, clients, owner, agentModel, judge, patchAt,
          body, old, wanted, used
settingsVars == <<graph, client, compiled, compiling, clients, owner, agentModel, judge,
                  patchAt, body, old, wanted, used>>

Settings == INSTANCE LiveSettings

\* A cloud provider is called with a key of its own and never at the local server.
\* (update_settings of both tracks and of the judge)
CallsGoHome == Settings!CallsGoHome

------------------------------------------------------------------------------
(* The offline evaluation and its judge. *)
CONSTANTS Case, Criteria, Judged, SuiteKnown, Answers, MaxRetries, MaxRejudges
VARIABLES rows, at, attempt, usage, file, rejudges
harnessVars == <<rows, at, attempt, usage, file, rejudges>>

Harness == INSTANCE EvaluationHarness

\* Every verdict is charged with its own calls, and judging leaves what was run as it was.
\* (EvaluationRunner.run, LLMJudge.judge, rejudge)
JudgingStaysApart == Harness!JudgingStaysApart

------------------------------------------------------------------------------
(* Evaluations of both tracks and the two dashboards. *)
CONSTANTS Suite, LabelOf, Track, Served, EvalCase, Attempts, EvalJudged, MaxRequests, MaxTries,
          MaxStops
VARIABLES evals, tries, results, jobs, requested, stops
evalVars == <<evals, tries, results, jobs, requested, stops>>

Evals == INSTANCE EvaluationRuns
  WITH Case <- EvalCase, Judged <- EvalJudged, requests <- requested

\* Every case counts once, whichever store is asked, at every moment of every evaluation.
\* (_execute_evaluation, get_evaluation_dashboard)
EvaluationsAddUp == Evals!EvaluationsAddUp

------------------------------------------------------------------------------
(* The requests around a native run. *)
CONSTANTS Session, Sender, Resumer, SessionOf, NoRequest, ResumesLive, MaxLogged, MaxHit
VARIABLES logged, registry, index, resumeLock, runOf, runAt, stream, seen, frames,
          flipped, aimed
requestVars == <<logged, registry, index, resumeLock, runOf, runAt, stream, seen, frames,
                 flipped, aimed>>

Requests == INSTANCE RunRequests
  WITH MaxEvents <- MaxLogged, log <- logged, lock <- resumeLock, work <- runAt,
       got <- frames, stopped <- flipped

\* A response tells its own run and nothing else, and a cancel stops the runs it means and
\* no other.  (send_message, resume_run, cancel_run, cancel_session)
RequestsMindTheirRuns == Requests!RequestsMindTheirRuns

------------------------------------------------------------------------------
(* The session's event bus with the catch-up endpoint. *)
CONSTANTS Emitter, Listener, Endpoint, CutSaves, MaxNumbered, MaxBusFaults, MaxDeletes
VARIABLES busLog, numbered, pc, event, mode, queue, backlog, last, start, got, life, busFaults
busVars == <<busLog, numbered, pc, event, mode, queue, backlog, last, start, got, life,
             busFaults>>

Bus == INSTANCE EventBus
  WITH Task <- Emitter, Client <- Listener, MaxEvents <- MaxNumbered,
       MaxFaults <- MaxBusFaults, log <- busLog, counter <- numbered, faults <- busFaults

\* Nothing arrives twice or out of order, with saves that are cut and a session that is
\* deleted under a stream; at the endpoint until the deletion.  (EventBus.subscribe,
\* get_events)
HandedInOrder == Bus!HandedInOrder

===============================================================================
