---------------------------- MODULE TaskLifecycle ----------------------------
(***************************************************************************)
(* The API's task service: requests that create and resume the tasks of a  *)
(* thread or delete the thread, the background runs they start, evaluation *)
(* attempts, shutdown, crash and recovery at startup.                      *)
(*                                                                         *)
(* Threads, tasks and runs are rows of the repository; claims, active      *)
(* tasks and locks live in the process.  There is one process: a run of    *)
(* this process has owner "ours", one of an evaluation has none, and the   *)
(* owners of earlier processes are gone once recovery has run.             *)
(***************************************************************************)
EXTENDS Naturals, FiniteSets, FiniteSetsExt

CONSTANTS Task,         \* tasks that may be created, each once
          EvalTask,     \* those an evaluation creates
          Thread,
          ThreadOf,     \* [Task -> Thread]
          Request,      \* coroutines of create and resume, and of evaluations
          Sql,          \* rows refer to rows that exist (SQL), or to anything (in memory)
          MaxRuns,      \* bound: runs created
          MaxFaults,    \* bound: failing calls of the repository
          MaxRestarts   \* bound: restarts

ASSUME TaskAssumption == EvalTask \subseteq Task /\ ThreadOf \in [Task -> Thread]
ASSUME SqlAssumption == Sql \in BOOLEAN
ASSUME BoundAssumption == {MaxRuns, MaxFaults, MaxRestarts} \subseteq Nat

VARIABLES
  thread,   \* thread rows
  task,     \* [Task -> status of its row, or "none"]
  run,      \* [1 .. MaxRuns -> row, or NoRow], in order of creation
  minted,   \* run ids given out
  claimed,  \* _active_thread_ids
  active,   \* _active_task_ids
  lock,     \* [Thread -> holder of its lifecycle lock]
  req,      \* [Request -> where it is, for which task and run]
  exec,     \* [run id -> where its _run is, and with which result]
  serving,  \* requests are taken
  created,  \* tasks that were created, to create each once
  faults, restarts

rows == <<thread, task, run, minted, created>>
memory == <<claimed, active, lock>>
counters == <<serving, faults, restarts>>
vars == <<rows, memory, req, exec, counters>>

Runs == 1 .. MaxRuns
Ends == {"completed", "failed", "interrupted"}
NoRow == [of |-> "none", status |-> "none"]
NoOne == "nobody"
Idle == [stage |-> "idle"]
Resting == [stage |-> "none"]
ASSUME NamesAssumption == NoOne \notin Request /\ "none" \notin Task

RunsOf(k) == {r \in Runs : run[r].of = k}
Latest(k) == Max(RunsOf(k))
\* get_latest_run_status.
LatestStatus(k) == IF RunsOf(k) = {} THEN "none" ELSE run[Latest(k)].status

Home(q) == ThreadOf[req[q].task]
Live == {"starting", "running", "finalizing", "settling", "closing", "rescuing"}
IsLive(r) == exec[r].stage \in Live
Of(r) == exec[r].task

------------------------------------------------------------------------------
Init ==
  /\ thread = {} /\ task = [k \in Task |-> "none"]
  /\ run = [r \in Runs |-> NoRow] /\ minted = 0 /\ created = {}
  /\ claimed = {} /\ active = {}
  /\ lock = [t \in Thread |-> NoOne]
  /\ req = [q \in Request |-> Idle]
  /\ exec = [r \in Runs |-> Resting]
  /\ serving = TRUE /\ faults = 0 /\ restarts = 0

ReqTo(q, stage) == req' = [req EXCEPT ![q].stage = stage]
Free(t) == lock' = [lock EXCEPT ![t] = NoOne]

\* A claim of the thread, under its lock, which the request keeps until it returns.
Claim(q, k, stage) ==
  /\ lock[ThreadOf[k]] = NoOne
  /\ ThreadOf[k] \notin claimed
  /\ claimed' = claimed \cup {ThreadOf[k]}
  /\ lock' = [lock EXCEPT ![ThreadOf[k]] = q]
  /\ req' = [req EXCEPT ![q] = [stage |-> stage, task |-> k]]

\* The request ends in an exception: the claim is given back with the lock.
GiveUp(q) ==
  /\ claimed' = claimed \ {Home(q)}
  /\ Free(Home(q))
  /\ req' = [req EXCEPT ![q] = Idle]

CreateThread(t) ==
  /\ serving /\ t \notin thread
  /\ thread' = thread \cup {t}
  /\ UNCHANGED <<task, run, minted, created, memory, req, exec, counters>>

\* create_task; a claimed thread refuses it.
CreateTask(q, k) ==
  /\ serving /\ req[q] = Idle /\ k \notin EvalTask \cup created
  /\ Claim(q, k, "saving")
  /\ created' = created \cup {k}
  /\ UNCHANGED <<thread, task, run, minted, active, exec, counters>>

\* _execute_evaluation: an attempt with a task of its own and without any claim.
Evaluate(q, k) ==
  /\ serving /\ req[q] = Idle /\ k \in EvalTask \ created
  /\ req' = [req EXCEPT ![q] = [stage |-> "saving", task |-> k]]
  /\ created' = created \cup {k}
  /\ UNCHANGED <<thread, task, run, minted, memory, exec, counters>>

\* save_task makes the thread when it is not there.
SaveTask(q) ==
  /\ req[q].stage = "saving"
  /\ task' = [task EXCEPT ![req[q].task] = "planning"]
  /\ thread' = thread \cup {Home(q)}
  /\ ReqTo(q, "opening")
  /\ UNCHANGED <<run, minted, created, memory, exec, counters>>

\* create_run; the foreign key of the SQL store refuses a run without a task.
OpenRun(q) ==
  /\ req[q].stage = "opening" /\ minted < MaxRuns
  /\ Sql => task[req[q].task] # "none"
  /\ minted' = minted + 1
  /\ run' = [run EXCEPT ![minted + 1] = [of |-> req[q].task, status |-> "created"]]
  /\ req' = [req EXCEPT ![q] = [stage |-> "opened", task |-> req[q].task,
                                 run |-> minted + 1]]
  /\ UNCHANGED <<thread, task, created, memory, exec, counters>>

NoTask(q) ==
  /\ req[q].stage = "opening" /\ Sql /\ task[req[q].task] = "none"
  /\ IF req[q].task \in EvalTask /\ lock[Home(q)] # q
       THEN req' = [req EXCEPT ![q] = Idle] /\ UNCHANGED memory
       ELSE GiveUp(q) /\ UNCHANGED active
  /\ UNCHANGED <<rows, exec, counters>>

\* reopen the topic, mark the task active and start _run in the background; an
\* evaluation awaits _run itself.
Spawn(q) ==
  /\ req[q].stage = "opened"
  /\ exec' = [exec EXCEPT ![req[q].run] = [stage |-> "starting", task |-> req[q].task]]
  /\ IF lock[Home(q)] = q
       THEN active' = active \cup {req[q].task} /\ Free(Home(q))
       ELSE UNCHANGED <<active, lock>>
  /\ req' = [req EXCEPT ![q] = Idle]
  /\ UNCHANGED <<rows, claimed, counters>>

\* The repository raises, or the client's coroutine is cancelled.
RequestFails(q) ==
  /\ faults < MaxFaults /\ faults' = faults + 1
  /\ req[q].stage \notin {"idle", "found"}
  /\ IF lock[Home(q)] = q
       THEN GiveUp(q)
       ELSE req' = [req EXCEPT ![q] = Idle] /\ UNCHANGED <<claimed, lock>>
  /\ UNCHANGED <<rows, active, exec, serving, restarts>>

------------------------------------------------------------------------------
\* resume_task: the task is read before the lock is taken ...
FindTask(q, k) ==
  /\ serving /\ req[q] = Idle /\ task[k] # "none"
  /\ req' = [req EXCEPT ![q] = [stage |-> "found", task |-> k]]
  /\ UNCHANGED <<rows, memory, exec, counters>>

\* Mutant of ClaimResume: whether a run is active is not asked.
ClaimResumeAlways(q) ==
  /\ req[q].stage = "found" /\ lock[Home(q)] = NoOne
  /\ claimed' = claimed \cup {Home(q)}
  /\ lock' = [lock EXCEPT ![Home(q)] = q]
  /\ ReqTo(q, "checking")
  /\ UNCHANGED <<rows, active, exec, counters>>

ClaimResume(q) ==
  /\ req[q].stage = "found"
  /\ Claim(q, req[q].task, "checking")
  /\ UNCHANGED <<rows, active, exec, counters>>

ResumeRefused(q) ==
  /\ req[q].stage = "found"
  /\ lock[Home(q)] = NoOne /\ Home(q) \in claimed
  /\ req' = [req EXCEPT ![q] = Idle]
  /\ UNCHANGED <<rows, memory, exec, counters>>

\* ... a run that is created, or running and known here, is not resumed ...
StillOpen(q) ==
  /\ req[q].stage = "checking"
  /\ \/ LatestStatus(req[q].task) = "created"
     \/ LatestStatus(req[q].task) = "running" /\ req[q].task \in active
  /\ GiveUp(q)
  /\ UNCHANGED <<rows, active, exec, counters>>

\* ... one that runs nowhere in this process is closed, its task after it ...
CloseStale(q) ==
  /\ req[q].stage = "checking"
  /\ LatestStatus(req[q].task) = "running" /\ req[q].task \notin active
  /\ run' = [run EXCEPT ![Latest(req[q].task)].status = "interrupted"]
  /\ ReqTo(q, "recovering")
  /\ UNCHANGED <<thread, task, minted, created, memory, exec, counters>>

\* update_task_status changes a row that is there.
SetTask(k, s) == task' = [task EXCEPT ![k] = IF @ = "none" THEN @ ELSE s]

CloseStaleTask(q) ==
  /\ req[q].stage = "recovering"
  /\ SetTask(req[q].task, "interrupted")
  /\ ReqTo(q, "opening")
  /\ UNCHANGED <<thread, run, minted, created, memory, exec, counters>>

\* ... and a new run follows one that ended.
Reopen(q) ==
  /\ req[q].stage = "checking"
  /\ LatestStatus(req[q].task) \in Ends \cup {"none"}
  /\ ReqTo(q, "opening")
  /\ UNCHANGED <<rows, memory, exec, counters>>

RowsOfThread(t) == {k \in Task : ThreadOf[k] = t}

\* Mutant of DeleteThread: a thread with an active run is deleted too.
DeleteThreadActive(t) ==
  /\ serving /\ t \in thread /\ lock[t] = NoOne
  /\ thread' = thread \ {t}
  /\ task' = [k \in Task |-> IF ThreadOf[k] = t THEN "none" ELSE task[k]]
  /\ run' = [r \in Runs |-> IF run[r].of \in RowsOfThread(t) THEN NoRow ELSE run[r]]
  /\ UNCHANGED <<minted, created, memory, req, exec, counters>>

\* delete_thread, under the lock: the thread with its tasks and runs.
DeleteThread(t) ==
  /\ serving /\ t \in thread
  /\ lock[t] = NoOne /\ t \notin claimed
  /\ thread' = thread \ {t}
  /\ task' = [k \in Task |-> IF ThreadOf[k] = t THEN "none" ELSE task[k]]
  /\ run' = [r \in Runs |-> IF run[r].of \in RowsOfThread(t) THEN NoRow ELSE run[r]]
  /\ UNCHANGED <<minted, created, memory, req, exec, counters>>

------------------------------------------------------------------------------
Closing(k, raised) == [stage |-> "closing", task |-> k, raised |-> raised]
ExecTo(r, stage) == exec' = [exec EXCEPT ![r].stage = stage]
\* A statement for a row that is gone changes nothing (SQL) or raises (in memory).
HasRow(r) == run[r] # NoRow
SetRun(r, s) == run' = [run EXCEPT ![r] = IF HasRow(r) THEN [@ EXCEPT !.status = s] ELSE @]

MarkRunning(r) ==
  /\ exec[r].stage = "starting"
  /\ HasRow(r) \/ Sql
  /\ SetRun(r, "running")
  /\ ExecTo(r, "running")
  /\ UNCHANGED <<thread, task, minted, created, memory, req, counters>>

\* The orchestrator returns, or raises and counts as failed.
Finish(r, s) ==
  /\ exec[r].stage = "running"
  /\ exec' = [exec EXCEPT ![r] = [stage |-> "finalizing", task |-> @.task, result |-> s]]
  /\ UNCHANGED <<rows, memory, req, counters>>

FinalizeRun(r) ==
  /\ exec[r].stage = "finalizing"
  /\ HasRow(r) \/ Sql
  /\ SetRun(r, exec[r].result)
  /\ ExecTo(r, "settling")
  /\ UNCHANGED <<thread, task, minted, created, memory, req, counters>>

\* Mutant of SettleTask: the task is told completed.
SettleTaskCompleted(r) ==
  /\ exec[r].stage = "settling"
  /\ SetTask(Of(r), "completed")
  /\ exec' = [exec EXCEPT ![r] = Closing(Of(r), FALSE)]
  /\ UNCHANGED <<thread, run, minted, created, memory, req, counters>>

\* The second of the two writes that end a run.
SettleTask(r) ==
  /\ exec[r].stage = "settling"
  /\ SetTask(Of(r), exec[r].result)
  /\ exec' = [exec EXCEPT ![r] = Closing(Of(r), FALSE)]
  /\ UNCHANGED <<thread, run, minted, created, memory, req, counters>>

\* A write fails, or in memory finds no row; what follows it does not happen.
ExecFails(r) ==
  /\ exec[r].stage \in {"starting", "running", "finalizing", "settling"}
  /\ \/ faults < MaxFaults /\ faults' = faults + 1
     \/ /\ exec[r].stage \in {"starting", "finalizing"} /\ ~Sql /\ ~HasRow(r)
        /\ UNCHANGED faults
  /\ exec' = [exec EXCEPT ![r] = Closing(Of(r), TRUE)]
  /\ UNCHANGED <<rows, memory, req, serving, restarts>>

\* The finally of _run: the topic is closed, task and thread are free.
CloseRun(r) ==
  /\ exec[r].stage = "closing"
  /\ active' = active \ {Of(r)}
  /\ claimed' = claimed \ {ThreadOf[Of(r)]}
  /\ exec' = [exec EXCEPT ![r] =
       IF Of(r) \in EvalTask /\ @.raised
       THEN [stage |-> "rescuing", task |-> @.task] ELSE Resting]
  /\ UNCHANGED <<rows, lock, req, counters>>

\* An evaluation finalizes an attempt whose _run raised.
Rescue(r) ==
  /\ exec[r].stage = "rescuing"
  /\ \/ SetRun(r, "failed")
     \/ faults < MaxFaults /\ UNCHANGED run
  /\ exec' = [exec EXCEPT ![r] = Resting]
  /\ UNCHANGED <<thread, task, minted, created, memory, req, counters>>

\* The lifespan ends: background runs are cancelled; one inside the orchestrator is
\* still finalized, behind a shield.
ShutDown ==
  /\ serving /\ restarts < MaxRestarts
  /\ serving' = FALSE
  /\ exec' = [r \in Runs |->
       CASE exec[r].stage = "running" ->
              [stage |-> "finalizing", task |-> Of(r), result |-> "interrupted"]
         [] exec[r].stage \in {"starting", "finalizing", "settling"} ->
              Closing(Of(r), FALSE)
         [] OTHER -> exec[r]]
  /\ UNCHANGED <<rows, memory, req, faults, restarts>>

\* The process ends here or anywhere before; the next one recovers what is open
\* before it serves.
Restart ==
  /\ restarts < MaxRestarts /\ restarts' = restarts + 1
  /\ serving' = TRUE
  /\ claimed' = {} /\ active' = {} /\ lock' = [t \in Thread |-> NoOne]
  /\ req' = [q \in Request |-> Idle]
  /\ exec' = [r \in Runs |-> Resting]
  /\ LET open == {r \in Runs : run[r].status \in {"created", "running"}} IN
       /\ run' = [r \in Runs |->
            IF r \in open THEN [run[r] EXCEPT !.status = "interrupted"] ELSE run[r]]
       /\ task' = [k \in Task |->
            IF task[k] # "none" /\ \E r \in open : run[r].of = k
            THEN "interrupted" ELSE task[k]]
  /\ UNCHANGED <<thread, minted, created, faults>>

Serve(q) ==
  \/ SaveTask(q) \/ OpenRun(q) \/ NoTask(q) \/ Spawn(q)
  \/ StillOpen(q) \/ CloseStale(q) \/ CloseStaleTask(q) \/ Reopen(q)

Work(r) ==
  \/ MarkRunning(r) \/ (\E s \in Ends : Finish(r, s)) \/ FinalizeRun(r)
  \/ SettleTask(r) \/ CloseRun(r) \/ Rescue(r)

Next ==
  \/ \E t \in Thread : CreateThread(t) \/ DeleteThread(t)
  \/ \E q \in Request, k \in Task : CreateTask(q, k) \/ Evaluate(q, k) \/ FindTask(q, k)
  \/ \E q \in Request : ClaimResume(q) \/ ResumeRefused(q) \/ Serve(q) \/ RequestFails(q)
  \/ \E r \in Runs : Work(r) \/ ExecFails(r)
  \/ ShutDown \/ Restart

Spec == Init /\ [][Next]_vars

------------------------------------------------------------------------------
(* Properties.                                                             *)

TypeOK ==
  /\ thread \subseteq Thread /\ claimed \subseteq Thread
  /\ active \subseteq Task /\ created \subseteq Task
  /\ task \in [Task -> {"none", "planning"} \cup Ends]
  /\ run \in [Runs -> {NoRow} \cup
                [of : Task, status : {"created", "running"} \cup Ends]]
  /\ minted \in 0 .. MaxRuns
  /\ lock \in [Thread -> {NoOne} \cup Request]
  /\ req \in [Request -> {Idle} \cup
       [stage : {"saving", "opening", "found", "checking", "recovering"}, task : Task] \cup
       [stage : {"opened"}, task : Task, run : 1 .. minted]]
  /\ exec \in [Runs -> {Resting} \cup [stage : {"starting", "running"}, task : Task] \cup
       [stage : {"finalizing", "settling"}, task : Task, result : Ends] \cup
       [stage : {"closing"}, task : Task, raised : BOOLEAN] \cup
       [stage : {"rescuing"}, task : Task]]
  /\ serving \in BOOLEAN /\ faults \in 0 .. MaxFaults /\ restarts \in 0 .. MaxRestarts

Chat == Task \ EvalTask

\* An attempt of an evaluation runs in a thread named after it, where no client has made
\* a task.
EvalsApart == \A e \in EvalTask, k \in Chat : ThreadOf[e] # ThreadOf[k]

\* A thread that people write to never has two runs at work: not by two requests at
\* once, not by a resume during a run, nor after a failure or a restart.  And one that
\* is claimed is held by a request that has its lock or by a run at work, so that it
\* becomes free again whatever fails, and does not refuse everyone until a restart.
OneRunPerThread ==
  /\ \A r, s \in Runs :
       IsLive(r) /\ IsLive(s) /\ r # s /\ ThreadOf[Of(r)] = ThreadOf[Of(s)]
         => {Of(r), Of(s)} \cap EvalTask # {}
  /\ \A t \in claimed :
       \/ lock[t] # NoOne /\ req[lock[t]].stage # "idle"
       \/ \E r \in Runs : IsLive(r) /\ ThreadOf[Of(r)] = t

\* What the row of a run at work says is what that run wrote: nobody deletes it,
\* recovers it or starts a later run of its task meanwhile.
Untouched(r) ==
  /\ task[Of(r)] # "none" /\ run[r].of = Of(r) /\ r = Latest(Of(r))
  /\ exec[r].stage = "starting" => run[r].status = "created"
  /\ exec[r].stage \in {"running", "finalizing"} => run[r].status = "running"
  /\ exec[r].stage = "settling" => run[r].status = exec[r].result

AtWork(r) == exec[r].stage \in {"starting", "running", "finalizing", "settling"}

LiveRunUntouched == \A r \in Runs : AtWork(r) /\ Of(r) \in Chat => Untouched(r)

\* The same for every run that this process serves, those of evaluations included.
LiveOwnerReapsNothing == \A r \in Runs : AtWork(r) => Untouched(r)

\* A task at rest says what its latest run says while nothing fails, and whatever
\* fails says completed only when one of its runs is.
TaskFollowsRun ==
  \A k \in Chat :
    /\ (/\ faults = 0 /\ restarts = 0 /\ serving /\ RunsOf(k) # {}
        /\ \A r \in Runs : IsLive(r) => Of(r) # k
        /\ \A q \in Request : req[q].stage \in {"idle", "found"} \/ req[q].task # k)
       => task[k] = LatestStatus(k)
    /\ task[k] = "completed" => \E r \in RunsOf(k) : run[r].status = "completed"

\* A run that nobody works on can be followed by another (TLC refutes it: one whose
\* request failed before it was started stays created, which resume refuses).
ResumableWhenIdle ==
  \A k \in Chat :
    (\A r \in Runs : IsLive(r) => Of(r) # k) /\ (\A q \in Request : req[q] = Idle)
      => LatestStatus(k) # "created"

==============================================================================
