-------------------------- MODULE TaskLifecycleProofs --------------------------
(***************************************************************************)
(* One run per thread, and rows that nobody else touches, for every number *)
(* of tasks, threads, requests, failures and restarts.  The argument: a    *)
(* request works under the lock of its thread, a run at work keeps its     *)
(* thread claimed and its lock free, and a claim is refused while either   *)
(* is there.                                                               *)
(***************************************************************************)
EXTENDS TaskLifecycle, WellFoundedInduction, TLAPS

Named == {"saving", "opening", "found", "checking", "recovering"}
Busy == {"saving", "opening", "opened", "checking", "recovering"}

\* A request at work on a task people write to has the lock and the claim of its
\* thread, and whoever has a lock is such a request or resumes an evaluation's task.
Locks ==
  /\ \A q \in Request : req[q].stage \in {"checking", "recovering"} => lock[Home(q)] = q
  /\ \A q \in Request : req[q].stage \in Busy /\ req[q].task \in Chat =>
       lock[Home(q)] = q /\ Home(q) \in claimed
  /\ \A t \in Thread : lock[t] # NoOne =>
       req[lock[t]].stage \in Busy /\ Home(lock[t]) = t

\* A run that a request is about to start has not been started by another.
Spawning ==
  /\ \A q \in Request : req[q].stage = "opened" => exec[req[q].run] = Resting
  /\ \A p, q \in Request :
       req[p].stage = "opened" /\ req[q].stage = "opened" /\ req[p].run = req[q].run => p = q
  /\ \A r \in Runs : r > minted => exec[r] = Resting

\* A run at work keeps its thread claimed and unlocked, and has it for itself.
Alone ==
  /\ \A r \in Runs : IsLive(r) /\ Of(r) \in Chat =>
       ThreadOf[Of(r)] \in claimed /\ lock[ThreadOf[Of(r)]] = NoOne
  /\ \A r, s \in Runs :
       IsLive(r) /\ IsLive(s) /\ r # s /\ ThreadOf[Of(r)] = ThreadOf[Of(s)]
         => {Of(r), Of(s)} \cap EvalTask # {}

\* Whoever keeps a claim gives it back.
Backed ==
  \A t \in claimed :
    \/ lock[t] # NoOne
    \/ \E r \in Runs : exec[r].stage \in Live \ {"rescuing"} /\ ThreadOf[Of(r)] = t

IInv == TypeOK /\ Locks /\ Spawning /\ Alone /\ Backed

------------------------------------------------------------------------------
\* What a request looks like.
LEMMA Shape ==
  ASSUME TypeOK, NEW q \in Request
  PROVE  /\ req[q].stage \in Named \cup {"idle", "opened"}
         /\ req[q].stage = "idle" => req[q] = Idle
         /\ req[q].stage \in Named =>
              req[q].task \in Task /\ req[q] = [stage |-> req[q].stage, task |-> req[q].task]
         /\ req[q].stage = "opened" => req[q].task \in Task /\ req[q].run \in 1 .. minted
  BY DEF TypeOK, Idle, Named

LEMMA OpenedRun ==
  ASSUME TypeOK, NEW q \in Request, req[q].stage = "opened"
  PROVE  req[q].run \in Runs /\ req[q].run <= minted
  BY Shape, BoundAssumption DEF TypeOK, Runs

\* What a run looks like.
LEMMA Form ==
  ASSUME TypeOK, NEW r \in Runs
  PROVE  /\ exec[r].stage \in Live \cup {"none"}
         /\ exec[r].stage = "none" => exec[r] = Resting
         /\ IsLive(r) => Of(r) \in Task
         /\ exec[r].stage \in {"starting", "running"} =>
              exec[r] = [stage |-> exec[r].stage, task |-> Of(r)]
         /\ exec[r].stage \in {"finalizing", "settling"} =>
              exec[r].result \in Ends /\
              exec[r] = [stage |-> exec[r].stage, task |-> Of(r), result |-> exec[r].result]
         /\ exec[r].stage = "closing" => exec[r].raised \in BOOLEAN
  BY DEF TypeOK, Resting, Live, IsLive, Of

\* A request takes its next step on the same task.
LEMMA NextStage ==
  ASSUME TypeOK, NEW q \in Request, req[q].stage \in Named, NEW s, ReqTo(q, s)
  PROVE  req' = [req EXCEPT ![q] = [stage |-> s, task |-> req[q].task]]
<1> DEFINE k == req[q].task
           u == req[q].stage
<1>1. req[q] = [stage |-> u, task |-> k]
  BY Shape
<1>2. req' = [req EXCEPT ![q] = [req[q] EXCEPT !.stage = s]]
  BY DEF ReqTo, TypeOK
<1> HIDE DEF k, u
<1>3. [[stage |-> u, task |-> k] EXCEPT !.stage = s] = [stage |-> s, task |-> k]
  OBVIOUS
<1>4. QED
  BY <1>1, <1>2, <1>3 DEF k

\* A row keeps its shape when its status changes.
Row == {NoRow} \cup [of : Task, status : {"created", "running"} \cup Ends]
LEMMA RowKept ==
  ASSUME TypeOK, NEW r \in Runs, NEW s \in {"created", "running"} \cup Ends, run[r] # NoRow
  PROVE  /\ [run[r] EXCEPT !.status = s] = [of |-> run[r].of, status |-> s]
         /\ [of |-> run[r].of, status |-> s] \in Row
<1>1. run[r] \in [of : Task, status : {"created", "running"} \cup Ends]
  BY DEF TypeOK
<1>2. run[r] = [of |-> run[r].of, status |-> run[r].status] /\ run[r].of \in Task
  BY <1>1
<1>3. [run[r] EXCEPT !.status = s] = [of |-> run[r].of, status |-> s]
  BY <1>2
<1>4. [of |-> run[r].of, status |-> s] \in Row
  BY <1>2 DEF Row
<1>5. QED
  BY <1>3, <1>4

LEMMA SetRunTyped ==
  ASSUME TypeOK, NEW r \in Runs, NEW s \in {"created", "running"} \cup Ends, SetRun(r, s)
  PROVE  /\ run' = [run EXCEPT ![r] = IF run[r] = NoRow THEN NoRow
                                     ELSE [of |-> run[r].of, status |-> s]]
         /\ run' \in [Runs -> Row]
<1>1. run \in [Runs -> Row]
  BY DEF TypeOK, Row
<1>2. NoRow \in Row
  BY DEF Row
<1>3. CASE run[r] = NoRow
  BY <1>1, <1>2, <1>3 DEF SetRun, HasRow
<1>4. CASE run[r] # NoRow
  <2>1. [run[r] EXCEPT !.status = s] = [of |-> run[r].of, status |-> s]
        /\ [of |-> run[r].of, status |-> s] \in Row
    BY <1>1, <1>4, RowKept
  <2>2. QED
    BY <1>1, <1>4, <2>1 DEF SetRun, HasRow
<1>5. QED
  BY <1>3, <1>4

Doing == {Resting} \cup [stage : {"starting", "running"}, task : Task] \cup
  [stage : {"finalizing", "settling"}, task : Task, result : Ends] \cup
  [stage : {"closing"}, task : Task, raised : BOOLEAN] \cup [stage : {"rescuing"}, task : Task]

\* A run takes its next step: from "starting", or with a result.
LEMMA NextForm ==
  ASSUME TypeOK, NEW r \in Runs, NEW s
  PROVE  /\ exec[r].stage = "starting" =>
              [exec[r] EXCEPT !.stage = s] = [stage |-> s, task |-> Of(r)]
         /\ exec[r].stage = "finalizing" =>
              [exec[r] EXCEPT !.stage = s] =
                [stage |-> s, task |-> Of(r), result |-> exec[r].result]
<1> DEFINE k == Of(r)
           x == exec[r].result
<1>1. CASE exec[r].stage = "starting"
  <2>1. exec[r] = [stage |-> "starting", task |-> k]
    BY <1>1, Form
  <2> HIDE DEF k
  <2>2. [[stage |-> "starting", task |-> k] EXCEPT !.stage = s] = [stage |-> s, task |-> k]
    OBVIOUS
  <2>3. QED
    BY <1>1, <2>1, <2>2 DEF k
<1>2. CASE exec[r].stage = "finalizing"
  <2>1. exec[r] = [stage |-> "finalizing", task |-> k, result |-> x]
    BY <1>2, Form
  <2> HIDE DEF k, x
  <2>2. [[stage |-> "finalizing", task |-> k, result |-> x] EXCEPT !.stage = s]
          = [stage |-> s, task |-> k, result |-> x]
    OBVIOUS
  <2>3. QED
    BY <1>2, <2>1, <2>2 DEF k, x
<1>3. QED
  BY <1>1, <1>2

\* The latest of some runs is the one with the greatest number.
LEMMA LatestIs ==
  ASSUME NEW S, S \subseteq Runs, S # {}
  PROVE  Max(S) \in S /\ \A s \in S : Max(S) >= s
<1> USE BoundAssumption DEF Runs
<1> DEFINE T == {MaxRuns - r : r \in S}
           R == OpToRel(<, Nat)
<1>1. T \subseteq Nat /\ T # {}
  <2>1. MaxRuns \in Nat
    OBVIOUS
  <2>2. \A r \in S : MaxRuns - r \in Nat
    BY <2>1
  <2>3. PICK r \in S : TRUE
    OBVIOUS
  <2>4. MaxRuns - r \in T
    OBVIOUS
  <2>5. QED
    BY <2>2, <2>4
<1>2. \A i, j \in Nat : <<j, i>> \in R <=> j < i
  BY DEF OpToRel
<1>3. IsWellFoundedOn(R, Nat)
  BY NatLessThanWellFounded
<1> HIDE DEF R
<1>4. PICK i \in T : \A j \in T : <<j, i>> \notin R
  BY <1>1, <1>3, WFMin
<1>5. PICK r \in S : i = MaxRuns - r
  BY <1>4
<1>6. ASSUME NEW s \in S PROVE r >= s
  <2>1. MaxRuns - s \in T /\ MaxRuns - s \in Nat /\ i \in Nat
    BY <1>1
  <2>2. ~ (MaxRuns - s < i)
    BY <1>2, <1>4, <2>1
  <2>3. QED
    BY <1>5, <2>2
<1>7. QED
  BY <1>6 DEF Max

\* The row of a run that runs nowhere gets its end.
LEMMA StaleClosed ==
  ASSUME TypeOK, NEW q \in Request, CloseStale(q)
  PROVE  LET l == Latest(req[q].task)
         IN  /\ l \in RunsOf(req[q].task)
             /\ run' = [run EXCEPT ![l] = [of |-> req[q].task, status |-> "interrupted"]]
             /\ run' \in [Runs -> Row]
<1> DEFINE k == req[q].task
           l == Latest(k)
<1>1. l \in RunsOf(k)
  <2>1. RunsOf(k) \in SUBSET Runs /\ RunsOf(k) # {}
    BY DEF CloseStale, LatestStatus, RunsOf
  <2>2. QED
    BY <2>1, LatestIs DEF Latest
<1>2. l \in Runs /\ run[l].of = k /\ run[l] # NoRow
  BY <1>1 DEF CloseStale, LatestStatus, RunsOf, NoRow
<1>3. [run[l] EXCEPT !.status = "interrupted"] = [of |-> k, status |-> "interrupted"]
      /\ [of |-> k, status |-> "interrupted"] \in Row
  BY <1>2, RowKept DEF Ends
<1>4. run \in [Runs -> Row]
  BY DEF TypeOK, Row
<1>5. run' = [run EXCEPT ![l] = [run[l] EXCEPT !.status = "interrupted"]]
  BY <1>2, <1>4 DEF CloseStale
<1>6. QED
  BY <1>1, <1>2, <1>3, <1>4, <1>5

\* At the start nobody works.
LEMMA InitHolds == Init => IInv
<1> SUFFICES ASSUME Init PROVE IInv
  OBVIOUS
<1> USE TaskAssumption, SqlAssumption, BoundAssumption, NamesAssumption
<1>1. TypeOK
  BY DEF Init, TypeOK, Idle, Resting, NoRow
<1>2. Locks /\ Spawning /\ Alone /\ Backed
  BY DEF Init, Locks, Spawning, Alone, Backed, Idle, Resting, Busy, Live, IsLive, Home, Of
<1>3. QED
  BY <1>1, <1>2 DEF IInv


\* The variables keep their types, one step for each action.
LEMMA TypeKept == IInv /\ [Next]_vars => TypeOK'
<1> SUFFICES ASSUME IInv, [Next]_vars PROVE TypeOK'
  OBVIOUS
<1> USE TaskAssumption, SqlAssumption, BoundAssumption, NamesAssumption DEF IInv
<1>1. ASSUME NEW t \in Thread, CreateThread(t) PROVE TypeOK'
  BY <1>1 DEF CreateThread, TypeOK, memory, counters
<1>2. ASSUME NEW t \in Thread, DeleteThread(t) PROVE TypeOK'
  BY <1>2 DEF DeleteThread, TypeOK, memory, counters
<1>3. ASSUME NEW q \in Request, NEW k \in Task, CreateTask(q, k) PROVE TypeOK'
  BY <1>3 DEF CreateTask, Claim, TypeOK, counters
<1>4. ASSUME NEW q \in Request, NEW k \in Task, Evaluate(q, k) PROVE TypeOK'
  BY <1>4 DEF Evaluate, TypeOK, memory, counters
<1>5. ASSUME NEW q \in Request, NEW k \in Task, FindTask(q, k) PROVE TypeOK'
  BY <1>5 DEF FindTask, TypeOK, rows, memory, counters
<1>6. ASSUME NEW q \in Request, ClaimResume(q) PROVE TypeOK'
  BY <1>6, Shape DEF ClaimResume, Claim, TypeOK, rows, counters, Named
<1>7. ASSUME NEW q \in Request, ResumeRefused(q) PROVE TypeOK'
  BY <1>7 DEF ResumeRefused, TypeOK, rows, memory, counters
<1>8. ASSUME NEW q \in Request, SaveTask(q) PROVE TypeOK'
  BY <1>8, Shape, NextStage DEF SaveTask, TypeOK, memory, counters, Named, Home
<1>9. ASSUME NEW q \in Request, OpenRun(q) PROVE TypeOK'
  BY <1>9, Shape DEF OpenRun, TypeOK, memory, counters, Named, Runs
<1>10. ASSUME NEW q \in Request, NoTask(q) PROVE TypeOK'
  BY <1>10 DEF NoTask, GiveUp, Free, TypeOK, rows, memory, counters
<1>11. ASSUME NEW q \in Request, Spawn(q) PROVE TypeOK'
  <2>1. req[q].task \in Task /\ req[q].run \in Runs
    BY <1>11, Shape DEF Spawn, TypeOK, Runs
  <2>2. [stage |-> "starting", task |-> req[q].task] \in Doing
    BY <2>1 DEF Doing
  <2>3. exec \in [Runs -> Doing]
    BY DEF TypeOK, Doing
  <2>4. exec' \in [Runs -> Doing]
    BY <1>11, <2>2, <2>3 DEF Spawn
  <2>5. req' \in [Request -> {Idle} \cup [stage : Named, task : Task] \cup
                    [stage : {"opened"}, task : Task, run : 1 .. minted]]
    BY <1>11 DEF Spawn, TypeOK, Named
  <2>6. active' \subseteq Task /\ lock' \in [Thread -> {NoOne} \cup Request]
    BY <1>11, <2>1 DEF Spawn, Free, Home, TypeOK
  <2>7. QED
    BY <1>11, <2>4, <2>5, <2>6 DEF Spawn, TypeOK, Doing, Named, rows, counters
<1>12. ASSUME NEW q \in Request, RequestFails(q) PROVE TypeOK'
  BY <1>12 DEF RequestFails, GiveUp, Free, TypeOK, rows
<1>13. ASSUME NEW q \in Request, StillOpen(q) PROVE TypeOK'
  BY <1>13 DEF StillOpen, GiveUp, Free, TypeOK, rows, counters
<1>14. ASSUME NEW q \in Request, CloseStale(q) PROVE TypeOK'
  <2>1. req' = [req EXCEPT ![q] = [stage |-> "recovering", task |-> req[q].task]]
        /\ req[q].task \in Task
    BY <1>14, NextStage, Shape DEF CloseStale, Named
  <2>2. run' \in [Runs -> Row]
    BY <1>14, StaleClosed DEF CloseStale
  <2>3. QED
    BY <1>14, <2>1, <2>2 DEF CloseStale, TypeOK, Row, memory, counters
<1>15. ASSUME NEW q \in Request, CloseStaleTask(q) PROVE TypeOK'
  BY <1>15, Shape, NextStage DEF CloseStaleTask, SetTask, TypeOK, memory, counters, Named, Ends
<1>16. ASSUME NEW q \in Request, Reopen(q) PROVE TypeOK'
  BY <1>16, Shape, NextStage DEF Reopen, TypeOK, rows, memory, counters, Named
<1>17. ASSUME NEW r \in Runs, MarkRunning(r) PROVE TypeOK'
  <2>1. run' \in [Runs -> Row]
    BY <1>17, SetRunTyped DEF MarkRunning
  <2>2. exec' = [exec EXCEPT ![r] = [stage |-> "running", task |-> Of(r)]] /\ Of(r) \in Task
    <3>1. exec' = [exec EXCEPT ![r] = [exec[r] EXCEPT !.stage = "running"]]
      BY <1>17 DEF MarkRunning, ExecTo, TypeOK
    <3>2. [exec[r] EXCEPT !.stage = "running"] = [stage |-> "running", task |-> Of(r)]
      BY <1>17, NextForm DEF MarkRunning
    <3>3. QED
      BY <1>17, <3>1, <3>2, Form DEF MarkRunning, IsLive, Live
  <2>3. exec' \in [Runs -> Doing]
    BY <2>2 DEF TypeOK, Doing
  <2>4. QED
    BY <1>17, <2>1, <2>3 DEF MarkRunning, TypeOK, Row, Doing, memory, counters
<1>18. ASSUME NEW r \in Runs, NEW s \in Ends, Finish(r, s) PROVE TypeOK'
  <2>1. exec' = [exec EXCEPT ![r] = [stage |-> "finalizing", task |-> Of(r), result |-> s]]
        /\ Of(r) \in Task
    BY <1>18, Form DEF Finish, TypeOK, Of, IsLive, Live
  <2>2. QED
    BY <1>18, <2>1 DEF Finish, TypeOK, rows, memory, counters
<1>19. ASSUME NEW r \in Runs, FinalizeRun(r) PROVE TypeOK'
  <2>1. exec[r].result \in Ends /\ Of(r) \in Task
    BY <1>19, Form DEF FinalizeRun, IsLive, Live
  <2>2. run' \in [Runs -> Row]
    BY <1>19, <2>1, SetRunTyped DEF FinalizeRun
  <2>3. exec' = [exec EXCEPT ![r] = [stage |-> "settling", task |-> Of(r),
                                     result |-> exec[r].result]]
    BY <1>19, NextForm DEF FinalizeRun, ExecTo, TypeOK
  <2>4. QED
    BY <1>19, <2>1, <2>2, <2>3 DEF FinalizeRun, TypeOK, Row, memory, counters
<1>20. ASSUME NEW r \in Runs, SettleTask(r) PROVE TypeOK'
  <2>1. exec[r].result \in Ends /\ Of(r) \in Task
    BY <1>20, Form DEF SettleTask, IsLive, Live
  <2>2. task' \in [Task -> {"none", "planning"} \cup Ends]
    BY <1>20, <2>1 DEF SettleTask, SetTask, TypeOK
  <2>3. exec' = [exec EXCEPT ![r] = [stage |-> "closing", task |-> Of(r), raised |-> FALSE]]
    BY <1>20 DEF SettleTask, Closing
  <2>4. exec' \in [Runs -> Doing]
    BY <2>1, <2>3 DEF TypeOK, Doing
  <2>5. QED
    BY <1>20, <2>2, <2>4 DEF SettleTask, TypeOK, Doing, memory, counters
<1>21. ASSUME NEW r \in Runs, CloseRun(r) PROVE TypeOK'
  BY <1>21, Form DEF CloseRun, Of, TypeOK, rows, counters
<1>22. ASSUME NEW r \in Runs, Rescue(r) PROVE TypeOK'
  BY <1>22 DEF Rescue, SetRun, HasRow, Resting, TypeOK, memory, counters, Ends
<1>23. ASSUME NEW r \in Runs, ExecFails(r) PROVE TypeOK'
  BY <1>23, Form DEF ExecFails, Closing, Of, Live, IsLive, TypeOK, rows, memory
<1>24. CASE ShutDown
  <2>1. ASSUME NEW r \in Runs PROVE exec'[r] \in Doing
    <3>1. CASE exec[r].stage = "running"
      <4>1. Of(r) \in Task
        BY <3>1, Form DEF IsLive, Live
      <4>2. exec'[r] = [stage |-> "finalizing", task |-> Of(r), result |-> "interrupted"]
        BY <1>24, <3>1 DEF ShutDown
      <4>3. QED
        BY <4>1, <4>2 DEF Doing, Ends
    <3>2. CASE exec[r].stage \in {"starting", "finalizing", "settling"}
      <4>1. Of(r) \in Task
        BY <3>2, Form DEF IsLive, Live
      <4>2. exec'[r] = [stage |-> "closing", task |-> Of(r), raised |-> FALSE]
        BY <1>24, <3>2 DEF ShutDown, Closing
      <4>3. QED
        BY <4>1, <4>2 DEF Doing
    <3>3. CASE exec[r].stage \notin {"running", "starting", "finalizing", "settling"}
      <4>1. exec'[r] = exec[r]
        BY <1>24, <3>3 DEF ShutDown
      <4>2. QED
        BY <4>1 DEF TypeOK, Doing
    <3>4. QED
      BY <3>1, <3>2, <3>3
  <2>2. exec' \in [Runs -> Doing]
    BY <1>24, <2>1 DEF ShutDown
  <2>3. QED
    BY <1>24, <2>2 DEF ShutDown, TypeOK, Doing, rows, memory
<1>25. CASE Restart
  <2> DEFINE open == {r \in Runs : run[r].status \in {"created", "running"}}
  <2>1. ASSUME NEW r \in Runs PROVE run'[r] \in Row
    <3>1. CASE r \in open
      <4>1. run[r] # NoRow
        BY <3>1 DEF NoRow
      <4>2. run'[r] = [run[r] EXCEPT !.status = "interrupted"]
        BY <1>25, <3>1 DEF Restart
      <4>3. /\ [run[r] EXCEPT !.status = "interrupted"] = [of |-> run[r].of, status |-> "interrupted"]
            /\ [of |-> run[r].of, status |-> "interrupted"] \in Row
        BY <4>1, RowKept DEF Ends
      <4>4. QED
        BY <4>2, <4>3
    <3>2. CASE r \notin open
      <4>1. run'[r] = run[r]
        BY <1>25, <3>2 DEF Restart
      <4>2. QED
        BY <4>1 DEF TypeOK, Row
    <3>3. QED
      BY <3>1, <3>2
  <2>2. run' \in [Runs -> Row]
    BY <1>25, <2>1 DEF Restart
  <2>3. task' \in [Task -> {"none", "planning"} \cup Ends]
    BY <1>25 DEF Restart, TypeOK, Ends
  <2>4. QED
    BY <1>25, <2>2, <2>3 DEF Restart, TypeOK, Row
<1>26. CASE UNCHANGED vars
  BY <1>26 DEF vars, rows, memory, counters, TypeOK
<1>27. QED
  BY <1>1, <1>2, <1>3, <1>4, <1>5, <1>6, <1>7, <1>8, <1>9, <1>10, <1>11, <1>12, <1>13, <1>14,
     <1>15, <1>16, <1>17, <1>18, <1>19, <1>20, <1>21, <1>22, <1>23, <1>24, <1>25, <1>26
     DEF Next, Serve, Work

\* What a step does to claims, locks, requests and runs at work, whatever rows it writes.
OthersStay(q) == \A p \in Request \ {q} : req'[p] = req[p]
\* Nobody's claim, lock or place changes; a run stays at work on its task.
Works ==
  /\ UNCHANGED <<claimed, lock, req, minted>>
  /\ \A r \in Runs :
       /\ IsLive(r)' <=> IsLive(r)
       /\ IsLive(r) => Of(r)' = Of(r)
       /\ exec[r].stage \in Live \ {"rescuing"} => exec'[r].stage \in Live \ {"rescuing"}
       /\ exec[r] = Resting => exec'[r] = Resting
\* A request that works on goes on.
Moves(q) ==
  /\ UNCHANGED <<claimed, lock, exec>> /\ OthersStay(q)
  /\ req[q].stage \in Busy /\ req'[q].stage \in Busy /\ req'[q].task = req[q].task
  /\ req'[q].stage \in {"checking", "recovering"} => req[q].stage \in {"checking", "recovering"}
  /\ \/ minted' = minted /\ req'[q].stage # "opened"
     \/ minted < MaxRuns /\ minted' = minted + 1 /\ req'[q].stage = "opened" /\ req'[q].run = minted'
\* A request takes its thread.
Takes(q) ==
  /\ UNCHANGED <<exec, minted>> /\ OthersStay(q)
  /\ req[q].stage \in {"idle", "found"} /\ req'[q].stage \in {"saving", "checking"}
  /\ req'[q].task \in Task
  /\ LET t == ThreadOf[req'[q].task] IN
       /\ lock[t] = NoOne /\ t \notin claimed
       /\ claimed' = claimed \cup {t} /\ lock' = [lock EXCEPT ![t] = q]
\* A request that has no lock changes places, or ends.
Turns(q) ==
  /\ UNCHANGED <<claimed, lock, exec, minted>> /\ OthersStay(q)
  /\ req[q].stage \in {"idle", "found"} \/ lock[Home(q)] # q
  /\ \/ req'[q].stage \in {"idle", "found"}
     \/ req'[q].stage = "saving" /\ req'[q].task \in EvalTask
\* A request that has the lock ends.
Gives(q) ==
  /\ UNCHANGED <<exec, minted>>
  /\ req[q].stage \in Busy /\ lock[Home(q)] = q /\ GiveUp(q)

Safe == Locks /\ Spawning /\ Alone /\ Backed

LEMMA WorksKeep == IInv /\ Works => Safe'
<1> SUFFICES ASSUME IInv, Works PROVE Safe'
  OBVIOUS
<1>1. Locks'
  BY DEF IInv, Works, Locks, Home
<1>2. Spawning'
  <2>1. \A q \in Request : req[q].stage = "opened" => req[q].run \in Runs
    BY OpenedRun DEF IInv
  <2>2. QED
    BY <2>1 DEF IInv, Works, Spawning
<1>3. Alone'
  BY DEF IInv, Works, Alone
<1>4. Backed'
  BY DEF IInv, Works, Backed, Of, IsLive
<1>5. QED
  BY <1>1, <1>2, <1>3, <1>4 DEF Safe

LEMMA MovesKeep ==
  ASSUME IInv, NEW q \in Request, Moves(q) PROVE Safe'
<1> USE DEF Moves, OthersStay
<1>1. Locks'
  <2>1. \A p \in Request : req'[p].task = req[p].task
    OBVIOUS
  <2>2. \A p \in Request : Home(p)' = Home(p)
    BY <2>1 DEF Home
  <2>3. QED
    BY <2>1, <2>2 DEF IInv, Locks, TypeOK
<1>2. Spawning'
  <2>1. minted \in Nat /\ exec \in [Runs -> Doing]
    BY BoundAssumption DEF IInv, TypeOK, Doing
  <2>2. \A p \in Request : req[p].stage = "opened" => req[p].run \in 1 .. minted
    BY Shape DEF IInv
  <2>3. \A p \in Request \ {q} : req'[p].stage = "opened" => req'[p].run \in 1 .. minted
    BY <2>2
  <2>4. \A r \in Runs : r > minted' => r > minted
    BY <2>1 DEF Runs
  <2>5. CASE minted' = minted /\ req'[q].stage # "opened"
    BY <2>5 DEF IInv, Spawning
  <2>6. CASE minted < MaxRuns /\ minted' = minted + 1 /\ req'[q].run = minted'
    <3>1. minted + 1 \in Runs /\ exec[minted + 1] = Resting
      BY <2>1, <2>6, BoundAssumption DEF IInv, Spawning, Runs
    <3>2. \A p \in Request \ {q} : req'[p].stage = "opened" => req'[p].run # minted + 1
      BY <2>1, <2>3
    <3>3. QED
      BY <2>4, <2>6, <3>1, <3>2 DEF IInv, Spawning
  <2>7. QED
    BY <2>5, <2>6
<1>3. Alone'
  BY DEF IInv, Alone, IsLive, Of
<1>4. Backed'
  BY DEF IInv, Backed, Of
<1>5. QED
  BY <1>1, <1>2, <1>3, <1>4 DEF Safe

LEMMA TakesKeep ==
  ASSUME IInv, NEW q \in Request, Takes(q) PROVE Safe'
<1> DEFINE t == ThreadOf[req'[q].task]
<1> USE TaskAssumption, NamesAssumption DEF Takes, OthersStay
<1>1. /\ t \in Thread /\ lock[t] = NoOne /\ t \notin claimed
      /\ claimed' = claimed \cup {t} /\ lock'[t] = q
      /\ \A u \in Thread \ {t} : lock'[u] = lock[u]
      /\ \A p \in Request : lock[t] # p
  BY DEF IInv, TypeOK
<1>2. \A p \in Request \ {q} : Home(p)' = Home(p)
  BY DEF Home
<1>3. Home(q)' = t
  BY DEF Home
<1>4. Locks'
  <2>1. \A u \in Thread \ {t} : lock[u] # q
    BY DEF IInv, Locks, Busy
  <2>2. \A p \in Request : req[p].stage \in Busy \cup {"found"} => Home(p) \in Thread
    BY Shape DEF IInv, Home, Busy, Named
  <2>3. \A p \in Request \ {q} : req'[p].stage \in {"checking", "recovering"} => lock'[Home(p)'] = p
    BY <1>1, <1>2, <2>2 DEF IInv, Locks, Busy
  <2>4. \A p \in Request \ {q} : req'[p].stage \in Busy /\ req'[p].task \in Chat =>
          lock'[Home(p)'] = p /\ Home(p)' \in claimed'
    BY <1>1, <1>2, <2>2 DEF IInv, Locks, Busy
  <2>5. \A u \in Thread \ {t} : lock'[u] # NoOne =>
          req'[lock'[u]].stage \in Busy /\ ThreadOf[req'[lock'[u]].task] = u
    <3> SUFFICES ASSUME NEW u \in Thread \ {t}, lock'[u] # NoOne
                 PROVE  req'[lock'[u]].stage \in Busy /\ ThreadOf[req'[lock'[u]].task] = u
      OBVIOUS
    <3>1. lock'[u] = lock[u] /\ lock[u] \in Request \ {q}
      BY <1>1, <2>1 DEF IInv, TypeOK
    <3>2. QED
      BY <3>1 DEF IInv, Locks, Home
  <2>6. QED
    BY <1>1, <1>3, <2>3, <2>4, <2>5 DEF Locks, Busy, Home
<1>5. Spawning'
  BY DEF IInv, Spawning
<1>6. Alone'
  <2>1. ASSUME NEW r \in Runs, IsLive(r), Of(r) \in Chat
        PROVE  ThreadOf[Of(r)] \in claimed' /\ lock'[ThreadOf[Of(r)]] = NoOne
    <3>1. ThreadOf[Of(r)] \in claimed /\ lock[ThreadOf[Of(r)]] = NoOne
          /\ ThreadOf[Of(r)] \in Thread
      BY <2>1 DEF IInv, Alone, Chat
    <3>2. QED
      BY <1>1, <3>1
  <2>2. QED
    BY <2>1 DEF IInv, Alone, IsLive, Of
<1>7. Backed'
  <2>1. \A u \in claimed \ {t} : lock'[u] = lock[u]
    BY <1>1 DEF IInv, TypeOK
  <2>2. QED
    BY <1>1, <2>1 DEF IInv, Backed, Of
<1>8. QED
  BY <1>4, <1>5, <1>6, <1>7 DEF Safe

LEMMA TurnsKeep ==
  ASSUME IInv, NEW q \in Request, Turns(q) PROVE Safe'
<1> USE NamesAssumption DEF Turns, OthersStay
<1>1. \A u \in Thread : lock[u] # q
  BY DEF IInv, Locks, Busy
<1>2. \A p \in Request \ {q} : Home(p)' = Home(p)
  BY DEF Home
<1>3. Locks'
  <2>1. \A u \in Thread : lock[u] # NoOne => lock[u] \in Request \ {q}
    BY <1>1 DEF IInv, TypeOK
  <2>2. QED
    BY <1>2, <2>1 DEF IInv, Locks, Busy, Chat
<1>4. Spawning'
  BY DEF IInv, Spawning
<1>5. Alone' /\ Backed'
  BY DEF IInv, Alone, Backed, IsLive, Of
<1>6. QED
  BY <1>3, <1>4, <1>5 DEF Safe

LEMMA GivesKeep ==
  ASSUME IInv, NEW q \in Request, Gives(q) PROVE Safe'
<1> DEFINE t == Home(q)
<1> USE TaskAssumption, NamesAssumption DEF Gives, GiveUp, Free
<1>1. /\ t \in Thread /\ lock[t] = q /\ claimed' = claimed \ {t} /\ lock'[t] = NoOne
      /\ \A u \in Thread \ {t} : lock'[u] = lock[u]
      /\ \A p \in Request \ {q} : req'[p] = req[p]
      /\ req'[q] = Idle
  BY Shape DEF IInv, TypeOK, Home, Busy, Named
<1>2. \A p \in Request \ {q} : Home(p)' = Home(p)
  BY <1>1 DEF Home
<1>3. Locks'
  <2>1. \A u \in Thread \ {t} : lock[u] # q
    BY DEF IInv, Locks
  <2>2. \A p \in Request : req[p].stage \in Busy => Home(p) \in Thread
    BY Shape DEF IInv, Home, Busy, Named
  <2>3. \A p \in Request \ {q} : req'[p].stage \in {"checking", "recovering"} => lock'[Home(p)'] = p
    BY <1>1, <1>2, <2>2 DEF IInv, Locks, Busy
  <2>4. \A p \in Request \ {q} : req'[p].stage \in Busy /\ req'[p].task \in Chat =>
          lock'[Home(p)'] = p /\ Home(p)' \in claimed'
    BY <1>1, <1>2, <2>2 DEF IInv, Locks, Busy
  <2>5. ASSUME NEW u \in Thread, lock'[u] # NoOne
        PROVE  req'[lock'[u]].stage \in Busy /\ ThreadOf[req'[lock'[u]].task] = u
    <3>1. u # t /\ lock'[u] = lock[u] /\ lock[u] \in Request \ {q}
      BY <1>1, <2>1, <2>5 DEF IInv, TypeOK
    <3>2. QED
      BY <1>1, <2>5, <3>1 DEF IInv, Locks, Home
  <2>6. QED
    BY <1>1, <2>3, <2>4, <2>5 DEF Locks, Busy, Idle, Home
<1>4. Spawning'
  BY <1>1 DEF IInv, Spawning, Idle
<1>5. Alone'
  <2>1. ASSUME NEW r \in Runs, IsLive(r), Of(r) \in Chat
        PROVE  ThreadOf[Of(r)] \in claimed' /\ lock'[ThreadOf[Of(r)]] = NoOne
    <3>1. ThreadOf[Of(r)] \in claimed /\ lock[ThreadOf[Of(r)]] = NoOne
          /\ ThreadOf[Of(r)] \in Thread
      BY <2>1 DEF IInv, Alone, Chat
    <3>2. QED
      BY <1>1, <3>1
  <2>2. QED
    BY <2>1 DEF IInv, Alone, IsLive, Of
<1>6. Backed'
  <2>1. \A u \in claimed \ {t} : lock'[u] = lock[u]
    BY <1>1 DEF IInv, TypeOK
  <2>2. QED
    BY <1>1, <2>1 DEF IInv, Backed, Of
<1>7. QED
  BY <1>3, <1>4, <1>5, <1>6 DEF Safe

\* A request hands its thread to the run that it starts.
LEMMA SpawnKeeps ==
  ASSUME IInv, NEW q \in Request, Spawn(q) PROVE Safe'
<1> DEFINE t == Home(q)
<1> USE TaskAssumption, NamesAssumption
<1>0. PICK n \in Runs, k \in Task : n = req[q].run /\ k = req[q].task
  BY OpenedRun, Shape DEF IInv, Spawn
<1>1. /\ t \in Thread /\ t = ThreadOf[k] /\ claimed' = claimed /\ minted' = minted
      /\ exec[n] = Resting /\ exec'[n] = [stage |-> "starting", task |-> k]
      /\ \A r \in Runs \ {n} : exec'[r] = exec[r]
      /\ \A p \in Request \ {q} : req'[p] = req[p]
      /\ req'[q] = Idle /\ req[q].stage = "opened"
  BY <1>0 DEF IInv, TypeOK, Home, Spawn, Spawning, rows
<1>2. \A u \in Thread : lock'[u] = IF lock[u] = q THEN NoOne ELSE lock[u]
  <2>1. CASE lock[t] = q
    BY <1>1, <2>1 DEF IInv, Locks, TypeOK, Spawn, Free
  <2>2. CASE lock[t] # q
    BY <1>1, <2>2 DEF IInv, Locks, TypeOK, Spawn
  <2>3. QED
    BY <2>1, <2>2
<1>3. Locks'
  <2>1. \A p \in Request : req[p].stage \in Busy => Home(p) \in Thread
    BY Shape DEF IInv, Home, Busy, Named
  <2>2. \A p \in Request \ {q} : req'[p].stage \in {"checking", "recovering"} => lock'[ThreadOf[req'[p].task]] = p
    BY <1>1, <1>2, <2>1 DEF IInv, Locks, Busy, Home
  <2>3. \A p \in Request \ {q} : req'[p].stage \in Busy /\ req'[p].task \in Chat =>
          lock'[ThreadOf[req'[p].task]] = p /\ ThreadOf[req'[p].task] \in claimed'
    BY <1>1, <1>2, <2>1 DEF IInv, Locks, Busy, Home
  <2>4. ASSUME NEW u \in Thread, lock'[u] # NoOne
        PROVE  req'[lock'[u]].stage \in Busy /\ ThreadOf[req'[lock'[u]].task] = u
    <3>1. lock'[u] = lock[u] /\ lock[u] \in Request \ {q}
      BY <1>2, <2>4 DEF IInv, TypeOK
    <3>2. QED
      BY <1>1, <2>4, <3>1 DEF IInv, Locks, Home
  <2>5. QED
    BY <1>1, <2>2, <2>3, <2>4 DEF Locks, Busy, Idle, Home
<1>4. Spawning'
  <2>1. \A p \in Request \ {q} : req[p].stage = "opened" => req[p].run \in Runs \ {n}
    BY <1>0, <1>1, OpenedRun DEF IInv, Spawning
  <2>2. n <= minted /\ minted \in Nat
    BY <1>0, <1>1, OpenedRun, BoundAssumption DEF IInv, TypeOK
  <2>3. \A r \in Runs : r > minted => r # n
    BY <2>2, BoundAssumption DEF Runs
  <2>4. QED
    BY <1>1, <2>1, <2>3 DEF IInv, Spawning, Idle
<1>5. Alone'
  <2>1. \A r \in Runs \ {n} : /\ IsLive(r)' <=> IsLive(r)
                              /\ Of(r)' = Of(r)
    BY <1>1 DEF IsLive, Of
  <2>2. IsLive(n)' /\ Of(n)' = k
    BY <1>1 DEF IsLive, Of, Live
  <2>3. k \in Chat => lock[t] = q /\ t \in claimed
    BY <1>0, <1>1 DEF IInv, Locks, Busy
  <2>4. \A r \in Runs : IsLive(r) /\ Of(r) \in Chat =>
          ThreadOf[Of(r)] \in claimed /\ lock[ThreadOf[Of(r)]] = NoOne /\ ThreadOf[Of(r)] \in Thread
    BY DEF IInv, Alone, Chat
  <2>5. ASSUME NEW r \in Runs, IsLive(r)', Of(r)' \in Chat
        PROVE  ThreadOf[Of(r)'] \in claimed' /\ lock'[ThreadOf[Of(r)']] = NoOne
    <3>1. CASE r = n
      BY <1>1, <1>2, <2>2, <2>3, <2>5, <3>1
    <3>2. CASE r # n
      BY <1>1, <1>2, <2>1, <2>4, <2>5, <3>2
    <3>3. QED
      BY <3>1, <3>2
  <2>6. ASSUME NEW r \in Runs \ {n}, IsLive(r), ThreadOf[Of(r)] = t
        PROVE  {Of(r), k} \cap EvalTask # {}
    <3>1. Of(r) \in Task
      BY <2>6, Form DEF IInv
    <3>2. CASE Of(r) \in Chat
      BY <1>1, <2>3, <2>4, <2>6, <3>2 DEF Chat
    <3>3. QED
      BY <3>1, <3>2 DEF Chat
  <2>7. ASSUME NEW r \in Runs, NEW s \in Runs,
               IsLive(r)', IsLive(s)', r # s, ThreadOf[Of(r)'] = ThreadOf[Of(s)']
        PROVE  {Of(r)', Of(s)'} \cap EvalTask # {}
    <3>1. CASE r = n
      BY <1>1, <2>1, <2>2, <2>6, <2>7, <3>1
    <3>2. CASE s = n
      BY <1>1, <2>1, <2>2, <2>6, <2>7, <3>2
    <3>3. CASE r # n /\ s # n
      BY <2>1, <2>7, <3>3 DEF IInv, Alone
    <3>4. QED
      BY <3>1, <3>2, <3>3
  <2>8. QED
    BY <2>5, <2>7 DEF Alone
<1>6. Backed'
  <2>1. ASSUME NEW u \in claimed, lock'[u] = NoOne
        PROVE  \E r \in Runs : exec'[r].stage \in Live \ {"rescuing"} /\ ThreadOf[exec'[r].task] = u
    <3>1. u \in Thread
      BY DEF IInv, TypeOK
    <3>2. CASE lock[u] = q
      <4>1. u = t
        BY <1>1, <3>1, <3>2 DEF IInv, Locks
      <4>2. QED
        BY <1>1, <4>1 DEF Live, Home
    <3>3. CASE lock[u] # q
      <4>1. lock[u] = NoOne
        BY <1>2, <2>1, <3>1, <3>3
      <4>2. PICK r \in Runs : exec[r].stage \in Live \ {"rescuing"} /\ ThreadOf[exec[r].task] = u
        BY <4>1 DEF IInv, Backed, Of
      <4>3. r # n
        BY <1>1, <4>2 DEF Resting, Live
      <4>4. QED
        BY <1>1, <4>2, <4>3
    <3>4. QED
      BY <3>2, <3>3
  <2>2. QED
    BY <1>1, <2>1 DEF Backed, Of
<1>7. QED
  BY <1>3, <1>4, <1>5, <1>6 DEF Safe

\* The end of a run frees its thread, where nobody else can be.
LEMMA CloseKeeps ==
  ASSUME IInv, EvalsApart, NEW r \in Runs, CloseRun(r) PROVE Safe'
<1> DEFINE t == ThreadOf[Of(r)]
<1> USE TaskAssumption, NamesAssumption
<1>1. /\ UNCHANGED <<lock, req, minted>> /\ claimed' = claimed \ {t}
      /\ IsLive(r) /\ Of(r) \in Task
      /\ \A s \in Runs \ {r} : exec'[s] = exec[s]
      /\ exec'[r] = Resting \/ (Of(r) \in EvalTask /\ exec'[r] = [stage |-> "rescuing", task |-> Of(r)])
  BY Form DEF IInv, TypeOK, CloseRun, IsLive, Live, rows, counters, Of
<1>2. \A s \in Runs : IsLive(s)' => IsLive(s) /\ Of(s)' = Of(s) /\ (s = r => Of(r) \in EvalTask)
  <2>1. \A s \in Runs \ {r} : IsLive(s)' => IsLive(s) /\ Of(s)' = Of(s)
    BY <1>1 DEF IsLive, Of
  <2>2. IsLive(r)' => Of(r)' = Of(r) /\ Of(r) \in EvalTask
    BY <1>1 DEF IsLive, Live, Of, Resting
  <2>3. QED
    BY <1>1, <2>1, <2>2
<1>3. Locks'
  <2>1. ASSUME NEW q \in Request, req[q].stage \in Busy, req[q].task \in Chat
        PROVE  Home(q) # t
    <3>1. lock[Home(q)] = q
      BY <2>1 DEF IInv, Locks
    <3>2. CASE Of(r) \in EvalTask
      BY <2>1, <3>2 DEF EvalsApart, Home
    <3>3. CASE Of(r) \in Chat
      BY <1>1, <3>1, <3>3 DEF IInv, Alone
    <3>4. QED
      BY <1>1, <3>2, <3>3 DEF Chat
  <2>2. QED
    BY <1>1, <2>1 DEF IInv, Locks, Home
<1>4. Spawning'
  <2>1. exec[r] # Resting
    BY <1>1 DEF IsLive, Live, Resting
  <2>2. QED
    BY <1>1, <2>1, OpenedRun DEF IInv, Spawning
<1>5. Alone'
  <2>1. ASSUME NEW s \in Runs, IsLive(s)', Of(s)' \in Chat
        PROVE  ThreadOf[Of(s)'] \in claimed' /\ lock'[ThreadOf[Of(s)']] = NoOne
    <3>1. IsLive(s) /\ Of(s)' = Of(s) /\ Of(s) \in Chat /\ s # r
      BY <1>2, <2>1 DEF Chat
    <3>2. ThreadOf[Of(s)] # t
      <4>1. CASE Of(r) \in EvalTask
        BY <3>1, <4>1 DEF EvalsApart
      <4>2. CASE Of(r) \in Chat
        BY <1>1, <3>1, <4>2 DEF IInv, Alone, Chat
      <4>3. QED
        BY <1>1, <4>1, <4>2 DEF Chat
    <3>3. QED
      BY <1>1, <3>1, <3>2 DEF IInv, Alone
  <2>2. QED
    BY <1>2, <2>1 DEF IInv, Alone
<1>6. Backed'
  <2>1. ASSUME NEW u \in claimed', lock[u] = NoOne
        PROVE  \E s \in Runs : exec'[s].stage \in Live \ {"rescuing"} /\ ThreadOf[exec'[s].task] = u
    <3>1. PICK s \in Runs : exec[s].stage \in Live \ {"rescuing"} /\ ThreadOf[exec[s].task] = u
      BY <1>1, <2>1 DEF IInv, Backed, Of
    <3>2. s # r
      BY <1>1, <3>1 DEF Of
    <3>3. QED
      BY <1>1, <3>1, <3>2
  <2>2. QED
    BY <1>1, <2>1 DEF Backed, Of
<1>7. QED
  BY <1>3, <1>4, <1>5, <1>6 DEF Safe

LEMMA RescueKeeps ==
  ASSUME IInv, NEW r \in Runs, Rescue(r) PROVE Safe'
<1>1. /\ UNCHANGED <<lock, req, minted, claimed>> /\ exec[r].stage = "rescuing"
      /\ \A s \in Runs \ {r} : exec'[s] = exec[s]
      /\ exec'[r] = Resting
  BY DEF IInv, TypeOK, Rescue, memory
<1>2. \A s \in Runs : IsLive(s)' => s # r /\ IsLive(s) /\ Of(s)' = Of(s)
  BY <1>1 DEF IsLive, Of, Live, Resting
<1>3. Locks' /\ Spawning'
  <2>1. exec[r] # Resting
    BY <1>1 DEF Resting
  <2>2. QED
    BY <1>1, <2>1, OpenedRun DEF IInv, Locks, Spawning, Home
<1>4. Alone'
  BY <1>1, <1>2 DEF IInv, Alone
<1>5. Backed'
  <2>1. \A s \in Runs : exec[s].stage \in Live \ {"rescuing"} => exec'[s] = exec[s]
    BY <1>1
  <2>2. QED
    BY <1>1, <2>1 DEF IInv, Backed, Of
<1>6. QED
  BY <1>3, <1>4, <1>5 DEF Safe

LEMMA RestartKeeps == Restart => Safe'
<1> SUFFICES ASSUME Restart PROVE Safe'
  OBVIOUS
<1>1. /\ claimed' = {} /\ lock' = [t \in Thread |-> NoOne]
      /\ req' = [q \in Request |-> Idle] /\ exec' = [r \in Runs |-> Resting]
  BY DEF Restart
<1>2. QED
  BY <1>1 DEF Safe, Locks, Spawning, Alone, Backed, Idle, Resting, Busy, Live, IsLive, Home, Of

\* Each action is one of these steps.
LEMMA SafeKept == IInv /\ EvalsApart /\ [Next]_vars => Safe'
<1> SUFFICES ASSUME IInv, EvalsApart, [Next]_vars PROVE Safe'
  OBVIOUS
<1> USE TaskAssumption, SqlAssumption, BoundAssumption, NamesAssumption DEF IInv
<1>0. ASSUME UNCHANGED <<claimed, lock, req, exec, minted>> PROVE Safe'
  BY <1>0 DEF Safe, Locks, Spawning, Alone, Backed, Home, IsLive, Of
<1>1. ASSUME NEW t \in Thread, CreateThread(t) \/ DeleteThread(t) PROVE Safe'
  BY <1>0, <1>1 DEF CreateThread, DeleteThread, memory
<1>2. ASSUME NEW q \in Request, NEW k \in Task, CreateTask(q, k) PROVE Safe'
  <2>1. Takes(q)
    BY <1>2 DEF CreateTask, Claim, Takes, OthersStay, TypeOK, Idle
  <2>2. QED
    BY <2>1, TakesKeep
<1>3. ASSUME NEW q \in Request, NEW k \in Task, Evaluate(q, k) \/ FindTask(q, k) PROVE Safe'
  <2>1. Turns(q)
    BY <1>3 DEF Evaluate, FindTask, Turns, OthersStay, TypeOK, Idle, memory, rows
  <2>2. QED
    BY <2>1, TurnsKeep
<1>4. ASSUME NEW q \in Request, ClaimResume(q) PROVE Safe'
  <2>1. req[q].task \in Task
    BY <1>4, Shape DEF ClaimResume, Named
  <2>2. Takes(q)
    BY <1>4, <2>1 DEF ClaimResume, Claim, Takes, OthersStay, TypeOK, rows
  <2>3. QED
    BY <2>2, TakesKeep
<1>5. ASSUME NEW q \in Request, ResumeRefused(q) PROVE Safe'
  <2>1. Turns(q)
    BY <1>5 DEF ResumeRefused, Turns, OthersStay, TypeOK, Idle, memory, rows
  <2>2. QED
    BY <2>1, TurnsKeep
<1>6. ASSUME NEW q \in Request,
             SaveTask(q) \/ CloseStale(q) \/ CloseStaleTask(q) \/ Reopen(q)
      PROVE  Safe'
  <2>1. PICK s \in {"opening", "recovering"} :
          /\ req[q].stage \in {"saving", "checking", "recovering"} /\ ReqTo(q, s)
          /\ s = "recovering" => req[q].stage = "checking"
          /\ UNCHANGED <<claimed, lock, exec, minted>>
    BY <1>6 DEF SaveTask, CloseStale, CloseStaleTask, Reopen, memory, rows
  <2>2. req' = [req EXCEPT ![q] = [stage |-> s, task |-> req[q].task]]
    BY <2>1, NextStage DEF Named
  <2>3. Moves(q)
    BY <2>1, <2>2 DEF Moves, OthersStay, Busy, TypeOK
  <2>4. QED
    BY <2>3, MovesKeep
<1>7. ASSUME NEW q \in Request, OpenRun(q) PROVE Safe'
  <2>1. Moves(q)
    BY <1>7 DEF OpenRun, Moves, OthersStay, Busy, TypeOK, memory
  <2>2. QED
    BY <2>1, MovesKeep
<1>8. ASSUME NEW q \in Request, NoTask(q) \/ StillOpen(q) \/ RequestFails(q) PROVE Safe'
  <2>1. UNCHANGED <<exec, minted>>
    BY <1>8 DEF NoTask, StillOpen, RequestFails, rows
  <2>2. req[q].stage \in Busy
    BY <1>8, Shape DEF NoTask, StillOpen, RequestFails, Busy, Named
  <2>3. CASE lock[Home(q)] = q
    <3>1. Gives(q)
      BY <1>8, <2>1, <2>2, <2>3 DEF Gives, NoTask, StillOpen, RequestFails
    <3>2. QED
      BY <3>1, GivesKeep
  <2>4. CASE lock[Home(q)] # q
    <3>1. req' = [req EXCEPT ![q] = Idle] /\ UNCHANGED <<claimed, lock>>
      BY <1>8, <2>4, Shape DEF NoTask, StillOpen, RequestFails, memory, Locks, Busy, Chat, Named
    <3>2. Turns(q)
      BY <2>1, <2>4, <3>1 DEF Turns, OthersStay, Idle, TypeOK
    <3>3. QED
      BY <3>2, TurnsKeep
  <2>5. QED
    BY <2>3, <2>4
<1>9. ASSUME NEW r \in Runs, MarkRunning(r) \/ FinalizeRun(r) PROVE Safe'
  <2>1. /\ exec' = [exec EXCEPT ![r] = exec'[r]]
        /\ exec[r].stage \in {"starting", "finalizing"}
        /\ exec'[r].stage \in {"running", "settling"} /\ exec'[r].task = Of(r)
    <3>1. CASE MarkRunning(r)
      <4>1. exec[r].stage = "starting" /\ exec' = [exec EXCEPT ![r] = [exec[r] EXCEPT !.stage = "running"]]
        BY <3>1 DEF MarkRunning, ExecTo, TypeOK
      <4>2. [exec[r] EXCEPT !.stage = "running"] = [stage |-> "running", task |-> Of(r)]
        BY <4>1, NextForm
      <4>3. exec' = [exec EXCEPT ![r] = [stage |-> "running", task |-> Of(r)]]
        BY <4>1, <4>2
      <4>4. QED
        BY <4>1, <4>3 DEF TypeOK
    <3>2. CASE FinalizeRun(r)
      <4>1. exec[r].stage = "finalizing" /\ exec' = [exec EXCEPT ![r] = [exec[r] EXCEPT !.stage = "settling"]]
        BY <3>2 DEF FinalizeRun, ExecTo, TypeOK
      <4>2. [exec[r] EXCEPT !.stage = "settling"] =
              [stage |-> "settling", task |-> Of(r), result |-> exec[r].result]
        BY <4>1, NextForm
      <4>3. exec' = [exec EXCEPT ![r] = [stage |-> "settling", task |-> Of(r), result |-> exec[r].result]]
        BY <4>1, <4>2
      <4>4. QED
        BY <4>1, <4>3 DEF TypeOK
    <3>3. QED
      BY <1>9, <3>1, <3>2
  <2>2. Works
    BY <1>9, <2>1 DEF MarkRunning, FinalizeRun, Works, IsLive, Live, Of, Resting, TypeOK, memory
  <2>3. QED
    BY <2>2, WorksKeep
<1>10. ASSUME NEW r \in Runs, NEW s \in Ends, Finish(r, s) PROVE Safe'
  <2>1. Works
    BY <1>10 DEF Finish, Works, IsLive, Live, Of, Resting, TypeOK, memory, rows
  <2>2. QED
    BY <2>1, WorksKeep
<1>11. ASSUME NEW r \in Runs, SettleTask(r) \/ ExecFails(r) PROVE Safe'
  <2>1. Works
    BY <1>11 DEF SettleTask, ExecFails, Closing, Works, IsLive, Live, Of, Resting, TypeOK, memory, rows
  <2>2. QED
    BY <2>1, WorksKeep
<1>12. CASE ShutDown
  <2>1. \A r \in Runs :
          \/ exec'[r] = exec[r]
          \/ /\ exec[r].stage \in {"starting", "running", "finalizing", "settling"}
             /\ exec'[r].stage \in {"finalizing", "closing"} /\ exec'[r].task = Of(r)
    BY <1>12 DEF ShutDown, Closing
  <2>2. Works
    <3>1. UNCHANGED <<claimed, lock, req, minted>>
      BY <1>12 DEF ShutDown, memory, rows
    <3>2. ASSUME NEW r \in Runs
          PROVE  /\ IsLive(r)' <=> IsLive(r)
                 /\ IsLive(r) => Of(r)' = Of(r)
                 /\ exec[r].stage \in Live \ {"rescuing"} => exec'[r].stage \in Live \ {"rescuing"}
                 /\ exec[r] = Resting => exec'[r] = Resting
      <4>1. CASE exec'[r] = exec[r]
        BY <4>1 DEF IsLive, Of
      <4>2. CASE exec'[r] # exec[r]
        BY <2>1, <4>2 DEF IsLive, Of, Live, Resting
      <4>3. QED
        BY <4>1, <4>2
    <3>3. QED
      BY <3>1, <3>2 DEF Works
  <2>3. QED
    BY <2>2, WorksKeep
<1>13. QED
  <2>1. ASSUME NEW q \in Request, Spawn(q) PROVE Safe'
    BY <2>1, SpawnKeeps
  <2>2. ASSUME NEW r \in Runs, CloseRun(r) \/ Rescue(r) PROVE Safe'
    BY <2>2, CloseKeeps, RescueKeeps
  <2>3. ASSUME UNCHANGED vars PROVE Safe'
    BY <1>0, <2>3 DEF vars, rows, memory
  <2>4. QED
    BY <1>1, <1>2, <1>3, <1>4, <1>5, <1>6, <1>7, <1>8, <1>9, <1>10, <1>11, <1>12, <2>1, <2>2, <2>3,
       RestartKeeps DEF Next, Serve, Work

\* What holds the claim of a thread is somebody who will give it back.
LEMMA OneRunFollows == IInv => OneRunPerThread
  BY DEF IInv, OneRunPerThread, Alone, Backed, Locks, Busy, IsLive, Live, TypeOK

\* No thread that people write to has two runs at work, and none stays claimed without
\* a request or a run that will free it, when evaluations keep to threads of their own.
THEOREM OneRunAlways == ASSUME EvalsApart PROVE Spec => []OneRunPerThread
<1>1. IInv /\ [Next]_vars => IInv'
  BY EvalsApart, TypeKept, SafeKept DEF IInv, Safe
<1>2. QED
  BY <1>1, InitHolds, OneRunFollows, PTL DEF Spec

\* The variables keep their types.
THEOREM TypeHolds == ASSUME EvalsApart PROVE Spec => []TypeOK
<1>1. IInv /\ [Next]_vars => IInv'
  BY EvalsApart, TypeKept, SafeKept DEF IInv, Safe
<1>2. IInv => TypeOK
  BY DEF IInv
<1>3. QED
  BY <1>1, <1>2, InitHolds, PTL DEF Spec

------------------------------------------------------------------------------
\* The rows of a run at work, and of one about to be started, are as that run needs
\* them; a row has the number that its run was given.
Opened(q) ==
  task[req[q].task] # "none"
  /\ run[req[q].run] = [of |-> req[q].task, status |-> "created"]
  /\ req[q].run = Latest(req[q].task)
Rowed ==
  /\ \A r \in Runs : run[r] # NoRow => r <= minted
  /\ \A q \in Request : req[q].stage = "opened" /\ req[q].task \in Chat => Opened(q)
  /\ LiveRunUntouched

\* While a request has the lock of a thread, or nobody has claimed it, no other works
\* on a task of that thread.
LEMMA Elsewhere ==
  ASSUME IInv, NEW t \in Thread
  PROVE  /\ lock[t] # NoOne =>
              /\ \A r \in Runs : AtWork(r) /\ Of(r) \in Chat => ThreadOf[Of(r)] # t
              /\ \A p \in Request : req[p].stage = "opened" /\ req[p].task \in Chat
                   /\ p # lock[t] => ThreadOf[req[p].task] # t
         /\ t \notin claimed =>
              /\ \A r \in Runs : AtWork(r) /\ Of(r) \in Chat => ThreadOf[Of(r)] # t
              /\ \A p \in Request : req[p].stage = "opened" /\ req[p].task \in Chat
                   => ThreadOf[req[p].task] # t
  BY DEF IInv, Locks, Alone, AtWork, IsLive, Live, Busy, Home

\* A step that leaves the rows of a task alone leaves its runs at work untouched.
SameRows(k) ==
  /\ task[k] # "none" => task'[k] # "none"
  /\ RunsOf(k)' = RunsOf(k)

\* What a step may do to the rows and runs of chat tasks.
LEMMA RowsKept ==
  ASSUME IInv, Rowed, minted' \in Nat, minted' >= minted,
         \A r \in Runs : run'[r] # NoRow => run[r] # NoRow \/ r <= minted',
         \A r \in Runs : AtWork(r)' /\ Of(r)' \in Chat =>
            \/ /\ AtWork(r) /\ Of(r)' = Of(r) /\ SameRows(Of(r))
               /\ run'[r] = run[r] /\ exec'[r] = exec[r]
            \/ Untouched(r)',
         \A q \in Request : req'[q].stage = "opened" /\ req'[q].task \in Chat =>
            \/ req'[q] = req[q] /\ SameRows(req[q].task) /\ run'[req[q].run] = run[req[q].run]
            \/ Opened(q)'
  PROVE  Rowed'
<1>1. minted \in Int /\ minted' \in Int /\ Runs \subseteq Int
  BY BoundAssumption DEF IInv, TypeOK, Runs
<1>2. \A k : SameRows(k) => Latest(k)' = Latest(k)
  BY DEF SameRows, Latest
<1>3. \A r \in Runs : run'[r] # NoRow => r <= minted'
  BY <1>1 DEF Rowed
<1>4. ASSUME NEW q \in Request, req'[q].stage = "opened", req'[q].task \in Chat
      PROVE  Opened(q)'
  <2>1. CASE req'[q] = req[q] /\ SameRows(req[q].task) /\ run'[req[q].run] = run[req[q].run]
    <3>1. Opened(q)
      BY <1>4, <2>1 DEF Rowed
    <3>2. QED
      BY <1>2, <2>1, <3>1 DEF Opened, SameRows
  <2>2. QED
    BY <1>4, <2>1
<1>5. ASSUME NEW r \in Runs, AtWork(r)', Of(r)' \in Chat
      PROVE  Untouched(r)'
  <2>1. CASE /\ AtWork(r) /\ Of(r)' = Of(r) /\ SameRows(Of(r))
             /\ run'[r] = run[r] /\ exec'[r] = exec[r]
    <3>1. Untouched(r)
      BY <1>5, <2>1 DEF Rowed, LiveRunUntouched
    <3>2. QED
      BY <1>2, <2>1, <3>1 DEF Untouched, SameRows
  <2>2. QED
    BY <1>5, <2>1
<1>6. LiveRunUntouched'
  BY <1>5 DEF LiveRunUntouched
<1>7. QED
  BY <1>3, <1>4, <1>6 DEF Rowed

\* Steps that write no row of a run, start none and end none.
LEMMA QuietKeeps ==
  ASSUME IInv, Rowed, UNCHANGED <<run, minted, exec>>,
         \A k \in Task : task[k] # "none" => task'[k] # "none",
         \A q \in Request : req'[q].stage = "opened" => req'[q] = req[q]
  PROVE  Rowed'
<1>1. minted' \in Nat /\ minted' >= minted
  BY BoundAssumption DEF IInv, TypeOK
<1>2. \A k \in Task : SameRows(k)
  BY DEF SameRows, RunsOf
<1>3. \A r \in Runs : AtWork(r)' => AtWork(r) /\ Of(r)' = Of(r) /\ Of(r) \in Task
  BY Form DEF IInv, AtWork, Of, IsLive, Live
<1>4. \A q \in Request : req'[q].stage = "opened" => req[q].task \in Task
  BY Shape DEF IInv
<1>5. QED
  BY <1>1, <1>2, <1>3, <1>4, RowsKept DEF Rowed

\* Steps of a run at work, which write its own row.
LEMMA WorkKeeps ==
  ASSUME IInv, Rowed, NEW r \in Runs,
         UNCHANGED <<req, minted>>, IsLive(r),
         \A k \in Task : task[k] # "none" => task'[k] # "none",
         \A s \in Runs : run'[s].of = run[s].of,
         \A s \in Runs : run'[s] # NoRow => run[s] # NoRow,
         \A s \in Runs \ {r} : run'[s] = run[s] /\ exec'[s] = exec[s],
         AtWork(r)' /\ Of(r)' \in Chat =>
            /\ AtWork(r) /\ Of(r)' = Of(r)
            /\ exec'[r].stage = "starting" => run'[r].status = "created"
            /\ exec'[r].stage \in {"running", "finalizing"} => run'[r].status = "running"
            /\ exec'[r].stage = "settling" => run'[r].status = exec'[r].result
  PROVE  Rowed'
<1>1. minted' \in Nat /\ minted' >= minted
  BY BoundAssumption DEF IInv, TypeOK
<1>2. \A k \in Task : SameRows(k) /\ Latest(k)' = Latest(k)
  BY DEF SameRows, RunsOf, Latest
<1>3. \A s \in Runs \ {r} : AtWork(s)' => AtWork(s) /\ Of(s)' = Of(s) /\ Of(s) \in Task
  BY Form DEF IInv, AtWork, Of, IsLive, Live
<1>4. \A q \in Request : req[q].stage = "opened" =>
        req[q].task \in Task /\ req[q].run \in Runs \ {r}
  <2>1. exec[r] # Resting
    BY DEF IsLive, Live, Resting
  <2>2. QED
    BY <2>1, Shape, OpenedRun DEF IInv, Spawning
<1>5. ASSUME AtWork(r)', Of(r)' \in Chat PROVE Untouched(r)'
  <2>1. Untouched(r) /\ Of(r) \in Task
    BY <1>5 DEF Rowed, LiveRunUntouched, Chat
  <2>2. QED
    BY <1>2, <1>5, <2>1 DEF Untouched, SameRows
<1>6. QED
  BY <1>1, <1>2, <1>3, <1>4, <1>5, RowsKept

\* What a statement for one row changes.
LEMMA RowWritten ==
  ASSUME TypeOK, NEW r \in Runs, NEW s \in {"created", "running"} \cup Ends, SetRun(r, s)
  PROVE  /\ \A x \in Runs : run'[x].of = run[x].of
         /\ \A x \in Runs : run'[x] # NoRow => run[x] # NoRow
         /\ \A x \in Runs \ {r} : run'[x] = run[x]
         /\ run[r] # NoRow => run'[r].status = s
<1>1. run \in [Runs -> Row]
  BY DEF TypeOK, Row
<1>2. QED
  BY <1>1, SetRunTyped

\* A new run follows those that its task has had.
LEMMA OpenKeeps ==
  ASSUME IInv, Rowed, Sql, NEW q \in Request, OpenRun(q) PROVE Rowed'
<1> USE TaskAssumption, BoundAssumption, NamesAssumption
<1>0. PICK k \in Task, n \in Runs : k = req[q].task /\ n = minted + 1
  BY Shape DEF IInv, OpenRun, Named, TypeOK, Runs
<1>1. /\ minted' = n /\ minted \in Nat /\ UNCHANGED <<task, exec, lock>>
      /\ run'[n] = [of |-> k, status |-> "created"] /\ task[k] # "none"
      /\ \A r \in Runs \ {n} : run'[r] = run[r]
      /\ req'[q] = [stage |-> "opened", task |-> k, run |-> n]
      /\ \A p \in Request \ {q} : req'[p] = req[p]
  BY <1>0 DEF IInv, OpenRun, TypeOK, memory
<1>2. run[n] = NoRow
  BY <1>0, <1>1 DEF Rowed, Runs
<1>3. \A j \in Task \ {k} : SameRows(j)
  BY <1>1, <1>2 DEF SameRows, RunsOf, NoRow
<1>4. Latest(k)' = n
  <2>1. RunsOf(k)' \subseteq Runs /\ n \in RunsOf(k)'
    BY <1>1 DEF RunsOf
  <2>2. \A r \in RunsOf(k)' : r <= n
    BY <1>0, <1>1, <1>2 DEF Rowed, RunsOf, NoRow, Runs
  <2>3. Latest(k)' \in RunsOf(k)' /\ Latest(k)' >= n
    BY <2>1, LatestIs DEF Latest
  <2>4. QED
    BY <2>1, <2>2, <2>3 DEF Runs
<1>5. Opened(q)'
  BY <1>1, <1>4 DEF Opened
<1>6. k \in Chat => lock[ThreadOf[k]] = q /\ ThreadOf[k] \in Thread
  BY <1>0 DEF IInv, Locks, OpenRun, Busy, Home
<1>7. ASSUME NEW r \in Runs, AtWork(r)', Of(r)' \in Chat
      PROVE  AtWork(r) /\ Of(r)' = Of(r) /\ SameRows(Of(r)) /\ run'[r] = run[r] /\ exec'[r] = exec[r]
  <2>1. AtWork(r) /\ Of(r)' = Of(r) /\ exec'[r] = exec[r] /\ Of(r) \in Chat
    BY <1>1, <1>7 DEF AtWork, Of
  <2>2. Of(r) # k
    BY <1>6, <2>1, Elsewhere DEF Chat
  <2>3. r # n
    BY <1>0, <2>1 DEF IInv, Spawning, AtWork, Resting, Runs, TypeOK
  <2>4. QED
    BY <1>1, <1>3, <2>1, <2>2, <2>3 DEF Chat
<1>8. ASSUME NEW p \in Request \ {q}, req'[p].stage = "opened", req'[p].task \in Chat
      PROVE  req'[p] = req[p] /\ SameRows(req[p].task) /\ run'[req[p].run] = run[req[p].run]
  <2>1. req'[p] = req[p] /\ req[p].stage = "opened" /\ req[p].task \in Chat
    BY <1>1, <1>8
  <2>2. req[p].task # k
    BY <1>6, <2>1, Elsewhere
  <2>3. req[p].run \in Runs /\ req[p].run # n
    BY <1>0, <2>1, OpenedRun DEF IInv, TypeOK, Runs
  <2>4. QED
    BY <1>1, <1>3, <2>1, <2>2, <2>3 DEF Chat
<1>9. \A r \in Runs : run'[r] # NoRow => run[r] # NoRow \/ r <= minted'
  BY <1>1 DEF Runs
<1>10. minted' \in Nat /\ minted' >= minted
  BY <1>0, <1>1
<1>11. QED
  BY <1>5, <1>7, <1>8, <1>9, <1>10, RowsKept

\* A run starts with the row that its request made.
LEMMA SpawnKeepsRows ==
  ASSUME IInv, Rowed, NEW q \in Request, Spawn(q) PROVE Rowed'
<1>0. PICK n \in Runs, k \in Task : n = req[q].run /\ k = req[q].task
  BY OpenedRun, Shape DEF IInv, Spawn
<1>1. /\ req[q].stage = "opened" /\ req'[q] = Idle
      /\ UNCHANGED <<task, run, minted>>
      /\ \A p \in Request \ {q} : req'[p] = req[p]
      /\ exec'[n] = [stage |-> "starting", task |-> k]
      /\ \A r \in Runs \ {n} : exec'[r] = exec[r]
  BY <1>0 DEF IInv, TypeOK, Spawn, rows
<1>2. \A j \in Task : SameRows(j) /\ Latest(j)' = Latest(j)
  BY <1>1 DEF SameRows, RunsOf, Latest
<1>3. ASSUME NEW r \in Runs, AtWork(r)', Of(r)' \in Chat
      PROVE  \/ /\ AtWork(r) /\ Of(r)' = Of(r) /\ SameRows(Of(r))
                /\ run'[r] = run[r] /\ exec'[r] = exec[r]
             \/ Untouched(r)'
  <2>1. CASE r = n
    <3>1. Of(n)' = k /\ k \in Chat
      BY <1>1, <1>3, <2>1 DEF Of
    <3>2. Opened(q)
      BY <1>0, <1>1, <3>1 DEF Rowed
    <3>3. task[k] # "none" /\ run[n] = [of |-> k, status |-> "created"] /\ n = Latest(k)
      BY <1>0, <3>2 DEF Opened
    <3>4. QED
      BY <1>1, <1>2, <2>1, <3>1, <3>3 DEF Untouched
  <2>2. CASE r # n
    <3>1. AtWork(r) /\ Of(r)' = Of(r) /\ exec'[r] = exec[r] /\ Of(r) \in Chat
      BY <1>1, <1>3, <2>2 DEF AtWork, Of
    <3>2. QED
      BY <1>1, <1>2, <3>1 DEF Chat
  <2>3. QED
    BY <2>1, <2>2
<1>4. \A p \in Request : req'[p].stage = "opened" => req'[p] = req[p] /\ req[p].task \in Task
  <2>1. \A p \in Request : req'[p].stage = "opened" => req'[p] = req[p]
    BY <1>1 DEF Idle
  <2>2. QED
    BY <2>1, Shape DEF IInv
<1>5. minted' \in Nat /\ minted' >= minted
  BY <1>1, BoundAssumption DEF IInv, TypeOK
<1>6. QED
  BY <1>1, <1>2, <1>3, <1>4, <1>5, RowsKept

\* What runs nowhere is closed by a request that has its thread for itself.
LEMMA StaleKeepsRows ==
  ASSUME IInv, Rowed, NEW q \in Request, CloseStale(q) PROVE Rowed'
<1>0. PICK k \in Task, l \in Runs :
        /\ k = req[q].task /\ l = Latest(k) /\ l \in RunsOf(k)
        /\ run' = [run EXCEPT ![l] = [of |-> k, status |-> "interrupted"]]
  BY Shape, StaleClosed DEF IInv, CloseStale, Named, RunsOf
<1>1. /\ req[q].stage = "checking" /\ UNCHANGED <<task, minted, exec>>
      /\ lock[ThreadOf[k]] = q /\ ThreadOf[k] \in Thread /\ q # NoOne
      /\ run[l].of = k /\ run'[l] # NoRow /\ run[l] # NoRow
      /\ \A r \in Runs \ {l} : run'[r] = run[r]
      /\ \A r \in Runs : run'[r].of = run[r].of
  BY <1>0, TaskAssumption, NamesAssumption
     DEF IInv, Locks, TypeOK, CloseStale, Home, RunsOf, NoRow, memory
<1>2. req'[q].stage # "opened" /\ \A p \in Request \ {q} : req'[p] = req[p]
  <2>1. req' = [req EXCEPT ![q] = [stage |-> "recovering", task |-> req[q].task]]
    BY <1>1, NextStage DEF IInv, CloseStale, Named
  <2>2. QED
    BY <2>1 DEF IInv, TypeOK
<1>3. \A j \in Task : SameRows(j)
  BY <1>1 DEF SameRows, RunsOf
<1>4. ASSUME NEW r \in Runs, AtWork(r)', Of(r)' \in Chat
      PROVE  AtWork(r) /\ Of(r)' = Of(r) /\ SameRows(Of(r)) /\ run'[r] = run[r] /\ exec'[r] = exec[r]
  <2>1. AtWork(r) /\ Of(r)' = Of(r) /\ exec'[r] = exec[r] /\ Of(r) \in Chat
    BY <1>1, <1>4 DEF AtWork, Of
  <2>2. Of(r) # k
    BY <1>1, <2>1, Elsewhere
  <2>3. r # l
    BY <1>1, <2>1, <2>2 DEF Rowed, LiveRunUntouched, Untouched
  <2>4. QED
    BY <1>1, <1>3, <2>1, <2>3 DEF Chat
<1>5. ASSUME NEW p \in Request, req'[p].stage = "opened", req'[p].task \in Chat
      PROVE  req'[p] = req[p] /\ SameRows(req[p].task) /\ run'[req[p].run] = run[req[p].run]
  <2>1. p # q /\ req'[p] = req[p] /\ req[p].stage = "opened" /\ req[p].task \in Chat
    BY <1>2, <1>5
  <2>2. req[p].task # k
    BY <1>1, <2>1, Elsewhere
  <2>3. req[p].run \in Runs /\ run[req[p].run].of = req[p].task
    <3>1. Opened(p)
      BY <2>1 DEF Rowed
    <3>2. QED
      BY <2>1, <3>1, OpenedRun DEF IInv, Opened
  <2>4. QED
    BY <1>1, <1>3, <2>1, <2>2, <2>3 DEF Chat
<1>6. minted' \in Nat /\ minted' >= minted
  BY <1>1, BoundAssumption DEF IInv, TypeOK
<1>7. \A r \in Runs : run'[r] # NoRow => run[r] # NoRow
  BY <1>1
<1>8. QED
  BY <1>4, <1>5, <1>6, <1>7, RowsKept

\* A thread that nobody has claimed is deleted with all its rows.
LEMMA DeleteKeepsRows ==
  ASSUME IInv, Rowed, NEW t \in Thread, DeleteThread(t) PROVE Rowed'
<1>1. /\ UNCHANGED <<req, minted, exec>> /\ t \notin claimed
      /\ \A k \in Task : ThreadOf[k] # t => task'[k] = task[k]
      /\ \A r \in Runs : run'[r] = IF run[r].of \in RowsOfThread(t) THEN NoRow ELSE run[r]
  BY DEF DeleteThread, memory
<1>2. \A k \in Task : ThreadOf[k] # t => SameRows(k)
  <2>1. \A k \in Task : ThreadOf[k] # t => k \notin RowsOfThread(t)
    BY DEF RowsOfThread
  <2>2. \A k \in Task : k # "none"
    BY NamesAssumption
  <2>3. QED
    BY <1>1, <2>1, <2>2 DEF SameRows, RunsOf, NoRow
<1>3. ASSUME NEW r \in Runs, AtWork(r)', Of(r)' \in Chat
      PROVE  AtWork(r) /\ Of(r)' = Of(r) /\ SameRows(Of(r)) /\ run'[r] = run[r] /\ exec'[r] = exec[r]
  <2>1. AtWork(r) /\ Of(r)' = Of(r) /\ exec'[r] = exec[r] /\ Of(r) \in Chat
    BY <1>1, <1>3 DEF AtWork, Of
  <2>2. ThreadOf[Of(r)] # t /\ run[r].of = Of(r)
    BY <1>1, <2>1, Elsewhere DEF Rowed, LiveRunUntouched, Untouched
  <2>3. QED
    BY <1>1, <1>2, <2>1, <2>2 DEF Chat, RowsOfThread
<1>4. ASSUME NEW p \in Request, req'[p].stage = "opened", req'[p].task \in Chat
      PROVE  req'[p] = req[p] /\ SameRows(req[p].task) /\ run'[req[p].run] = run[req[p].run]
  <2>1. req'[p] = req[p] /\ req[p].stage = "opened" /\ req[p].task \in Chat
    BY <1>1, <1>4
  <2>2. ThreadOf[req[p].task] # t
    BY <1>1, <2>1, Elsewhere
  <2>3. req[p].run \in Runs /\ run[req[p].run].of = req[p].task
    <3>1. Opened(p)
      BY <2>1 DEF Rowed
    <3>2. QED
      BY <2>1, <3>1, OpenedRun DEF IInv, Opened
  <2>4. QED
    BY <1>1, <1>2, <2>1, <2>2, <2>3 DEF Chat, RowsOfThread
<1>5. minted' \in Nat /\ minted' >= minted
  BY <1>1, BoundAssumption DEF IInv, TypeOK
<1>6. \A r \in Runs : run'[r] # NoRow => run[r] # NoRow
  BY <1>1
<1>7. QED
  BY <1>3, <1>4, <1>5, <1>6, RowsKept

\* After a restart nothing is at work.
LEMMA RestartKeepsRows ==
  ASSUME IInv, Rowed, Restart PROVE Rowed'
<1>1. \A r \in Runs : exec'[r] = Resting
  BY DEF Restart
<1>2. \A q \in Request : req'[q] = Idle
  BY DEF Restart
<1>3. minted' = minted /\ \A r \in Runs : run[r] = NoRow => run'[r] = NoRow
  BY DEF Restart, NoRow
<1>4. minted' \in Nat /\ minted' >= minted
  BY <1>3, BoundAssumption DEF IInv, TypeOK
<1>5. QED
  BY <1>1, <1>2, <1>3, <1>4, RowsKept DEF AtWork, Resting, Idle

\* Each action leaves the rows of the others alone.
LEMMA RowedKept == IInv /\ Rowed /\ Sql /\ [Next]_vars => Rowed'
<1> SUFFICES ASSUME IInv, Rowed, Sql, [Next]_vars PROVE Rowed'
  OBVIOUS
<1>1. ASSUME NEW q \in Request, NEW k \in Task,
             CreateTask(q, k) \/ Evaluate(q, k) \/ FindTask(q, k) PROVE Rowed'
  <2>1. UNCHANGED <<run, minted, exec, task>>
        /\ \A p \in Request : req'[p].stage = "opened" => req'[p] = req[p]
    BY <1>1 DEF CreateTask, Claim, Evaluate, FindTask, rows, IInv, TypeOK
  <2>2. QED
    BY <2>1, QuietKeeps
<1>2. ASSUME NEW q \in Request, ClaimResume(q) \/ ResumeRefused(q) PROVE Rowed'
  <2>1. UNCHANGED <<run, minted, exec, task>>
        /\ \A p \in Request : req'[p].stage = "opened" => req'[p] = req[p]
    BY <1>2 DEF ClaimResume, Claim, ResumeRefused, rows, IInv, TypeOK, Idle
  <2>2. QED
    BY <2>1, QuietKeeps
<1>3. ASSUME NEW q \in Request, NoTask(q) \/ StillOpen(q) \/ RequestFails(q) PROVE Rowed'
  <2>1. UNCHANGED <<run, minted, exec, task>>
        /\ \A p \in Request : req'[p].stage = "opened" => req'[p] = req[p]
    BY <1>3 DEF NoTask, StillOpen, RequestFails, GiveUp, rows, IInv, TypeOK, Idle
  <2>2. QED
    BY <2>1, QuietKeeps
<1>4. ASSUME NEW q \in Request, SaveTask(q) \/ CloseStaleTask(q) \/ Reopen(q) PROVE Rowed'
  <2>1. /\ UNCHANGED <<run, minted, exec>> /\ ReqTo(q, "opening") /\ req[q].stage \in Named
        /\ \A k \in Task : task[k] # "none" => task'[k] # "none"
    BY <1>4 DEF SaveTask, CloseStaleTask, SetTask, Reopen, rows, Named, IInv, TypeOK
  <2>2. req' = [req EXCEPT ![q] = [stage |-> "opening", task |-> req[q].task]]
    BY <2>1, NextStage DEF IInv
  <2>3. \A p \in Request : req'[p].stage = "opened" => req'[p] = req[p]
    BY <2>2 DEF IInv, TypeOK
  <2>4. QED
    BY <2>1, <2>3, QuietKeeps
<1>5. ASSUME NEW r \in Runs, MarkRunning(r) PROVE Rowed'
  <2>1. exec' = [exec EXCEPT ![r] = [stage |-> "running", task |-> Of(r)]]
    <3>1. [exec[r] EXCEPT !.stage = "running"] = [stage |-> "running", task |-> Of(r)]
      BY <1>5, NextForm DEF MarkRunning, IInv
    <3>2. QED
      BY <1>5, <3>1 DEF MarkRunning, ExecTo, IInv, TypeOK
  <2>2. /\ \A x \in Runs : run'[x].of = run[x].of
        /\ \A x \in Runs : run'[x] # NoRow => run[x] # NoRow
        /\ \A x \in Runs \ {r} : run'[x] = run[x]
        /\ run[r] # NoRow => run'[r].status = "running"
    BY <1>5, RowWritten DEF MarkRunning, IInv
  <2>3. Of(r) \in Chat => run[r] # NoRow
    BY <1>5, NamesAssumption DEF MarkRunning, Rowed, LiveRunUntouched, Untouched, AtWork, NoRow, Chat
  <2>4. UNCHANGED <<req, minted, task>> /\ IsLive(r) /\ AtWork(r)
    BY <1>5 DEF MarkRunning, IsLive, Live, AtWork
  <2>5. Of(r)' = Of(r) /\ exec'[r].stage = "running"
        /\ \A x \in Runs \ {r} : exec'[x] = exec[x]
    BY <2>1 DEF Of, IInv, TypeOK
  <2>6. QED
    BY <2>2, <2>3, <2>4, <2>5, WorkKeeps
<1>6. ASSUME NEW r \in Runs, FinalizeRun(r) PROVE Rowed'
  <2>1. exec' = [exec EXCEPT ![r] = [stage |-> "settling", task |-> Of(r), result |-> exec[r].result]]
    <3>1. [exec[r] EXCEPT !.stage = "settling"] =
            [stage |-> "settling", task |-> Of(r), result |-> exec[r].result]
      BY <1>6, NextForm DEF FinalizeRun, IInv
    <3>2. QED
      BY <1>6, <3>1 DEF FinalizeRun, ExecTo, IInv, TypeOK
  <2>2. /\ \A x \in Runs : run'[x].of = run[x].of
        /\ \A x \in Runs : run'[x] # NoRow => run[x] # NoRow
        /\ \A x \in Runs \ {r} : run'[x] = run[x]
        /\ run[r] # NoRow => run'[r].status = exec[r].result
    BY <1>6, RowWritten, Form DEF FinalizeRun, IInv
  <2>3. Of(r) \in Chat => run[r] # NoRow
    BY <1>6, NamesAssumption DEF FinalizeRun, Rowed, LiveRunUntouched, Untouched, AtWork, NoRow, Chat
  <2>4. UNCHANGED <<req, minted, task>> /\ IsLive(r) /\ AtWork(r)
    BY <1>6 DEF FinalizeRun, IsLive, Live, AtWork
  <2>5. Of(r)' = Of(r) /\ exec'[r].stage = "settling" /\ exec'[r].result = exec[r].result
        /\ \A x \in Runs \ {r} : exec'[x] = exec[x]
    BY <2>1 DEF Of, IInv, TypeOK
  <2>6. QED
    BY <2>2, <2>3, <2>4, <2>5, WorkKeeps
<1>7. ASSUME NEW r \in Runs, NEW s \in Ends, Finish(r, s) PROVE Rowed'
  <2>1. UNCHANGED <<req, minted, task, run>> /\ IsLive(r) /\ AtWork(r) /\ exec[r].stage = "running"
    BY <1>7 DEF Finish, IsLive, Live, AtWork, rows
  <2>2. Of(r)' = Of(r) /\ exec'[r].stage = "finalizing"
        /\ \A x \in Runs \ {r} : exec'[x] = exec[x]
    BY <1>7 DEF Finish, Of, IInv, TypeOK
  <2>3. Of(r) \in Chat => run[r].status = "running"
    BY <2>1 DEF Rowed, LiveRunUntouched, Untouched
  <2>4. QED
    BY <2>1, <2>2, <2>3, WorkKeeps
<1>8. ASSUME NEW r \in Runs, SettleTask(r) \/ ExecFails(r) \/ CloseRun(r) PROVE Rowed'
  <2>1. UNCHANGED <<req, minted, run>> /\ IsLive(r)
        /\ \A k \in Task : task[k] # "none" => task'[k] # "none"
    <3>1. SettleTask(r) => exec[r].result # "none" /\ Of(r) \in Task
      BY Form DEF SettleTask, Ends, IInv, IsLive, Live
    <3>2. QED
      BY <1>8, <3>1 DEF SettleTask, SetTask, ExecFails, CloseRun, IsLive, Live, rows, IInv, TypeOK
  <2>2. ~ AtWork(r)' /\ \A x \in Runs \ {r} : exec'[x] = exec[x]
    BY <1>8 DEF SettleTask, ExecFails, CloseRun, Closing, Resting, AtWork, IInv, TypeOK
  <2>3. QED
    BY <2>1, <2>2, WorkKeeps
<1>9. ASSUME NEW r \in Runs, Rescue(r) PROVE Rowed'
  <2>1. UNCHANGED <<req, minted, task>> /\ IsLive(r)
    BY <1>9 DEF Rescue, IsLive, Live
  <2>2. ~ AtWork(r)' /\ \A x \in Runs \ {r} : exec'[x] = exec[x]
    BY <1>9 DEF Rescue, Resting, AtWork, IInv, TypeOK
  <2>3. /\ \A x \in Runs : run'[x].of = run[x].of
        /\ \A x \in Runs : run'[x] # NoRow => run[x] # NoRow
        /\ \A x \in Runs \ {r} : run'[x] = run[x]
    BY <1>9, RowWritten DEF Rescue, IInv, Ends
  <2>4. QED
    BY <2>1, <2>2, <2>3, WorkKeeps
<1>10. CASE ShutDown
  <2>1. UNCHANGED <<req, minted, task, run>>
    BY <1>10 DEF ShutDown, rows
  <2>2. \A r \in Runs : AtWork(r)' =>
          \/ exec'[r] = exec[r] /\ AtWork(r)
          \/ /\ exec[r].stage = "running" /\ exec'[r].stage = "finalizing" /\ exec'[r].task = Of(r)
    BY <1>10 DEF ShutDown, Closing, AtWork
  <2>3. \A k \in Task : SameRows(k) /\ Latest(k)' = Latest(k)
    BY <2>1 DEF SameRows, RunsOf, Latest
  <2>4. ASSUME NEW r \in Runs, AtWork(r)', Of(r)' \in Chat
        PROVE  \/ /\ AtWork(r) /\ Of(r)' = Of(r) /\ SameRows(Of(r))
                  /\ run'[r] = run[r] /\ exec'[r] = exec[r]
               \/ Untouched(r)'
    <3>1. CASE exec'[r] = exec[r] /\ AtWork(r)
      BY <2>1, <2>3, <2>4, <3>1 DEF Of, Chat
    <3>2. CASE exec[r].stage = "running" /\ exec'[r].stage = "finalizing" /\ exec'[r].task = Of(r)
      <4>1. AtWork(r) /\ Of(r)' = Of(r) /\ Of(r) \in Chat /\ Of(r) \in Task
        BY <2>4, <3>2 DEF AtWork, Of, Chat
      <4>2. Untouched(r)
        BY <4>1 DEF Rowed, LiveRunUntouched
      <4>3. QED
        BY <2>1, <2>3, <3>2, <4>1, <4>2 DEF Untouched
    <3>3. QED
      BY <2>2, <2>4, <3>1, <3>2
  <2>5. \A q \in Request : req'[q].stage = "opened" => req'[q] = req[q] /\ req[q].task \in Task
    BY <2>1, Shape DEF IInv
  <2>6. minted' \in Nat /\ minted' >= minted
    BY <2>1, BoundAssumption DEF IInv, TypeOK
  <2>7. QED
    BY <2>1, <2>3, <2>4, <2>5, <2>6, RowsKept
<1>11. ASSUME (\E t \in Thread : CreateThread(t)) \/ UNCHANGED vars PROVE Rowed'
  <2>1. UNCHANGED <<run, minted, exec, task, req>>
    BY <1>11 DEF CreateThread, vars, rows
  <2>2. QED
    BY <2>1, QuietKeeps
<1>12. ASSUME NEW q \in Request, OpenRun(q) \/ Spawn(q) \/ CloseStale(q) PROVE Rowed'
  BY <1>12, OpenKeeps, SpawnKeepsRows, StaleKeepsRows
<1>13. QED
  BY <1>1, <1>2, <1>3, <1>4, <1>5, <1>6, <1>7, <1>8, <1>9, <1>10, <1>11, <1>12,
     DeleteKeepsRows, RestartKeepsRows DEF Next, Serve, Work

\* With a database that keeps its foreign keys, what the rows say of a run at work is
\* what that run wrote: neither a deletion nor a resume nor a recovery comes between.
THEOREM LiveRunAlwaysUntouched ==
  ASSUME EvalsApart, Sql PROVE Spec => []LiveRunUntouched
<1>1. Init => IInv /\ Rowed
  <2>1. Init => Rowed
    BY DEF Init, Rowed, LiveRunUntouched, AtWork, Idle, Resting
  <2>2. QED
    BY <2>1, InitHolds
<1>2. IInv /\ Rowed /\ [Next]_vars => (IInv /\ Rowed)'
  BY EvalsApart, Sql, TypeKept, SafeKept, RowedKept DEF IInv, Safe
<1>3. IInv /\ Rowed => LiveRunUntouched
  BY DEF Rowed
<1>4. QED
  BY <1>1, <1>2, <1>3, PTL DEF Spec

------------------------------------------------------------------------------
\* Rows belong to the task of the run that writes them, and a run has a row only while
\* its task has one.
Owned ==
  /\ \A r \in Runs : exec[r].stage # "none" => run[r].of \in {Of(r), "none"}
  /\ \A q \in Request : req[q].stage = "opened" => run[req[q].run].of \in {req[q].task, "none"}
  /\ \A r \in Runs : exec[r].stage = "rescuing" => Of(r) \in EvalTask
  /\ \A k \in Task : task[k] = "none" => RunsOf(k) = {}

\* While nothing fails a task says what its latest run says, or someone works on it who
\* will see to that.
Calm == faults = 0 /\ restarts = 0 /\ serving
Settled(k) == RunsOf(k) = {} \/ task[k] = LatestStatus(k)
Moving(k) ==
  \/ \E r \in Runs : AtWork(r) /\ Of(r) = k
  \/ \E q \in Request :
       req[q].stage \in {"saving", "opening", "opened", "recovering"} /\ req[q].task = k
Follows(k) ==
  /\ Calm => Settled(k) \/ Moving(k)
  /\ task[k] = "completed" => \E r \in RunsOf(k) : run[r].status = "completed"

\* A step that opens no row keeps every row with its task.
LEMMA OwnedBy ==
  ASSUME Owned,
         \A r \in Runs : run'[r].of \in {run[r].of, "none"},
         \A r \in Runs : exec'[r].stage # "none" =>
            \/ exec[r].stage # "none" /\ Of(r)' = Of(r)
            \/ run[r].of \in {Of(r)', "none"},
         \A r \in Runs : exec'[r].stage = "rescuing" =>
            \/ exec[r].stage = "rescuing" /\ Of(r)' = Of(r)
            \/ Of(r)' \in EvalTask,
         \A q \in Request : req'[q].stage = "opened" => req'[q] = req[q] /\ req[q].run \in Runs,
         \A k \in Task : task'[k] = "none" => task[k] = "none" \/ RunsOf(k)' = {}
  PROVE  Owned'
<1>1. \A k \in Task : RunsOf(k)' \subseteq RunsOf(k)
  BY NamesAssumption DEF RunsOf
<1>2. \A k \in Task : task'[k] = "none" => RunsOf(k)' = {}
  BY <1>1 DEF Owned
<1>3. \A r \in Runs : exec'[r].stage # "none" => run'[r].of \in {Of(r)', "none"}
  BY DEF Owned
<1>4. \A q \in Request : req'[q].stage = "opened" => run'[req'[q].run].of \in {req'[q].task, "none"}
  BY DEF Owned
<1>5. \A r \in Runs : exec'[r].stage = "rescuing" => Of(r)' \in EvalTask
  BY DEF Owned
<1>6. QED
  BY <1>2, <1>3, <1>4, <1>5 DEF Owned

LEMMA OwnedKept == IInv /\ Rowed /\ Owned /\ Sql /\ [Next]_vars => Owned'
<1> SUFFICES ASSUME IInv, Rowed, Owned, Sql, [Next]_vars PROVE Owned'
  OBVIOUS
<1>a. /\ req \in [Request -> {Idle} \cup [stage : Named, task : Task] \cup
                    [stage : {"opened"}, task : Task, run : 1 .. minted]]
      /\ exec \in [Runs -> Doing] /\ run \in [Runs -> Row]
      /\ task \in [Task -> {"none", "planning"} \cup Ends]
      /\ \A q \in Request : req[q].stage = "opened" => req[q].run \in Runs
  BY OpenedRun DEF IInv, TypeOK, Named, Doing, Row
\* A request moves on without opening or starting a run.
<1>b. ASSUME NEW q \in Request, UNCHANGED <<run, exec>>,
             req'[q].stage # "opened", \A p \in Request \ {q} : req'[p] = req[p],
             \A k \in Task : task'[k] = "none" => task[k] = "none"
      PROVE  Owned'
  <2>1. \A p \in Request : req'[p].stage = "opened" => req'[p] = req[p] /\ req[p].run \in Runs
    BY <1>a, <1>b
  <2>2. QED
    BY <1>b, <2>1, OwnedBy DEF Of
\* A run moves on.
<1>c. ASSUME NEW r \in Runs, req' = req, IsLive(r),
             \A x \in Runs : run'[x].of = run[x].of,
             \A x \in Runs \ {r} : exec'[x] = exec[x],
             exec'[r].stage # "none" => Of(r)' = Of(r),
             exec'[r].stage = "rescuing" => Of(r) \in EvalTask,
             \A k \in Task : task'[k] = "none" => task[k] = "none"
      PROVE  Owned'
  <2>1. \A x \in Runs : exec'[x].stage # "none" =>
          exec[x].stage # "none" /\ Of(x)' = Of(x)
    BY <1>c DEF Of, IsLive, Live
  <2>2. \A x \in Runs : exec'[x].stage = "rescuing" =>
            \/ exec[x].stage = "rescuing" /\ Of(x)' = Of(x)
            \/ Of(x)' \in EvalTask
    BY <1>c DEF Of
  <2>3. QED
    BY <1>a, <1>c, <2>1, <2>2, OwnedBy
<1>1. ASSUME NEW q \in Request, NEW k \in Task,
             CreateTask(q, k) \/ Evaluate(q, k) \/ FindTask(q, k) PROVE Owned'
  <2>1. /\ UNCHANGED <<run, exec, task>> /\ req'[q].stage # "opened"
        /\ \A p \in Request \ {q} : req'[p] = req[p]
    BY <1>1, <1>a DEF CreateTask, Claim, Evaluate, FindTask, rows
  <2>2. QED
    BY <1>b, <2>1
<1>2. ASSUME NEW q \in Request, ClaimResume(q) \/ ResumeRefused(q) PROVE Owned'
  <2>1. /\ UNCHANGED <<run, exec, task>> /\ req'[q].stage # "opened"
        /\ \A p \in Request \ {q} : req'[p] = req[p]
    BY <1>2, <1>a DEF ClaimResume, Claim, ResumeRefused, rows, Idle
  <2>2. QED
    BY <1>b, <2>1
<1>3. ASSUME NEW q \in Request, NoTask(q) \/ StillOpen(q) \/ RequestFails(q) PROVE Owned'
  <2>1. /\ UNCHANGED <<run, exec, task>> /\ req'[q].stage # "opened"
        /\ \A p \in Request \ {q} : req'[p] = req[p]
    BY <1>3, <1>a DEF NoTask, StillOpen, RequestFails, GiveUp, rows, Idle
  <2>2. QED
    BY <1>b, <2>1
<1>4. ASSUME NEW q \in Request, SaveTask(q) \/ CloseStaleTask(q) \/ Reopen(q) PROVE Owned'
  <2>1. /\ UNCHANGED <<run, exec>> /\ ReqTo(q, "opening") /\ req[q].stage \in Named
        /\ \A k \in Task : task'[k] = "none" => task[k] = "none"
    BY <1>4, <1>a DEF SaveTask, CloseStaleTask, SetTask, Reopen, rows, Named
  <2>2. req' = [req EXCEPT ![q] = [stage |-> "opening", task |-> req[q].task]]
    BY <2>1, NextStage DEF IInv
  <2>3. req'[q].stage # "opened" /\ \A p \in Request \ {q} : req'[p] = req[p]
    BY <1>a, <2>2
  <2>4. QED
    BY <1>b, <2>1, <2>3
<1>5. ASSUME NEW q \in Request, CloseStale(q) PROVE Owned'
  <2>1. PICK k \in Task, l \in Runs :
          run[l].of = k /\ run' = [run EXCEPT ![l] = [of |-> k, status |-> "interrupted"]]
    BY <1>5, Shape, StaleClosed DEF IInv, CloseStale, Named, RunsOf
  <2>2. \A x \in Runs : run'[x].of = run[x].of
    BY <1>a, <2>1
  <2>3. req' = [req EXCEPT ![q] = [stage |-> "recovering", task |-> req[q].task]]
    BY <1>5, NextStage DEF IInv, CloseStale, Named
  <2>4. \A p \in Request : req'[p].stage = "opened" => req'[p] = req[p] /\ req[p].run \in Runs
    BY <1>a, <2>3
  <2>5. UNCHANGED <<task, exec>>
    BY <1>5 DEF CloseStale
  <2>6. QED
    BY <2>2, <2>4, <2>5, OwnedBy DEF Of
<1>6. ASSUME NEW q \in Request, OpenRun(q) PROVE Owned'
  <2> USE BoundAssumption, NamesAssumption
  <2>0. PICK k \in Task, n \in Runs : k = req[q].task /\ n = minted + 1
    BY <1>6, Shape DEF IInv, OpenRun, Named, TypeOK, Runs
  <2>1. /\ UNCHANGED <<task, exec>> /\ task[k] # "none" /\ minted \in Nat
        /\ run'[n] = [of |-> k, status |-> "created"]
        /\ \A r \in Runs \ {n} : run'[r] = run[r]
        /\ req'[q] = [stage |-> "opened", task |-> k, run |-> n]
        /\ \A p \in Request \ {q} : req'[p] = req[p]
    BY <1>6, <1>a, <2>0 DEF IInv, OpenRun, TypeOK
  <2>2. exec[n].stage = "none"
    BY <2>0, <2>1 DEF IInv, Spawning, Runs, Resting
  <2>3. \A r \in Runs : exec'[r].stage # "none" => run'[r].of \in {Of(r)', "none"}
    BY <2>1, <2>2 DEF Owned, Of
  <2>4. \A p \in Request \ {q} : req[p].stage = "opened" => req[p].run \in Runs \ {n}
    BY <2>0, <2>1, OpenedRun DEF IInv, Runs
  <2>5. \A p \in Request : req'[p].stage = "opened" => run'[req'[p].run].of \in {req'[p].task, "none"}
    <3>1. ASSUME NEW p \in Request \ {q}, req'[p].stage = "opened"
          PROVE  run'[req'[p].run].of \in {req'[p].task, "none"}
      BY <2>1, <2>4, <3>1 DEF Owned
    <3>2. QED
      BY <2>1, <3>1
  <2>6. \A r \in Runs : exec'[r].stage = "rescuing" => Of(r)' \in EvalTask
    BY <2>1 DEF Owned, Of
  <2>7. \A j \in Task : task'[j] = "none" => RunsOf(j)' = {}
    BY <2>1 DEF Owned, RunsOf
  <2>8. QED
    BY <2>3, <2>5, <2>6, <2>7 DEF Owned
<1>7. ASSUME NEW q \in Request, Spawn(q) PROVE Owned'
  <2>0. PICK n \in Runs, k \in Task : n = req[q].run /\ k = req[q].task
    BY <1>7, OpenedRun, Shape DEF IInv, Spawn
  <2>1. /\ UNCHANGED <<task, run>> /\ req[q].stage = "opened"
        /\ req'[q] = Idle /\ \A p \in Request \ {q} : req'[p] = req[p]
        /\ exec'[n] = [stage |-> "starting", task |-> k]
        /\ \A r \in Runs \ {n} : exec'[r] = exec[r]
    BY <1>7, <1>a, <2>0 DEF Spawn, rows
  <2>2. run[n].of \in {k, "none"}
    BY <2>0, <2>1 DEF Owned
  <2>3. Of(n)' = k /\ exec'[n].stage = "starting"
    BY <2>1 DEF Of
  <2>4. \A r \in Runs : exec'[r].stage # "none" =>
            \/ exec[r].stage # "none" /\ Of(r)' = Of(r)
            \/ run[r].of \in {Of(r)', "none"}
    BY <2>1, <2>2, <2>3 DEF Of
  <2>5. \A r \in Runs : exec'[r].stage = "rescuing" =>
            exec[r].stage = "rescuing" /\ Of(r)' = Of(r)
    BY <2>1, <2>3 DEF Of
  <2>6. \A p \in Request : req'[p].stage = "opened" => req'[p] = req[p] /\ req[p].run \in Runs
    BY <1>a, <2>1 DEF Idle
  <2>7. QED
    BY <2>1, <2>4, <2>5, <2>6, OwnedBy
<1>8. ASSUME NEW r \in Runs, MarkRunning(r) \/ FinalizeRun(r) PROVE Owned'
  <2>1. PICK s \in {"created", "running"} \cup Ends : SetRun(r, s)
    BY <1>8, Form DEF MarkRunning, FinalizeRun, IInv
  <2>2. \A x \in Runs : run'[x].of = run[x].of
    BY <2>1, RowWritten DEF IInv
  <2>3. UNCHANGED <<req, task>> /\ IsLive(r)
    BY <1>8 DEF MarkRunning, FinalizeRun, IsLive, Live
  <2>4. PICK w \in {"running", "settling"} :
          exec' = [exec EXCEPT ![r] = [exec[r] EXCEPT !.stage = w]]
    BY <1>8, <1>a DEF MarkRunning, FinalizeRun, ExecTo
  <2>5. exec'[r].stage # "rescuing" /\ Of(r)' = Of(r)
        /\ \A x \in Runs \ {r} : exec'[x] = exec[x]
    <3>1. [exec[r] EXCEPT !.stage = w].task = Of(r) /\ [exec[r] EXCEPT !.stage = w].stage = w
      BY <1>8, NextForm DEF MarkRunning, FinalizeRun, IInv
    <3>2. QED
      BY <1>a, <2>4, <3>1 DEF Of
  <2>6. QED
    BY <1>c, <2>2, <2>3, <2>5
<1>9. ASSUME NEW r \in Runs, NEW s \in Ends, Finish(r, s) PROVE Owned'
  <2>1. UNCHANGED <<req, task, run>> /\ IsLive(r)
    BY <1>9 DEF Finish, IsLive, Live, rows
  <2>2. Of(r)' = Of(r) /\ exec'[r].stage # "rescuing"
        /\ \A x \in Runs \ {r} : exec'[x] = exec[x]
    BY <1>9, <1>a DEF Finish, Of
  <2>3. QED
    BY <1>c, <2>1, <2>2
<1>10. ASSUME NEW r \in Runs, SettleTask(r) \/ ExecFails(r) \/ CloseRun(r) PROVE Owned'
  <2>1. UNCHANGED <<req, run>> /\ IsLive(r)
        /\ \A k \in Task : task'[k] = "none" => task[k] = "none"
    <3>1. SettleTask(r) => exec[r].result # "none" /\ Of(r) \in Task
      BY Form DEF SettleTask, Ends, IInv, IsLive, Live
    <3>2. QED
      BY <1>10, <1>a, <3>1 DEF SettleTask, SetTask, ExecFails, CloseRun, IsLive, Live, rows
  <2>2. /\ exec'[r].stage # "none" => Of(r)' = Of(r)
        /\ exec'[r].stage = "rescuing" => Of(r) \in EvalTask
        /\ \A x \in Runs \ {r} : exec'[x] = exec[x]
    BY <1>10, <1>a DEF SettleTask, ExecFails, CloseRun, Closing, Resting, Of
  <2>3. QED
    BY <1>c, <2>1, <2>2
<1>11. ASSUME NEW r \in Runs, Rescue(r) PROVE Owned'
  <2>1. UNCHANGED <<req, task>> /\ IsLive(r)
    BY <1>11 DEF Rescue, IsLive, Live
  <2>2. exec'[r].stage = "none" /\ \A x \in Runs \ {r} : exec'[x] = exec[x]
    BY <1>11, <1>a DEF Rescue, Resting
  <2>3. \A x \in Runs : run'[x].of = run[x].of
    BY <1>11, RowWritten DEF Rescue, IInv, Ends
  <2>4. QED
    BY <1>c, <2>1, <2>2, <2>3
<1>12. ASSUME NEW t \in Thread, DeleteThread(t) PROVE Owned'
  <2>1. /\ UNCHANGED <<req, exec>>
        /\ \A k \in Task : task'[k] = IF ThreadOf[k] = t THEN "none" ELSE task[k]
        /\ \A r \in Runs : run'[r] = IF run[r].of \in RowsOfThread(t) THEN NoRow ELSE run[r]
    BY <1>12 DEF DeleteThread
  <2>2. \A k \in Task : ThreadOf[k] = t => RunsOf(k)' = {}
    BY <2>1, NamesAssumption DEF RunsOf, RowsOfThread, NoRow
  <2>3. \A r \in Runs : run'[r].of \in {run[r].of, "none"}
    BY <2>1 DEF NoRow
  <2>4. QED
    BY <1>a, <2>1, <2>2, <2>3, OwnedBy DEF Of
<1>13. CASE ShutDown
  <2>1. UNCHANGED <<req, task, run>>
    BY <1>13 DEF ShutDown, rows
  <2>2. \A r \in Runs :
          \/ exec'[r] = exec[r]
          \/ /\ exec[r].stage # "none" /\ exec'[r].stage # "rescuing" /\ exec'[r].task = Of(r)
    BY <1>13 DEF ShutDown, Closing
  <2>3. QED
    BY <1>a, <2>1, <2>2, OwnedBy DEF Of
<1>14. CASE Restart
  <2>1. /\ \A r \in Runs : exec'[r] = Resting
        /\ \A q \in Request : req'[q] = Idle
        /\ \A k \in Task : task'[k] = "none" => task[k] = "none"
    BY <1>14 DEF Restart
  <2>2. \A r \in Runs : run'[r].of = run[r].of
    <3>1. ASSUME NEW r \in Runs
          PROVE  run[r] # NoRow => [run[r] EXCEPT !.status = "interrupted"].of = run[r].of
      BY RowKept DEF IInv, Ends
    <3>2. QED
      BY <1>14, <3>1 DEF Restart, NoRow
  <2>3. QED
    BY <2>1, <2>2, OwnedBy DEF Resting, Idle
<1>15. ASSUME (\E t \in Thread : CreateThread(t)) \/ UNCHANGED vars PROVE Owned'
  <2>1. UNCHANGED <<run, exec, task, req>>
    BY <1>15 DEF CreateThread, vars, rows
  <2>2. QED
    BY <1>a, <2>1, OwnedBy DEF Of
<1>16. QED
  BY <1>1, <1>2, <1>3, <1>4, <1>5, <1>6, <1>7, <1>8, <1>9, <1>10, <1>11, <1>12, <1>13, <1>14,
     <1>15 DEF Next, Serve, Work

\* A step that leaves the rows of a task alone, and whoever works on it, changes nothing
\* for it.
SameTask(k) ==
  /\ task'[k] = task[k] /\ RunsOf(k)' = RunsOf(k)
  /\ \A r \in RunsOf(k) : run'[r].status = run[r].status

LEMMA FollowsBy ==
  ASSUME NEW k \in Chat, Follows(k), SameTask(k), Calm' => Calm /\ (Moving(k) => Moving(k)')
  PROVE  Follows(k)'
<1>1. RunsOf(k) # {} => Latest(k) \in RunsOf(k) /\ Latest(k)' = Latest(k)
  <2>1. RunsOf(k) \subseteq Runs
    BY DEF RunsOf
  <2>2. QED
    BY <2>1, LatestIs DEF SameTask, Latest
<1>2. Settled(k) => Settled(k)'
  BY <1>1 DEF Settled, SameTask, LatestStatus
<1>3. QED
  BY <1>2 DEF Follows, SameTask

LEMMA FollowKept ==
  ASSUME IInv, Rowed, Owned, Sql, [Next]_vars, NEW k \in Chat, Follows(k)
  PROVE  Follows(k)'
<1>a. /\ req \in [Request -> {Idle} \cup [stage : Named, task : Task] \cup
                    [stage : {"opened"}, task : Task, run : 1 .. minted]]
      /\ exec \in [Runs -> Doing] /\ run \in [Runs -> Row]
      /\ task \in [Task -> {"none", "planning"} \cup Ends]
      /\ faults \in Nat /\ restarts \in Nat /\ k \in Task /\ k # "none"
  BY BoundAssumption, NamesAssumption DEF IInv, TypeOK, Named, Doing, Row, Chat
\* Nothing is written of the task.
<1>b. ASSUME UNCHANGED <<task, run>>, Calm' => Calm /\ (Moving(k) => Moving(k)')
      PROVE  Follows(k)'
  BY <1>b, FollowsBy DEF SameTask, RunsOf
\* A request that changes nothing of the task moves on.
<1>c. ASSUME NEW q \in Request, exec' = exec, \A p \in Request \ {q} : req'[p] = req[p],
             \/ req[q].stage \notin {"saving", "opening", "opened", "recovering"}
             \/ req[q].task # k
      PROVE  Moving(k) => Moving(k)'
  BY <1>c DEF Moving, AtWork, Of
\* A request at work on the task.
<1>d. ASSUME NEW q \in Request, req'[q].task = k,
             req'[q].stage \in {"saving", "opening", "opened", "recovering"}
      PROVE  Moving(k)'
  BY <1>d DEF Moving
\* Somebody works on it and it is not told completed.
<1>e. ASSUME Moving(k)', task'[k] = "completed" =>
               /\ task[k] = "completed"
               /\ \A r \in RunsOf(k) : run[r].status = "completed" => run'[r] = run[r]
      PROVE  Follows(k)'
  BY <1>e DEF Follows, RunsOf
<1>1. ASSUME NEW q \in Request, NEW j \in Task,
             CreateTask(q, j) \/ Evaluate(q, j) \/ FindTask(q, j) PROVE Follows(k)'
  <2>1. /\ UNCHANGED <<run, exec, task, counters>> /\ req[q].stage = "idle"
        /\ \A p \in Request \ {q} : req'[p] = req[p]
    BY <1>1, <1>a DEF CreateTask, Claim, Evaluate, FindTask, rows, Idle
  <2>2. QED
    BY <1>b, <1>c, <2>1 DEF Calm, counters
<1>2. ASSUME NEW q \in Request, ClaimResume(q) \/ ResumeRefused(q) \/ StillOpen(q)
      PROVE  Follows(k)'
  <2>1. /\ UNCHANGED <<run, exec, task, counters>> /\ req[q].stage \in {"found", "checking"}
        /\ \A p \in Request \ {q} : req'[p] = req[p]
    BY <1>2, <1>a DEF ClaimResume, Claim, ResumeRefused, StillOpen, GiveUp, rows
  <2>2. QED
    BY <1>b, <1>c, <2>1 DEF Calm, counters
<1>3. ASSUME NEW q \in Request, Reopen(q) PROVE Follows(k)'
  <2>1. /\ UNCHANGED <<run, exec, task, counters>> /\ req[q].stage = "checking"
        /\ \A p \in Request \ {q} : req'[p] = req[p]
    BY <1>3, <1>a DEF Reopen, ReqTo, rows
  <2>2. QED
    BY <1>b, <1>c, <2>1 DEF Calm, counters
<1>4. ASSUME NEW q \in Request, RequestFails(q) PROVE Follows(k)'
  <2>1. UNCHANGED <<run, task>> /\ ~Calm'
    BY <1>4, <1>a DEF RequestFails, rows, Calm
  <2>2. QED
    BY <1>b, <2>1
<1>5. ASSUME NEW q \in Request, NoTask(q) PROVE Follows(k)'
  <2>1. /\ UNCHANGED <<run, exec, task, counters>> /\ task[req[q].task] = "none"
        /\ req[q].stage = "opening" /\ \A p \in Request \ {q} : req'[p] = req[p]
    BY <1>5, <1>a DEF NoTask, GiveUp, rows
  <2>2. CASE req[q].task = k
    <3>1. task'[k] = "none" /\ RunsOf(k)' = {}
      BY <1>a, <2>1, <2>2 DEF Owned, RunsOf
    <3>2. QED
      BY <3>1 DEF Follows, Settled
  <2>3. CASE req[q].task # k
    BY <1>b, <1>c, <2>1, <2>3 DEF Calm, counters
  <2>4. QED
    BY <2>2, <2>3
<1>6. ASSUME NEW q \in Request, SaveTask(q) \/ CloseStaleTask(q) PROVE Follows(k)'
  <2>1. /\ UNCHANGED <<run, exec, counters>> /\ ReqTo(q, "opening") /\ req[q].stage \in Named
        /\ req[q].task \in Task
        /\ \E s \in {"none", "planning", "interrupted"} : task' = [task EXCEPT ![req[q].task] = s]
    BY <1>6, <1>a, Shape DEF SaveTask, CloseStaleTask, SetTask, Named, IInv
  <2>2. req' = [req EXCEPT ![q] = [stage |-> "opening", task |-> req[q].task]]
    BY <2>1, NextStage DEF IInv
  <2>3. CASE req[q].task = k
    <3>1. req'[q].task = k /\ req'[q].stage = "opening" /\ task'[k] # "completed"
      BY <1>a, <2>1, <2>2, <2>3
    <3>2. QED
      BY <1>d, <1>e, <3>1
  <2>4. CASE req[q].task # k
    <3>1. task'[k] = task[k] /\ \A p \in Request \ {q} : req'[p] = req[p]
      BY <1>a, <2>1, <2>2, <2>4
    <3>2. SameTask(k)
      BY <2>1, <3>1 DEF SameTask, RunsOf
    <3>3. QED
      BY <1>c, <2>1, <2>4, <3>1, <3>2, FollowsBy DEF Calm, counters
  <2>5. QED
    BY <2>3, <2>4
<1>7. ASSUME NEW q \in Request, CloseStale(q) PROVE Follows(k)'
  <2>1. PICK j \in Task, l \in Runs :
          /\ j = req[q].task /\ l = Latest(j) /\ l \in RunsOf(j)
          /\ run' = [run EXCEPT ![l] = [of |-> j, status |-> "interrupted"]]
    BY <1>7, Shape, StaleClosed DEF IInv, CloseStale, Named, RunsOf
  <2>2. /\ UNCHANGED <<task, exec, counters>> /\ run[l].status = "running"
    BY <1>7, <2>1 DEF CloseStale, LatestStatus
  <2>3. req' = [req EXCEPT ![q] = [stage |-> "recovering", task |-> j]]
    BY <1>7, <2>1, NextStage DEF IInv, CloseStale, Named
  <2>4. CASE j = k
    <3>1. req'[q].task = k /\ req'[q].stage = "recovering"
      BY <1>a, <2>3, <2>4
    <3>2. \A r \in RunsOf(k) : run[r].status = "completed" => run'[r] = run[r]
      BY <1>a, <2>1, <2>2 DEF RunsOf
    <3>3. QED
      BY <1>d, <1>e, <2>2, <3>1, <3>2
  <2>5. CASE j # k
    <3>1. SameTask(k)
      BY <1>a, <2>1, <2>2, <2>5 DEF SameTask, RunsOf
    <3>2. \A p \in Request \ {q} : req'[p] = req[p]
      BY <1>a, <2>3
    <3>3. QED
      BY <1>c, <2>1, <2>2, <2>5, <3>1, <3>2, FollowsBy DEF Calm, counters
  <2>6. QED
    BY <2>4, <2>5
<1>8. ASSUME NEW q \in Request, OpenRun(q) PROVE Follows(k)'
  <2> USE BoundAssumption, NamesAssumption
  <2>0. PICK j \in Task, n \in Runs : j = req[q].task /\ n = minted + 1
    BY <1>8, Shape DEF IInv, OpenRun, Named, TypeOK, Runs
  <2>1. /\ UNCHANGED <<task, exec, counters>> /\ minted \in Nat
        /\ run'[n] = [of |-> j, status |-> "created"]
        /\ \A r \in Runs \ {n} : run'[r] = run[r]
        /\ req'[q] = [stage |-> "opened", task |-> j, run |-> n]
        /\ \A p \in Request \ {q} : req'[p] = req[p]
    BY <1>8, <1>a, <2>0 DEF IInv, OpenRun, TypeOK
  <2>2. run[n] = NoRow
    BY <2>0, <2>1 DEF Rowed, Runs
  <2>3. n \notin RunsOf(k) /\ \A r \in RunsOf(k) : run'[r] = run[r]
    BY <1>a, <2>1, <2>2 DEF RunsOf, NoRow
  <2>4. CASE j = k
    BY <1>d, <1>e, <2>1, <2>3, <2>4
  <2>5. CASE j # k
    <3>1. SameTask(k)
      BY <2>1, <2>3, <2>5 DEF SameTask, RunsOf
    <3>2. QED
      BY <1>c, <2>0, <2>1, <2>5, <3>1, FollowsBy DEF Calm, counters
  <2>6. QED
    BY <2>4, <2>5
<1>9. ASSUME NEW q \in Request, Spawn(q) PROVE Follows(k)'
  <2>0. PICK n \in Runs, j \in Task : n = req[q].run /\ j = req[q].task
    BY <1>9, OpenedRun, Shape DEF IInv, Spawn
  <2>1. /\ UNCHANGED <<task, run, counters>> /\ req[q].stage = "opened"
        /\ \A p \in Request \ {q} : req'[p] = req[p]
        /\ exec'[n] = [stage |-> "starting", task |-> j]
        /\ \A r \in Runs \ {n} : exec'[r] = exec[r]
    BY <1>9, <1>a, <2>0 DEF Spawn, rows
  <2>2. exec[n] = Resting
    BY <2>0, <2>1 DEF IInv, Spawning
  <2>3. Moving(k) => Moving(k)'
    <3>1. ASSUME NEW r \in Runs, AtWork(r), Of(r) = k PROVE Moving(k)'
      BY <2>1, <2>2, <3>1 DEF Moving, AtWork, Of, Resting
    <3>2. ASSUME NEW p \in Request, req[p].task = k,
                 req[p].stage \in {"saving", "opening", "opened", "recovering"}
          PROVE  Moving(k)'
      <4>1. CASE p = q
        <5>1. AtWork(n)' /\ Of(n)' = k
          BY <2>0, <2>1, <3>2, <4>1 DEF AtWork, Of
        <5>2. QED
          BY <5>1 DEF Moving
      <4>2. CASE p # q
        BY <1>d, <2>1, <3>2, <4>2
      <4>3. QED
        BY <4>1, <4>2
    <3>3. QED
      BY <3>1, <3>2 DEF Moving
  <2>4. QED
    BY <1>b, <2>1, <2>3 DEF Calm, counters
\* A run writes its row: the task is its own, and then the row was not completed.
<1>10. ASSUME NEW r \in Runs, NEW s \in {"running"} \cup Ends, SetRun(r, s),
              UNCHANGED <<task, req, counters>>, AtWork(r), AtWork(r)', Of(r)' = Of(r),
              \A x \in Runs \ {r} : exec'[x] = exec[x],
              exec[r].stage \in {"starting", "finalizing"}
       PROVE  Follows(k)'
  <2>1. /\ \A x \in Runs : run'[x].of = run[x].of
        /\ \A x \in Runs \ {r} : run'[x] = run[x]
    BY <1>10, RowWritten DEF IInv
  <2>2. Moving(k) => Moving(k)'
    BY <1>10 DEF Moving, AtWork, Of
  <2>3. CASE run[r].of = k
    <3>1. Of(r) = k
      BY <1>a, <1>10, <2>3 DEF Owned, AtWork
    <3>2. Untouched(r)
      BY <1>10, <3>1 DEF Rowed, LiveRunUntouched
    <3>3. run[r].status # "completed"
      BY <1>10, <3>2 DEF Untouched
    <3>4. Moving(k)'
      BY <1>10, <3>1 DEF Moving
    <3>5. QED
      BY <1>e, <1>10, <2>1, <3>3, <3>4 DEF RunsOf
  <2>4. CASE run[r].of # k
    <3>1. SameTask(k)
      BY <1>10, <2>1, <2>4 DEF SameTask, RunsOf
    <3>2. QED
      BY <1>10, <2>2, <3>1, FollowsBy DEF Calm, counters
  <2>5. QED
    BY <2>3, <2>4
<1>11. ASSUME NEW r \in Runs, MarkRunning(r) PROVE Follows(k)'
  <2>1. exec' = [exec EXCEPT ![r] = [stage |-> "running", task |-> Of(r)]]
    <3>1. [exec[r] EXCEPT !.stage = "running"] = [stage |-> "running", task |-> Of(r)]
      BY <1>11, NextForm DEF MarkRunning, IInv
    <3>2. QED
      BY <1>a, <1>11, <3>1 DEF MarkRunning, ExecTo
  <2>2. /\ AtWork(r) /\ AtWork(r)' /\ Of(r)' = Of(r)
        /\ \A x \in Runs \ {r} : exec'[x] = exec[x]
    BY <1>a, <1>11, <2>1 DEF MarkRunning, AtWork, Of
  <2>3. SetRun(r, "running") /\ UNCHANGED <<task, req, counters>> /\ exec[r].stage = "starting"
    BY <1>11 DEF MarkRunning
  <2>4. QED
    BY <1>10, <2>2, <2>3
<1>12. ASSUME NEW r \in Runs, FinalizeRun(r) PROVE Follows(k)'
  <2>1. exec' = [exec EXCEPT ![r] = [stage |-> "settling", task |-> Of(r), result |-> exec[r].result]]
    <3>1. [exec[r] EXCEPT !.stage = "settling"] =
            [stage |-> "settling", task |-> Of(r), result |-> exec[r].result]
      BY <1>12, NextForm DEF FinalizeRun, IInv
    <3>2. QED
      BY <1>a, <1>12, <3>1 DEF FinalizeRun, ExecTo
  <2>2. /\ AtWork(r) /\ AtWork(r)' /\ Of(r)' = Of(r)
        /\ \A x \in Runs \ {r} : exec'[x] = exec[x]
    BY <1>a, <1>12, <2>1 DEF FinalizeRun, AtWork, Of
  <2>3. /\ SetRun(r, exec[r].result) /\ UNCHANGED <<task, req, counters>>
        /\ exec[r].stage = "finalizing" /\ exec[r].result \in Ends
    BY <1>12, Form DEF FinalizeRun, IInv
  <2>4. QED
    BY <1>10, <2>2, <2>3
<1>13. ASSUME NEW r \in Runs, NEW s \in Ends, Finish(r, s) PROVE Follows(k)'
  <2>1. UNCHANGED <<task, run, req, counters>> /\ AtWork(r)
    BY <1>13 DEF Finish, AtWork, rows
  <2>2. AtWork(r)' /\ Of(r)' = Of(r) /\ \A x \in Runs \ {r} : exec'[x] = exec[x]
    BY <1>a, <1>13 DEF Finish, AtWork, Of
  <2>3. Moving(k) => Moving(k)'
    BY <2>1, <2>2 DEF Moving, AtWork, Of
  <2>4. QED
    BY <1>b, <2>1, <2>3 DEF Calm, counters
<1>14. ASSUME NEW r \in Runs, SettleTask(r) PROVE Follows(k)'
  <2>1. /\ UNCHANGED <<run, req, counters>> /\ SetTask(Of(r), exec[r].result) /\ AtWork(r)
        /\ exec[r].stage = "settling" /\ \A x \in Runs \ {r} : exec'[x] = exec[x]
    BY <1>a, <1>14 DEF SettleTask, AtWork
  <2>2. CASE Of(r) = k
    <3>1. Untouched(r)
      BY <2>1, <2>2 DEF Rowed, LiveRunUntouched
    <3>2. /\ task'[k] = exec[r].result /\ run[r].status = exec[r].result
          /\ run[r].of = k /\ r = Latest(k)
      BY <1>a, <2>1, <2>2, <3>1 DEF Untouched, SetTask
    <3>3. Settled(k)' /\ r \in RunsOf(k)'
      BY <2>1, <3>2 DEF Settled, LatestStatus, Latest, RunsOf
    <3>4. QED
      BY <2>1, <3>2, <3>3 DEF Follows
  <2>3. CASE Of(r) # k
    <3>1. SameTask(k)
      BY <1>a, <2>1, <2>3 DEF SameTask, SetTask, RunsOf
    <3>2. Moving(k) => Moving(k)'
      BY <2>1, <2>3 DEF Moving, AtWork, Of
    <3>3. QED
      BY <2>1, <3>1, <3>2, FollowsBy DEF Calm, counters
  <2>4. QED
    BY <2>2, <2>3
<1>15. ASSUME NEW r \in Runs, ExecFails(r) PROVE Follows(k)'
  <2>1. UNCHANGED <<run, task>> /\ ~Calm'
    BY <1>15, <1>a DEF ExecFails, rows, Calm
  <2>2. QED
    BY <1>b, <2>1
<1>16. ASSUME NEW r \in Runs, CloseRun(r) PROVE Follows(k)'
  <2>1. /\ UNCHANGED <<run, task, req, counters>> /\ ~AtWork(r)
        /\ \A x \in Runs \ {r} : exec'[x] = exec[x]
    BY <1>a, <1>16 DEF CloseRun, AtWork, rows
  <2>2. Moving(k) => Moving(k)'
    BY <2>1 DEF Moving, AtWork, Of
  <2>3. QED
    BY <1>b, <2>1, <2>2 DEF Calm, counters
<1>17. ASSUME NEW r \in Runs, Rescue(r) PROVE Follows(k)'
  <2>1. /\ UNCHANGED <<task, req>> /\ ~AtWork(r) /\ (Calm' => Calm)
        /\ \A x \in Runs \ {r} : exec'[x] = exec[x]
        /\ run' = run \/ SetRun(r, "failed")
    BY <1>a, <1>17 DEF Rescue, AtWork, Calm, counters
  <2>2. run[r].of # k
    BY <1>a, <1>17 DEF Owned, Rescue, Chat
  <2>3. /\ \A x \in Runs : run'[x].of = run[x].of
        /\ \A x \in Runs \ {r} : run'[x] = run[x]
    BY <2>1, RowWritten DEF IInv, Ends
  <2>4. SameTask(k)
    BY <2>1, <2>2, <2>3 DEF SameTask, RunsOf
  <2>5. Moving(k) => Moving(k)'
    BY <2>1 DEF Moving, AtWork, Of
  <2>6. QED
    BY <2>1, <2>4, <2>5, FollowsBy
<1>18. ASSUME NEW t \in Thread, DeleteThread(t) PROVE Follows(k)'
  <2>1. /\ UNCHANGED <<req, exec, counters>>
        /\ task'[k] = IF ThreadOf[k] = t THEN "none" ELSE task[k]
        /\ \A r \in Runs : run'[r] = IF run[r].of \in RowsOfThread(t) THEN NoRow ELSE run[r]
    BY <1>18, <1>a DEF DeleteThread
  <2>2. CASE ThreadOf[k] = t
    <3>1. task'[k] = "none" /\ RunsOf(k)' = {}
      BY <1>a, <2>1, <2>2 DEF RunsOf, RowsOfThread, NoRow
    <3>2. QED
      BY <3>1 DEF Follows, Settled
  <2>3. CASE ThreadOf[k] # t
    <3>1. k \notin RowsOfThread(t)
      BY <2>3 DEF RowsOfThread
    <3>2. RunsOf(k)' = RunsOf(k) /\ \A r \in RunsOf(k) : run'[r] = run[r]
      BY <1>a, <2>1, <3>1 DEF RunsOf, NoRow
    <3>3. SameTask(k)
      BY <2>1, <2>3, <3>2 DEF SameTask
    <3>4. QED
      BY <2>1, <3>3, FollowsBy DEF Calm, counters, Moving, AtWork, Of
  <2>4. QED
    BY <2>2, <2>3
<1>19. CASE ShutDown
  BY <1>19, <1>b DEF ShutDown, rows, Calm
<1>20. CASE Restart
  <2>1. ~Calm'
    BY <1>20, <1>a DEF Restart, Calm
  <2>2. task'[k] = "completed" => task[k] = "completed"
    BY <1>20, <1>a DEF Restart
  <2>3. \A r \in Runs : run[r].status = "completed" => run'[r] = run[r]
    BY <1>20 DEF Restart
  <2>4. QED
    BY <2>1, <2>2, <2>3 DEF Follows, RunsOf
<1>21. ASSUME (\E t \in Thread : CreateThread(t)) \/ UNCHANGED vars PROVE Follows(k)'
  <2>1. UNCHANGED <<run, exec, task, req, counters>>
    BY <1>21 DEF CreateThread, vars, rows
  <2>2. QED
    BY <1>b, <2>1 DEF Calm, counters, Moving, AtWork, Of
<1>22. QED
  BY <1>1, <1>2, <1>3, <1>4, <1>5, <1>6, <1>7, <1>8, <1>9, <1>11, <1>12, <1>13, <1>14, <1>15,
     <1>16, <1>17, <1>18, <1>19, <1>20, <1>21 DEF Next, Serve, Work

\* A task at rest says what its latest run says while nothing fails, and whatever fails
\* it says completed only when one of its runs is.
THEOREM TaskFollowsAlways ==
  ASSUME EvalsApart, Sql PROVE Spec => []TaskFollowsRun
<1> DEFINE All == \A k \in Chat : Follows(k)
<1>1. Init => IInv /\ Rowed /\ Owned /\ All
  <2> SUFFICES ASSUME Init PROVE IInv /\ Rowed /\ Owned /\ All
    OBVIOUS
  <2>1. Rowed
    BY DEF Init, Rowed, LiveRunUntouched, AtWork, Idle, Resting
  <2>2. \A k \in Task : RunsOf(k) = {} /\ task[k] = "none"
    BY NamesAssumption DEF Init, RunsOf, NoRow
  <2>3. Owned
    BY <2>2 DEF Init, Owned, Idle, Resting, NoRow
  <2>4. All
    BY <2>2 DEF Follows, Settled, Chat
  <2>5. QED
    BY <2>1, <2>3, <2>4, InitHolds
<1>2. IInv /\ Rowed /\ Owned /\ All /\ [Next]_vars => (IInv /\ Rowed /\ Owned /\ All)'
  BY EvalsApart, Sql, TypeKept, SafeKept, RowedKept, OwnedKept, FollowKept
  DEF IInv, Safe, Chat
<1>3. All => TaskFollowsRun
  BY DEF Follows, Settled, Moving, Calm, TaskFollowsRun, AtWork, IsLive, Live
<1> HIDE DEF All
<1>4. QED
  BY <1>1, <1>2, <1>3, PTL DEF Spec

================================================================================
