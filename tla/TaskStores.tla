------------------------------ MODULE TaskStores ------------------------------
(***************************************************************************)
(* The API's two task repositories side by side: every call goes to the    *)
(* one in memory (SQLite keeps the same objects, see BlobStore) and to the *)
(* one in PostgreSQL, and whoever asks must not be able to tell which of   *)
(* the two answers.                                                        *)
(*                                                                         *)
(* "mem" is InMemoryTaskRepository's dictionaries, "sql" the rows of the   *)
(* schema.  Of a run's events only the approval rows are here, which the   *)
(* SQL store reads approvals back from; TaskStream has the others.  Calls  *)
(* are whole: TaskStream, TaskLifecycle and ApprovalGateway interleave     *)
(* them.                                                                   *)
(***************************************************************************)
EXTENDS Naturals, FiniteSets, SequencesExt

CONSTANTS Thread, Task,
          ThreadOf,         \* [Task -> Thread]
          Request, AskedBy, \* approval requests, and the task of each
          Usages,           \* what providers report: "known", "none", "partial" (one of two counts)
          DeletesEvaluated, \* threads of evaluated runs are deleted as well
          MaxRuns, MaxCalls, MaxRows \* bounds: runs, calls, approval rows

\* What the constants are: nobody deletes a thread with an evaluated run, which only the
\* store in memory would do, and providers report both counts of a call or neither: of one
\* the SQL store makes nothing.
Setting == ~DeletesEvaluated /\ Usages \subseteq {"known", "none"}

VARIABLES mem, sql,
          ids,   \* run ids given out
          calls, \* model and tool calls, recorded under their number
          raised \* which of the stores raised an exception in the last call

vars == <<mem, sql, ids, calls, raised>>

Open == {"created", "running"}
Final == {"completed"}   \* stands for every final status
Without(s, S) == SelectSeq(s, LAMBDA x : x \notin S)
Dropping(f, S) == [x \in DOMAIN f \ S |-> f[x]]
With(f, x, v) == [y \in DOMAIN f \cup {x} |-> IF y = x THEN v ELSE f[y]]
Empty == [x \in {} |-> x]

TasksIn(t) == {k \in Task : ThreadOf[k] = t}

\* Threads with t in front: whatever touches a thread makes it the newest.
Touched(s, t) == <<t>> \o (IF t \in ToSet(s) THEN Without(s, {t}) ELSE s)
\* Of tasks in the order they were stored, those of a thread, newest first, and how many.
NewestOf(s, t) == Reverse(SelectSeq(s, LAMBDA k : ThreadOf[k] = t))
CountOf(s, t) == Len(SelectSeq(s, LAMBDA k : ThreadOf[k] = t))
\* Calls that are not of the runs R.
NotOf(S, R) == {c \in S : c.run \notin R}

------------------------------------------------------------------------------
(* In memory: dictionaries, of which the runs' ids are in the order they    *)
(* were made in; threads are kept newest first.                             *)
MemEmpty == [threads |-> <<>>, tasks |-> <<>>, status |-> Empty, runs |-> {},
             approvals |-> Empty, llm |-> {}, tools |-> {}]

MemOf(k) == {x \in mem.runs : x.task = k}
MemHas(r) == \E x \in mem.runs : x.id = r
\* Every call that looks a run up by its id: a KeyError without it.
MemRaises(r) == IF MemHas(r) THEN {} ELSE {"mem"}
\* The dictionary of runs with one of them changed.
MemPut(r, status) ==
  [mem EXCEPT !.runs = {IF x.id = r THEN [x EXCEPT !.status = status] ELSE x : x \in @}]

MemSaveTask(k) ==
  [mem EXCEPT !.threads = Touched(@, ThreadOf[k]),
              !.tasks = Append(@, k), !.status = With(@, k, "planning")]
MemCreateThread(t) == [mem EXCEPT !.threads = <<t>> \o @]

\* Mutant of MemDeleteThread: the approvals of the thread stay.
MemDeleteThreadOnly(t) ==
  LET gone == {x \in mem.runs : x.task \in TasksIn(t)}
      lost == {x.id : x \in gone}
  IN  [mem EXCEPT !.threads = Without(@, {t}), !.tasks = Without(@, TasksIn(t)),
                  !.status = Dropping(@, TasksIn(t)), !.runs = @ \ gone,
                  !.llm = NotOf(@, lost), !.tools = NotOf(@, lost)]
MemDeleteThread(t) ==
  LET gone == {x \in mem.runs : x.task \in TasksIn(t)}
      lost == {x.id : x \in gone}
  IN  [mem EXCEPT !.threads = Without(@, {t}), !.tasks = Without(@, TasksIn(t)),
                  !.status = Dropping(@, TasksIn(t)), !.runs = @ \ gone,
                  !.approvals = Dropping(@, {q \in Request : AskedBy[q] \in TasksIn(t)}),
                  !.llm = NotOf(@, lost), !.tools = NotOf(@, lost)]

MemCreateRun(k) ==
  [mem EXCEPT !.runs = @ \cup {[id |-> ids, task |-> k, status |-> "created"]}]
MemMarkRunRunning(r) == MemPut(r, "running")
MemFinalizeRun(r, status) == MemPut(r, status)
MemUpdateTaskStatus(k, s) == [mem EXCEPT !.status = With(@, k, s)]
MemSaveApprovalRequest(q) ==
  IF q \in DOMAIN mem.approvals THEN mem ELSE [mem EXCEPT !.approvals = With(@, q, "open")]
MemResolveApproval(q, answer) ==
  IF q \in DOMAIN mem.approvals THEN [mem EXCEPT !.approvals = With(@, q, answer)] ELSE mem
MemSaveLlmCall(r, u) ==
  IF MemHas(r) THEN [mem EXCEPT !.llm = @ \cup {[no |-> calls, run |-> r, usage |-> u]}] ELSE mem
MemSaveToolCall(r, ok) ==
  IF MemHas(r) THEN [mem EXCEPT !.tools = @ \cup {[no |-> calls, run |-> r, ok |-> ok]}] ELSE mem

\* The run of the task created last.
MemLatest(k) == {x \in MemOf(k) : \A y \in MemOf(k) : y.id <= x.id}
MemTasks(t) ==
  LET mine == NewestOf(mem.tasks, t)
  IN  [i \in DOMAIN mine |-> <<mine[i], {x.status : x \in MemLatest(mine[i])}>>]
MemThreads ==
  [i \in DOMAIN mem.threads |->
     <<mem.threads[i], CountOf(mem.tasks, mem.threads[i])>>]
MemOpenRuns == {<<x.task, x.id, x.status>> : x \in {y \in mem.runs : y.status \in Open}}
MemState(q) == IF q \in DOMAIN mem.approvals THEN mem.approvals[q] ELSE "none"
MemPending == {q \in DOMAIN mem.approvals : mem.approvals[q] = "open"}
\* get_run_metrics: a count that was not reported adds nothing, and no calls are zero
\* tokens.  A number or None is a set of at most one; the cost is like the tokens.
MemMetrics(r) ==
  LET asked == {c \in mem.llm : c.run = r}
      used == {c \in mem.tools : c.run = r}
      of(u) == Cardinality({c \in asked : c.usage = u})
  IN  [llm |-> Cardinality(asked), tools |-> Cardinality(used),
       ok |-> Cardinality({c \in used : c.ok}), tokens |-> {2 * of("known") + of("partial")}]

------------------------------------------------------------------------------
(* In PostgreSQL: rows, and the statements on them.                         *)
SqlEmpty == [threads |-> <<>>, tasks |-> <<>>, status |-> Empty, runs |-> {},
             events |-> {}, llm |-> {}, tools |-> {}, evaluated |-> {}]

SqlOf(k) == {x \in sql.runs : x.task = k}
AttemptNos(k) == {x.attempt : x \in SqlOf(k)}

\* Threads carry the time of their last upsert: newest first.
UpsertThread(s, t) == [s EXCEPT !.threads = Touched(@, t)]
InsertTask(s, k) == [s EXCEPT !.tasks = Append(@, k), !.status = With(@, k, "planning")]
\* Mutant of InsertRun: the attempt number is the column's default.
InsertRunFirst(r, k) ==
  [sql EXCEPT !.runs = @ \cup {[id |-> r, task |-> k, status |-> "created", attempt |-> 1]}]
InsertRun(r, k) ==
  [sql EXCEPT !.runs = @ \cup {[id |-> r, task |-> k, status |-> "created",
     attempt |-> 1 + IF SqlOf(k) = {} THEN 0
                     ELSE CHOOSE n \in AttemptNos(k) : \A m \in AttemptNos(k) : m <= n]}]
\* A run that is gone is no row to update.
UpdateRun(r, status) ==
  [sql EXCEPT !.runs = {IF x.id = r THEN [x EXCEPT !.status = status] ELSE x : x \in @}]
UpdateTaskStatus(k, s) ==
  [sql EXCEPT !.status = IF k \in DOMAIN @ THEN With(@, k, s) ELSE @]
SelectLatestRun(k) == {x \in SqlOf(k) : \A n \in AttemptNos(k) : n <= x.attempt}
SelectOpenRuns == {<<x.task, x.id, x.status>> : x \in {y \in sql.runs : y.status \in Open}}
SelectThreads ==
  [i \in DOMAIN sql.threads |->
     <<sql.threads[i], CountOf(sql.tasks, sql.threads[i])>>]
SelectTasksByThread(t) ==
  LET mine == NewestOf(sql.tasks, t)
  IN  [i \in DOMAIN mine |-> <<mine[i], {x.status : x \in SelectLatestRun(mine[i])}>>]
Times == {0} \cup {e.at : e \in sql.events}
\* An approval row goes behind the events of the latest run of its task; "at" is its time.
Now == 1 + (CHOOSE n \in Times : \A m \in Times : m <= n)
InsertApprovalEvent(r, q, answer) ==
  [sql EXCEPT !.events = @ \cup {[at |-> Now, run |-> r, request |-> q, answer |-> answer]}]
\* The last row of each request counts.
RowsOf(q) == {e \in sql.events : e.request = q}
SelectApprovalStates ==
  [q \in {e.request : e \in sql.events} |->
     (CHOOSE e \in RowsOf(q) : \A f \in RowsOf(q) : f.at <= e.at).answer]
DeleteThreadEvents(s, gone) == [s EXCEPT !.events = NotOf(@, gone)]
\* Model and tool calls go with their run.
DeleteThreadRuns(s, gone) ==
  [s EXCEPT !.runs = {x \in @ : x.id \notin gone},
            !.llm = NotOf(@, gone), !.tools = NotOf(@, gone)]
DeleteThreadTasks(s, t) ==
  [s EXCEPT !.tasks = Without(@, TasksIn(t)), !.status = Dropping(@, TasksIn(t))]
\* v_run_metrics_extended: total_tokens of a call is NULL unless both counts are known, and
\* so is a sum over no numbers.
RunMetrics(r) ==
  LET asked == {c \in sql.llm : c.run = r}
      used == {c \in sql.tools : c.run = r}
      known == Cardinality({c \in asked : c.usage = "known"})
  IN  [llm |-> Cardinality(asked), tools |-> Cardinality(used),
       ok |-> Cardinality({c \in used : c.ok}),
       tokens |-> IF known = 0 THEN {} ELSE {2 * known}]
\* Metrics as _execute_evaluation reads them, to whom None and zero are the same gap.
NoneAsZero(m) == [m EXCEPT !.tokens = IF @ = {} THEN {0} ELSE @]

(* PostgresTaskRepository's calls of several statements. *)
SqlSaveTask(k) == InsertTask(UpsertThread(sql, ThreadOf[k]), k)
\* One transaction: a result refers to its run ON DELETE RESTRICT, so nothing of a
\* thread with an evaluated run is deleted.
SqlDeleteThread(t) ==
  LET gone == {x.id : x \in {y \in sql.runs : y.task \in TasksIn(t)}}
      left == DeleteThreadTasks(DeleteThreadRuns(DeleteThreadEvents(sql, gone), gone), t)
  IN  IF gone \cap sql.evaluated # {} THEN sql
      ELSE [left EXCEPT !.threads = Without(@, {t})]
\* Nothing is stored for a task without a run.
SqlSaveApproval(q, answer) ==
  IF SqlOf(AskedBy[q]) = {} THEN sql
  ELSE InsertApprovalEvent((CHOOSE x \in SelectLatestRun(AskedBy[q]) : TRUE).id, q, answer)
SqlState(q) == IF q \in DOMAIN SelectApprovalStates THEN SelectApprovalStates[q] ELSE "none"
SqlResolveApproval(q, answer) ==
  IF SqlState(q) = "none" THEN sql ELSE SqlSaveApproval(q, answer)
SqlPending == {q \in DOMAIN SelectApprovalStates : SelectApprovalStates[q] = "open"}
SqlHas(r) == \E x \in sql.runs : x.id = r
\* Calls refer to their run.
SqlRaises(r) == IF SqlHas(r) THEN {} ELSE {"sql"}
SqlSaveLlmCall(r, u) ==
  IF SqlHas(r)
  THEN [sql EXCEPT !.llm = @ \cup {[no |-> calls, run |-> r, usage |-> u]}] ELSE sql
SqlSaveToolCall(r, ok) ==
  IF SqlHas(r)
  THEN [sql EXCEPT !.tools = @ \cup {[no |-> calls, run |-> r, ok |-> ok]}] ELSE sql

------------------------------------------------------------------------------
Init == mem = MemEmpty /\ sql = SqlEmpty /\ ids = 1 /\ calls = 0 /\ raised = {}

Kept == UNCHANGED <<ids, calls>> /\ raised' = {}

\* Thread and task ids are fresh.
CreateThread(t) ==
  /\ t \notin ToSet(mem.threads) /\ TasksIn(t) \cap DOMAIN mem.status = {}
  /\ mem' = MemCreateThread(t) /\ sql' = UpsertThread(sql, t) /\ Kept

SaveTask(k) ==
  /\ k \notin DOMAIN mem.status /\ ids <= MaxRuns
  /\ mem' = MemSaveTask(k) /\ sql' = SqlSaveTask(k) /\ Kept

DeleteThread(t) ==
  /\ t \in ToSet(mem.threads)
  /\ DeletesEvaluated \/ ~\E x \in sql.runs : x.id \in sql.evaluated /\ x.task \in TasksIn(t)
  /\ mem' = MemDeleteThread(t) /\ sql' = SqlDeleteThread(t) /\ Kept

\* The service has just stored the task or read it, under the lock of its thread.
CreateRun(k) ==
  /\ k \in DOMAIN mem.status /\ ids <= MaxRuns
  /\ mem' = MemCreateRun(k) /\ sql' = InsertRun(ids, k)
  /\ ids' = ids + 1 /\ raised' = {} /\ UNCHANGED calls

\* A run may have been deleted under the one who serves it: an exception in memory, and
\* nothing in PostgreSQL.
MarkRunRunning(r) ==
  /\ mem' = MemMarkRunRunning(r) /\ sql' = UpdateRun(r, "running")
  /\ raised' = MemRaises(r) /\ UNCHANGED <<ids, calls>>
FinalizeRun(r, s) ==
  /\ mem' = MemFinalizeRun(r, s) /\ sql' = UpdateRun(r, s)
  /\ raised' = MemRaises(r) /\ UNCHANGED <<ids, calls>>
SettleTask(k, s) ==
  /\ k \in DOMAIN mem.status
  /\ mem' = MemUpdateTaskStatus(k, s) /\ sql' = UpdateTaskStatus(k, s) /\ Kept

RecordLlmCall(r, u) ==
  /\ calls < MaxCalls /\ calls' = calls + 1
  /\ mem' = MemSaveLlmCall(r, u) /\ sql' = SqlSaveLlmCall(r, u)
  /\ raised' = MemRaises(r) \cup SqlRaises(r) /\ UNCHANGED ids
RecordToolCall(r, ok) ==
  /\ calls < MaxCalls /\ calls' = calls + 1
  /\ mem' = MemSaveToolCall(r, ok) /\ sql' = SqlSaveToolCall(r, ok)
  /\ raised' = MemRaises(r) \cup SqlRaises(r) /\ UNCHANGED ids

\* The gateway asks for a run of the task, and never again once it was answered.
SaveApprovalRequest(q) ==
  /\ MemLatest(AskedBy[q]) # {} /\ MemState(q) \in {"none", "open"}
  /\ Now <= MaxRows
  /\ mem' = MemSaveApprovalRequest(q) /\ sql' = SqlSaveApproval(q, "open") /\ Kept
ResolveApproval(q, answer) ==
  /\ MemState(q) \in {"none", "open"}
  /\ mem' = MemResolveApproval(q, answer) /\ sql' = SqlResolveApproval(q, answer) /\ Kept

\* A result refers to its run: a row of its own in SQL, a string in memory.
Evaluate(r) ==
  /\ \E x \in sql.runs : x.id = r /\ x.status \in Final
  /\ r \notin sql.evaluated
  /\ sql' = [sql EXCEPT !.evaluated = @ \cup {r}]
  /\ UNCHANGED mem /\ Kept

Next ==
  \/ \E t \in Thread : CreateThread(t) \/ DeleteThread(t)
  \/ \E k \in Task : SaveTask(k) \/ CreateRun(k) \/ \E s \in Final : SettleTask(k, s)
  \/ \E r \in 1 .. ids - 1 :
       \/ MarkRunRunning(r) \/ (\E s \in Final : FinalizeRun(r, s)) \/ Evaluate(r)
       \/ (\E u \in Usages : RecordLlmCall(r, u)) \/ (\E ok \in BOOLEAN : RecordToolCall(r, ok))
  \/ \E q \in Request : SaveApprovalRequest(q) \/ \E a \in {"yes", "no"} : ResolveApproval(q, a)

Spec == Init /\ [][Next]_vars

------------------------------------------------------------------------------
\* The two stores answer the service's questions alike (memory.py 3-6: "It keeps the same
\* task/run/event shape as the Postgres store so switching backends changes nothing
\* above the repository seam"): which threads and tasks there are and in which order,
\* the latest run of each task, the runs recovery finds open, what was asked and
\* answered, and what a run used, as far as the evaluation tells it apart.  No call fails
\* in PostgreSQL that goes through in memory.
StoresAgree ==
  /\ MemThreads = SelectThreads
  /\ \A t \in Thread : MemTasks(t) = SelectTasksByThread(t)
  /\ \A k \in Task : {x.id : x \in MemLatest(k)} = {x.id : x \in SelectLatestRun(k)}
  /\ mem.status = sql.status
  /\ MemOpenRuns = SelectOpenRuns
  /\ MemPending = SqlPending /\ \A q \in Request : MemState(q) = SqlState(q)
  /\ \A r \in 1 .. ids - 1 : MemHas(r) => MemMetrics(r) = NoneAsZero(RunMetrics(r))
  /\ "sql" \in raised => "mem" \in raised

\* The sentence of memory.py 3-6 to the letter, for the numbers of a run: whoever reads
\* them without taking None for zero is told the same by both stores.
MetricsAlike == \A r \in 1 .. ids - 1 : MemHas(r) => MemMetrics(r) = RunMetrics(r)

===============================================================================
