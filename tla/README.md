# OperatingAgent in TLA+

This directory holds a formal model of the agent core of this repository: TLA+
modules translated from the Python source, TLC configurations that check them on
small instances, and proofs that TLAPS checks for every value of the constants.
`PROJECT.json` maps every definition to the source lines it models and lists the
runs, the mutants that show each property can fail, the findings and the hazards.

Run a model with `tlc -workers 2 -config X.cfg M`, where `M` is the MC module of the
run, and check proofs with `tlapm M.tla` for each `M` whose name ends in `Proofs`.

Paths below leave out `src/packages/`. `AN` is `agent-native/src/agent_native`,
`LG` is `agent-langgraph/src/agent_langgraph`, `API` is `api/src/api`.

## 1. Inventory

The repository has two agent engines behind one HTTP API, a container sandbox, a
command-line evaluation and a desktop client. Everything concurrent is `asyncio`: one
thread, and another coroutine can run only at an `await` (the exceptions are worker
threads: docker, and the writes of the SQLite stores). The models therefore cut actions
at the awaits between two durable or observable effects, and nowhere else.

| Component | State it keeps | Operations | What is hard | What makes it correct | Module |
|---|---|---|---|---|---|
| Run loop (`AN/loop.py`, `conversation.py`, `tools/manager.py`) | the conversation, a `RunContext`, call groups in flight | `run`, `run_tools`, `_prepare_resume`, `_finish` | crash, cancel or stop between any two awaits; resume; tools that run together | every call answered once; a write is alone and not repeated without reason; one receipt per run | `NativeRun` |
| Turn retry and failover (`AN/loop.py`) | attempt counters, the model chain | `run_turn`, `_attempt_turn_with_retries` | a failure after text was shown; a stop during a pause | text is never shown twice; requests stay bounded | `TurnRetry` |
| Service (`AN/service.py`) | run ids, the session log it reads | `send_message`, `resume_run` | which run does a resume continue | an interrupted run resumes, a finished one does not run again | `NativeRun`, `RunRequests` |
| Event bus (`AN/events.py`, `database.py`) | per session: counter, stored events, queues, a lock | `emit`, `subscribe`, `close` | a subscriber joining during an emit; reconnects; a deleted session | no gap, no repetition, in order | `EventLog`, `EventBus` |
| Native HTTP runs (`API/native/routers/messages.py`) | cancellation registry, resume locks | send, resume, cancel, stream | overlapping requests on one session | a cancel hits the run it means, a stream tells its run | `RunRequests` |
| Permissions (`AN/permissions.py`) | grants, prompts that wait | policies, `ask`, `resolve` | prompts in parallel while grants, plan mode and allow-all change | nothing runs that nobody allowed | `PermissionGate` |
| Compaction (`AN/context.py`) | the folded copy of the conversation | `needs_compaction`, `_split`, `compact` | the cut between a call and its result, a fold of a fold | pairs stay together, every message is shown or folded once | `Compaction` |
| Subagents (`AN/tools/subagent.py`) | helper runs, receipts | `delegate`, `fan_out` | a crash, a stop or a timer in the middle of a fan-out | widths and caps hold, nothing is left running | `Subagents` |
| MCP bridge (`AN/tools/mcp_bridge.py`, runtime) | one provider, a client per workspace | attach, `connect`, `close` | close during connect, two first attachments at once | a closed provider holds nothing | `McpBridge` |
| Checkpoints (`AN/checkpoint.py`, hook) | snapshots of a folder, an index | snapshot before the first edit, rewind | several runs, helpers and processes on one folder; cut copies | a rewind undoes the run | `FileCheckpoints` |
| Native databases (`AN/database.py`, `sqlite.py`, `postgres.py`) | sessions, messages, events, receipts, grants, notes | some twenty calls | one contract in three back ends; a lost answer sent again | the back ends answer alike | `NativeStores`, `BlobStore` |
| LangGraph engine (`LG/graph`, `LG/nodes`, `LG/orchestrator`) | the graph's checkpointed state | planner, executor, verifier, phase transition, error handler, responder | replans, faults and resumes of any task re-enter nodes | bounded replans, a completed call is not run again, an approval is for the step it was asked for | `GraphRun` |
| Approval gateway (`API/services/approval_gateway.py`) | waiting events by id, rows | `restore`, `request_approval`, `resolve_approval` | two answers, a failing store, restart | what the run acts on is what the row says | `ApprovalGateway` |
| Task service (`API/services/task_service.py`) | claims, active tasks, locks, rows | create, resume, cancel, delete, recover, evaluate | a crash between two rows, deletion or resume while running | one run per thread, rows that nobody else touches | `TaskLifecycle`, `RunRecords`, `EvaluationRuns` |
| Event broker (`API/services/event_broker.py`) | per topic: history, queues, closed flag | `publish`, `subscribe`, `hydrate`, `close`, `reopen` | hydrate while live, reopen after close | nothing missing, nobody left waiting | `TaskStream` |
| API repositories (`API/repository`) | rows | threads, tasks, runs, approvals, calls, evaluations | one contract in memory, SQLite, PostgreSQL | the back ends answer alike, what was told stored is stored | `TaskStores`, `BlobStore`, `EvaluationRuns` |
| Settings (`AN` and `LG` settings, `API` settings routers, judge) | settings, clients | PATCH, runs that begin meanwhile | an await between reading and replacing | a key goes to its provider | `LiveSettings` |
| Sandbox pool (`sandbox`) | containers by session | `get`, `run`, `destroy_session`, `stop_all` | timeouts, deletions and shutdown on one container | none is forgotten | `SandboxPool` |
| Evaluation package (`evaluation`, `common/llm_judging.py`) | rows, a file of results, the judge's usage | `run`, `judge`, `compare` | retries share one usage counter | a verdict is charged with its own calls | `EvaluationHarness` |
| Everything else | - | routers, schemas, MCP tool servers, telemetry, desktop UI, SQL migrations | - | not modelled: no protocol state of its own, or plain I/O | - |

How they meet: a router calls the service or the task service; a run of either engine
stores its events and publishes them, to the bus or the broker; the graph asks the
gateway, the loop asks the permission gate; both call tools that may run in a container
of the pool, over an MCP client, or as a helper run; everything ends in a repository.
`PROJECT.json` lists every component with its sources and status, and the hazards at
their lines with the properties that would catch them.

## 2. Modules, runs and plan

| # | Modules | Run | State |
|---|---|---|---|
| 1 | `NativeRun`, `NativeRunProofs` | `NativeRun`, `Live`, `NativeRunSingleLoopPerRun` | done |
| 2 | `EventLog` (abstract), `EventBus`, `EventBusProofs` | `EventBus`, `Services` | done |
| 3 | `GraphRun`, `GraphRunProofs` | `GraphRun`, `Live`, `GraphOwnGoal` | done |
| 4 | `ApprovalGateway`, `EventsAndApprovalsProofs` | `ApprovalGateway` | done |
| 5 | `TaskLifecycle`, `TaskLifecycleProofs`, `TaskStream`, `TaskEvents`, `EventsAndApprovalsProofs` | `ApiTasks`, `TaskStreamHoles` | done |
| 6 | `SandboxPool`, `TurnRetry`, `PermissionGate`, `Subagents`, `McpBridge`, `NativeStores`, `Compaction`, `FileCheckpoints`, `AgentParts`, `PartsProofs` | `Parts`, `LaterRewindFindsIt` | done |
| 7 | `BlobStore`, `TaskStores`, `RunRecords`, `EvaluationRuns`, `EvaluationHarness`, `RunRequests`, `LiveSettings`, `ApiParts`, `ServicesProofs`, `EvaluationProofs` | `Services` | done |

`MCNativeRun`, `MCEventBus`, `MCGraphRun`, `MCApprovalGateway` instantiate one module.
`AgentParts`, `ApiParts` and `TaskEvents` put parts side by side that share no state, each
an INSTANCE with constants and variables of its own, and name what the part promises.
`MCParts`, `MCServices` and `MCApiTasks` extend them and give the constants values;
`PartsProofs`, `ServicesProofs`, `EvaluationProofs` and `EventsAndApprovalsProofs` extend
them and leave the constants open, so that what is proved is what is checked. In the MC
modules, and in `MCLive`, the variable `part` picks one part in the initial state, only
its actions are taken and the others rest, so that a run costs the sum of its parts and
not their product.

Next: the compositions of `TaskLifecycle` with `TaskStream` and of `NativeRun` with
`RunRequests`, which are now side by side.

## 3. NativeRun: one session of the native engine

`NativeRun` is one session: the saved conversation (`messages`), what the event log ends
with (`lastEvent`), the saved run records, the announced receipts, and per task (a
coroutine that serves a request) the program counter `pc`, the `RunContext` (`job`), the
batch in progress (`todo`) and the phase of every call.

| Actions | Code |
|---|---|
| `SendMessage`, `AnnounceUser`, `Start` | `service.send_message` 286-340: mint the id, save the message, log it, start the loop |
| `Resume`, `ResumeFinished`, `PrepareResume` | `service.resume_run` 355-404 and `loop._prepare_resume`: which run, and what is left of it |
| `StartTurn`, `StopAtHead`, `EndsAtHead`, `ModelReply`, `AfterReply` | the head of `loop.run`, one streamed turn, and what follows it |
| `Batch`, `NextGroup`, `OpenCall`, `RunCall`, `FinishCall`, `GroupDone`, `PersistResult` | `run_tools`, `_group_calls`, `_run_calls`, `_run_one_call`, `_persist_tool_result`, `ToolManager.authorize` / `run_authorized` |
| `SaveRun`, `Publish` | `_finish`: the record, then RUN_FINISHED |
| `Cancel` | `cancel_run`: a flag the loop reads between groups and turns |
| `Fail`, `Drop`, `OrphanEvent` | an exception out of the loop, a cancelled coroutine or a crash, and the sibling calls that `asyncio.gather` leaves behind |

Simplifications, each where the code allows it: the look at the log and the start of a
resume are one step, because the resume lock is held over both; call ids are unique in
the session (the code takes them from the model, see the hazard); compaction, texts,
usage and pricing are left out; streaming retries are part of one turn; one late event
of an orphaned sibling stands for all. `MaxRuns`, `MaxTurns`, `MaxBatch` and `MaxFaults`
bound runs, turns, batches and faults. `Overlap` lets a second request start while one
is served: the code allows it for `resume` during `send_message`, and only the run that
shows what follows from it sets it.

| Run | What it checks | Bounds |
|---|---|---|
| `NativeRun` | `AnsweredOnce`, `CurrentTurnAnswered`, `WriteBarrier`, `StopBoundsWrites`, `AtMostOncePerLoss`, `OneReceiptPerRun`, `SavedNeverRerun` | two reads and two writes, two runs, batches of three, one fault, a stop anywhere |
| `Live`, part `native` | `RunSettles` | two turns per run, batches of two, fair, limit on parallel tools zero |
| `NativeRunSingleLoopPerRun` | refuted: a resume while the run is served | two requests at once |

Three calls in a batch are the least with a shared group, a write and a call on either
side; one fault and one resume suffice for every property about what a fault leaves
behind, and the proofs cover any number. Calls are interchangeable within reads and
within writes, so the safety runs use symmetry; the liveness run does not.

`RunSettles` assumes weak fairness of each task's `LoopStep`: the event loop runs a
coroutine that can go on; provider calls have timeouts, tools run under `wait_for`. It
also takes for granted that users answer permission prompts, which have no timeout.

Five more promises of the code's comments are stated at the end of the module and have no
run of their own: `WireAlwaysValid` (a stop after the reply leaves calls without results),
`InterruptedRunResumes` (a crash between the save of a message and its event makes resume
return the previous run's receipt), `NoSideEffectTwice` (a crash between a write and the
save of its result repeats the write), `StoppedStaysStopped` (a cut-off reply that a crash
leaves last is resumed as the final answer) and `FinishedIsFinal` (an orphaned sibling
logs after RUN_FINISHED, so the finished run is run again). TLC refutes each when it is
named in `NativeRun.cfg`. `AtMostOncePerLoss` and `OneReceiptPerRun` are what remains true
of them.

## 4. EventBus: one session's events

`EventLog` is the abstract promise: a log that only grows, and readers who are shown its
entries in order. `EventBus` is the code: `Number`, `Save`, `FanOut` are the three awaits
of `emit` under the session lock; `Subscribe`, `Load`, `Replay`, `GoLive`, `Receive`,
`Stopped` are `subscribe`; `Fetch`, `Send`, `SubscribeFromTip` are the catch-up endpoint
in `API/native/routers/events.py`; `Close`, `DeleteSession`, `FailEmit`, `Crash` and
`Disconnect` are the rest of its life. `Snapshot` is a consumer of new events only.

Left out: `publish` (no caller), redaction, the dictionary of locks (sessions do not
share any state, so one session is modelled), the first-come order of `asyncio.Lock`
(any waiter may go first here). A save is one step: in the SQLite store the event is
visible before it is durable, which `CutSaves` stands for. At most one stop mark per
queue. `MaxEvents`, `MaxFaults`, `MaxDeletes` bound numbers, faults and deletions.

| Run | What it checks | Bounds |
|---|---|---|
| `EventBus` | `GapFree`, and `Promise`: the bus implements `EventLog` with its fairness | two emitters, one client, four events, two faults |
| `Services`, part `bus` | `HandedInOrder` for a client of the catch-up endpoint, when saves are cut and the session is deleted | two emitters, one client, two events, one fault, one deletion |

Clients touch nothing of each other, so one is enough; two emitters are the least that
contend for the lock. Fairness is weak, of `Save` and `FanOut` of each emitter and of each
client's stream: coroutines that can run are run; nobody is obliged to connect or emit.
`SkipsOnlySeen` states what a deleted session breaks (numbers restart at 1 under streams
that remember the old ones); TLC refutes it when `MaxDeletes` is 1.
TLC refutes `GapFree` too when `Endpoint` is `OneClient`: the endpoint loads the log and
subscribes from the tip in two calls, and what is emitted between them is not sent.

## 5. GraphRun: one thread of the LangGraph engine

The checkpointed state is `node`, `plan`, `current`, `retries`, `error`, `phase`,
`findings`, and `goal`, which stands for what the thread was asked last; a node is one
step, as LangGraph writes a checkpoint after each (`latest`). The executor awaits inside:
`stage` says where (approval asked, tool called, backing off, event stored). `known` is
`completed_tool_calls`, read when a run starts. Approval rows belong to the gateway and
outlive the run.

The tasks of a thread share its checkpoints. `Begin` and `TakeInput` are a new task and
the node that takes its input, and a run may die between the two. `Resume` is
`resume_task` with `LangGraphAgent.run`: any task of the thread while none is running,
whether its run failed, completed or was overtaken by a newer task, from the latest
checkpoint, from an earlier one a client kept the id of (`Keep`), or by an id that is
not there. `NothingToDo` is a resume of a checkpoint that has ended, or of none. `Abort`
is an exception, a cancel or a crash, `OutOfSteps` is GraphRecursionError.

What LangGraph does with this is external and modelled as the code relies on it: the
named checkpoint is loaded and new ones are written after it, so they are the latest from
then on, while a resume that dies before its first node returned leaves the latest as it
was; a checkpoint that has ended gives its values and runs no node, and the run gets the
status of what the responder left there; where there is no checkpoint there is no input
either, which is an error. `resume_value` has no reader: it answers an `interrupt()`,
which is reached only without an approval handler.

| Actions | Code |
|---|---|
| `Planner`, `AfterAccept`, `GiveUp`, `NextPhase` | `nodes/planner.py`, the routers of `graph/routing.py`, `nodes/phase_transition.py` |
| `Begin`, `TakeInput`, `Resume`, `NothingToDo`, `Abort`, `OutOfSteps` | `task_service.create_task` and `resume_task`, `orchestrator/langgraph_agent.py` |
| `OverIterations`, `Refuse`, `Ask`, `Denied`, `Reuse`, `CallTool`, `Transient`, `ToolFailure`, `EmitFinished`, `Succeed` | `nodes/executor.py` in the order of its returns |
| `Accept`, `Reject` | `nodes/verifier.py` |
| `ErrorHandler`, `PhaseTransition`, `Responder` | the node and the router behind it |
| `Decide` | an answer through `ApprovalGateway.resolve_approval` |

What a plan holds, what a tool does and how a step is judged are free choices. Left out:
the `interrupt()` branch of the executor, which is taken only without an approval
handler (`API/app.py` always passes the gateway); steps without a tool, which the planner
drops; step ids, which are positions here; bookkeeping fields a planner model might fill
in itself. A checkpoint is taken to be durable when its node returns.

| Run | What it checks | Bounds |
|---|---|---|
| `GraphRun` | `NoFalseSuccess`, `CallsAreDue`, `StreakWithinBudget` | two turns, plans of up to two uses of one risky tool under every gate, budget of two, eight super-steps per run, one fault, one resume as either task |
| | the same | one turn, the same plans with people asked, one fault, two resumes from the latest checkpoint, any one earlier, or none |
| `GraphOwnGoal` | refuted: `CompletedItsOwnGoal` | two turns, plans of one step, one resume |
| `Live`, part `graph` | `ApprovedAsShown`, `RunEnds` | two turns, plans of two steps over a risky and a blocked tool, every gate, four super-steps per run, one resume, fair |

The properties say what is left when any task goes on from any checkpoint.
`NoFalseSuccess`: a run reported COMPLETED has a stored call behind each step of its plan,
but it may be another task's: an older task resumed after a newer one ended is reported
COMPLETED on the newer one's plan, which `GraphOwnGoal` shows against the endpoint's
"resume the task from its latest checkpoint". `CallsAreDue`: a call is repeated only after
a fault that hid its result, or by a resume that goes back to an earlier checkpoint or
goes on as another task, since the ids of calls carry the task's. (`known` spares most of
those too; `runs` counts anew where it cannot be sure.) A refusal ends the turn for every
resume from its checkpoint or a later one, not for a resume from before it, which asks
again and meets the stored no. `PhasesForward`, which is proved and has no
run, is about the steps within a run; a resume may take the task back to an earlier phase.

Two tasks are the least where one overtakes the other, two resumes the least where one
goes on from what a rewind left, and one kept checkpoint may be any. The run takes the two
side by side (`rewinds` of `MCGraphRun` picks one) and not together, for the sake of size;
the theorems of section 10 have both, without bounds. Eight super-steps are one replan
with its report, or a plan of two steps; what takes longer is a resume of the run that
used them up.

`ReplansWithinBudget` (`LG/graph/routing.py` 99-100) has no run: TLC refutes it when
`MaxCounted` is 3, because each tool success resets the counter before the verifier has
spoken. Fairness is weak, of the graph and of people answering; without the second a run
may wait for an approval for ever.

## 6. ApprovalGateway: asking people

`row` is what the repository has of a request, `pending` the gateway's entry (resolved
entries stay), `lock` its asyncio lock. `ask` and `answer` say where each
`request_approval` and `resolve_approval` is; every await is a step.

| Actions | Code |
|---|---|
| `Answered`, `Request` | the durable look-up and the risk level at the head of `request_approval` |
| `BarSave`, `BarDeny` | a blocked call: its row, then its no |
| `Join`, `SaveRequest`, `Register`, `Wake` | under the lock, join the entry or save the row and register; wait for the event |
| `Resolve`, `Lookup` | the first half of `resolve_approval`, under the lock |
| `Persist`, `Confirm` | the decision stored outside the lock, then checked again under it and signalled |
| `AskFails`, `AnswerFails`, `Restart` | cancelled coroutine or failing store; the process stops and `restore` runs |

The look-up at the head of a request is one step with the call: nothing happens between
that a property could see. The two stores differ in one point, which
`LatestCounts` tells: the SQL store is a log of events whose last one counts, so a second
save of a request hides a decision, while the store in memory keeps the first record. It
matters for blocked requests only: any other is saved by a gateway that has no entry
for it.

| Run | What it checks | Bounds |
|---|---|---|
| `ApprovalGateway` | `DecisionDurable`, `WaitersAreKnown`, `AnswersAgree`, `Settles` | a low, a risky and a blocked request, two runs asking, one person, one failure, one restart, SQL store |

With a second person TLC refutes `DecisionMirrored` (`approval_gateway.py` 9) and
`AnswersAgree`, when nothing fails: two answers to one request both pass the check before
either is stored, the first releases the run, and the second replaces it in the store
before it is refused as already resolved. Whoever asks later is told the second.
Two askers are the least where one joins the other's entry; a restart is where the store
must stand in for the process. `AnswersAgree` holds for one person at a time and while
nothing fails: after a failed second half the answer can be given again, differently.
`DecisionDurable` and `AnswersAgree` leave blocked requests out, whose
row is pending for a moment before its no.

`Settles` assumes weak fairness of each coroutine that can go on and strong fairness of
taking the lock, which `asyncio.Lock` hands out in the order of asking. Nobody is assumed
to answer: a request without an answer waits for ever, as in the code.

## 7. TaskLifecycle and TaskStream: the tasks of the API

`TaskLifecycle` has the rows (`thread`, `task`, `run`, a run's number being the order of
its creation) and what lives in the process: `claimed` threads, `active` tasks, `lock` per
thread. `req` says where a coroutine of create or resume is, `exec` where each `_run` is.

| Actions | Code in `task_service.py` |
|---|---|
| `CreateThread`, `CreateTask`, `SaveTask`, `OpenRun`, `NoTask`, `Spawn`, `RequestFails` | `create_task` under the lifecycle lock of the thread: claim, save, open the run, start it |
| `FindTask`, `ClaimResume`, `ResumeRefused`, `StillOpen`, `CloseStale`, `CloseStaleTask`, `Reopen` | `resume_task`: look, claim, close a run that a dead process left open, open the next |
| `Evaluate` | an attempt of an evaluation: a task of its own, without claim or lock |
| `DeleteThread` | `delete_thread`, which the lock and a live run refuse |
| `MarkRunning`, `Finish`, `FinalizeRun`, `SettleTask`, `ExecFails`, `CloseRun`, `Rescue` | `_run` and its `finally`: two rows settled by two calls, and the task that survives a cancelled close |
| `ShutDown`, `Restart` | `shutdown` with its cancellations; a crash or a start, with recovery of what is open |

The run's id is given out when its row is made. With `Sql` the foreign keys refuse rows
whose parent is gone, without it nothing does. One process serves; what recovery does to
a run of *another* live process (`task_service.py` 211) is outside the model.

`TaskStream` is one task's events: rows with their number in the run, the topic with its
bounded history, and readers (`Connect`, `ReadStatus`, `Hydrate`, `Subscribe`, `Leave`)
against a run that stores and then publishes (`AppendEvent`, `Publish`, `SinkFails`), the
approval gateway that stores rows of its own (`StoreApproval`), the end (`Finalize`,
`Close`), the next run (`CreateRun`, `Reopen`) and a restart.

| Run | What it checks | Bounds |
|---|---|---|
| `ApiTasks` | `OneRunPerThread`, `LiveRunUntouched`, `TaskFollowsRun` | two tasks of one thread and an evaluation's, two requests at once, two runs, one failing call, one restart, SQL |
| | `StreamComplete`, `NoReaderLeftBehind` | one reader, two runs of three events, one approval, a topic that keeps four, one failure, one restart |
| `TaskStreamHoles` | refuted: `HistoryHasNoHoles` | the same |

Two requests on one thread are the least that race; two runs of a task are one resume;
one reader meets what another does to the topic as what it does to it in an earlier
connection, and the theorems of section 10 are about any number of readers.
`StreamComplete` states its exceptions: a reader that connects while a run is being
started, a topic that keeps less than the run told, and an event that was lost. Event 0
may come twice to a reader, once from the history and once live, which clients
tolerate; TLC refutes the stricter `NeverBoth`.

Noted while modelling: `LiveOwnerReapsNothing` (the same as `LiveRunUntouched` for
evaluations as well) is refuted, since an evaluation's thread can be deleted or its task
resumed under it; `ResumableWhenIdle` is refuted, since a run whose request failed before
it was started stays `created`, which resume refuses; a task for an unknown track leaves
its records unfinished until the next start.

## 8. The parts of the agent (`MCParts`)

| Module | State and actions | Property | Instance |
|---|---|---|---|
| `SandboxPool` | containers and the pool's lock; `Use`, `Create` ... `Undone`, `Finish`, `Expire`, `Evict`, `TornDown`, `Cut`, `Destroy`, `Stopped` | `ContainersAccounted` | two commands of one session, one of another under the tool manager's timer, three containers, one failing `docker rm` |
| `TurnRetry` | one model turn of each of two runs that share a coordinator; `Ask`, `Chunk`, `StreamEnds`, `Retry`, `Sleep`, `Wake`, `FailOver`, `GiveUp`, `NextTurn`, `Stop` | `RetriesKeepToTheRules` | chain of two models, one retry, two turns |
| `PermissionGate` | the policy chain as an operator, grants, prompts; `Authorize`, `LookUp`, `Park`, `Deliver`, `SaveGrant`, `Drop`, `SetAutoApproveAll` | `NothingRunsUnasked` | two writes of one session, one of a session in plan mode, a read outside the folder |
| `Subagents` | the helpers of a `delegate` or `fan_out` call; `Begin`, `HelperTurn`, `HelperEnds`, `HelperCrashes`, `Answer`, `TimesOut`, `StopParent` | `HelpersContained` | width two of three, two turns, two calls |
| `McpBridge` | provider, clients by workspace, the lock; `Attach`, `Refused`, `Known`, `Enter`, `Listed`, `ListFails`, `CutOff`, `CloseProvider` | `ClosedHoldsNothing` | two sessions in two folders, two providers, four clients |
| `NativeStores` | the dictionaries of `MemoryDatabase` next to the rows of `PostgresDatabase`; one action per call of the interface, with an answer that may be lost and the call sent again | `NativeStoresAgree` | two sessions, a run, a note, three writes, one lost answer |
| `Compaction` | the saved conversation and what is shown of it; `SendMessage`, `Resume` load it, `NeedsCompaction` folds it, `Turn`, `ToolResult` grow it, `Cut` | `FoldsWholePairs` | a window of three, nine messages, batches of two, two interruptions |
| `FileCheckpoints` | a folder whose files hold the set of runs that edited them, snapshots, the index of each process; `FirstEdit`, `CopyFile`, `Add`, `SaveIndex`, `Edit`, `Rewind`, `MirrorFile`, `ProcessEnds` | `RewindUndoesTheRun` | two runs in two processes, a file and a skipped directory, one failure, one rewind |

The run `Parts` checks all eight; `LaterRewindFindsIt` is refuted by the same instance of
`FileCheckpoints`. Each instance has the least
number of actors that meet: two calls and a deletion for a container, two prompts of one
session and one of another, two first attachments. A container, a client or a snapshot is
never made twice, so their numbers bound the steps.

What is left open on purpose: what a provider, a tool, docker or a person does is a
choice; which paths an argument names is given with the call; the size of a conversation
is a choice, so any turn may fold. Left out: console and static responders, the text of
summaries, container command lines, redaction. `NativeStores` makes every call one step
but an event, whose number and row are two; who makes the calls and when is in
`NativeRun` and `EventBus`.

`NativeStoresAgree` names the two answers in which the native stores differ, and in which
PostgreSQL has more. The first event of a run makes a row of it (`_ensure_run`), so
`get_run` and `list_runs` answer a record with status "running" where memory answers None
(`OnlyReceipts`, from the comment of `get_run`, is refuted); and every event comes back with its run in its data, an event
outside any run under a run named "session".

Promises of the code's comments that TLC refutes when they are named in the cfg, which
are stated at the end of their modules:
- `NoWorkAfterTimeout` (`SandboxPool`): the tool manager's timer is as long as the
  runner's and starts earlier, so the command it cuts off runs on in its container;
- `EscapesAreAsked`, and `WaitersAreListed` when two calls have one id (`PermissionGate`);
- `ReceiptsKept` (`Subagents`): the next call of the same helper in a run has the same run
  ids and replaces the receipts;
- `AttachedHasTools`, `ShutdownClosesAll` (`McpBridge`): of two first attachments at once
  the later one's provider replaces the earlier one's, which nobody closes;
- `DeletedStaysDeleted` under `LateCalls` (`NativeStores`): an event
  of a deleted session brings its thread back through `_ensure_run` in PostgreSQL, while
  a late message fails there on its foreign key and is kept in memory;
- `OneSummary` (`Compaction`): the summary is a system message, which the next fold counts
  among the leading ones;
- `DropsOnlyTheNew` (`FileCheckpoints`): files under skipped directories are in no snapshot,
  and a rewind deletes them.

Also seen in the code and stated by no property: a `next_sequence` sent twice skips a
number and a `save_permission` sent twice stores a second row; receipts are listed in
another order by PostgreSQL; the store in memory keeps the message objects themselves,
so a later change shows; a rewind restores neither empty directories nor symbolic links;
`CheckpointStore.clear` has no caller.

## 9. The parts of the API (`MCServices`)

| Module | State and actions | Property | Instance |
|---|---|---|---|
| `BlobStore` | the objects, the one row that holds them all, a lock, a worker thread per call; `SaveRecord`, `Delete`, `Pickle`, `Store`, `WriteFails`, `Return`, `Cancel`, `Close`, `Crash`, `Reopen` | `ToldIsStored` | two objects, two callers, two changes each, one fault |
| `TaskStores` | `InMemoryTaskRepository` next to the rows of PostgreSQL; one action per call | `StoresAgree` | two tasks in two threads, two runs, a call, a request for approval |
| `RunRecords` | the plans and verdicts of a graph run as the event sink stores them; `PlanCreated`, `VerificationRecorded`, `Resume` | `VerdictsOnTheirSteps` | three plans of two steps, one resume, one failing call |
| `EvaluationRuns` | evaluations, attempts, results and scores, and the dashboards of both stores as operators over them | `EvaluationsAddUp` | two suites on two tracks, two requests, two attempts, one stop |
| `EvaluationHarness` | the rows of the command-line evaluation, its file, the judge's attempts and usage; `RunCase`, `Fails`, `Answered`, `Write`, `Rejudge`, `NextRow`, `WriteJudged`, `Interrupt` | `JudgingStaysApart` | two cases, one without checks, on two tracks, one retry, judged again once |
| `RunRequests` | registry and index of cancellations, the resume lock, requests with their streams; `StartRun`, `Emit`, `Ends`, `CancelRun`, `CancelSession`, `Read`, `GiveReceipt`, `Disconnect`, `Peek` | `RequestsMindTheirRuns` | two sends, a resume, cancels, two events |
| `LiveSettings` | what is configured on each track and what clients were built from; the halves of each PATCH around its await on Ollama, runs that begin | `CallsGoHome` | two PATCHes per track out of six bodies, and the judge's |
| `EventBus` | section 4 | `HandedInOrder` | section 4 |

The run `Services` checks them. `TaskStores` and `NativeStores`
do not model one store against an ideal: they make the same call on both and compare every
answer a caller can get, so the property is the refactoring contract of the repository
seam, for the calls made in every order. The SQL side is the statements of `_sql.py` and
`postgres.py` (`ON CONFLICT`, joins, foreign keys), the memory side the dictionaries.
`SQLiteTaskRepository` and `SQLiteDatabase` inherit the dictionaries and write their
image, which is `BlobStore`.

`Setting` of `TaskStores` keeps `DeletesEvaluated` `FALSE`: threads of evaluated runs are
not deleted, for then the stores differ (foreign keys keep what the dictionaries drop);
and `Usages` has calls whose provider reports both counts or none, but not one of the two,
for then their totals differ (the run has only the first kind, and runs without a call;
the theorem has all). Two differences remain and are part of what `StoresAgree` says. A
run whose calls reported nothing, or that made none, has 0 tokens and a cost of 0.0 in
memory and None in PostgreSQL; the evaluation takes the one for the other
(`task_service.py` 774-778), so the property compares them as it does (`NoneAsZero`), and
`MetricsAlike`, the sentence of `memory.py` 3-6 to the letter, is refuted. And a call for
a run that was deleted raises KeyError in memory, where an UPDATE of PostgreSQL matches no
row and an INSERT breaks its foreign key: no call fails in PostgreSQL alone (`raised`). In
`EvaluationRuns` one path is left out: when neither `_run` nor the call after it can
finalize a run (725-742), which takes a PostgreSQL that fails both and answers the reads
around them, the run stays open beside its failed result until recovery. `Cancels` stays
`FALSE` in the run: a cancelled call's thread may store an older image after a newer one,
and TLC refutes `ToldIsStored` at once when it is `TRUE`. `ResumesLive` is `FALSE`, as
`NativeRunSingleLoopPerRun` shows what such a resume does. `Builds` is `{TRUE}`: a model
client that refuses its settings refutes `RefusedChangesNothing`.

Refuted when named in the cfg, stated at the end of their modules:
- `MetricsAlike` (`TaskStores`), see above;
- `LikeWithLike` (`EvaluationRuns`, `memory.py` 41-44): without a suite that ran on both
  tracks the dashboard puts evaluations of different suites side by side;
- `SpentAgrees`, `MetricsAgree` (`EvaluationRuns`), and `DashboardsAgree` when two suites have
  one label: the SQL store knows a suite by its name and version;
- `VerdictsOnTheirSteps` when the write of an event or a phase may fail (`FaultAt`): the
  mapping from step numbers to rows is then that of the plan before;
- `EndsOnOwnEnd`, `DisconnectSparesRun` (`RunRequests`): a stream may end on the end of a
  helper once the run is over, and a client that leaves after an error event cancels
  the run;
- `ModelOfItsProvider`, `UrlOfItsProvider`, `ProviderStays`, `RefusedChangesNothing`
  (`LiveSettings`);
- `CompareWorks` (`EvaluationHarness`): a run writes the results of both tracks into one
  file, so comparing that file always ends in "duplicate case IDs", which
  `evaluation/README.md` 51 offers as the use of it.

Also seen and stated by no property: judging a file again scores rows whose run failed or
wrote nothing, which the run itself leaves out; two cases of one suite with the same
id violate a UNIQUE of the schema; native runs in progress take new sampling parameters
with their old model; retrying a failed delete of a blob answers "not found" and
stores nothing; `upsert_tool` is neither locked nor written by the SQLite store.

## 10. What is proved

All proofs are checked for every value of the constants that satisfies the named
assumptions, with any number of tasks, clients, calls and faults.

`NativeRunProofs`. `TypeCorrect`, `WriteBarrierHolds` and `StopBoundsHolds` need no
condition: the invariant is `TypeOK` with `BatchOK`, which says what each stage of a batch
knows of the phases of its calls, and for the third `LateOK`: a write that began after the
stop was the last its group had to begin, and no group begins after it.
`AtMostOncePerLossHolds`, `AnsweredOnceHolds`, `SavedNeverRerunHolds` and
`OneReceiptHolds` assume `~Overlap`, one request at a time, as the refuted
`SingleLoopPerRun` shows they must. They rest on `SerialInv`: at most one task is active,
an open call of a reply has no saved result unless its phase says so, and what is in
flight is accounted for in `lost`. Neither `AnsweredOnce` nor `SavedNeverRerun` is
inductive alone, because which calls a resume runs again depends on the saved messages,
and those on the phases of the run before. `CurrentTurnHolds` needs, beyond that, that a
resume's batch is the rest of the last reply (`RestOf`) and that the calls of a reply were
never asked before (`AskedOnce`). `OneReceiptHolds` adds `ReceiptOK`: neither the run that
is served nor the run the end of the log would resume has a receipt yet, unless a gathered
sibling outlived it.

`EventBusProofs`. `TypeCorrect` and `HandedInOrderHolds` hold without condition: whatever
fails or is deleted, what a client was handed rises, and what it is to be handed is behind
that (`Ordered`; a client of the catch-up endpoint only until a deletion).
`SavedInOrderHolds` assumes only that no session is deleted. `GapFreeHolds` and
`Implements` are under `Plain`: no cut saves, no deletion, no client of the catch-up
endpoint. `ServicesProofs` cites the first for the instance of the run `Services`
(`ClientsAlwaysHearInOrder`). The invariant is `BusInv`: type correctness, what
the log and the numbered events of the emitters have to do with the counter (`LogOK`), and
that a client's handed events, its backlog, its queue and the event on its way to the
queue together are the log from where it joined (`BusOK`). `Implements` maps a client's
cursor to what it has seen and shows that each step is a step of `EventLog` or a stutter.

`EventsAndApprovalsProofs` on the gateway, for either store. `GatewayTypeHolds`,
`WaitersAreKnownHolds` and `DecisionDurableHolds` hold with any failures and any number of
people at once. They rest on `Known`, what each stage knows of the entry and the row of
its request (whoever saves a request under the lock is the only one that may register it),
and on `Stored`, that an answer waiting to be signalled is in the store.
`AnswersAgreeHolds` assumes `SingleAnswerer`, which two answerers refute (section 6); its
invariant `Agree` says of each request that nothing underway can decide its row a second
time.

`TaskLifecycleProofs`. `TypeHolds`, `OneRunAlways` and `LiveRunAlwaysUntouched` assume
`EvalsApart`: an evaluation's attempt runs in a thread named after it, where no client has
made a task. The invariant says that a request at work on a task people write to holds
the lock and the claim of its thread (`Locks`), that a run a request is about to start
was started by nobody else (`Spawning`), that a run at work keeps its thread claimed and
its lock free (`Alone`), and that whoever keeps a claim will give it back (`Backed`). A
claim needs the lock and is refused while the thread is claimed, so two runs cannot
meet. For `LiveRunUntouched`, which also needs `Sql`, `Rowed` adds what each stage of a
request and of a run knows of the rows. `TaskFollowsAlways` rests on the same with `Owned`
and `Follows`: while nothing fails, a task's row says what its latest run's row says, or a
request or a run is at work that will see to it.

`GraphRunProofs`, without condition: any number of tasks, each resumed any number of times
from any checkpoint. `CallsHold`, `StreakHolds`, `SuccessHolds`, `ApprovalHolds` and
`PhasesHold` each have a strengthening of their own over type correctness (`Typed`), since
one promise seldom needs what another does. What a resume may load must satisfy it too, so
those about the thread are stated of a checkpoint and hold at all of them (`Points`): the
state at hand, the latest one, those that are kept, and none. `StreakHolds`
rests on `Fresh`, that steps the executor has not come to are still as planned, and on
`Budgeted`: replans since a success are no more than the failures counted since, with
budget left wherever the graph may still plan or call. `CallsHold` rests on `Due`, a call
that was made and not excused is known to this run or stored for the next one, and on
`Ending`, the way of a refusal from the failed step through the verifier and the error
handler to the responder. `SuccessHolds` adds `Backed`: a completed step has its stored
call, and a failure that no accepted step made up for has left an error. `ApprovalHolds`
needs `Agreed`, that a yes on record is a human's, which is where the id of an
approval must tell calls apart.

`PartsProofs`, one theorem for each part of section 8 but `NativeStores`. Each assumes the
`Setting` of its module, what the code's configuration guarantees of the constants;
`MCParts` states the same of its values, and TLC evaluates it.
- `AccountedAlways` (and `PoolTypeHolds`), of the container pool, rests on `Exclusive` (a
  container has one maker), `Numbered`, `Undoing` and `Working` (who may refer to a
  container in which state), and on `Torn`: whoever was timed out has its container on the
  way out.
- `ClosedAlwaysHoldsNothing`: each stage of a connect knows whether its client is in the
  provider's table (`Connecting`), and every open client has somebody who will close it
  (`Accounted`).
- `RetriesAlwaysKeepToTheRules`: the requests made so far are at most the shares of the
  models and turns gone by and the attempts of the present one (`Paid`); after a stop at
  most one more is made (`LateOnce`).
- `NothingEverRunsUnasked` also assumes `OwnIds`, that prompts have ids of their own. The
  strictest of a chain allows only what each policy allows (`StrictestOf`,
  `RulesOnlyTighten`), answers belong to their prompts (`AnswersTheirOwn`), and a grant in
  force was said by somebody (`GrantsAreYeses`).
- `HelpersAreAlwaysContained`: helpers are open only under a call that waits for them
  (`Contained`), and no more are at work than there are slots, a fact about cardinalities.
- `FoldsAlwaysKeepPairs`: of the stored conversation, that open calls belong to its last
  reply and only results follow that (`Stored`); of what is shown, that it is made of
  stored messages and of summaries which only the system's messages precede (`Shown`). A
  cut that parted a call from its result would have a result behind it (`ShownFolded`).
- `RewindsAlwaysUndo`: a listed snapshot is whole (`ListsWholes`), an edit comes after the
  snapshot of its run (`EditsComeAfter`), and each step of a restore leaves less to do
  (`Restores`).

`ServicesProofs`, the same for section 9.
- `ToldStays`, when calls are not cancelled: the image a thread pickled covers all that was
  told, since the lock lets one call at a time change, pickle and store (`Covered`), and
  the row is never ahead of the objects (`Behind`).
- `StoresAlwaysAgree`, in the `Setting` above. The two stores do not keep a run or an
  approval in the same shape: the run last in the order of the ids is the one with the last
  attempt number of its task (`RunsMatch`), and the entry of an approval says what the last
  of its rows says, a row that goes with its task (`ApprovalsMatch`). `LatestAgree` and
  `StatesAgree` turn that into equal answers; `NowIsLater` is that rows have a next time,
  and `FailuresMatch` that what
  fails in PostgreSQL fails in memory.
- `VerdictsAlwaysOnTheirSteps`, when only the calls for a plan or a verdict fail: the
  mapping from numbers to rows is that of the plan at work (`NumbersAreCurrent`).
- `CallsAlwaysGoHome`, when clients accept their settings (`Builds = {TRUE}`): every client,
  and every client about to be installed, has the key of its own provider (`AllHomely`).
- `StreamsAlwaysTellTheRun` and, when no live run is resumed (`~ResumesLive`),
  `RequestsAlwaysMindTheirRuns`: a stream has read the events of its run up to a number,
  in order (`Serving`, `Numbered`, `Hears`), and a run is in the registry exactly while
  somebody serves it (`Registered`).

`EvaluationProofs`, evaluations on the command line and in the API.
- `JudgingAlwaysStaysApart`: the judge is at one row, which has paid for all that was used
  since the last verdict, and every other row is settled (`OneAtATime`, `FileSettled`).
- `EvaluationsAlwaysAddUp`, in the `Setting` of `EvaluationRuns`: the two tracks, a suite has a case, a case
  an attempt, and suites differ in name or version. A job knows its evaluation, its case and
  its stage: what is behind it is done, what it is at has the attempts and the result its
  stage says (`InStage`), ahead of it is nothing (`JobsInPlace`), and no two jobs share an
  evaluation (`JobsApart`). So a case has at most one result and one attempt that runs
  (`TriesAreRight`, `ResultsAreRight`), and an evaluation that ended without a stop has all
  of its results (`FinishedIsDone`). The dashboards are then equal operator by operator
  (`TotalsAgree`, `BreakdownsAgree`, `SpentAgree`, `ExecutionsAgree`, `ComparisonsAgree`):
  what one counts by walking its records and the other by joining rows is the same set, or
  one set is the image of the other under a map that takes no two elements to one.

`EventsAndApprovalsProofs` on the events, for any readers, runs, events, approvals,
failures and restarts, and for a store that keeps approvals among the events or apart.
- `NoReaderIsLeftBehind`: between two runs, who looked at the task before the latest run was
  over has gone, and who looked since closes the topic before it waits on it
  (`NobodyWaits`).
- `StreamsAreAlwaysComplete`. The rows of a run are numbered without a gap, each event under
  its own number or lost to an approval (`RowsInOrder`), so there are at most as many lost
  as approvals (an injection), and the history of a run that lost none begins with its
  events in order (`ListIs`, `HistoryTells`). While nothing disturbs the stream
  (`Undisturbed`, the exceptions `StreamComplete` names), what the topic keeps, the history
  that may fill it and what each reader was handed all tell the published events
  (`Telling`): each of them, in order, only a first one twice. Publishing goes on with
  such a sequence (`TellsNext`), and a history is put only into a topic that is empty,
  which a run that has published anything does not have.

Only model-checked: liveness (`RunSettles`, `RunEnds`, `Settles`, the fairness half of
`Promise`), since ENABLED and fairness are out of the prover's reach; and
`NativeStoresAgree`: the tokens its receipts add up, the copies a fork makes, the messages
of one thread and the logs in order are a sum, a fold, a selection and a sort, and what
those yield for every input takes an induction over data. No module uses RECURSIVE operators,
so all of them stay open to proof.

## 11. Findings

Four runs have a property the repository promises and the code does not keep;
`PROJECT.json` quotes the line of each promise:
- `NativeRunSingleLoopPerRun`: a resume of a run that is still served starts a second
  loop on its id;
- `GraphOwnGoal`: an older task of a thread resumed after a newer one ended goes on from
  the newer one's checkpoint, and is reported COMPLETED on it;
- `TaskStreamHoles`: an approval row takes the number the run gives its next event, which
  the SQL store then drops without an error;
- `LaterRewindFindsIt`: a process starts with an empty list of snapshots and writes it over
  the index an earlier process left.

Sections 3 to 9 name the promises that are refuted without a run of their own.

## 12. Hazards no property covers

- `AN/service.py` 310, a crash between the save of the user's message and its event, and
  `AN/loop.py` 1003, a crash after a cut-off reply was saved: the model has both, and the
  promises they break (`InterruptedRunResumes`, `StoppedStaysStopped`) are refuted.
- `AN/loop.py` 1015, call ids a model uses twice in a session: calls are distinct here.
- `API/services/approval_gateway.py` 111, the pending row of a blocked request before its
  no: the properties leave blocked requests out.
- `API/services/approval_gateway.py` 198, two answers at once: refuted, see section 6.
- `AN/permissions.py` 508, two prompts under one id: refuted, see section 8.
- `API/services/task_service.py` 211, recovery while another process serves: one process
  is modelled.
- `AN/database.py` 181, the numbers of a deleted session start again: `SkipsOnlySeen` of
  `EventBus` states what its subscribers lose, and is refuted under `MaxDeletes = 1`.
- `AN/tools/subagent.py` 403, the receipts of helpers: `ReceiptsKept` is refuted.

## 13. Not modelled

The desktop client, SQL migrations and images, telemetry, scoring of texts, the MCP tool
servers, model adapters, prompt texts, redaction, schemas and routers without state
keep no protocol state. PostgreSQL is taken at its contract: a statement is atomic, a
transaction is all or nothing. The orchestrator adapter of the native track forwards
events best effort and is seen as any orchestrator; `create_session`, `fork_session` and
the permission facade of the service are calls on `NativeStores` without a protocol of
their own. The judge and the parsing of model output inside the graph are choices.
