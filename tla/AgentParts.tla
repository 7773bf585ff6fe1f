------------------------------ MODULE AgentParts ------------------------------
(***************************************************************************)
(* The smaller parts of the agent side by side, and what each promises.    *)
(* MCParts checks the promises on small instances, PartsProofs proves them *)
(* for every value of the constants.  The parts share no state.            *)
(***************************************************************************)

(* Retries and failover. *)
CONSTANTS Run, NoRun, Models, MaxRetries, MaxTurns, MaxChunks
VARIABLES turnAt, active, attempt, streamed, stopped, sleeper, turn, requests, late,
          shown, calls
turnVars == <<turnAt, active, attempt, streamed, stopped, sleeper, turn, requests,
              late, shown, calls>>

Turn == INSTANCE TurnRetry

\* No text is shown twice and no request is one too many, whatever fails and however often
\* a run is stopped.  (AgentLoop._attempt_turn_with_retries, run_turn)
RetriesKeepToTheRules == Turn!RetriesKeepToTheRules

------------------------------------------------------------------------------
(* Permissions. *)
CONSTANTS ToolCall, AskOf, ReadOnly, Safe, Rules, Inside, Anywhere, Scopes, NoAsk
VARIABLES askAt, auto, waiting, answer, grants, said, excused, toggles
permVars == <<askAt, auto, waiting, answer, grants, said, excused, toggles>>

Gate == INSTANCE PermissionGate WITH Ask <- ToolCall

\* Nothing runs that plan mode forbids or that needed a yes nobody gave, whatever the order
\* of requests, answers and toggles.  (ToolManager.authorize, PermissionManager.ask)
NothingRunsUnasked == Gate!NothingRunsUnasked

------------------------------------------------------------------------------
(* Subagents. *)
CONSTANTS Parallel, TurnCap, MaxWidth, MaxCalls
VARIABLES callAt, fan, child, turnsOf, haltFlag, receipts, callNo, receipted
helperVars == <<callAt, fan, child, turnsOf, haltFlag, receipts, callNo, receipted>>

Help == INSTANCE Subagents

\* No helper outlives its call, and no more of them run than tools may.
\* (FanOutTool.execute, ToolManager.run_authorized)
HelpersContained == Help!HelpersContained

------------------------------------------------------------------------------
(* Tool connections. *)
CONSTANTS Sender, Workspace, WorkspaceOf, NoSender, MaxProviders, MaxClients, MaxAttaches
VARIABLES provider, tools, clientOf, connector, shut, open, attachAt, mine, dialled,
          madeBy, cut, providers, attaches
mcpVars == <<provider, tools, clientOf, connector, shut, open, attachAt, mine,
             dialled, madeBy, cut, providers, attaches>>

Mcp == INSTANCE McpBridge

\* A closed provider holds no connection and gets none from a connect under way.
\* (MCPToolProvider.connect, close)
ClosedHoldsNothing == Mcp!ClosedHoldsNothing

------------------------------------------------------------------------------
(* Compaction. *)
CONSTANTS RecentWindow, MaxSaved, MaxBatch, MaxCuts
VARIABLES savedMessages, window, foldAt, cuts
foldVars == <<savedMessages, window, foldAt, cuts>>

Fold == INSTANCE Compaction WITH saved <- savedMessages, shown <- window, at <- foldAt

\* Nothing stored is lost from what the model is shown, and no call is parted from its
\* result.  (context.py 4-8, protect_recent_messages)
FoldsWholePairs == Fold!FoldsWholePairs

------------------------------------------------------------------------------
(* Snapshots of the working folder. *)
CONSTANTS Process, Path, Skipped, Original, MaxCheckpointFaults, MaxRewinds
VARIABLES folder, host, snapAt, left, copy, known, payload, listed, target, unmirrored,
          edited, unsafe, rewound, rewinds, checkpointFaults
checkpointVars == <<folder, host, snapAt, left, copy, known, payload, listed, target,
                    unmirrored, edited, unsafe, rewound, rewinds, checkpointFaults>>

Files == INSTANCE FileCheckpoints
  WITH MaxFaults <- MaxCheckpointFaults, at <- snapAt, faults <- checkpointFaults

\* A listed snapshot is whole and older than the edits of its run, and a restore leaves
\* exactly what it has.  (checkpoint.py 71-77, 255-261)
RewindUndoesTheRun == Files!RewindUndoesTheRun

\* A run that edited the folder can be undone by a later process (checkpoint.py 237-238:
\* "a later `rewind` finds it").  TLC refutes it.
LaterRewindFindsIt == Files!LaterRewindFindsIt

===============================================================================
