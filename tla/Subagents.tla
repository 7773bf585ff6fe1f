------------------------------ MODULE Subagents ------------------------------
(***************************************************************************)
(* The delegate and fan_out tools of one native run: a helper run per job, *)
(* at most Parallel of them at a time, under the parent's stop and the     *)
(* tool manager's timer.  Both tools write, so the parent makes one such   *)
(* call at a time.                                                         *)
(***************************************************************************)
EXTENDS Integers, FiniteSets

CONSTANTS Parallel,  \* Limits.max_parallel_tools; may be zero or below
          TurnCap,   \* _helper_turn_cap
          MaxWidth,  \* MAX_FANOUT_WIDTH
          MaxCalls   \* bound: calls of the two tools

\* What the constants are.
Setting == Parallel \in Int /\ TurnCap \in Nat /\ MaxWidth \in Nat /\ MaxCalls \in Nat

VARIABLES
  callAt,    \* "none", "running", "answered": the latest call
  fan,       \* it is a fan_out
  child,     \* 1 .. MaxWidth -> "none", "queued", "running" or how the helper ended
  turnsOf,   \* 1 .. MaxWidth -> turns the helper took
  haltFlag,  \* the cancellation the parent shares with its helpers
  receipts   \* stored receipts: run id -> the job it is of; the id is what differs in it

\* What happened, for the properties.
VARIABLES
  callNo,    \* calls made
  receipted  \* jobs a receipt was saved of

helperVars == <<callAt, fan, child, turnsOf, haltFlag, receipts, callNo, receipted>>

Index == 1 .. MaxWidth
Slots == IF Parallel < 1 THEN 1 ELSE Parallel
Busy == {i \in Index : child[i] = "running"}
Open == {i \in Index : child[i] \in {"queued", "running"}}

\* {parent}/{name} for delegate, with #i for the i-th job of a fan_out.
RunId(i) == IF fan THEN i ELSE 0

Init ==
  /\ callAt = "none" /\ fan = FALSE
  /\ child = [i \in Index |-> "none"]
  /\ turnsOf = [i \in Index |-> 0]
  /\ haltFlag = FALSE
  /\ receipts = [id \in Index \cup {0} |-> <<0, 0>>]
  /\ callNo = 0 /\ receipted = {}

Opens(width) ==
  /\ callAt # "running" /\ ~haltFlag /\ callNo < MaxCalls
  /\ callNo' = callNo + 1
  /\ callAt' = "running"
  /\ child' = [i \in Index |-> IF i <= width THEN "queued" ELSE "none"]
  /\ turnsOf' = [i \in Index |-> 0]
  /\ UNCHANGED <<haltFlag, receipts, receipted>>

Delegate == Opens(1) /\ fan' = FALSE
FanOut == fan' = TRUE /\ \E width \in Index : Opens(width)

\* No such helper, no job, or more jobs than MAX_FANOUT_WIDTH: the model is told.
Malformed ==
  /\ callAt # "running" /\ ~haltFlag /\ callNo < MaxCalls
  /\ callNo' = callNo + 1
  /\ callAt' = "answered"
  /\ UNCHANGED <<fan, child, turnsOf, haltFlag, receipts, receipted>>

------------------------------------------------------------------------------
Ends(i, outcome) == child' = [child EXCEPT ![i] = outcome]

\* Mutant of Begin: a limit of zero or below is taken as it is.
BeginUnclamped(i) ==
  /\ child[i] = "queued" /\ Cardinality(Busy) < Parallel + 2
  /\ Ends(i, "running")
  /\ UNCHANGED <<callAt, fan, turnsOf, haltFlag, receipts, callNo, receipted>>

\* The semaphore lets the helper's own loop start.
Begin(i) ==
  /\ child[i] = "queued" /\ Cardinality(Busy) < Slots
  /\ Ends(i, "running")
  /\ UNCHANGED <<callAt, fan, turnsOf, haltFlag, receipts, callNo, receipted>>

HelperTurn(i) ==
  /\ child[i] = "running" /\ ~haltFlag /\ turnsOf[i] < TurnCap
  /\ turnsOf' = [turnsOf EXCEPT ![i] = @ + 1]
  /\ UNCHANGED <<callAt, fan, child, haltFlag, receipts, callNo, receipted>>

\* The helper's loop ends and saves its receipt under the run id.
HelperEnds(i) ==
  /\ child[i] = "running"
  /\ \/ turnsOf[i] > 0 /\ Ends(i, "finished")
     \/ turnsOf[i] = TurnCap /\ Ends(i, "limit")
     \/ haltFlag /\ Ends(i, "cancelled")
     \/ Ends(i, "error")
  /\ receipts' = [receipts EXCEPT ![RunId(i)] = <<callNo, i>>]
  /\ receipted' = receipted \cup {<<callNo, i>>}
  /\ UNCHANGED <<callAt, fan, turnsOf, haltFlag, callNo>>

\* It raises before its loop runs, or the loop cannot record its end.
HelperCrashes(i) ==
  /\ child[i] = "running"
  /\ Ends(i, "crashed")
  /\ UNCHANGED <<callAt, fan, turnsOf, haltFlag, receipts, callNo, receipted>>

\* Mutant of Answer: gather without return_exceptions raises at the first crash.
AnswerAtFirstCrash ==
  /\ callAt = "running" /\ (Open = {} \/ \E i \in Index : child[i] = "crashed")
  /\ callAt' = "answered"
  /\ UNCHANGED <<fan, child, turnsOf, haltFlag, receipts, callNo, receipted>>

\* gather has every outcome, crashes among them.
Answer ==
  /\ callAt = "running" /\ Open = {}
  /\ callAt' = "answered"
  /\ UNCHANGED <<fan, child, turnsOf, haltFlag, receipts, callNo, receipted>>

\* The tool manager's timer cancels the call and with it every helper; what a cancelled
\* loop leaves behind is neither a receipt nor an end of its run.
TimesOut ==
  /\ callAt = "running"
  /\ callAt' = "answered"
  /\ child' = [i \in Index |-> IF i \in Open THEN "cut" ELSE child[i]]
  /\ UNCHANGED <<fan, turnsOf, haltFlag, receipts, callNo, receipted>>

StopParent ==
  /\ ~haltFlag
  /\ haltFlag' = TRUE
  /\ UNCHANGED <<callAt, fan, child, turnsOf, receipts, callNo, receipted>>

Next ==
  \/ Delegate \/ FanOut \/ Malformed \/ Answer \/ TimesOut \/ StopParent
  \/ \E i \in Index : Begin(i) \/ HelperTurn(i) \/ HelperEnds(i) \/ HelperCrashes(i)

Spec == Init /\ [][Next]_helperVars

------------------------------------------------------------------------------
TypeOK ==
  /\ callAt \in {"none", "running", "answered"}
  /\ fan \in BOOLEAN /\ haltFlag \in BOOLEAN
  /\ child \in [Index -> {"none", "queued", "running", "finished", "limit",
                          "cancelled", "error", "crashed", "cut"}]
  /\ turnsOf \in [Index -> 0 .. TurnCap]
  /\ callNo \in 0 .. MaxCalls
  /\ receipted \subseteq (1 .. MaxCalls) \X Index
  /\ receipts \in [Index \cup {0} -> receipted \cup {<<0, 0>>}]

\* When the model has its answer no helper of the call goes on, whatever crashed, was
\* stopped or timed out; until then no more of them run than tools may.
\* (FanOutTool.execute, ToolManager.run_authorized)
HelpersContained ==
  /\ callAt # "running" => Open = {}
  /\ Cardinality(Busy) <= Slots

\* Expected to fail: a receipt stays the one of its job.  The next call of the same
\* helper in the run has the same run ids and replaces it.
ReceiptsKept == \A job \in receipted : \E id \in DOMAIN receipts : receipts[id] = job

===============================================================================
