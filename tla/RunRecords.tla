------------------------------ MODULE RunRecords ------------------------------
(***************************************************************************)
(* What a graph run leaves in the normalized tables: the service's event   *)
(* sink stores each plan under ids of its own and each verdict under the   *)
(* row of the step it judges.  The graph numbers the steps of every plan   *)
(* from one, so the sink remembers which row a number stands for - for the *)
(* plan that was stored last.                                              *)
(*                                                                         *)
(* Planner and verifier swallow what the sink raises, so a failing call of *)
(* the repository loses a row and the run goes on.                         *)
(***************************************************************************)
EXTENDS Naturals, FiniteSets, Functions

CONSTANTS FaultAt,   \* calls that may fail: "event", "phase", "plan", "verdict"
          MaxPlans, MaxSteps, MaxResumes, MaxFaults \* bounds

VARIABLES
  planNo,    \* the plan the graph works on, and how many steps it has
  planLen,
  current,   \* the step to be judged next; beyond planLen: replan
  stepIds,   \* step_ids: [number -> row] of this run
  stepRow,   \* rows of plan_steps: <<plan, number>>
  verdictRow,\* rows of verification_results: [row, judged]; one attempt per row
  given,     \* steps the verifier judged in this run
  resumes, faults

vars == <<planNo, planLen, current, stepIds, stepRow, verdictRow, given, resumes, faults>>

None == [n \in {} |-> n]

Init ==
  /\ planNo = 0 /\ planLen = 0 /\ current = 1
  /\ stepIds = None /\ stepRow = {} /\ verdictRow = {} /\ given = {}
  /\ resumes = 0 /\ faults = 0

\* A call fails, or none does.
Fails(where) == where \in FaultAt /\ faults < MaxFaults /\ faults' = faults + 1
Works == UNCHANGED faults

\* planner: a new plan of n steps replaces the one before.
NewPlan(n) ==
  /\ planNo < MaxPlans /\ current > planLen
  /\ planNo' = planNo + 1 /\ planLen' = n /\ current' = 1
  /\ UNCHANGED <<verdictRow, given, resumes>>

\* Mutant of Numbered: a number that is known keeps its row.
NumberedOnce(n, p) ==
  [i \in 1 .. n \cup DOMAIN stepIds |-> IF i \in DOMAIN stepIds THEN stepIds[i] ELSE <<p, i>>]
\* The numbers 1 .. n stand for the rows of plan p from now on.
Numbered(n, p) ==
  [i \in 1 .. n \cup DOMAIN stepIds |-> IF i <= n THEN <<p, i>> ELSE stepIds[i]]

\* on_event(plan_created): the event, a phase for the plan, the plan with its steps in
\* one transaction; the numbers of a plan that could not be stored are forgotten.
PlanCreated ==
  \E n \in 1 .. MaxSteps :
    /\ NewPlan(n)
    /\ \/ /\ Works
          /\ stepIds' = Numbered(n, planNo')
          /\ stepRow' = stepRow \cup {<<planNo', i>> : i \in 1 .. n}
       \/ /\ Fails("event") \/ Fails("phase")
          /\ UNCHANGED <<stepIds, stepRow>>
       \/ /\ Fails("plan")
          /\ stepIds' = Restrict(stepIds, DOMAIN stepIds \ 1 .. n)
          /\ UNCHANGED stepRow

\* on_event(verification_recorded): a verdict on a number without a row is not stored;
\* every verdict is a first attempt, which a row takes once.
SaveVerification(i) ==
  LET row == stepIds[i]
  IN  IF i \in DOMAIN stepIds /\ row \in stepRow /\ ~\E v \in verdictRow : v.row = row
      THEN verdictRow' = verdictRow \cup {[row |-> row, judged |-> <<planNo, i>>]}
      ELSE UNCHANGED verdictRow

\* verifier: the step is judged once; a rejected one is replanned around.
VerificationRecorded ==
  /\ current <= planLen
  /\ current' \in {current + 1, planLen + 1}
  /\ given' = given \cup {<<planNo, current>>}
  /\ \/ Works /\ SaveVerification(current)
     \/ (Fails("event") \/ Fails("verdict")) /\ UNCHANGED verdictRow
  /\ UNCHANGED <<planNo, planLen, stepIds, stepRow, resumes>>

\* The run dies and is resumed from its checkpoint under a run id of its own, whose
\* sink knows no step; the verifier may judge a step again.
Resume ==
  /\ resumes < MaxResumes /\ resumes' = resumes + 1
  /\ \/ UNCHANGED current
     \/ current \in 2 .. planLen /\ current' = current - 1
  /\ stepIds' = None /\ given' = {}
  /\ UNCHANGED <<planNo, planLen, stepRow, verdictRow, faults>>

Next == PlanCreated \/ VerificationRecorded \/ Resume

Spec == Init /\ [][Next]_vars

------------------------------------------------------------------------------
\* A verdict is kept with the step it was given on and no other, whatever was replanned,
\* resumed or could not be stored; and none is lost without a failing call or a resume
\* (task_service.py 904-908: the mapping is remembered "so later verification events can
\* resolve the step they judge").
VerdictsOnTheirSteps ==
  /\ \A v \in verdictRow : v.row = v.judged
  /\ faults = 0 /\ resumes = 0 => given = {v.judged : v \in verdictRow}

===============================================================================
