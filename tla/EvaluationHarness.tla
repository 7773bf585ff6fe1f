--------------------------- MODULE EvaluationHarness ---------------------------
(***************************************************************************)
(* The command-line evaluation: a suite runs case by case on one track     *)
(* after the other, a judge (optional, one for all) looks at what was      *)
(* written, and the file of results is written when all is done.  A file   *)
(* can be judged again, and two files compared.  The judge is the one the  *)
(* API shares among the tracks of an evaluation.                           *)
(*                                                                         *)
(* What an agent writes and what a provider answers are choices; a token   *)
(* stands for the usage of one call.                                       *)
(***************************************************************************)
EXTENDS Naturals, SequencesExt

CONSTANTS Case,         \* cases of the suite are 1 .. Case
          Criteria,     \* [1 .. Case -> names of its checks]
          Judged,       \* a judge was asked for
          SuiteKnown,   \* the suite is there when a file is judged again
          Answers,      \* what the judge's model may name: sequences of criteria
          MaxRetries,   \* LLMJudge.max_retries
          MaxRejudges   \* bound: a file is judged again

\* What the constants are.
Setting == {Judged, SuiteKnown} \subseteq BOOLEAN

VARIABLES
  rows,      \* results so far: [track, case, passed, output, judge, paid]
  at,        \* [stage, row]: what goes on, and for which row
  attempt,   \* of the call to the judge's model
  usage,     \* JudgeUsageTracker: tokens since the last verdict took them
  file,      \* rows of the results file, <<>> when there is none
  rejudges

vars == <<rows, at, attempt, usage, file, rejudges>>

Tracks == <<"native", "langgraph">>
\* Track and case of the i-th result.
Total == Len(Tracks) * Case
TrackAt(i) == Tracks[((i - 1) \div Case) + 1]
CaseAt(i) == ((i - 1) % Case) + 1

Unjudged == [status |-> "none", names |-> {}, tokens |-> 0]
Errored(tokens) == [status |-> "error", names |-> {}, tokens |-> tokens]

Init ==
  /\ rows = <<>> /\ at = [stage |-> "run", row |-> 0]
  /\ attempt = 0 /\ usage = 0 /\ file = <<>> /\ rejudges = 0

Current == rows[at.row]
Goal == Criteria[Current.case]

\* run_case: the task runs, or raises; passed is for a run that completed with an output
\* that holds every check.  The judge is asked about a completed run that wrote something.
RunCase(output, holds) ==
  LET i == Len(rows) + 1
      passed == output = "text" /\ holds
      asked == Judged /\ output = "text"
      verdict == IF asked /\ Criteria[CaseAt(i)] = {} THEN Errored(0) ELSE Unjudged
  IN  /\ at.stage = "run" /\ i <= Total
      /\ Criteria[CaseAt(i)] = {} => holds
      /\ rows' = Append(rows, [track |-> TrackAt(i), case |-> CaseAt(i), passed |-> passed,
                               output |-> output, judge |-> verdict, paid |-> 0])
      /\ at' = IF asked /\ Criteria[CaseAt(i)] # {} THEN [stage |-> "ask", row |-> i] ELSE at
      /\ attempt' = 0
      /\ UNCHANGED <<usage, file, rejudges>>

\* Where the harness goes on after the verdict of a row.
After == IF rejudges = 0 THEN [stage |-> "run", row |-> 0] ELSE [at EXCEPT !.stage = "next"]

\* A call reports its usage when the stream gets that far, answered or not.
Call(tokens) == tokens \in {0, 1} /\ UNCHANGED <<file, rejudges>>
Paid(tokens) == [Current EXCEPT !.paid = @ + tokens]

\* Mutant of Fails: the failed verdict leaves the usage to the next one.
FailsUnpaid(tokens, temporary) ==
  /\ at.stage = "ask" /\ Call(tokens)
  /\ IF temporary /\ attempt < MaxRetries
     THEN /\ rows' = [rows EXCEPT ![at.row] = Paid(tokens)]
          /\ attempt' = attempt + 1 /\ usage' = usage + tokens /\ UNCHANGED at
     ELSE /\ rows' = [rows EXCEPT ![at.row] = [Paid(tokens) EXCEPT !.judge = Errored(0)]]
          /\ usage' = usage + tokens /\ attempt' = 0 /\ at' = After

\* The call raises: a temporary failure is tried again, any other one, or the last, is an
\* error verdict that takes the usage.
Fails(tokens, temporary) ==
  /\ at.stage = "ask" /\ Call(tokens)
  /\ IF temporary /\ attempt < MaxRetries
     THEN /\ rows' = [rows EXCEPT ![at.row] = Paid(tokens)]
          /\ attempt' = attempt + 1 /\ usage' = usage + tokens /\ UNCHANGED at
     ELSE /\ rows' = [rows EXCEPT ![at.row] =
               [Paid(tokens) EXCEPT !.judge = Errored(usage + tokens)]]
          /\ usage' = 0 /\ attempt' = 0 /\ at' = After

\* _parse_verdict: an answer that names the criteria asked for, each once, is scored.
Verdict(answer, tokens) ==
  IF Len(answer) > 0 /\ IsInjective(answer) /\ ToSet(answer) = Goal
  THEN [status |-> "scored", names |-> ToSet(answer), tokens |-> tokens]
  ELSE Errored(tokens)

Answered(answer, tokens) ==
  /\ at.stage = "ask" /\ Call(tokens)
  /\ rows' = [rows EXCEPT ![at.row] =
       [Paid(tokens) EXCEPT !.judge = Verdict(answer, usage + tokens)]]
  /\ usage' = 0 /\ attempt' = 0 /\ at' = After

\* Cancelled, or the process ends: what was not written is gone.
Interrupt ==
  /\ at.stage \in {"run", "ask", "next"}
  /\ rows' = <<>> /\ at' = [stage |-> "off", row |-> 0] /\ attempt' = 0 /\ usage' = 0
  /\ UNCHANGED <<file, rejudges>>

\* run: the file is written when every track has run every case.
Write ==
  /\ at.stage = "run" /\ Len(rows) = Total
  /\ file' = rows /\ rows' = <<>> /\ at' = [stage |-> "off", row |-> 0]
  /\ UNCHANGED <<attempt, usage, rejudges>>

\* judge: a file is read and every row judged, whatever its run came to ...
Rejudge ==
  /\ at.stage = "off" /\ file # <<>> /\ rejudges < MaxRejudges
  /\ rejudges' = rejudges + 1
  /\ rows' = file /\ at' = [stage |-> "next", row |-> 0]
  /\ UNCHANGED <<attempt, usage, file>>

NextRow ==
  LET i == at.row + 1
      known == SuiteKnown /\ Criteria[rows[i].case] # {}
  IN  /\ at.stage = "next" /\ i <= Len(rows)
      /\ rows' = [rows EXCEPT ![i].judge = IF known THEN @ ELSE Errored(0), ![i].paid = 0]
      /\ at' = [stage |-> IF known THEN "ask" ELSE "next", row |-> i]
      /\ attempt' = 0
      /\ UNCHANGED <<usage, file, rejudges>>

\* ... and the judged file written.
WriteJudged ==
  /\ at.stage = "next" /\ at.row = Len(rows)
  /\ file' = rows /\ rows' = <<>> /\ at' = [stage |-> "off", row |-> 0]
  /\ UNCHANGED <<attempt, usage, rejudges>>

Outputs == {"raised", "failed", "blank", "text"}

Next ==
  \/ \E output \in Outputs, holds \in BOOLEAN : RunCase(output, holds)
  \/ \E tokens \in {0, 1}, temporary \in BOOLEAN : Fails(tokens, temporary)
  \/ \E tokens \in {0, 1}, answer \in Answers : Answered(answer, tokens)
  \/ Interrupt \/ Write \/ Rejudge \/ NextRow \/ WriteJudged

Spec == Init /\ [][Next]_vars

------------------------------------------------------------------------------
(* Properties.                                                             *)

TypeOK ==
  /\ at.stage \in {"run", "ask", "next", "off"} /\ at.row \in 0 .. Total
  /\ attempt \in 0 .. MaxRetries /\ usage \in Nat /\ rejudges \in 0 .. MaxRejudges
  /\ Len(rows) <= Total /\ Len(file) \in {0, Total}

\* The judge's opinion stays apart: a verdict is charged with the calls made for it and
\* for no other, failed ones included; a score is over the criteria asked for; no verdict
\* is left open in a file, and a file has every case of every track once, in order, with
\* a score only where an agent wrote something or the file was judged again.
JudgingStaysApart ==
  /\ \A i \in DOMAIN file :
       /\ file[i].judge.tokens = file[i].paid
       /\ file[i].judge.status = "scored" =>
            file[i].judge.names = Criteria[file[i].case] /\ Criteria[file[i].case] # {}
       /\ file[i].track = TrackAt(i) /\ file[i].case = CaseAt(i)
       /\ Judged /\ file[i].output = "text" => file[i].judge.status # "none"
       /\ file[i].judge.status = "scored" => file[i].output = "text" \/ rejudges > 0
  /\ at.stage # "ask" => usage = 0

\* compare_results: every case once on each side, and the same ones.
Comparable(left, right) ==
  LET ids(f) == [i \in DOMAIN f |-> f[i].case]
  IN  /\ IsInjective(ids(left)) /\ IsInjective(ids(right))
      /\ ToSet(ids(left)) = ToSet(ids(right))

\* Two files of results of one suite can be compared (TLC refutes it: a run writes the
\* results of both tracks into one file, where each case is there twice).
CompareWorks == file # <<>> => Comparable(file, file)

================================================================================
