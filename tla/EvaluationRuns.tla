---------------------------- MODULE EvaluationRuns ----------------------------
(***************************************************************************)
(* Evaluations: a request records one evaluation run per track and a job   *)
(* runs every case on one track after the other, each case in attempts of  *)
(* its own; a result gets its scores one at a time.  The dashboard of the  *)
(* store in memory walks these records, the one of the SQL store joins     *)
(* tables; both are stated here over the same records.                     *)
(***************************************************************************)
EXTENDS Naturals, FiniteSets, SequencesExt

CONSTANTS Suite,     \* case sets; cases of a set are 1 .. Case
          LabelOf,   \* [Suite -> name and version]
          Track, Served, \* tracks, and those an orchestrator is there for
          Case,
          Attempts,  \* attempts of a case
          Judged,    \* a judge was asked for
          MaxRequests, MaxTries, MaxStops \* bounds

Tracks == <<"native", "langgraph">>

\* A suite without cases is refused, a case has one attempt at least, and names and
\* versions tell suites apart.
Setting ==
  /\ Case \in Nat \ {0} /\ Attempts \in Nat \ {0} /\ Track = ToSet(Tracks)
  /\ \A s, u \in Suite : LabelOf[s] = LabelOf[u] => s = u

VARIABLES
  evals,    \* evaluation runs, in order: [suite, track, finished]
  tries,    \* tasks with their one run, in order: [eval, case, status, kind]
  results,  \* in order: [eval, case, run, success, scores]
  jobs,     \* [eval, last, case, left, stage, kind]: evaluations eval .. last are still to do,
            \* the first of them at this case and stage
  requests,
  stops     \* calls that failed and processes that went away

vars == <<evals, tries, results, jobs, requests, stops>>

Open == {"created", "running"}
Excluding == {"excluded.rate_limited", "excluded.provider_unavailable"}
Limited == "excluded.rate_limited"

Init ==
  /\ evals = <<>> /\ tries = <<>> /\ results = <<>> /\ jobs = <<>>
  /\ requests = 0 /\ stops = 0

Eval(j) == jobs[j].eval
LastTry(e, c) == CHOOSE i \in DOMAIN tries :
  /\ tries[i].eval = e /\ tries[i].case = c
  /\ \A k \in DOMAIN tries : tries[k].eval = e /\ tries[k].case = c => k <= i
LastResult(j) == CHOOSE i \in DOMAIN results :
  /\ results[i].eval = Eval(j) /\ results[i].case = jobs[j].case
Job(e, l) ==
  [eval |-> e, last |-> l, case |-> 1, left |-> Attempts, stage |-> "try", kind |-> "none"]

\* start_evaluation: one record per track, in the order asked for, then the job; a track
\* nobody serves stops it with the records before it made.
Start(s, asked) ==
  \E made \in 0 .. Len(asked) :
    /\ \A i \in 1 .. made : asked[i] \in Served
    /\ made < Len(asked) => asked[made + 1] \notin Served
    /\ requests < MaxRequests /\ requests' = requests + 1
    /\ evals' = evals \o [i \in 1 .. made |-> [suite |-> s, track |-> asked[i], finished |-> FALSE]]
    /\ jobs' = IF made < Len(asked) THEN jobs
               ELSE Append(jobs, Job(Len(evals) + 1, Len(evals) + made))
    /\ UNCHANGED <<tries, results, stops>>

\* An attempt: a task in a thread of its own, its run, and _run.
Try(j) ==
  /\ jobs[j].stage = "try" /\ Len(tries) < MaxTries
  /\ tries' = Append(tries, [eval |-> Eval(j), case |-> jobs[j].case,
                                 status |-> "running", kind |-> "none"])
  /\ jobs' = [jobs EXCEPT ![j].stage = "running", ![j].left = @ - 1]
  /\ UNCHANGED <<evals, results, requests, stops>>

\* Mutant of TryEnds: the last attempt counts like a failure of the agent.
TryEndsCounted(j) ==
  \E kind \in {"completed", "failed"} \cup Excluding :
    LET i == LastTry(Eval(j), jobs[j].case)
    IN  /\ jobs[j].stage = "running"
        /\ tries' = [tries EXCEPT ![i].status = IF kind = "completed" THEN kind ELSE "failed",
                                  ![i].kind = kind]
        /\ jobs' = [jobs EXCEPT ![j].kind = IF jobs[j].left = 0 /\ kind # "completed"
                                            THEN "failed" ELSE kind,
             ![j].stage = IF kind \in Excluding /\ jobs[j].left > 0 THEN "try" ELSE "result"]
        /\ UNCHANGED <<evals, results, requests, stops>>

\* The run is over; a failure of the provider is tried again while attempts are left.  Left
\* out is a run that no call could settle, _run's nor the one after it (725-742): of a
\* PostgreSQL that fails both and answers the reads around them.  It stays open beside its
\* result, a failed one, until recovery.
TryEnds(j) ==
  \E kind \in {"completed", "failed"} \cup Excluding :
    LET i == LastTry(Eval(j), jobs[j].case)
    IN  /\ jobs[j].stage = "running"
        /\ tries' = [tries EXCEPT ![i].status = IF kind = "completed" THEN kind ELSE "failed",
                                  ![i].kind = kind]
        /\ jobs' = [jobs EXCEPT ![j].kind = kind,
             ![j].stage = IF kind \in Excluding /\ jobs[j].left > 0 THEN "try" ELSE "result"]
        /\ UNCHANGED <<evals, results, requests, stops>>

\* save_evaluation_result: completed and judged by the checks of the case, or failed.
SaveResult(j) ==
  \E passed \in BOOLEAN :
    /\ jobs[j].stage = "result" /\ (passed => jobs[j].kind = "completed")
    /\ results' = Append(results,
         [eval |-> Eval(j), case |-> jobs[j].case, run |-> LastTry(Eval(j), jobs[j].case),
          success |-> passed, scores |-> {}])
    /\ jobs' = [jobs EXCEPT ![j].stage = "score"]
    /\ UNCHANGED <<evals, tries, requests, stops>>

Scored(j, metrics) ==
  results' = [results EXCEPT ![LastResult(j)].scores = @ \cup metrics]
NextCase(j) ==
  jobs' = [jobs EXCEPT ![j].case = @ + 1, ![j].left = Attempts, ![j].kind = "none",
             ![j].stage = IF jobs[j].case < Case THEN "try" ELSE "finish"]

\* save_evaluation_score: a provider's failure gets its mark and nothing else.
Exclude(j) ==
  /\ jobs[j].stage = "score" /\ jobs[j].kind \in Excluding
  /\ Scored(j, {jobs[j].kind}) /\ NextCase(j)
  /\ UNCHANGED <<evals, tries, requests, stops>>

\* Correctness and what was measured ...
Score(j) ==
  /\ jobs[j].stage = "score" /\ jobs[j].kind \notin Excluding
  /\ Scored(j, {"correctness"})
  /\ IF Judged /\ jobs[j].kind = "completed"
     THEN jobs' = [jobs EXCEPT ![j].stage = "judge"] ELSE NextCase(j)
  /\ UNCHANGED <<evals, tries, requests, stops>>

\* ... and the judge's opinion, or that it had none.
Judge(j) ==
  /\ jobs[j].stage = "judge"
  /\ \E metric \in {"judge.overall", "judge.error"} : Scored(j, {metric})
  /\ NextCase(j)
  /\ UNCHANGED <<evals, tries, requests, stops>>

\* finish_evaluation_run, then the next track.
Close(j) ==
  /\ evals' = [evals EXCEPT ![Eval(j)].finished = TRUE]
  /\ jobs' = IF Eval(j) = jobs[j].last THEN [jobs EXCEPT ![j].stage = "done"]
             ELSE [jobs EXCEPT ![j] = Job(Eval(j) + 1, @.last)]

Finish(j) ==
  /\ jobs[j].stage = "finish" /\ Close(j)
  /\ UNCHANGED <<tries, results, requests, stops>>

\* A failing call between two runs ends an evaluation with the cases it has, and not the
\* ones of the other tracks.
Abort(j) ==
  /\ jobs[j].stage \in {"try", "result", "score", "judge"}
  /\ stops < MaxStops /\ stops' = stops + 1
  /\ Close(j)
  /\ UNCHANGED <<tries, results, requests>>

\* The process goes away, between any two steps, and comes back: recovery settles what
\* is open and closes what is unfinished (recover_stale_executions).
Restart ==
  /\ stops < MaxStops /\ stops' = stops + 1
  /\ tries' = [i \in DOMAIN tries |-> IF tries[i].status \in Open
               THEN [tries[i] EXCEPT !.status = "interrupted"] ELSE tries[i]]
  /\ evals' = [e \in DOMAIN evals |-> [evals[e] EXCEPT !.finished = TRUE]]
  /\ jobs' = <<>>
  /\ UNCHANGED <<results, requests>>

Next ==
  \/ \E s \in Suite, asked \in {<<t>> : t \in Track} \cup {Tracks} : Start(s, asked)
  \/ \E j \in DOMAIN jobs :
       Try(j) \/ TryEnds(j) \/ SaveResult(j) \/ Exclude(j) \/ Score(j) \/ Judge(j) \/ Finish(j)
       \/ Abort(j)
  \/ Restart

Spec == Init /\ [][Next]_vars

------------------------------------------------------------------------------
(* The dashboard in memory. *)
ResultsOf(e) == {i \in DOMAIN results : results[i].eval = e}

\* _excluded_kind: the mark of a result, if it has one.
ExcludedKind(i) == results[i].scores \cap Excluding
ByLimit(S) == Cardinality({i \in S : ExcludedKind(i) = {Limited}})
\* Mutant of MemClean: a limit that was met counts.
MemCleanLimited(S) == {i \in S : ExcludedKind(i) \subseteq {Limited}}
MemClean(S) == {i \in S : ExcludedKind(i) = {}}
Has(m) == {i \in DOMAIN results : m \in results[i].scores}
Passed == {i \in DOMAIN results : results[i].success}

MemBreakdown ==
  [e \in DOMAIN evals |->
     LET mine == MemClean(ResultsOf(e))
         out == ResultsOf(e) \ mine
     IN  [results |-> Cardinality(mine), excluded |-> Cardinality(out),
          limited |-> ByLimit(out),
          passed |-> Cardinality(mine \cap Passed),
          correct |-> <<Cardinality(mine \cap Has("correctness") \cap Passed),
                        Cardinality(mine \cap Has("correctness"))>>,
          judged |-> Cardinality(mine \cap Has("judge.overall")),
          errors |-> Cardinality(mine \cap Has("judge.error")),
          running |-> ~evals[e].finished]]

\* The latest run of a case, while it is open, of an evaluation that is not finished.
Active(e) ==
  {i \in DOMAIN tries : tries[i].eval = e /\ ~evals[e].finished /\ tries[i].status \in Open}
\* Runs whose tokens, cost and latency an evaluation adds up: a result has them once
\* they are stored as scores.
MemSpent(e) ==
  {results[i].run : i \in MemClean(ResultsOf(e)) \cap Has("correctness")} \cup Active(e)
MemSpentTotal == {results[i].run : i \in MemClean(Has("correctness"))}
MemMetrics ==
  [m \in {"correctness", "judge.overall", "judge.error"} |->
     IF m = "judge.error" THEN 0 ELSE Cardinality(MemClean(Has(m)))]

Latest(S) == CHOOSE e \in S : \A f \in S : f <= e
On(t, S) == {e \in S : evals[e].track = t}
\* _comparison_runs: the latest evaluation of each track, within the suite that ran last
\* of those that ran on both; without a second track, the latest of the only one.
MemComparison ==
  LET all == DOMAIN evals
      cohort(s) == {e \in all : evals[e].suite = s}
      shared == {s \in Suite : \A t \in Track : On(t, cohort(s)) # {}}
      newest == CHOOSE s \in shared : \A u \in shared : Latest(cohort(u)) <= Latest(cohort(s))
  IN  IF all = {} THEN {}
      ELSE IF \E t \in Track : On(t, all) = {} THEN {Latest(all)}
      ELSE IF shared = {} THEN {}
      ELSE {Latest(On(t, cohort(newest))) : t \in Track}

\* Results with their runs, and for a case without one its latest task, while it runs.
MemExecutions ==
  {[eval |-> r.eval, run |-> r.run, loading |-> FALSE, success |-> r.success,
    outcome |-> r.scores \cap Excluding] : r \in ToSet(results)}
  \cup
  {[eval |-> p[1], run |-> LastTry(p[1], p[2]), loading |-> TRUE, success |-> FALSE,
    outcome |-> {}] :
     p \in {q \in (DOMAIN evals) \X (1 .. Case) :
       /\ ~\E r \in ToSet(results) : r.eval = q[1] /\ r.case = q[2]
       /\ \E t \in ToSet(tries) : t.eval = q[1] /\ t.case = q[2]
       /\ tries[LastTry(q[1], q[2])].status \in Open}}

MemTotals ==
  LET clean == MemClean(DOMAIN results)
  IN  [suites |-> Cardinality({evals[e].suite : e \in DOMAIN evals}),
       cases |-> Cardinality({<<evals[e].suite, c>> : e \in DOMAIN evals, c \in 1 .. Case}),
       runs |-> Len(evals), results |-> Cardinality(clean),
       excluded |-> Len(results) - Cardinality(clean),
       limited |-> ByLimit(DOMAIN results),
       passed |-> Cardinality(clean \cap Passed),
       judged |-> Cardinality(clean \cap Has("judge.overall")),
       errors |-> Cardinality(clean \cap Has("judge.error"))]

------------------------------------------------------------------------------
(* The dashboard of the SQL store: rows of suites, runs, results and scores. *)
\* evaluation_scores joined to the results.
ScoreRows == {x \in (DOMAIN results) \X ({"correctness", "judge.overall", "judge.error"}
               \cup Excluding) : x[2] \in results[x[1]].scores}
\* WHERE NOT EXISTS an excluded score.
SqlClean == {i \in DOMAIN results : ~\E m \in Excluding : <<i, m>> \in ScoreRows}
SqlWith(m, S) == {i \in S : <<i, m>> \in ScoreRows}

SqlTotals ==
  [suites |-> Cardinality({LabelOf[evals[e].suite] : e \in DOMAIN evals}),
   cases |-> Case * Cardinality({LabelOf[evals[e].suite] : e \in DOMAIN evals}),
   runs |-> Cardinality(DOMAIN evals), results |-> Cardinality(SqlClean),
   excluded |-> Cardinality({x[1] : x \in {y \in ScoreRows : y[2] \in Excluding}}),
   limited |-> Cardinality(SqlWith(Limited, DOMAIN results)),
   passed |-> Cardinality({i \in SqlClean : results[i].success}),
   judged |-> Cardinality(SqlWith("judge.overall", SqlClean)),
   errors |-> Cardinality(SqlWith("judge.error", SqlClean))]

\* LEFT JOIN evaluation_results and, for each, its excluded score, GROUP BY the run.
SqlBreakdown ==
  [e \in DOMAIN evals |->
     LET rows == {i \in DOMAIN results : results[i].eval = e}
         clean == rows \cap SqlClean
     IN  [results |-> Cardinality(clean), excluded |-> Cardinality(rows \ SqlClean),
          limited |-> Cardinality(SqlWith(Limited, rows)),
          passed |-> Cardinality({i \in clean : results[i].success}),
          correct |-> <<Cardinality({i \in SqlWith("correctness", clean) : results[i].success}),
                        Cardinality(SqlWith("correctness", clean))>>,
          judged |-> Cardinality(SqlWith("judge.overall", clean)),
          errors |-> Cardinality(SqlWith("judge.error", clean)),
          running |-> ~evals[e].finished]]

\* Metrics are read from the run itself, which has a result or is still open.
SqlSpent(e) ==
  {results[i].run : i \in {k \in SqlClean : results[k].eval = e}}
  \cup {i \in Active(e) : ~\E r \in ToSet(results) : r.eval = e /\ r.run = i}
SqlSpentTotal == UNION {SqlSpent(e) : e \in DOMAIN evals}
\* A score without a value is counted as well.
SqlMetrics ==
  [m \in {"correctness", "judge.overall", "judge.error"} |->
     Cardinality(SqlWith(m, DOMAIN results))]

\* _comparison_runs of this store knows suites by what it shows of them.
SqlComparison ==
  LET all == DOMAIN evals
      cohort(l) == {e \in all : LabelOf[evals[e].suite] = l}
      shared == {l \in {LabelOf[s] : s \in Suite} : \A t \in Track : On(t, cohort(l)) # {}}
      newest == CHOOSE l \in shared : \A u \in shared : Latest(cohort(u)) <= Latest(cohort(l))
  IN  CASE all = {} -> {}
        [] \E t \in Track : all # {} /\ On(t, all) = {} -> {Latest(all)}
        [] OTHER -> IF shared = {} THEN {} ELSE {Latest(On(t, cohort(newest))) : t \in Track}

\* executions_sql, and active_executions_sql: every task of an unfinished evaluation
\* whose run is open and has no result.
SqlExecutions ==
  {[eval |-> r.eval, run |-> r.run, loading |-> FALSE, success |-> r.success,
    outcome |-> r.scores \cap Excluding] : r \in ToSet(results)}
  \cup
  {[eval |-> tries[i].eval, run |-> i, loading |-> TRUE, success |-> FALSE, outcome |-> {}] :
     i \in {k \in DOMAIN tries :
       /\ ~evals[tries[k].eval].finished /\ tries[k].status \in Open
       /\ ~\E r \in ToSet(results) : r.run = k}}

------------------------------------------------------------------------------
\* What the service shows: without a comparison, the latest of each track.
ServedComparison ==
  IF MemComparison # {} THEN MemComparison
  ELSE {Latest(On(t, DOMAIN evals)) : t \in {evals[e].track : e \in DOMAIN evals}}

\* Both stores show one dashboard, at every moment of every evaluation: the totals, the
\* breakdown by evaluation with what its scored and its open runs used, the executions
\* that are done and that run, and which evaluations are put side by side.
DashboardsAgree ==
  /\ MemTotals = SqlTotals
  /\ MemBreakdown = SqlBreakdown
  /\ \A e \in DOMAIN evals :
       MemClean(ResultsOf(e)) \subseteq Has("correctness") => MemSpent(e) = SqlSpent(e)
  /\ MemExecutions = SqlExecutions
  /\ MemComparison = SqlComparison

\* TLC refutes both: the totals of the store in memory leave out what runs, and it does
\* not count a verdict the judge could not give among the metrics.
SpentAgrees == MemClean(DOMAIN results) \subseteq Has("correctness") => MemSpentTotal = SqlSpentTotal
MetricsAgree == MemMetrics = SqlMetrics

\* A failure of the provider is no failure of the agent (task_service.py 811-814:
\* "infrastructure failures do not affect evaluation quality scores"): in an evaluation
\* that nothing stopped every case has one result, that of its last attempt, and it
\* is left out exactly when every attempt met such a failure.
OnlyQualityCounts ==
  \A e \in DOMAIN evals : evals[e].finished /\ stops = 0 =>
    \A c \in 1 .. Case :
      LET mine == {i \in DOMAIN tries : tries[i].eval = e /\ tries[i].case = c}
          kept == {i \in ResultsOf(e) : results[i].case = c}
      IN  /\ Cardinality(kept) = 1
          /\ \A i \in kept :
               (ExcludedKind(i) # {}) <=>
                 (Cardinality(mine) = Attempts /\ \A k \in mine : tries[k].kind \in Excluding)

\* Both: every case counts once, whichever store is asked.
EvaluationsAddUp == DashboardsAgree /\ OnlyQualityCounts

\* The side by side contrasts evaluations of one suite (memory.py 38-44: it "must
\* contrast like with like").
LikeWithLike ==
  \A e, f \in ServedComparison : evals[e].suite = evals[f].suite
===============================================================================
