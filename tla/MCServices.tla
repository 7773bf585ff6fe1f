------------------------------ MODULE MCServices ------------------------------
(***************************************************************************)
(* The smaller parts of the API on small instances, one part at a time:    *)
(* "part" picks one, only its steps are taken and the other parts rest in  *)
(* their initial states.  The parts share no state in the code.            *)
(***************************************************************************)
EXTENDS BlobStore, ApiParts, Integers, TLC

CONSTANT Parts   \* the parts to look at
VARIABLE part

------------------------------------------------------------------------------
(* Two tasks in two threads, and a request for approval of the first. *)
CONSTANTS t1, t2, u1, u2, q1
StoredThreads == {t1, t2}
StoredTasks == {u1, u2}
OneEach == (u1 :> t1) @@ (u2 :> t2)
Approvals == {q1}
FirstAsks == (q1 :> u1)

\* What a run used reads the same from both stores, also where a number is missing.
\* (get_run_metrics)  TLC refutes it.
MetricsAlike == Stores!MetricsAlike

------------------------------------------------------------------------------
(* Calls that store plans and verdicts may fail. *)
Failing == {"plan", "verdict"}

------------------------------------------------------------------------------
(* Evaluations of two suites on two tracks. *)
TwoSuites == {"smoke", "full"}
OwnNames == [s \in TwoSuites |-> s]
BothTracks == {"native", "langgraph"}

\* The dashboard puts evaluations of one suite side by side.  TLC refutes it.
LikeWithLike == Evals!LikeWithLike

------------------------------------------------------------------------------
(* Two sends and a resume in one session. *)
CONSTANTS s1, c1, c2, c3
Sessions == {s1}
Senders == {c1, c2}
Resumers == {c3}
OneSession == [q \in {c1, c2, c3} |-> s1]

------------------------------------------------------------------------------
(* Two overlapping PATCH requests of each track, and the judge's settings. *)
CONSTANTS k1, k2
Patches == {c1, c2, k1, k2}
Tracks == [q \in Patches |-> IF q \in {c1, c2} THEN "langgraph" ELSE "native"]
Body(p, m, k, u) == [provider |-> p, model |-> m, key |-> k, url |-> u]
SomeBodies ==
  {Body("unset", "unset", "unset", "unset"),
   Body("unset", "unset", "empty", "local"),
   Body("groq", "given", "given", "unset"),
   Body("groq", "unset", "unset", "given"),
   Body("openai", "given", "given", "empty"),
   Body("ollama", "given", "unset", "given")}

------------------------------------------------------------------------------
(* Two emitters and a client of the catch-up endpoint. *)
Emitters == {t1, t2}
Listeners == {c1}

------------------------------------------------------------------------------
(* A suite of two cases, one without checks, and what the judge's model may name. *)
Checks == <<{"code", "info"}, {}>>
Naming == {<<"info", "code">>, <<"code">>}

------------------------------------------------------------------------------
(* Two callers of a store kept in one row. *)
CONSTANTS o1, o2, w1, w2
Objects == {o1, o2}
Callers == {w1, w2}

------------------------------------------------------------------------------
\* The instances are among those the theorems of ServicesProofs and EvaluationProofs
\* speak of.
ASSUME ServicesAssumption ==
  /\ Evals!Setting /\ Stores!Setting /\ Settings!Setting /\ Harness!Setting /\ Requests!Setting
  /\ ~ResumesLive /\ Builds = {TRUE}
  /\ Bus!ClientsAssumption /\ Bus!CutAssumption /\ Bus!BoundsAssumption

ServicesInit ==
  /\ part \in Parts
  /\ Init /\ Stores!Init /\ Records!Init /\ Evals!Init /\ Requests!Init /\ Settings!Init
  /\ Bus!Init /\ Harness!Init

\* Part p takes a step and the others none.
Only(p) ==
  /\ part = p /\ UNCHANGED part
  /\ IF p = "blob" THEN TRUE ELSE UNCHANGED vars
  /\ IF p = "stores" THEN TRUE ELSE UNCHANGED storeVars
  /\ IF p = "records" THEN TRUE ELSE UNCHANGED recordVars
  /\ IF p = "evals" THEN TRUE ELSE UNCHANGED evalVars
  /\ IF p = "requests" THEN TRUE ELSE UNCHANGED requestVars
  /\ IF p \in {"graphset", "nativeset", "judgeset"} THEN TRUE ELSE UNCHANGED settingsVars
  /\ IF p = "bus" THEN TRUE ELSE UNCHANGED busVars
  /\ IF p = "harness" THEN TRUE ELSE UNCHANGED harnessVars

ServicesNext ==
  \/ Only("blob") /\ Next
  \/ Only("stores") /\ Stores!Next
  \/ Only("records") /\ Records!Next
  \/ Only("evals") /\ Evals!Next
  \/ Only("requests") /\ Requests!Next
  \/ Only("graphset") /\ Settings!NextGraph
  \/ Only("nativeset") /\ Settings!NextNative
  \/ Only("judgeset") /\ Settings!NextJudge
  \/ Only("bus") /\ Bus!Next
  \/ Only("harness") /\ Harness!Next

servicesVars == <<part, vars, storeVars, recordVars, evalVars, requestVars, settingsVars,
                  busVars, harnessVars>>

ServicesSpec == ServicesInit /\ [][ServicesNext]_servicesVars

===============================================================================
