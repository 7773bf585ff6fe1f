------------------------------ MODULE TurnRetry ------------------------------
(***************************************************************************)
(* One model turn of the native loop and the next: a request streams, is   *)
(* sent again after a pause when it failed in a way that may pass, and     *)
(* goes to the next model of the chain when that is used up.  Runs share   *)
(* one coordinator that lets only one of them sleep at a time.             *)
(***************************************************************************)
EXTENDS Integers, Sequences

CONSTANTS Run, NoRun,
          Models,      \* length of the chain _resolve_candidates left
          MaxRetries,  \* Limits.max_retries; may be negative
          MaxTurns, MaxChunks \* bounds

\* What the constants are.
Setting ==
  /\ Models \in Nat \ {0} /\ MaxRetries \in Int
  /\ MaxTurns \in Nat \ {0} /\ MaxChunks \in Nat

VARIABLES
  turnAt,    \* Run -> "ready", "streaming", "pausing", "asleep", "done", "error"
  active,    \* Run -> the model it is on
  attempt,   \* Run -> failed requests to that model in this turn
  streamed,  \* Run -> text or reasoning of this turn was shown
  stopped,   \* Run -> its cancellation flag
  sleeper    \* who holds the coordinator's lock

\* What happened, for the properties.
VARIABLES
  turn,      \* Run -> number of its turn
  requests,  \* Run -> requests begun
  late,      \* Run -> requests begun after the stop
  shown,     \* Run -> for each chunk shown in this turn, the request it came from
  calls      \* Run -> the requests the fragments of its reply came from

turnVars == <<turnAt, active, attempt, streamed, stopped, sleeper,
              turn, requests, late, shown, calls>>

Retries == IF MaxRetries < 0 THEN 0 ELSE MaxRetries

Init ==
  /\ turnAt = [r \in Run |-> "ready"]
  /\ active = [r \in Run |-> 1]
  /\ attempt = [r \in Run |-> 0]
  /\ streamed = [r \in Run |-> FALSE]
  /\ stopped = [r \in Run |-> FALSE]
  /\ sleeper = NoRun
  /\ turn = [r \in Run |-> 1]
  /\ requests = [r \in Run |-> 0]
  /\ late = [r \in Run |-> 0]
  /\ shown = [r \in Run |-> <<>>]
  /\ calls = [r \in Run |-> {}]

Goto(r, stage) == turnAt' = [turnAt EXCEPT ![r] = stage]

\* provider.stream, with fragments that belong to this attempt alone.
Ask(r) ==
  /\ turnAt[r] = "ready"
  /\ Goto(r, "streaming")
  /\ requests' = [requests EXCEPT ![r] = @ + 1]
  /\ late' = [late EXCEPT ![r] = IF stopped[r] THEN @ + 1 ELSE @]
  /\ calls' = [calls EXCEPT ![r] = {}]
  /\ UNCHANGED <<active, attempt, streamed, stopped, sleeper, turn, shown>>

\* A stop is seen when the next chunk comes: the text stays, the calls are dropped.
Chunk(r) ==
  /\ turnAt[r] = "streaming"
  /\ \/ /\ stopped[r]
        /\ Goto(r, "done")
        /\ calls' = [calls EXCEPT ![r] = {}]
        /\ UNCHANGED <<streamed, shown>>
     \/ /\ ~stopped[r] /\ Len(shown[r]) < MaxChunks
        /\ shown' = [shown EXCEPT ![r] = Append(@, requests[r])]
        /\ streamed' = [streamed EXCEPT ![r] = TRUE]
        /\ UNCHANGED <<turnAt, calls>>
     \/ /\ ~stopped[r]
        /\ calls' = [calls EXCEPT ![r] = @ \cup {requests[r]}]
        /\ UNCHANGED <<turnAt, streamed, shown>>
  /\ UNCHANGED <<active, attempt, stopped, sleeper, turn, requests, late>>

StreamEnds(r) ==
  /\ turnAt[r] = "streaming"
  /\ Goto(r, "done")
  /\ UNCHANGED <<active, attempt, streamed, stopped, sleeper,
                 turn, requests, late, shown, calls>>

------------------------------------------------------------------------------
(* A failure: the same request again, the next model, or the end of the run. *)

\* Mutant of MayAgain: a failure after text was shown is papered over.
MayAgainAnyway(r) == ~stopped[r]

\* Mutant of MayAgain: only the next chunk looks at the stop.
MayAgainStopped(r) == ~streamed[r]

MayAgain(r) == ~streamed[r] /\ ~stopped[r]
MayRetry(r) == MayAgain(r) /\ attempt[r] < Retries
MayFailOver(r) == MayAgain(r) /\ ~MayRetry(r) /\ active[r] < Models

\* A temporary failure: an error event, and a place in the queue of sleepers.
Retry(r) ==
  /\ turnAt[r] = "streaming" /\ MayRetry(r)
  /\ attempt' = [attempt EXCEPT ![r] = @ + 1]
  /\ Goto(r, "pausing")
  /\ UNCHANGED <<active, streamed, stopped, sleeper, turn, requests, late, shown, calls>>

FailOver(r) ==
  /\ turnAt[r] = "streaming" /\ MayFailOver(r)
  /\ active' = [active EXCEPT ![r] = @ + 1]
  /\ attempt' = [attempt EXCEPT ![r] = 0]
  /\ Goto(r, "ready")
  /\ UNCHANGED <<streamed, stopped, sleeper, turn, requests, late, shown, calls>>

\* A failure that will not pass, or one that nothing is left to try after; the run may
\* also be cancelled while it pauses.
GiveUp(r) ==
  /\ turnAt[r] \in {"streaming", "pausing", "asleep"}
  /\ sleeper' = IF sleeper = r THEN NoRun ELSE sleeper
  /\ Goto(r, "error")
  /\ UNCHANGED <<active, attempt, streamed, stopped, turn, requests, late, shown, calls>>

\* backoff: asleep with the lock held; nobody looks at the stop meanwhile.
Sleep(r) ==
  /\ turnAt[r] = "pausing" /\ sleeper = NoRun
  /\ sleeper' = r
  /\ Goto(r, "asleep")
  /\ UNCHANGED <<active, attempt, streamed, stopped, turn, requests, late, shown, calls>>

Wake(r) ==
  /\ turnAt[r] = "asleep"
  /\ sleeper' = NoRun
  /\ Goto(r, "ready")
  /\ UNCHANGED <<active, attempt, streamed, stopped, turn, requests, late, shown, calls>>

------------------------------------------------------------------------------
\* Mutant of NextTurn: every turn starts at the first model again.
NextTurnFirstModel(r) ==
  /\ turnAt[r] = "done" /\ ~stopped[r] /\ turn[r] < MaxTurns
  /\ turn' = [turn EXCEPT ![r] = @ + 1]
  /\ active' = [active EXCEPT ![r] = 1]
  /\ attempt' = [attempt EXCEPT ![r] = 0]
  /\ streamed' = [streamed EXCEPT ![r] = FALSE]
  /\ shown' = [shown EXCEPT ![r] = <<>>]
  /\ Goto(r, "ready")
  /\ UNCHANGED <<stopped, sleeper, requests, late, calls>>

\* The loop looks at the stop and asks for the next turn from the model that answered.
NextTurn(r) ==
  /\ turnAt[r] = "done" /\ ~stopped[r] /\ turn[r] < MaxTurns
  /\ turn' = [turn EXCEPT ![r] = @ + 1]
  /\ attempt' = [attempt EXCEPT ![r] = 0]
  /\ streamed' = [streamed EXCEPT ![r] = FALSE]
  /\ shown' = [shown EXCEPT ![r] = <<>>]
  /\ Goto(r, "ready")
  /\ UNCHANGED <<active, stopped, sleeper, requests, late, calls>>

Stop(r) ==
  /\ ~stopped[r] /\ turnAt[r] \notin {"error"}
  /\ stopped' = [stopped EXCEPT ![r] = TRUE]
  /\ UNCHANGED <<turnAt, active, attempt, streamed, sleeper,
                 turn, requests, late, shown, calls>>

Stream(r) == Ask(r) \/ Chunk(r) \/ StreamEnds(r)
Fail(r) == Retry(r) \/ FailOver(r) \/ GiveUp(r)

Next == \E r \in Run : Stream(r) \/ Fail(r) \/ Sleep(r) \/ Wake(r) \/ NextTurn(r) \/ Stop(r)

Spec == Init /\ [][Next]_turnVars

------------------------------------------------------------------------------
TypeOK ==
  /\ turnAt \in [Run -> {"ready", "streaming", "pausing", "asleep", "done", "error"}]
  /\ active \in [Run -> 1 .. Models]
  /\ attempt \in [Run -> 0 .. Retries]
  /\ streamed \in [Run -> BOOLEAN] /\ stopped \in [Run -> BOOLEAN]
  /\ sleeper \in Run \cup {NoRun}
  /\ turn \in [Run -> 1 .. MaxTurns]
  /\ requests \in [Run -> Nat] /\ late \in [Run -> Nat]
  /\ shown \in [Run -> Seq(Nat)]
  /\ calls \in [Run -> SUBSET Nat]

\* What the user reads in a turn, and the calls made of it, come from one request,
\* however often and to whichever model it was sent before.  (loop.run_turn: "neither
\* a retry nor a fallover can start over without printing it twice")
OneRequestAnswers ==
  \A r \in Run :
    /\ \A i \in 1 .. Len(shown[r]) : shown[r][i] = requests[r]
    /\ calls[r] \subseteq {requests[r]}

\* After a stop at most one more request begins, the one a pause or the announcement of
\* the next model was on its way to, and a run pays the retries of a model it left once,
\* not once a turn.  (loop._attempt_turn_with_retries, run_turn: "the fallover is sticky")
RequestsBounded ==
  \A r \in Run :
    /\ late[r] <= 1
    /\ requests[r] <= (turn[r] + Models - 1) * (1 + Retries)

\* Both: no text twice, no request too many.
RetriesKeepToTheRules == OneRequestAnswers /\ RequestsBounded

===============================================================================
