--------------------------- MODULE ApprovalGateway ---------------------------
(***************************************************************************)
(* The API's approval gateway over the repository: graph runs that ask for *)
(* approval of a tool call and wait, people who answer, a store that may   *)
(* fail, and restarts of the process.                                      *)
(*                                                                         *)
(* Every await is a step of its own; the gateway's lock is held over the   *)
(* save of a request and the look-up of a row, and over nothing else.      *)
(* A request is its id; tool, arguments and note are left out.             *)
(***************************************************************************)
EXTENDS Naturals, FiniteSets

CONSTANTS Id,         \* requests; the id is the same for the same call
          Low,        \* requests below the risk threshold
          Barred,     \* requests classified BLOCKED
          Asker,      \* coroutines of runs
          Answerer,   \* coroutines of people's answers
          LatestCounts, \* the store is a log whose last entry counts (SQL), not a map
          MaxFaults,  \* bound: failures of the store
          MaxRestarts \* bound: restarts of the process

ASSUME LevelsAssumption ==
  Low \subseteq Id /\ Barred \subseteq Id /\ Low \cap Barred = {}
ASSUME StoreAssumption == LatestCounts \in BOOLEAN
ASSUME BoundsAssumption == MaxFaults \in Nat /\ MaxRestarts \in Nat

VARIABLES
  row,      \* id -> the durable record of its approval
  pending,  \* id -> the gateway's entry, with its decision when it is resolved
  lock,     \* who holds the gateway's lock
  ask,      \* asker -> where its request_approval is, and for what
  answer    \* answerer -> where its resolve_approval is, for what and with what

\* What happened, for the properties.
VARIABLES
  returned, \* id -> the decisions askers were given
  faults, restarts

history == <<returned, faults, restarts>>
vars == <<row, pending, lock, ask, answer, history>>

Decision == {"yes", "no"}
NoOne == "nobody"
ASSUME NamesAssumption == Asker \cap Answerer = {} /\ NoOne \notin Asker \cup Answerer
Idle == "idle"

At(x, stage) == x.stage = stage

Resting(co) == [c \in co |-> [stage |-> Idle]]

------------------------------------------------------------------------------
Init ==
  /\ row = [i \in Id |-> "none"]
  /\ pending = [i \in Id |-> "none"]
  /\ lock = NoOne
  /\ ask = Resting(Asker)
  /\ answer = Resting(Answerer)
  /\ returned = [i \in Id |-> {}]
  /\ faults = 0 /\ restarts = 0

AskerTo(a, stage) == ask' = [ask EXCEPT ![a].stage = stage]

\* Mutant of OnRecord: a durable decision is not looked for.
OnRecordNever(i) == FALSE

OnRecord(i) == row[i] \in Decision

\* request_approval returns to its run.
Gives(i, d) == returned' = [returned EXCEPT ![i] = @ \cup {d}]
Return(a, d) ==
  /\ Gives(ask[a].id, d)
  /\ ask' = [ask EXCEPT ![a] = [stage |-> Idle]]

\* A durable decision is final, and a low risk needs none ...
Answered(a, i) ==
  /\ At(ask[a], Idle)
  /\ OnRecord(i) \/ i \in Low
  /\ Gives(i, IF OnRecord(i) THEN row[i] ELSE "yes")
  /\ UNCHANGED <<row, pending, lock, ask, answer, faults, restarts>>

\* ... a blocked call is refused, and anything else is registered.
Request(a, i) ==
  /\ At(ask[a], Idle)
  /\ ~OnRecord(i) /\ i \notin Low
  /\ ask' = [ask EXCEPT ![a] =
       [stage |-> IF i \in Barred THEN "barring" ELSE "joining", id |-> i]]
  /\ UNCHANGED <<row, pending, lock, answer, history>>

\* Mutant of SaveRow: the request is kept in the process only.
SaveRowSkipped(i) == row' = row

\* save_approval_request keeps a row that is there, in the store in memory; in the
\* log of the SQL store it comes after whatever was decided.
SaveRow(i) ==
  row' = [row EXCEPT ![i] = IF LatestCounts \/ @ = "none" THEN "pending" ELSE @]

\* A blocked call gets a row ...
BarSave(a) ==
  /\ At(ask[a], "barring")
  /\ SaveRow(ask[a].id)
  /\ AskerTo(a, "barred")
  /\ UNCHANGED <<pending, lock, answer, history>>

\* ... and then a no.
BarDeny(a) ==
  /\ At(ask[a], "barred")
  /\ row' = [row EXCEPT ![ask[a].id] = "no"]
  /\ Return(a, "no")
  /\ UNCHANGED <<pending, lock, answer, faults, restarts>>

\* Under the lock: an entry that is there is joined, else the row is saved first.
Join(a) ==
  /\ At(ask[a], "joining") /\ lock = NoOne
  /\ IF pending[ask[a].id] = "none"
       THEN lock' = a /\ AskerTo(a, "saving")
       ELSE AskerTo(a, "waiting") /\ UNCHANGED lock
  /\ UNCHANGED <<row, pending, answer, history>>

SaveRequest(a) ==
  /\ At(ask[a], "saving")
  /\ SaveRow(ask[a].id)
  /\ AskerTo(a, "saved")
  /\ UNCHANGED <<pending, lock, answer, history>>

Register(a) ==
  /\ At(ask[a], "saved")
  /\ pending' = [pending EXCEPT ![ask[a].id] = "open"]
  /\ lock' = NoOne
  /\ AskerTo(a, "waiting")
  /\ UNCHANGED <<row, answer, history>>

\* Mutant of Wake: only a yes signals the event.
WakeOnYes(a) ==
  /\ At(ask[a], "waiting")
  /\ pending[ask[a].id] = "yes"
  /\ Return(a, "yes")
  /\ UNCHANGED <<row, pending, lock, answer, faults, restarts>>

Wake(a) ==
  /\ At(ask[a], "waiting")
  /\ pending[ask[a].id] \in Decision
  /\ Return(a, pending[ask[a].id])
  /\ UNCHANGED <<row, pending, lock, answer, faults, restarts>>

\* Mutant of AskFails: the lock is not given back.
AskFailsLocked(a) ==
  /\ faults < MaxFaults /\ ~At(ask[a], Idle)
  /\ faults' = faults + 1
  /\ ask' = [ask EXCEPT ![a] = [stage |-> Idle]]
  /\ UNCHANGED <<row, pending, lock, answer, returned, restarts>>

\* The run is cancelled, or the store raises under it.
AskFails(a) ==
  /\ faults < MaxFaults /\ ~At(ask[a], Idle)
  /\ faults' = faults + 1
  /\ ask' = [ask EXCEPT ![a] = [stage |-> Idle]]
  /\ lock' = IF lock = a THEN NoOne ELSE lock
  /\ UNCHANGED <<row, pending, answer, returned, restarts>>

------------------------------------------------------------------------------
AnswererTo(r, stage) == answer' = [answer EXCEPT ![r].stage = stage]
AnswererDone(r) == answer' = [answer EXCEPT ![r] = [stage |-> Idle]]

\* resolve_approval, under the lock: an entry that is resolved is refused, one that
\* is missing is looked for in the store.
Resolve(r, i, d) ==
  /\ At(answer[r], Idle) /\ lock = NoOne
  /\ pending[i] \notin Decision
  /\ IF pending[i] = "none"
       THEN /\ lock' = r
            /\ answer' = [answer EXCEPT ![r] = [stage |-> "lookup", id |-> i, says |-> d]]
       ELSE /\ answer' = [answer EXCEPT ![r] = [stage |-> "persist", id |-> i, says |-> d]]
            /\ UNCHANGED lock
  /\ UNCHANGED <<row, pending, ask, history>>

\* An unknown request, or one that is decided, is refused.
Lookup(r) ==
  /\ At(answer[r], "lookup")
  /\ lock' = NoOne
  /\ IF row[answer[r].id] = "pending"
       THEN /\ pending' = [pending EXCEPT ![answer[r].id] = "open"]
            /\ AnswererTo(r, "persist")
       ELSE AnswererDone(r) /\ UNCHANGED pending
  /\ UNCHANGED <<row, ask, history>>

\* Mutant of Persist: the store is written after the waiters are released.
PersistLater(r) ==
  /\ At(answer[r], "persist")
  /\ AnswererTo(r, "confirm")
  /\ UNCHANGED <<row, pending, lock, ask, history>>

\* Outside the lock: the decision is stored ...
Persist(r) ==
  /\ At(answer[r], "persist")
  /\ row' = [row EXCEPT ![answer[r].id] = IF @ = "none" THEN @ ELSE answer[r].says]
  /\ AnswererTo(r, "confirm")
  /\ UNCHANGED <<pending, lock, ask, history>>

\* ... and, under the lock again, given to those who wait, unless another answer
\* came first.
Confirm(r) ==
  /\ At(answer[r], "confirm") /\ lock = NoOne
  /\ pending' = [pending EXCEPT ![answer[r].id] =
                   IF @ \in Decision THEN @ ELSE answer[r].says]
  /\ AnswererDone(r)
  /\ UNCHANGED <<row, lock, ask, history>>

AnswerFails(r) ==
  /\ faults < MaxFaults /\ ~At(answer[r], Idle)
  /\ faults' = faults + 1
  /\ AnswererDone(r)
  /\ lock' = IF lock = r THEN NoOne ELSE lock
  /\ UNCHANGED <<row, pending, ask, returned, restarts>>

\* restore, before anything is served.
Restored(i) == IF row[i] = "pending" THEN "open" ELSE "none"

Restart ==
  /\ restarts < MaxRestarts
  /\ restarts' = restarts + 1
  /\ ask' = Resting(Asker) /\ answer' = Resting(Answerer)
  /\ lock' = NoOne
  /\ pending' = [i \in Id |-> Restored(i)]
  /\ UNCHANGED <<row, returned, faults>>

Asking(a) ==
  \/ BarSave(a) \/ BarDeny(a) \/ Join(a) \/ SaveRequest(a) \/ Register(a) \/ Wake(a)

Answering(r) == Lookup(r) \/ Persist(r) \/ Confirm(r)

Next ==
  \/ \E a \in Asker : Asking(a) \/ AskFails(a)
  \/ \E a \in Asker, i \in Id : Answered(a, i) \/ Request(a, i)
  \/ \E r \in Answerer : Answering(r) \/ AnswerFails(r)
  \/ \E r \in Answerer, i \in Id, d \in Decision : Resolve(r, i, d)
  \/ Restart

Spec == Init /\ [][Next]_vars

\* The event loop runs what can go on, and lets everyone have the lock in turn;
\* nobody has to ask or to answer.
FairSpec ==
  /\ Spec
  /\ \A a \in Asker : WF_vars(Asking(a))
  /\ \A a \in Asker : SF_vars(Join(a))
  /\ \A r \in Answerer : WF_vars(Lookup(r) \/ Persist(r)) /\ SF_vars(Confirm(r))

------------------------------------------------------------------------------
(* Properties.                                                             *)

TypeOK ==
  /\ row \in [Id -> {"none", "pending"} \cup Decision]
  /\ pending \in [Id -> {"none", "open"} \cup Decision]
  /\ lock \in {NoOne} \cup Asker \cup Answerer
  /\ ask \in [Asker -> [stage : {Idle}] \cup
       [stage : {"barring", "barred", "joining", "saving", "saved",
                  "waiting"}, id : Id]]
  /\ answer \in [Answerer -> [stage : {Idle}] \cup
       [stage : {"lookup", "persist", "confirm"}, id : Id, says : Decision]]
  /\ returned \in [Id -> SUBSET Decision]
  /\ faults \in 0 .. MaxFaults /\ restarts \in 0 .. MaxRestarts
  /\ \A a \in Asker : lock = a <=> ask[a].stage \in {"saving", "saved"}
  /\ \A r \in Answerer : lock = r <=> answer[r].stage = "lookup"

\* What waiters are released with is durable by then and stays so: a run that dies just
\* after and asks again finds a decision. (For a blocked request nobody waits.)
DecisionDurable == \A i \in Id \ Barred : pending[i] \in Decision => row[i] \in Decision

\* Whoever waits can be answered: its entry is on the gateway and its row in the
\* store, so that an answer or a restart finds it.
WaitersAreKnown ==
  \A a \in Asker : ask[a].stage = "waiting" =>
    pending[ask[a].id] # "none" /\ row[ask[a].id] # "none"

\* While nothing fails, every asker of one request is given the same decision, now
\* and after a restart - except for a blocked one.
AnswersAgree ==
  faults = 0 => \A i \in Id \ Barred : Cardinality(returned[i]) <= 1

\* approval_gateway.py 9: decisions are mirrored into the repository, so while nothing
\* fails the one that released a run is the one the store has.
DecisionMirrored ==
  faults = 0 =>
    \A i \in Id \ Barred : pending[i] \in Decision => row[i] = pending[i]

\* An answer gets its reply and a decision releases whoever waits for it, whatever
\* became of the runs that asked.
Settles ==
  /\ \A r \in Answerer : answer[r].stage # Idle ~> answer[r].stage = Idle
  /\ \A a \in Asker :
       ask[a].stage = "waiting" /\ pending[ask[a].id] \in Decision
         ~> ask[a].stage = Idle

==============================================================================
