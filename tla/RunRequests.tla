------------------------------ MODULE RunRequests ------------------------------
(***************************************************************************)
(* The HTTP requests around a native run: send_message starts one in the   *)
(* background and streams its events, resume_run continues the latest one  *)
(* under the session's lock, cancel_run finds their cancellations in a     *)
(* registry kept by run id and by session.                                 *)
(*                                                                         *)
(* What a run does is in NativeRun and how events reach a subscriber in    *)
(* EventBus: here a run logs events and ends, and a stream is handed the   *)
(* log in its order.                                                       *)
(***************************************************************************)
EXTENDS Naturals, FiniteSets, SequencesExt

CONSTANTS Session, Sender, Resumer,  \* sessions; requests of either kind
          SessionOf,      \* [Sender \cup Resumer -> Session]
          NoRequest,
          ResumesLive,    \* a resume may come while its run is being served
          MaxEvents,      \* bound: events of a session
          MaxHit          \* bound: once so many requests were meant, no cancel more

VARIABLES
  log,       \* [Session -> the events of its runs and their helpers]
  registry,  \* native_cancels: [run -> the request whose cancellation it holds]
  index,     \* native_cancel_sessions: [Session -> run ids]
  lock,      \* native_resume_locks: [Session -> the request that holds it]
  runOf,     \* [request -> the run it serves]; a sender's is its own
  work,      \* [request -> what its run does]
  stream,    \* [Sender -> what its response does]
  seen,      \* [Sender -> how much of the log its subscription was handed]
  got,       \* [Sender -> the frames sent]
  stopped,   \* requests whose cancellation was flipped ...
  aimed      \* ... and those whose run was served when a cancel named it

requests == <<registry, index, lock, runOf, work>>
streams == <<stream, seen, got>>
vars == <<log, requests, streams, stopped, aimed>>

Request == Sender \cup Resumer
Runs == Sender   \* a run is known by the request that began it
Receipt == [sequence |-> 0, run |-> NoRequest, helper |-> FALSE, type |-> "receipt"]

\* What the constants are.
Setting ==
  /\ SessionOf \in [Request -> Session] /\ Sender \cap Resumer = {}
  /\ NoRequest \notin Request

Init ==
  /\ log = [s \in Session |-> <<>>]
  /\ registry = [r \in Runs |-> NoRequest] /\ index = [s \in Session |-> {}]
  /\ lock = [s \in Session |-> NoRequest]
  /\ runOf = [q \in Request |-> IF q \in Sender THEN q ELSE NoRequest]
  /\ work = [q \in Request |-> "none"]
  /\ stream = [q \in Sender |-> "none"] /\ seen = [q \in Sender |-> 0]
  /\ got = [q \in Sender |-> <<>>]
  /\ stopped = {} /\ aimed = {}

------------------------------------------------------------------------------
(* The registry.                                                            *)
Register(q, r) ==
  /\ registry' = [registry EXCEPT ![r] = q]
  /\ index' = [index EXCEPT ![SessionOf[q]] = @ \cup {r}]

\* Mutant of Unlisted: the session's entry goes with the first of its runs.
UnlistedAll(s, r) == {}
Unlisted(s, r) == index[s] \ {r}
Unregister(q) ==
  /\ registry' = [registry EXCEPT ![runOf[q]] = NoRequest]
  /\ index' = [index EXCEPT ![SessionOf[q]] = Unlisted(SessionOf[q], runOf[q])]

ServedBy(r) == {q \in Request : work[q] = "running" /\ runOf[q] = r}
Cancelling(s, named, rs) ==
  /\ Cardinality(aimed \cup stopped) < MaxHit
  /\ aimed' = aimed \cup UNION {ServedBy(r) : r \in named}
  /\ stopped' = stopped \cup ({registry[r] : r \in rs} \ {NoRequest})
  /\ UNCHANGED <<log, requests, streams>>
\* cancel_run, of one run or of all that the session has.
CancelRun(s, r) == SessionOf[r] = s /\ Cancelling(s, {r}, {r})
CancelSession(s) == Cancelling(s, {r \in Runs : SessionOf[r] = s}, index[s])

------------------------------------------------------------------------------
(* send_message: where the log ends, then the run in the background.        *)
TakeTip(q) ==
  /\ q \in Sender /\ stream[q] = "none" /\ work[q] = "none"
  /\ stream' = [stream EXCEPT ![q] = "asked"]
  /\ seen' = [seen EXCEPT ![q] = Len(log[SessionOf[q]])]
  /\ UNCHANGED <<log, requests, got, stopped, aimed>>

StartRun(q) ==
  /\ q \in Sender /\ stream[q] = "asked"
  /\ Register(q, q)
  /\ work' = [work EXCEPT ![q] = "running"]
  /\ stream' = [stream EXCEPT ![q] = "reading"]
  /\ UNCHANGED <<log, lock, runOf, seen, got, stopped, aimed>>

\* The run and its helpers log events; "error" may be a passing one.
Logged(q) == {e \in ToSet(log[SessionOf[q]]) : e.run = runOf[q] /\ ~e.helper}
Emit(q, type, helper) ==
  LET s == SessionOf[q] IN
  /\ work[q] = "running" /\ Len(log[s]) < MaxEvents
  /\ ~\E e \in Logged(q) : e.type = "finished"
  /\ log' = [log EXCEPT ![s] = Append(@, [sequence |-> Len(@) + 1, run |-> runOf[q],
                                         helper |-> helper, type |-> type])]
  /\ UNCHANGED <<requests, streams, stopped, aimed>>

\* The run ends: it has told so, or it raised, perhaps without a word.
Ends(q, how) ==
  /\ work[q] = "running"
  /\ work' = [work EXCEPT ![q] = how] /\ Unregister(q)
  /\ lock' = [s \in Session |-> IF lock[s] = q THEN NoRequest ELSE lock[s]]
  /\ UNCHANGED <<log, runOf, stopped, aimed>>
Return(q) ==
  /\ \E e \in Logged(q) : e.type = "finished"
  /\ Ends(q, "done") /\ UNCHANGED streams
Raise(q) == Ends(q, "raised") /\ UNCHANGED streams

------------------------------------------------------------------------------
(* The stream of a send.                                                    *)
BelongsToRun(q, e) == e.run = q
\* Its own end or error; also a helper's end, when the run itself is over by then.
\* Mutant of EndsStream: a helper's end ends it at any time.
EndsStreamOfHelper(q, e) == e.type = "finished" \/ (e.type = "error" /\ ~e.helper)
EndsStream(q, e) ==
  \/ e.type \in {"finished", "error"} /\ ~e.helper
  \/ e.type = "finished" /\ work[q] # "running"

Read(q) ==
  /\ stream[q] = "reading" /\ seen[q] < Len(log[SessionOf[q]])
  /\ LET e == log[SessionOf[q]][seen[q] + 1] IN
     /\ got' = [got EXCEPT ![q] = IF BelongsToRun(q, e) THEN Append(@, e) ELSE @]
     /\ stream' = [stream EXCEPT ![q] =
          IF BelongsToRun(q, e) /\ EndsStream(q, e) THEN "awaiting" ELSE @]
  /\ seen' = [seen EXCEPT ![q] = @ + 1]
  /\ UNCHANGED <<log, requests, stopped, aimed>>

\* The background task is awaited; its receipt is the last frame.
GiveReceipt(q) ==
  /\ stream[q] = "awaiting" /\ work[q] # "running"
  /\ got' = [got EXCEPT ![q] = IF work[q] = "done" THEN Append(@, Receipt) ELSE @]
  /\ stream' = [stream EXCEPT ![q] = "closed"]
  /\ UNCHANGED <<log, requests, seen, stopped, aimed>>

\* The client goes: the response is cancelled where it waits, and with it the
\* background task when that is what it waits for.
Disconnect(q) ==
  /\ stream[q] \in {"reading", "awaiting"}
  /\ stream' = [stream EXCEPT ![q] = "gone"]
  /\ IF stream[q] = "awaiting" /\ work[q] = "running"
     THEN Ends(q, "cancelled")
     ELSE UNCHANGED <<log, requests, stopped, aimed>>
  /\ UNCHANGED <<seen, got>>

------------------------------------------------------------------------------
(* resume_run: one at a time in a session, with the run the log ends with.  *)
Latest(s, r) ==
  \E n \in DOMAIN log[s] :
    log[s][n].run = r /\ \A m \in n .. Len(log[s]) : log[s][m].helper <=> m # n

Peek(q, r) ==
  LET s == SessionOf[q] IN
  /\ q \in Resumer /\ work[q] = "none" /\ lock[s] = NoRequest /\ Latest(s, r)
  /\ ResumesLive \/ ServedBy(r) = {}
  /\ lock' = [lock EXCEPT ![s] = q]
  /\ runOf' = [runOf EXCEPT ![q] = r]
  /\ Register(q, r)
  /\ work' = [work EXCEPT ![q] = "running"]
  /\ UNCHANGED <<log, streams, stopped, aimed>>

Next ==
  \/ \E q \in Sender : \/ TakeTip(q) \/ StartRun(q) \/ Read(q) \/ GiveReceipt(q) \/ Disconnect(q)
  \/ \E q \in Request : \/ Return(q) \/ Raise(q)
                        \/ \E type \in {"text", "error", "finished"}, helper \in BOOLEAN :
                             Emit(q, type, helper)
  \/ \E q \in Resumer, r \in Runs : Peek(q, r)
  \/ \E s \in Session : CancelSession(s) \/ \E r \in Runs : CancelRun(s, r)

Spec == Init /\ [][Next]_vars

------------------------------------------------------------------------------
\* A cancel flips the cancellations of the runs it means and no other (messages.py 32-33:
\* "cancelling one can never flip the other"): of the run it names, or of all that the
\* session has at work, those that a resume continues included.
CancelsHitTheirRuns == stopped = aimed

Told(q) == {e \in ToSet(got[q]) : e # Receipt}
\* What is sent after the run's own end is its receipt.
OnOwnEnd(q) ==
  \E i \in DOMAIN got[q] :
    /\ got[q][i].type \in {"finished", "error"} /\ ~got[q][i].helper
    /\ \A j \in DOMAIN got[q] : j > i => got[q][j] = Receipt

\* What a stream sent is what its run and the run's helpers logged since, in order, and
\* nothing of the other runs of the session.  While the run is at work it stops only on
\* the run's own end or error; the receipt comes last and only of a run that returned.
StreamsTellTheRun ==
  \A q \in Sender :
    /\ Told(q) = {e \in ToSet(log[SessionOf[q]]) : e.sequence <= seen[q] /\ BelongsToRun(q, e)}
    /\ \A i, j \in DOMAIN got[q] :
         i < j => got[q][i] # Receipt
                  /\ (got[q][j] = Receipt \/ got[q][i].sequence < got[q][j].sequence)
    /\ stream[q] = "awaiting" /\ work[q] = "running" => OnOwnEnd(q)
    /\ Receipt \in ToSet(got[q]) => work[q] = "done"

\* Both, whichever sends, resumes and cancels overlap in a session.
RequestsMindTheirRuns == CancelsHitTheirRuns /\ StreamsTellTheRun

\* "Stop on this run's terminal event (helper runs contain "/")" (messages.py 253).  TLC
\* refutes it: a client that reads a helper's end after the run is over is sent no more of
\* the run, its end included.
EndsOnOwnEnd ==
  \A q \in Sender :
    stream[q] \in {"awaiting", "closed"} /\ (\E e \in Logged(q) : e.type = "finished")
      => OnOwnEnd(q)

\* A client that goes leaves the run alone (messages.py 232: "Ensure background is awaited
\* even if client disconnects").  TLC refutes it: after an error event the response waits
\* for the background task itself, and its cancellation is passed on.
DisconnectSparesRun == \A q \in Sender : work[q] # "cancelled"

===============================================================================
