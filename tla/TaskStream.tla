------------------------------ MODULE TaskStream ------------------------------
(***************************************************************************)
(* The events of one API task: a run stores each in the repository and     *)
(* then publishes it to the task's topic; the approval gateway stores its  *)
(* own rows among them; readers replay what is stored and go on with what  *)
(* is published.  Runs of the task follow each other (TaskLifecycle).      *)
(*                                                                         *)
(* An event is its number in its run.  What is put in a reader's queue is  *)
(* what the reader is handed, in order, so queues are left out.            *)
(***************************************************************************)
EXTENDS Naturals, Sequences, FiniteSets

CONSTANTS Reader,
          Sql,          \* approvals are rows among the events (SQL), or kept apart
          BufferSize,   \* events a topic keeps for late readers
          MaxRuns, MaxEvents, MaxApprovals, MaxFaults, MaxRestarts \* bounds

VARIABLES
  row,      \* agent_events: [run, seq, event]; run and seq are unique
  latest,   \* the latest run of the task, 0 when there is none
  ended,    \* runs whose row has a final status
  stage,    \* where the latest run is
  counter,  \* the sequence numbers the run has given out
  buffer, closed, \* the topic
  reader    \* [Reader -> where its stream is and what it was handed]

\* What happened, for the properties.
VARIABLES
  asked,    \* approval rows stored
  dropped,  \* events that were stored and not published
  raced,    \* a reader connected while a run was being started
  faults, restarts

topic == <<buffer, closed>>
history == <<asked, dropped, raced, faults, restarts>>
vars == <<row, latest, ended, stage, counter, topic, reader, history>>

Approval == MaxEvents   \* no event of a run has this number
Idle == [stage |-> "idle"]

RowsOf(r) == {x \in row : x.run = r}
Stored(r) == {x.event : x \in RowsOf(r)}
\* list_events of the latest run, by sequence number.
ListEvents(r) ==
  LET before(x) == {y \in RowsOf(r) : y.seq < x.seq}
      nth(i)    == CHOOSE x \in RowsOf(r) : Cardinality(before(x)) = i - 1
  IN  [i \in 1 .. Cardinality(RowsOf(r)) |-> nth(i).event]

Newest(s) == IF Len(s) <= BufferSize THEN s ELSE SubSeq(s, Len(s) - BufferSize + 1, Len(s))

Connecting(c) == reader[c].stage \in {"history", "status", "hydrated"}
Subscribed(c) == reader[c].stage = "live"

------------------------------------------------------------------------------
Init ==
  /\ row = {} /\ latest = 0 /\ ended = {} /\ stage = "off" /\ counter = 0
  /\ buffer = <<>> /\ closed = FALSE
  /\ reader = [c \in Reader |-> Idle]
  /\ asked = 0 /\ dropped = 0 /\ raced = FALSE /\ faults = 0 /\ restarts = 0

Races == raced' = (raced \/ \E c \in Reader : Connecting(c))

\* create_task or resume_task: the row of the run ...
CreateRun ==
  /\ stage = "off" /\ latest < MaxRuns
  /\ latest' = latest + 1 /\ counter' = 0 /\ stage' = "created"
  /\ Races
  /\ UNCHANGED <<row, ended, topic, reader, asked, dropped, faults, restarts>>

\* Mutant of Reopen: the buffer of the run before is kept.
ReopenKeeping ==
  /\ stage = "created" /\ stage' = "running"
  /\ closed' = FALSE
  /\ Races
  /\ UNCHANGED <<row, latest, ended, counter, buffer, reader, asked, dropped, faults, restarts>>

\* ... then its topic, emptied for it.
Reopen ==
  /\ stage = "created" /\ stage' = "running"
  /\ closed' = FALSE /\ buffer' = <<>>
  /\ Races
  /\ UNCHANGED <<row, latest, ended, counter, reader, asked, dropped, faults, restarts>>

\* on_event: the event is stored under the run's next number - a row that is there
\* under that number stays ...
AppendEvent ==
  /\ stage = "running" /\ counter < MaxEvents
  /\ row' = IF Sql /\ \E x \in RowsOf(latest) : x.seq = counter THEN row
            ELSE row \cup {[run |-> latest, seq |-> counter, event |-> counter]}
  /\ counter' = counter + 1 /\ stage' = "stored"
  /\ UNCHANGED <<latest, ended, topic, reader, history>>

\* ... and published: kept for late readers and put in every queue, unless the topic
\* is closed.
Publish ==
  /\ stage = "stored" /\ stage' = "running"
  /\ IF closed THEN UNCHANGED <<buffer, reader>>
     ELSE /\ buffer' = Newest(Append(buffer, counter - 1))
          /\ reader' = [c \in Reader |->
               IF Subscribed(c) THEN [reader[c] EXCEPT !.got = Append(@, counter - 1)]
               ELSE reader[c]]
  /\ UNCHANGED <<row, latest, ended, counter, closed, history>>

\* A row derived from the event cannot be stored: the sink raises, and what it stored
\* is not published.
SinkFails ==
  /\ stage = "stored" /\ faults < MaxFaults
  /\ stage' = "running"
  /\ faults' = faults + 1 /\ dropped' = dropped + 1
  /\ UNCHANGED <<row, latest, ended, counter, topic, reader, asked, raced, restarts>>

\* The approval gateway stores a request or a decision behind what the run has stored.
StoreApproval ==
  /\ stage = "running" /\ asked < MaxApprovals
  /\ asked' = asked + 1
  /\ row' = IF ~Sql THEN row
            ELSE row \cup {[run |-> latest, event |-> Approval,
                            seq |-> IF RowsOf(latest) = {} THEN 0
                                    ELSE 1 + CHOOSE n \in {x.seq : x \in RowsOf(latest)} :
                                           \A x \in RowsOf(latest) : x.seq <= n]}
  /\ UNCHANGED <<latest, ended, stage, counter, topic, reader, dropped, raced, faults, restarts>>

Finalize ==
  /\ stage = "running" /\ stage' = "ending"
  /\ ended' = ended \cup {latest}
  /\ UNCHANGED <<row, latest, counter, topic, reader, history>>

\* Mutant of Close: readers that wait are not told.
CloseSilently ==
  /\ stage = "ending" /\ stage' = "off"
  /\ closed' = TRUE
  /\ UNCHANGED <<row, latest, ended, counter, buffer, reader, history>>

\* The finally of _run: the topic is closed and every reader's stream ends.
Close ==
  /\ stage = "ending" /\ stage' = "off"
  /\ closed' = TRUE
  /\ reader' = [c \in Reader |->
       IF Subscribed(c) THEN [reader[c] EXCEPT !.stage = "done"] ELSE reader[c]]
  /\ UNCHANGED <<row, latest, ended, counter, buffer, history>>

\* A new process: topics and streams are gone, an open run is settled.
Restart ==
  /\ restarts < MaxRestarts /\ restarts' = restarts + 1
  /\ stage' = "off" /\ buffer' = <<>> /\ closed' = FALSE
  /\ ended' = 1 .. latest
  /\ reader' = [c \in Reader |-> Idle]
  /\ UNCHANGED <<row, latest, counter, asked, dropped, raced, faults>>

------------------------------------------------------------------------------
\* stream_task: the stored events of the latest run ...
Connect(c) ==
  /\ reader[c] = Idle
  /\ reader' = [reader EXCEPT ![c] = [stage |-> "history", of |-> latest,
                                       hist |-> ListEvents(latest)]]
  /\ raced' = (raced \/ stage = "created")
  /\ UNCHANGED <<row, latest, ended, stage, counter, topic, asked, dropped, faults, restarts>>

\* ... its status ...
ReadStatus(c) ==
  /\ reader[c].stage = "history"
  /\ reader' = [reader EXCEPT ![c] = [stage |-> "status", of |-> @.of, hist |-> @.hist,
                                       over |-> latest \in ended]]
  /\ UNCHANGED <<row, latest, ended, stage, counter, topic, history>>

\* Mutant of Hydrate: what is stored is put behind what is there.
HydrateTwice(c) ==
  /\ reader[c].stage = "status"
  /\ buffer' = Newest(buffer \o reader[c].hist)
  /\ closed' = (closed \/ reader[c].over)
  /\ reader' = [reader EXCEPT ![c] = [stage |-> "hydrated", of |-> @.of]]
  /\ UNCHANGED <<row, latest, ended, stage, counter, history>>

\* ... fill a topic that is empty, and close it for a run that is over ...
Hydrate(c) ==
  /\ reader[c].stage = "status"
  /\ buffer' = IF buffer = <<>> THEN Newest(reader[c].hist) ELSE buffer
  /\ closed' = (closed \/ reader[c].over)
  /\ reader' = [reader EXCEPT ![c] = [stage |-> "hydrated", of |-> @.of]]
  /\ UNCHANGED <<row, latest, ended, stage, counter, history>>

\* ... and the stream begins: the buffer, and what follows unless the topic is closed.
Subscribe(c) ==
  /\ reader[c].stage = "hydrated"
  /\ reader' = [reader EXCEPT ![c] = [stage |-> IF closed THEN "done" ELSE "live",
                                       of |-> @.of, got |-> buffer]]
  /\ UNCHANGED <<row, latest, ended, stage, counter, topic, history>>

\* The client goes away, or has read to the end.
Leave(c) ==
  /\ reader[c] # Idle
  /\ reader' = [reader EXCEPT ![c] = Idle]
  /\ UNCHANGED <<row, latest, ended, stage, counter, topic, history>>

Next ==
  \/ CreateRun \/ Reopen \/ AppendEvent \/ Publish \/ SinkFails \/ StoreApproval
  \/ Finalize \/ Close \/ Restart
  \/ \E c \in Reader :
       Connect(c) \/ ReadStatus(c) \/ Hydrate(c) \/ Subscribe(c) \/ Leave(c)

Spec == Init /\ [][Next]_vars

------------------------------------------------------------------------------
(* Properties.                                                             *)

\* Run events whose row was never written.
Lost(r) == (0 .. MaxEvents - 1) \ Stored(r)
LostOfLatest == {n \in Lost(latest) : n < counter}

Told(s) == {i \in DOMAIN s : s[i] # Approval}
\* The numbers below n, each once and in order, but for a 0 that may come twice.
Whole(s, n) ==
  /\ {s[i] : i \in Told(s)} = 0 .. n - 1
  /\ \A i, j \in Told(s) : i < j => s[i] < s[j] \/ (s[i] = 0 /\ s[j] = 0)
  /\ \A i, j, k \in Told(s) : i < j /\ j < k => s[i] < s[k]

\* A reader whose stream has ended was handed every event of the run it connected to,
\* in order, whether it came before the first, in between, after the end or after a
\* restart - unless a run was being started meanwhile, the topic keeps fewer (an
\* approval row and a repeated event count), or an event was lost or dropped on the way.
\* Each approval row can cost the run's history one event, and nothing else costs any.
StreamComplete ==
  /\ Cardinality(LostOfLatest) <= IF Sql THEN asked ELSE 0
  /\ \A c \in Reader :
       /\ reader[c].stage = "done" /\ reader[c].of = latest /\ stage = "off" /\ latest > 0
       /\ ~raced /\ dropped = 0 /\ LostOfLatest = {}
       /\ counter + asked < BufferSize
       => Whole(reader[c].got, counter)

\* Nobody waits on a topic whose run is over: a reader that is still to be handed
\* something belongs to a run that will close the topic.
NoReaderLeftBehind ==
  \A c \in Reader : Subscribed(c) => stage # "off" \/ latest = 0

\* What a run reported is in its history (refuted with a SQL store: an approval row
\* takes the number the run gives its next event, which is then not stored).
HistoryHasNoHoles == LostOfLatest = {}

\* An event is in the replay or in the live part, not in both (TLC refutes it).
NeverBoth ==
  \A c \in Reader :
    reader[c].stage \in {"live", "done"} =>
      LET got == reader[c].got
      IN  \A i, j \in Told(got) : got[i] = got[j] => i = j

==============================================================================
