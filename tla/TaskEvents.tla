------------------------------ MODULE TaskEvents ------------------------------
(***************************************************************************)
(* The events of one task and what their readers may count on.  MCApiTasks *)
(* checks it on small instances, EventsAndApprovalsProofs proves it.       *)
(***************************************************************************)
EXTENDS Naturals

CONSTANTS Reader, StreamSql, BufferSize, MaxStreamRuns, MaxEvents, MaxApprovals,
          MaxStreamFaults, MaxStreamRestarts

\* Numbers of events, the size of the topics' buffers, and the kind of the store.
ASSUME StreamAssumption == MaxEvents \in Nat /\ BufferSize \in Nat /\ StreamSql \in BOOLEAN

VARIABLES streamRow, latest, ended, stage, counter, buffer, closed, reader, asked, dropped,
          raced, streamFaults, streamRestarts
streamVars == <<streamRow, latest, ended, stage, counter, buffer, closed, reader, asked,
                dropped, raced, streamFaults, streamRestarts>>

Stream == INSTANCE TaskStream
  WITH Sql <- StreamSql, MaxRuns <- MaxStreamRuns, MaxFaults <- MaxStreamFaults,
       MaxRestarts <- MaxStreamRestarts, row <- streamRow, faults <- streamFaults,
       restarts <- streamRestarts

\* A reader is told every event of the run and none twice.  (EventBroker.subscribe, hydrate)
StreamComplete == Stream!StreamComplete

\* Nobody waits for events of a run that is over.  (EventBroker.close, subscribe)
NoReaderLeftBehind == Stream!NoReaderLeftBehind

\* The stored events of a run have no holes.  TLC refutes it.
HistoryHasNoHoles == Stream!HistoryHasNoHoles

===============================================================================
