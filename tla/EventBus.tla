------------------------------ MODULE EventBus ------------------------------
(***************************************************************************)
(* agent-native's EventBus for one session, over the session's stored      *)
(* events: emit by many tasks under the session lock, subscribe by many    *)
(* clients that replay what is stored and then follow live, close, the     *)
(* deletion of the session, and the HTTP endpoint that catches a client up *)
(* before it subscribes.                                                   *)
(*                                                                         *)
(* Every await of the code is a step of its own.  An event is its number   *)
(* and, to tell events apart when numbers start again, the life of the     *)
(* session it belongs to; type, run and payload are left out.              *)
(***************************************************************************)
EXTENDS Naturals, Sequences, FiniteSets, Functions

CONSTANTS Task,       \* coroutines that emit
          Client,     \* consumers of the session's events
          Endpoint,   \* the clients that come through GET .../events?stream=1
          CutSaves,   \* may a save raise when the event is already stored?
          MaxEvents,  \* bound: numbers handed out
          MaxFaults,  \* bound: failed or cut emits and crashes
          MaxDeletes  \* bound: deletions of the session

ASSUME ClientsAssumption == Endpoint \subseteq Client
ASSUME CutAssumption == CutSaves \in BOOLEAN
ASSUME BoundsAssumption ==
  MaxEvents \in Nat /\ MaxFaults \in Nat /\ MaxDeletes \in Nat

VARIABLES
  log,     \* the stored events
  counter, \* last number handed out
  pc,      \* task -> how far its emit got; the lock is held unless "idle"
  event,   \* task -> the event it is emitting
  mode,    \* client -> where its stream is
  queue,   \* client -> its queue on the bus
  backlog, \* client -> loaded events still to be handed over
  last     \* client -> the last number its stream let through

\* What happened, for the properties; a client knows the first two of itself.
VARIABLES
  start,   \* client -> the number it first asked to read after
  got,     \* client -> the events it was handed since
  life,    \* deletions of the session so far
  faults   \* faults so far

bus == <<mode, queue, backlog, last>>
history == <<start, got, life, faults>>
vars == <<log, counter, pc, event, bus, history>>

Event == [seq : 0 .. MaxEvents, life : 0 .. MaxDeletes]
NoEvent == [seq |-> 0, life |-> 0]
Stop == NoEvent
Mode == {"away", "catchup", "joining", "replaying", "live"}

\* Mutant of Registered: a queue is registered when the replay is over.
RegisteredAfterReplay == {c \in Client : mode[c] = "live"}

\* Clients whose queue is registered on the bus.
Registered == {c \in Client : mode[c] \in {"joining", "replaying", "live"}}

\* load_events: what is stored after a number.  It comes in order of the numbers,
\* so what is loaded is handed over from its first event on.
After(events, seq) == {e \in events : e.seq > seq}
IsFirst(e, events) == e \in events /\ \A d \in events : e.seq <= d.seq

\* max([seq] + [the numbers of what is stored])
IsTip(n, events, seq) ==
  /\ n \in {e.seq : e \in events} \cup {seq}
  /\ seq <= n /\ \A e \in events : e.seq <= n

\* What the client would send as its Last-Event-ID.
Seen(c) == IF got[c] = <<>> THEN start[c] ELSE got[c][Len(got[c])].seq

------------------------------------------------------------------------------
Init ==
  /\ log = {}
  /\ counter = 0
  /\ pc = [t \in Task |-> "idle"]
  /\ event = [t \in Task |-> NoEvent]
  /\ mode = [c \in Client |-> "away"]
  /\ queue = [c \in Client |-> <<>>]
  /\ backlog = [c \in Client |-> {}]
  /\ last = [c \in Client |-> 0]
  /\ start = [c \in Client |-> 0]
  /\ got = [c \in Client |-> <<>>]
  /\ life = 0
  /\ faults = 0

\* Mutant of LockFree: no lock around emit.
LockAlwaysFree == TRUE

LockFree == \A t \in Task : pc[t] = "idle"

\* emit: take the session lock, then the next number ...
Number(t) ==
  /\ pc[t] = "idle"
  /\ LockFree
  /\ counter < MaxEvents
  /\ counter' = counter + 1
  /\ event' = [event EXCEPT ![t] = [seq |-> counter + 1, life |-> life]]
  /\ pc' = [pc EXCEPT ![t] = "numbered"]
  /\ UNCHANGED <<log, bus, history>>

\* ... store the event ...
Save(t) ==
  /\ pc[t] = "numbered"
  /\ log' = log \cup {event[t]}
  /\ pc' = [pc EXCEPT ![t] = "saved"]
  /\ UNCHANGED <<counter, event, bus, history>>

Push(S, e) ==
  queue' = [c \in Client |-> IF c \in S THEN Append(queue[c], e) ELSE queue[c]]

\* ... and hand it to every registered queue before the lock is released.
FanOut(t) ==
  /\ pc[t] = "saved"
  /\ Push(Registered, event[t])
  /\ pc' = [pc EXCEPT ![t] = "idle"]
  /\ event' = [event EXCEPT ![t] = NoEvent]
  /\ UNCHANGED <<log, counter, mode, backlog, last, history>>

\* An emit that raises or is cancelled before its event is stored: the number is
\* gone.  When the save itself is cut, the event may be stored and not announced.
FailEmit(t) ==
  /\ faults < MaxFaults
  /\ pc[t] = "numbered" \/ (CutSaves /\ pc[t] = "saved")
  /\ faults' = faults + 1
  /\ pc' = [pc EXCEPT ![t] = "idle"]
  /\ event' = [event EXCEPT ![t] = NoEvent]
  /\ UNCHANGED <<log, counter, bus, start, got, life>>

------------------------------------------------------------------------------
SetMode(c, m) == mode' = [mode EXCEPT ![c] = m]

\* The streams of S end; finally takes their queues off the bus.
Unsubscribe(S) ==
  /\ mode' = [c \in Client |-> IF c \in S THEN "away" ELSE mode[c]]
  /\ queue' = [c \in Client |-> IF c \in S THEN <<>> ELSE queue[c]]
  /\ backlog' = [c \in Client |-> IF c \in S THEN {} ELSE backlog[c]]

\* A consumer of new events only reads the tip before it subscribes.
Snapshot(c) ==
  /\ mode[c] = "away"
  /\ \E n \in 0 .. MaxEvents :
       IsTip(n, log, 0) /\ start' = [start EXCEPT ![c] = n]
  /\ got' = [got EXCEPT ![c] = <<>>]
  /\ UNCHANGED <<log, counter, pc, event, bus, life, faults>>

Register(c) ==
  /\ SetMode(c, "joining")
  /\ queue' = [queue EXCEPT ![c] = <<>>]

\* subscribe: the queue is registered before anything is loaded ...
Subscribe(c) ==
  /\ c \notin Endpoint
  /\ mode[c] = "away"
  /\ Register(c)
  /\ last' = [last EXCEPT ![c] = Seen(c)]
  /\ UNCHANGED <<log, counter, pc, event, backlog, history>>

\* ... then the stored events are loaded ...
Load(c) ==
  /\ mode[c] = "joining"
  /\ backlog' = [backlog EXCEPT ![c] = After(log, last[c])]
  /\ SetMode(c, "replaying")
  /\ UNCHANGED <<log, counter, pc, event, queue, last, history>>

\* Mutant of Take: a number seen before is let through.
TakeAny(c, e) ==
  /\ last' = [last EXCEPT ![c] = e.seq]
  /\ got' = [got EXCEPT ![c] = Append(@, e)]

\* A number the stream is past is skipped.
Take(c, e) ==
  IF e.seq <= last[c]
    THEN UNCHANGED <<last, got>>
    ELSE /\ last' = [last EXCEPT ![c] = e.seq]
         /\ got' = [got EXCEPT ![c] = Append(@, e)]

\* ... and yielded one by one ...
Replay(c) ==
  /\ mode[c] = "replaying"
  /\ \E e \in backlog[c] :
       /\ IsFirst(e, backlog[c])
       /\ Take(c, e)
       /\ backlog' = [backlog EXCEPT ![c] = @ \ {e}]
  /\ UNCHANGED <<log, counter, pc, event, mode, queue, start, life, faults>>

GoLive(c) ==
  /\ mode[c] = "replaying"
  /\ backlog[c] = {}
  /\ SetMode(c, "live")
  /\ UNCHANGED <<log, counter, pc, event, queue, backlog, last, history>>

\* ... before the queue is read.
Receive(c) ==
  /\ mode[c] = "live"
  /\ queue[c] # <<>>
  /\ Head(queue[c]) # Stop
  /\ Take(c, Head(queue[c]))
  /\ queue' = [queue EXCEPT ![c] = Tail(@)]
  /\ UNCHANGED <<log, counter, pc, event, mode, backlog, start, life, faults>>

Stopped(c) ==
  /\ mode[c] = "live"
  /\ queue[c] # <<>>
  /\ Head(queue[c]) = Stop
  /\ Unsubscribe({c})
  /\ UNCHANGED <<log, counter, pc, event, last, history>>

Disconnect(c) ==
  /\ mode[c] # "away"
  /\ Unsubscribe({c})
  /\ UNCHANGED <<log, counter, pc, event, last, history>>

\* get_events with stream=1: what is stored is loaded and sent ...
Fetch(c) ==
  /\ c \in Endpoint
  /\ mode[c] = "away"
  /\ last' = [last EXCEPT ![c] = Seen(c)]
  /\ backlog' = [backlog EXCEPT ![c] = After(log, Seen(c))]
  /\ SetMode(c, "catchup")
  /\ UNCHANGED <<log, counter, pc, event, queue, history>>

Send(c) ==
  /\ mode[c] = "catchup"
  /\ \E e \in backlog[c] :
       /\ IsFirst(e, backlog[c])
       /\ got' = [got EXCEPT ![c] = Append(@, e)]
       /\ backlog' = [backlog EXCEPT ![c] = @ \ {e}]
  /\ UNCHANGED <<log, counter, pc, event, mode, queue, last, start, life, faults>>

\* Mutant of SubscribeFromTip: the number the client came with is kept.
SubscribeFromStart(c) ==
  /\ mode[c] = "catchup"
  /\ backlog[c] = {}
  /\ Register(c)
  /\ UNCHANGED <<log, counter, pc, event, backlog, last, history>>

\* ... then loaded again, for the number to subscribe from.
SubscribeFromTip(c) ==
  /\ mode[c] = "catchup"
  /\ backlog[c] = {}
  /\ Register(c)
  /\ \E n \in 0 .. MaxEvents :
       IsTip(n, log, last[c]) /\ last' = [last EXCEPT ![c] = n]
  /\ UNCHANGED <<log, counter, pc, event, backlog, history>>

------------------------------------------------------------------------------
\* EventBus.close
Close ==
  /\ \A c \in Client : Stop \notin Range(queue[c])
  /\ Registered # {}
  /\ Push(Registered, Stop)
  /\ UNCHANGED <<log, counter, pc, event, mode, backlog, last, history>>

\* delete_session: events and counter go, streams and locks stay.
DeleteSession ==
  /\ life < MaxDeletes
  /\ life' = life + 1
  /\ log' = {}
  /\ counter' = 0
  /\ UNCHANGED <<pc, event, bus, start, got, faults>>

\* The process dies and is restarted: what is stored stays.
Crash ==
  /\ faults < MaxFaults
  /\ faults' = faults + 1
  /\ pc' = [t \in Task |-> "idle"]
  /\ event' = [t \in Task |-> NoEvent]
  /\ Unsubscribe(Client)
  /\ UNCHANGED <<log, counter, last, start, got, life>>

Emit(t) == Number(t) \/ Save(t) \/ FanOut(t)

Stream(c) == Load(c) \/ Replay(c) \/ GoLive(c) \/ Receive(c) \/ Stopped(c)

CatchUp(c) == Fetch(c) \/ Send(c) \/ SubscribeFromTip(c)

\* The bus with clients that subscribe to it.
Direct ==
  \/ \E t \in Task : Emit(t) \/ FailEmit(t)
  \/ \E c \in Client : Stream(c) \/ Snapshot(c) \/ Subscribe(c) \/ Disconnect(c)
  \/ Close \/ Crash

\* With the catch-up endpoint and the deletion of the session.
Next == Direct \/ (\E c \in Client : CatchUp(c)) \/ DeleteSession

Spec == Init /\ [][Next]_vars

\* The event loop runs every coroutine that can go on; nobody has to connect.
Fairness ==
  /\ \A t \in Task : WF_vars(Save(t) \/ FanOut(t))
  /\ \A c \in Client : WF_vars(Stream(c))

\* A subscriber can be promised the whole log only without the other two: a client of
\* the endpoint misses what is stored while it catches up.
DirectSpec == Init /\ [][Direct]_vars /\ Fairness

------------------------------------------------------------------------------
(* Properties.                                                             *)

\* The variables keep their shapes, and one task at most is inside an emit.
TypeOK ==
  /\ log \subseteq Event
  /\ counter \in 0 .. MaxEvents
  /\ pc \in [Task -> {"idle", "numbered", "saved"}]
  /\ event \in [Task -> Event]
  /\ mode \in [Client -> Mode]
  /\ queue \in [Client -> Seq(Event)]
  /\ backlog \in [Client -> SUBSET Event]
  /\ last \in [Client -> 0 .. MaxEvents]
  /\ start \in [Client -> 0 .. MaxEvents]
  /\ got \in [Client -> Seq(Event)]
  /\ life \in 0 .. MaxDeletes
  /\ faults \in 0 .. MaxFaults
  /\ \A t, u \in Task : pc[t] # "idle" /\ pc[u] # "idle" => t = u

\* Events are stored in the order of their numbers, each number once: a replay in
\* that order is the order things happened in.
SavedInOrder ==
  [][\A e \in log' \ log : \A d \in log : d.seq < e.seq]_vars

Ascending(events) ==
  \A i, j \in DOMAIN events : i < j => events[i].seq < events[j].seq

\* Nothing arrives twice or out of order, even when saves are cut off, events are
\* missed or the session is deleted under a stream - but the catch-up endpoint
\* starts again with a session that starts again.
HandedInOrder ==
  \A c \in Client : life = 0 \/ c \notin Endpoint => Ascending(got[c])

\* What a client was handed since it first joined is exactly what the log holds up
\* to there, in order and each event once, whether it came from the replay, the
\* queue or both, and across disconnects and crashes.
GapFree ==
  \A c \in Client :
    /\ Range(got[c]) = {e \in log : start[c] < e.seq /\ e.seq <= Seen(c)}
    /\ Ascending(got[c])

\* The bus implements the numbered log: a reader's cursor is what its client has
\* seen.
Log == INSTANCE EventLog WITH
         Entry <- Event, Reader <- Client,
         cursor <- [c \in Client |-> Seen(c)],
         open <- {c \in Client : mode[c] # "away"}

\* What EventLog promises of every reader, for the readers of this bus: the log
\* only grows and a reader who stays is shown each of its events, in order.
Promise == Log!FairSpec

\* events.py 103-104: "de-duping by number means nothing arrives twice" - what a
\* stream skips, its client has.
SkipsOnlySeen ==
  [][\A c \in Client :
       /\ mode'[c] # "away" /\ start[c] = 0
       /\ queue[c] # <<>> /\ queue'[c] = Tail(queue[c]) /\ got'[c] = got[c]
       => Head(queue[c]) \in Range(got[c])]_vars

=============================================================================
