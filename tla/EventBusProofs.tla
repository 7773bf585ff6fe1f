--------------------------- MODULE EventBusProofs ---------------------------
(***************************************************************************)
(* What the event bus guarantees for any tasks, clients and bounds.        *)
(* Whatever happens: nothing is handed over twice or out of order, and     *)
(* while the session is not deleted events are stored in order.  While,    *)
(* besides, a save that raises stores nothing and the clients subscribe    *)
(* to the bus directly: every client is handed exactly the log, and the    *)
(* bus implements the numbered log of EventLog.                            *)
(*                                                                         *)
(* GapFree is not inductive.  What makes it so is where an event is        *)
(* between its save and its client: while it is being announced only the   *)
(* emitter has it, and from then on the client's backlog or queue does,    *)
(* unless the client has not loaded the log yet.                           *)
(***************************************************************************)
EXTENDS EventBus, TLAPS

\* The setting of GapFree and of the refinement.
Plain == ~CutSaves /\ MaxDeletes = 0 /\ Endpoint = {}

\* The emitter alone has this event: it is stored and not yet announced.
Saving(e) == \E t \in Task : pc[t] = "saved" /\ event[t] = e
Announced == {e \in log : ~Saving(e)}

\* Numbers are given out once, and the emitter holds the last of them.
LogOK ==
  /\ \A e \in log : 0 < e.seq /\ e.seq <= counter
  /\ \A d, e \in log : d.seq = e.seq => d = e
  /\ \A t \in Task : pc[t] = "numbered" =>
       event[t].seq = counter /\ 0 < counter /\ \A e \in log : e.seq < counter
  /\ \A t \in Task : pc[t] = "saved" => event[t] \in log /\ event[t].seq = counter

\* What the client was handed is the log up to what it has seen.
Handed(c) ==
  /\ start[c] <= Seen(c)
  /\ Seen(c) = 0 \/ \E e \in log : e.seq = Seen(c)
  /\ Range(got[c]) = {e \in log : start[c] < e.seq /\ e.seq <= Seen(c)}
  /\ Ascending(got[c])

\* What is left of the replay comes before everything else the client lacks.
BacklogOK(c) ==
  mode[c] = "replaying" =>
    /\ backlog[c] \subseteq log
    /\ \A e \in backlog[c] : Seen(c) < e.seq
    /\ \A e \in backlog[c], d \in log :
         Seen(c) < d.seq /\ d.seq < e.seq => d \in backlog[c]

\* The queue holds announced events in order, and the stop mark.
QueueOK(c) ==
  /\ \A i \in DOMAIN queue[c] : queue[c][i] = Stop \/ queue[c][i] \in Announced
  /\ \A i, j \in DOMAIN queue[c] :
       i < j /\ queue[c][i] # Stop /\ queue[c][j] # Stop =>
         queue[c][i].seq < queue[c][j].seq

\* What was announced and the client has not seen is on its way.
OnItsWay(c) ==
  /\ mode[c] = "replaying" =>
       \A e \in Announced :
         Seen(c) < e.seq => e \in backlog[c] \/ e \in Range(queue[c])
  /\ mode[c] = "live" =>
       \A e \in Announced : Seen(c) < e.seq => e \in Range(queue[c])

ClientOK(c) ==
  /\ mode[c] # "catchup"
  /\ mode[c] # "away" => last[c] = Seen(c)
  /\ Handed(c)
  /\ BacklogOK(c)
  /\ QueueOK(c)
  /\ OnItsWay(c)

BusOK == \A c \in Client : ClientOK(c)

BusInv == TypeOK /\ LogOK /\ BusOK

------------------------------------------------------------------------------
(* Sequences.                                                              *)

LEMMA RangeAppend ==
  ASSUME NEW S, NEW s \in Seq(S), NEW e
  PROVE  Range(Append(s, e)) = Range(s) \cup {e}
<1> DEFINE n == Len(s) + 1
<1>1. /\ Len(s) \in Nat
      /\ DOMAIN s = 1 .. Len(s)
      /\ DOMAIN Append(s, e) = 1 .. n
      /\ Append(s, e)[n] = e
      /\ \A i \in DOMAIN s : Append(s, e)[i] = s[i]
  OBVIOUS
<1>2. \A i \in DOMAIN Append(s, e) : i = n \/ i \in DOMAIN s
  BY <1>1
<1>3. n \in DOMAIN Append(s, e) /\ \A i \in DOMAIN s : i \in DOMAIN Append(s, e)
  BY <1>1
<1> HIDE DEF n
<1> QED BY <1>1, <1>2, <1>3 DEF Range

LEMMA RangeTail ==
  ASSUME NEW S, NEW s \in Seq(S), s # <<>>
  PROVE  \A e \in Range(s) : e = Head(s) \/ e \in Range(Tail(s))
<1>1. /\ Len(s) \in Nat /\ Len(s) > 0
      /\ DOMAIN s = 1 .. Len(s)
      /\ Head(s) = s[1]
      /\ DOMAIN Tail(s) = 1 .. Len(s) - 1
      /\ \A i \in 1 .. Len(s) - 1 : Tail(s)[i] = s[i + 1]
  OBVIOUS
<1> SUFFICES ASSUME NEW i \in DOMAIN s PROVE s[i] = Head(s) \/ s[i] \in Range(Tail(s))
  BY DEF Range
<1>2. CASE i = 1
  BY <1>1, <1>2
<1>3. CASE i # 1
  <2>1. i - 1 \in DOMAIN Tail(s) /\ Tail(s)[i - 1] = s[i]
    BY <1>1, <1>3
  <2> QED BY <2>1 DEF Range
<1> QED BY <1>2, <1>3

\* One more event at the end keeps the order.
LEMMA AscendingAppend ==
  ASSUME NEW S, NEW s \in Seq(S), NEW e, Ascending(s),
         \A d \in Range(s) : d.seq < e.seq
  PROVE  Ascending(Append(s, e))
<1> DEFINE n == Len(s) + 1
<1>1. /\ Len(s) \in Nat
      /\ DOMAIN s = 1 .. Len(s)
      /\ DOMAIN Append(s, e) = 1 .. n
      /\ Append(s, e)[n] = e
      /\ \A i \in DOMAIN s : Append(s, e)[i] = s[i]
  OBVIOUS
<1> SUFFICES ASSUME NEW i \in 1 .. n, NEW j \in 1 .. n, i < j
             PROVE  Append(s, e)[i].seq < Append(s, e)[j].seq
  BY <1>1 DEF Ascending
<1>2. i \in DOMAIN s
  BY <1>1
<1>3. CASE j = n
  BY <1>1, <1>2, <1>3 DEF Range
<1>4. CASE j \in DOMAIN s
  BY <1>1, <1>2, <1>4 DEF Ascending
<1> QED BY <1>1, <1>3, <1>4

------------------------------------------------------------------------------
(* Type correctness.                                                       *)

LEMMA TypeInit == Init => TypeOK
BY BoundsAssumption DEF Init, TypeOK, Event, NoEvent, Mode

LEMMA UnsubscribeType ==
  ASSUME TypeOK, NEW S, Unsubscribe(S)
  PROVE  /\ mode' \in [Client -> Mode]
         /\ queue' \in [Client -> Seq(Event)]
         /\ backlog' \in [Client -> SUBSET Event]
BY DEF TypeOK, Unsubscribe, Mode

LEMMA PushType ==
  ASSUME TypeOK, NEW S, NEW e \in Event, Push(S, e)
  PROVE  queue' \in [Client -> Seq(Event)]
BY DEF TypeOK, Push

LEMMA TakeType ==
  ASSUME TypeOK, NEW c \in Client, NEW e \in Event, Take(c, e)
  PROVE  last' \in [Client -> 0 .. MaxEvents] /\ got' \in [Client -> Seq(Event)]
<1>1. e.seq \in 0 .. MaxEvents
  BY DEF Event
<1>2. CASE e.seq <= last[c]
  BY <1>2 DEF TypeOK, Take
<1>3. CASE ~(e.seq <= last[c])
  <2>1. /\ last' = [last EXCEPT ![c] = e.seq]
        /\ got' = [got EXCEPT ![c] = Append(@, e)]
    BY <1>3 DEF Take
  <2> QED BY <1>1, <2>1 DEF TypeOK
<1> QED BY <1>2, <1>3

LEMMA SeenType ==
  ASSUME TypeOK, NEW c \in Client
  PROVE  Seen(c) \in 0 .. MaxEvents
<1>1. CASE got[c] = <<>>
  BY <1>1 DEF TypeOK, Seen
<1>2. CASE got[c] # <<>>
  <2>1. got[c][Len(got[c])] \in Event
    BY <1>2 DEF TypeOK
  <2> QED BY <1>2, <2>1 DEF Seen, Event
<1> QED BY <1>1, <1>2

LEMMA TypeStep == TypeOK /\ [Next]_vars => TypeOK'
<1> SUFFICES ASSUME TypeOK, [Next]_vars PROVE TypeOK'
  OBVIOUS
<1>0. MaxEvents \in Nat /\ MaxFaults \in Nat /\ MaxDeletes \in Nat
  BY BoundsAssumption
<1>1. Stop \in Event /\ NoEvent \in Event
  BY <1>0 DEF Stop, NoEvent, Event
<1>2. ASSUME NEW t \in Task, Number(t) PROVE TypeOK'
  <2>1. counter' = counter + 1 /\ counter' \in 0 .. MaxEvents
    BY <1>0, <1>2 DEF Number, TypeOK
  <2>2. [seq |-> counter + 1, life |-> life] \in Event
    BY <2>1 DEF Event, TypeOK
  <2> QED BY <1>2, <2>1, <2>2 DEF Number, TypeOK, LockFree, bus, history
<1>3. ASSUME NEW t \in Task, Save(t) PROVE TypeOK'
  BY <1>3 DEF Save, TypeOK, bus, history
<1>4. ASSUME NEW t \in Task, FanOut(t) PROVE TypeOK'
  <2>1. queue' \in [Client -> Seq(Event)]
    BY <1>4, PushType DEF FanOut, TypeOK
  <2> QED BY <1>1, <1>4, <2>1 DEF FanOut, TypeOK, history
<1>5. ASSUME NEW t \in Task, FailEmit(t) PROVE TypeOK'
  BY <1>0, <1>1, <1>5 DEF FailEmit, TypeOK, bus
<1>6. ASSUME NEW c \in Client, Load(c) PROVE TypeOK'
  BY <1>6 DEF Load, SetMode, After, TypeOK, Mode, history
<1>7. ASSUME NEW c \in Client, Replay(c) PROVE TypeOK'
  <2>1. PICK e \in backlog[c] : /\ Take(c, e)
                                /\ backlog' = [backlog EXCEPT ![c] = @ \ {e}]
    BY <1>7 DEF Replay
  <2>2. e \in Event
    BY <2>1 DEF TypeOK
  <2> QED BY <1>7, <2>1, <2>2, TakeType DEF Replay, TypeOK
<1>8. ASSUME NEW c \in Client, GoLive(c) PROVE TypeOK'
  BY <1>8 DEF GoLive, SetMode, TypeOK, Mode, history
<1>9. ASSUME NEW c \in Client, Receive(c) PROVE TypeOK'
  <2>1. queue[c] \in Seq(Event) /\ queue[c] # <<>>
    BY <1>9 DEF Receive, TypeOK
  <2>2. Head(queue[c]) \in Event /\ Tail(queue[c]) \in Seq(Event)
    BY <2>1
  <2> QED BY <1>9, <2>2, TakeType DEF Receive, TypeOK
<1>10. ASSUME NEW c \in Client, Stopped(c) \/ Disconnect(c) PROVE TypeOK'
  BY <1>10, UnsubscribeType DEF Stopped, Disconnect, TypeOK, history
<1>11. ASSUME NEW c \in Client, Fetch(c) PROVE TypeOK'
  BY <1>11, SeenType DEF Fetch, SetMode, After, TypeOK, Mode, history
<1>12. ASSUME NEW c \in Client, Send(c) PROVE TypeOK'
  BY <1>12 DEF Send, TypeOK
<1>13. ASSUME NEW c \in Client, SubscribeFromTip(c) PROVE TypeOK'
  BY <1>13 DEF SubscribeFromTip, Register, SetMode, TypeOK, Mode, history
<1>14. ASSUME NEW c \in Client, Snapshot(c) PROVE TypeOK'
  BY <1>14 DEF Snapshot, TypeOK, bus
<1>15. ASSUME NEW c \in Client, Subscribe(c) PROVE TypeOK'
  BY <1>15, SeenType DEF Subscribe, Register, SetMode, TypeOK, Mode, history
<1>16. CASE Close
  <2>1. queue' \in [Client -> Seq(Event)]
    BY <1>1, <1>16, PushType DEF Close
  <2> QED BY <1>16, <2>1 DEF Close, TypeOK, history
<1>17. CASE DeleteSession
  BY <1>0, <1>17 DEF DeleteSession, TypeOK, bus
<1>18. CASE Crash
  BY <1>0, <1>1, <1>18, UnsubscribeType DEF Crash, TypeOK
<1>19. CASE UNCHANGED vars
  BY <1>19 DEF TypeOK, vars, bus, history
<1> QED BY <1>2, <1>3, <1>4, <1>5, <1>6, <1>7, <1>8, <1>9, <1>10, <1>11, <1>12,
           <1>13, <1>14, <1>15, <1>16, <1>17, <1>18, <1>19
        DEF Next, Direct, Emit, Stream, CatchUp

\* Every reachable state is well typed, and one task at most is inside an emit.
THEOREM TypeCorrect == Spec => []TypeOK
BY TypeInit, TypeStep, PTL DEF Spec

------------------------------------------------------------------------------
(* The log.                                                                *)

LEMMA BusInit == Init => BusInv
<1> SUFFICES ASSUME Init PROVE BusInv
  OBVIOUS
<1>1. LogOK
  BY DEF Init, LogOK
<1>2. ASSUME NEW c \in Client PROVE ClientOK(c)
  <2>1. got[c] = <<>> /\ start[c] = 0 /\ mode[c] = "away" /\ queue[c] = <<>> /\ log = {}
    BY DEF Init
  <2>2. Seen(c) = 0
    BY <2>1 DEF Seen
  <2> QED BY <2>1, <2>2 DEF ClientOK, Handed, BacklogOK, QueueOK, OnItsWay, Ascending, Range
<1> QED BY <1>1, <1>2, TypeInit DEF BusInv, BusOK

\* The numbers in the log are kept in order by every step, until the session is
\* deleted under an emit.
LEMMA LogStep ==
  ASSUME TypeOK, LogOK, [Next]_vars, life' = 0
  PROVE  LogOK'
<1>0. /\ counter \in Nat /\ log \subseteq Event /\ pc \in [Task -> {"idle", "numbered", "saved"}]
      /\ event \in [Task -> Event]
      /\ \A e \in Event : e.seq \in Nat
      /\ \A t, u \in Task : pc[t] # "idle" /\ pc[u] # "idle" => t = u
  BY DEF TypeOK, Event
<1>1. ASSUME NEW t \in Task, Number(t) PROVE LogOK'
  <2>1. /\ counter' = counter + 1 /\ log' = log
        /\ event'[t].seq = counter + 1
        /\ pc' = [pc EXCEPT ![t] = "numbered"]
        /\ \A u \in Task : pc[u] = "idle"
    BY <1>0, <1>1 DEF Number, LockFree
  <2>2. \A u \in Task : u # t => pc'[u] = "idle"
    BY <1>0, <2>1
  <2>3. pc'[t] = "numbered"
    BY <1>0, <2>1
  <2> QED BY <1>0, <2>1, <2>2, <2>3 DEF LogOK
<1>2. ASSUME NEW t \in Task, Save(t) PROVE LogOK'
  <2>1. /\ log' = log \cup {event[t]} /\ counter' = counter /\ event' = event
        /\ pc' = [pc EXCEPT ![t] = "saved"] /\ pc[t] = "numbered"
    BY <1>2 DEF Save
  <2>2. \A u \in Task : u # t => pc'[u] = "idle"
    BY <1>0, <2>1
  <2>3. event[t].seq = counter /\ 0 < counter /\ \A e \in log : e.seq < counter
    BY <2>1 DEF LogOK
  <2>4. pc'[t] = "saved"
    BY <1>0, <2>1
  <2>5. \A e \in log' : 0 < e.seq /\ e.seq <= counter'
    BY <1>0, <2>1, <2>3 DEF LogOK
  <2>6. \A d, e \in log' : d.seq = e.seq => d = e
    BY <1>0, <2>1, <2>3 DEF LogOK
  <2> QED BY <2>1, <2>2, <2>3, <2>4, <2>5, <2>6 DEF LogOK
<1>3. ASSUME NEW t \in Task, FanOut(t) \/ FailEmit(t) PROVE LogOK'
  <2>1. /\ log' = log /\ counter' = counter
        /\ pc' = [pc EXCEPT ![t] = "idle"]
        /\ event' = [event EXCEPT ![t] = NoEvent]
    BY <1>3 DEF FanOut, FailEmit
  <2>2. \A u \in Task : pc'[u] # "idle" => pc'[u] = pc[u] /\ event'[u] = event[u]
    BY <1>0, <2>1
  <2> QED BY <2>1, <2>2 DEF LogOK
<1>4. CASE Crash
  BY <1>4 DEF Crash, LogOK
<1>5. CASE UNCHANGED <<log, counter, pc, event>>
  BY <1>5 DEF LogOK
<1>6. UNCHANGED <<log, counter, pc, event>> \/ Crash
      \/ \E t \in Task : Emit(t) \/ FailEmit(t)
  <2>1. ~DeleteSession
    BY DEF DeleteSession, TypeOK
  <2> QED BY <2>1 DEF Next, Direct, Stream, CatchUp, Load, Replay, GoLive, Receive, Stopped, Fetch,
                      Send, SubscribeFromTip, Snapshot, Subscribe, Disconnect, Close, vars
<1> QED BY <1>1, <1>2, <1>3, <1>4, <1>5, <1>6 DEF Emit

\* Events are stored in the order of their numbers.
LEMMA SavedInOrderStep ==
  ASSUME LogOK, [Next]_vars, NEW e \in log' \ log, NEW d \in log
  PROVE  d.seq < e.seq
<1>1. PICK t \in Task : Save(t)
  BY DEF Next, Direct, Emit, Number, FanOut, FailEmit, Stream, CatchUp, Load, Replay, GoLive, Receive,
     Stopped, Fetch, Send, SubscribeFromTip, Snapshot, Subscribe, Disconnect, Close,
     DeleteSession, Crash, vars
<1>2. e = event[t] /\ pc[t] = "numbered"
  BY <1>1 DEF Save
<1> QED BY <1>2 DEF LogOK

------------------------------------------------------------------------------
(* The clients.                                                            *)

LEMMA EventNumbers ==
  ASSUME TypeOK
  PROVE  /\ counter \in Nat
         /\ \A e \in log : e \in Event
         /\ \A e \in Event : e.seq \in Nat
         /\ \A c \in Client : Seen(c) \in Nat /\ start[c] \in Nat /\ last[c] \in Nat
         /\ \A c \in Client : queue[c] \in Seq(Event) /\ got[c] \in Seq(Event)
         /\ \A c \in Client : backlog[c] \subseteq Event
<1>1. /\ counter \in Nat
      /\ \A e \in log : e \in Event
      /\ \A e \in Event : e.seq \in Nat
  BY DEF TypeOK, Event
<1>2. \A c \in Client : Seen(c) \in Nat
  BY SeenType
<1>3. \A c \in Client : start[c] \in Nat /\ last[c] \in Nat
  BY DEF TypeOK
<1>4. /\ \A c \in Client : queue[c] \in Seq(Event) /\ got[c] \in Seq(Event)
      /\ \A c \in Client : backlog[c] \subseteq Event
  BY DEF TypeOK
<1> QED BY <1>1, <1>2, <1>3, <1>4

\* What the client has and sees does not change.
Same(c) ==
  /\ mode'[c] = mode[c] /\ last'[c] = last[c]
  /\ backlog'[c] = backlog[c] /\ queue'[c] = queue[c]
  /\ got'[c] = got[c] /\ start'[c] = start[c]

LEMMA SameSeen ==
  ASSUME NEW c, got'[c] = got[c], start'[c] = start[c]
  PROVE  Seen(c)' = Seen(c)
BY DEF Seen

LEMMA ClientIdle ==
  ASSUME NEW c \in Client, ClientOK(c), Same(c), log' = log, Announced' = Announced
  PROVE  ClientOK(c)'
BY SameSeen DEF Same, ClientOK, Handed, BacklogOK, QueueOK, OnItsWay

LEMMA AnnouncedSame ==
  ASSUME UNCHANGED <<log, pc, event>>
  PROVE  Announced' = Announced
BY DEF Announced, Saving

\* The event being announced has the greatest number of the log.
LEMMA SavingIsLast ==
  ASSUME TypeOK, LogOK, NEW t \in Task, pc[t] = "saved"
  PROVE  /\ event[t] \in log
         /\ \A d \in log : d = event[t] \/ d.seq < event[t].seq
         /\ Announced = log \ {event[t]}
<1>1. event[t] \in log /\ event[t].seq = counter
  BY DEF LogOK
<1>2. \A d \in log : d.seq <= counter /\ d.seq \in Nat
  BY EventNumbers DEF LogOK
<1>3. \A d \in log : d.seq = event[t].seq => d = event[t]
  BY <1>1 DEF LogOK
<1>4. \A u \in Task : pc[u] = "saved" => u = t
  BY DEF TypeOK
<1>5. \A d \in log : Saving(d) <=> d = event[t]
  BY <1>4 DEF Saving
<1>6. counter \in Nat
  BY EventNumbers
<1> QED BY <1>1, <1>2, <1>3, <1>5, <1>6 DEF Announced

LEMMA SaveClient ==
  ASSUME BusInv, NEW t \in Task, Save(t), NEW c \in Client
  PROVE  ClientOK(c)'
<1> DEFINE e == event[t]
<1>0. TypeOK /\ LogOK /\ ClientOK(c)
  BY DEF BusInv, BusOK
<1>1. /\ log' = log \cup {e} /\ event' = event
      /\ pc' = [pc EXCEPT ![t] = "saved"] /\ pc[t] = "numbered"
      /\ Same(c)
  BY DEF Save, Same, bus, history
<1>2. \A d \in log : d.seq < e.seq
  BY <1>0, <1>1 DEF LogOK
<1>3. \A u \in Task : pc[u] = "idle" \/ u = t
  BY <1>0, <1>1 DEF TypeOK
<1>4. Announced = log
  BY <1>1, <1>3 DEF Announced, Saving
<1>5. pc'[t] = "saved" /\ \A u \in Task : u # t => pc'[u] = "idle"
  BY <1>0, <1>1, <1>3 DEF TypeOK
<1>6. e \notin log
  <2>1. e.seq \in Nat
    BY <1>0, EventNumbers DEF TypeOK
  <2> QED BY <1>2, <2>1
<1>7. Announced' = log
  BY <1>1, <1>5, <1>6 DEF Announced, Saving
<1>8. Seen(c)' = Seen(c)
  BY <1>1, SameSeen DEF Same
<1>9. Seen(c) < e.seq
  <2>1. e.seq = counter /\ 0 < counter
    BY <1>0, <1>1 DEF LogOK
  <2> QED BY <1>0, <1>2, <2>1 DEF ClientOK, Handed
<1>10. Seen(c) \in Nat /\ e.seq \in Nat /\ \A d \in log : d.seq \in Nat
  BY <1>0, EventNumbers DEF TypeOK
<1> HIDE DEF e
<1>11. Handed(c)'
  <2>1. {d \in log' : start[c] < d.seq /\ d.seq <= Seen(c)} =
          {d \in log : start[c] < d.seq /\ d.seq <= Seen(c)}
    BY <1>1, <1>9, <1>10
  <2> QED BY <1>0, <1>1, <1>8, <2>1 DEF ClientOK, Handed, Same
<1>12. BacklogOK(c)'
  <2> SUFFICES ASSUME mode[c] = "replaying"
               PROVE  /\ backlog[c] \subseteq log'
                      /\ \A b \in backlog[c] : Seen(c) < b.seq
                      /\ \A b \in backlog[c], d \in log' :
                           Seen(c) < d.seq /\ d.seq < b.seq => d \in backlog[c]
    BY <1>1, <1>8 DEF BacklogOK, Same
  <2>1. /\ backlog[c] \subseteq log
        /\ \A b \in backlog[c] : Seen(c) < b.seq
        /\ \A b \in backlog[c], d \in log :
             Seen(c) < d.seq /\ d.seq < b.seq => d \in backlog[c]
    BY <1>0 DEF ClientOK, BacklogOK
  <2>2. \A b \in backlog[c] : ~(e.seq < b.seq)
    BY <1>2, <1>10, <2>1
  <2> QED BY <1>1, <2>1, <2>2
<1>13. QueueOK(c)' /\ OnItsWay(c)'
  BY <1>0, <1>1, <1>4, <1>7, <1>8 DEF ClientOK, QueueOK, OnItsWay, Same
<1> QED BY <1>0, <1>1, <1>8, <1>11, <1>12, <1>13 DEF ClientOK, Same

LEMMA FanOutClient ==
  ASSUME BusInv, NEW t \in Task, FanOut(t), NEW c \in Client
  PROVE  ClientOK(c)'
<1> DEFINE e == event[t]
<1>0. TypeOK /\ LogOK /\ ClientOK(c)
  BY DEF BusInv, BusOK
<1>1. /\ UNCHANGED <<log, mode, backlog, last, start, got>>
      /\ pc[t] = "saved" /\ pc' = [pc EXCEPT ![t] = "idle"]
      /\ event' = [event EXCEPT ![t] = NoEvent]
      /\ queue'[c] = IF c \in Registered THEN Append(queue[c], e) ELSE queue[c]
  BY DEF FanOut, Push, history
<1>2. /\ e \in log /\ Announced = log \ {e}
      /\ \A d \in log : d = e \/ d.seq < e.seq
  BY <1>0, <1>1, SavingIsLast
<1>3. \A u \in Task : pc'[u] = "idle"
  BY <1>0, <1>1 DEF TypeOK
<1>4. Announced' = log
  BY <1>1, <1>3 DEF Announced, Saving
<1>5. Seen(c)' = Seen(c)
  BY <1>1, SameSeen
<1>6. queue[c] \in Seq(Event) /\ e # Stop
  <2>1. 0 < e.seq
    BY <1>0, <1>2 DEF LogOK
  <2> QED BY <1>0, <2>1, EventNumbers DEF Stop, NoEvent
<1>7. Handed(c)' /\ BacklogOK(c)'
  BY <1>0, <1>1, <1>5 DEF ClientOK, Handed, BacklogOK
<1> HIDE DEF e
<1>8. CASE c \in Registered
  <2> DEFINE n == Len(queue[c]) + 1
  <2>1. queue'[c] = Append(queue[c], e)
    BY <1>1, <1>8
  <2>2. /\ Len(queue[c]) \in Nat
        /\ DOMAIN queue[c] = 1 .. Len(queue[c])
        /\ DOMAIN queue'[c] = 1 .. n
        /\ queue'[c][n] = e
        /\ \A i \in DOMAIN queue[c] : queue'[c][i] = queue[c][i]
    BY <1>6, <2>1
  <2>3. Range(queue'[c]) = Range(queue[c]) \cup {e}
    BY <1>6, <2>1, RangeAppend
  <2>4. \A i \in DOMAIN queue'[c] : i = n \/ i \in DOMAIN queue[c]
    BY <2>2
  <2>5. \A i \in DOMAIN queue[c] :
          queue[c][i] # Stop => queue[c][i] \in log /\ queue[c][i].seq < e.seq
    BY <1>0, <1>2 DEF ClientOK, QueueOK
  <2>6. QueueOK(c)'
    <3>1. \A i \in DOMAIN queue'[c] : queue'[c][i] = Stop \/ queue'[c][i] \in Announced'
      BY <1>2, <1>4, <2>2, <2>4, <2>5
    <3>2. ASSUME NEW i \in DOMAIN queue'[c], NEW j \in DOMAIN queue'[c],
                 i < j, queue'[c][i] # Stop, queue'[c][j] # Stop
          PROVE  queue'[c][i].seq < queue'[c][j].seq
      <4>1. i \in DOMAIN queue[c]
        BY <2>2, <3>2
      <4>2. CASE j = n
        BY <2>2, <2>5, <3>2, <4>1, <4>2
      <4>3. CASE j \in DOMAIN queue[c]
        BY <1>0, <2>2, <3>2, <4>1, <4>3 DEF ClientOK, QueueOK
      <4> QED BY <2>4, <4>2, <4>3
    <3> QED BY <3>1, <3>2 DEF QueueOK
  <2>7. OnItsWay(c)'
    BY <1>0, <1>1, <1>2, <1>4, <1>5, <2>3 DEF ClientOK, OnItsWay
  <2> QED BY <1>0, <1>1, <1>5, <1>7, <2>6, <2>7 DEF ClientOK
<1>9. CASE c \notin Registered
  <2>1. queue'[c] = queue[c] /\ mode[c] # "replaying" /\ mode[c] # "live"
    BY <1>1, <1>9 DEF Registered
  <2>2. QueueOK(c)' /\ OnItsWay(c)'
    BY <1>0, <1>1, <1>2, <1>4, <2>1 DEF ClientOK, QueueOK, OnItsWay
  <2> QED BY <1>0, <1>1, <1>5, <1>7, <2>2 DEF ClientOK
<1> QED BY <1>8, <1>9

\* A client takes the first event it has not seen.
LEMMA TakeHands ==
  ASSUME TypeOK, LogOK, NEW c \in Client, Handed(c),
         NEW e \in log, Seen(c) < e.seq,
         \A d \in log : Seen(c) < d.seq => e.seq <= d.seq,
         got' = [got EXCEPT ![c] = Append(@, e)], start' = start, log' = log
  PROVE  Seen(c)' = e.seq /\ Handed(c)'
<1>0. /\ got[c] \in Seq(Event) /\ e.seq \in Nat /\ Seen(c) \in Nat /\ start[c] \in Nat
      /\ \A d \in log : d.seq \in Nat
  BY EventNumbers
<1>1. got'[c] = Append(got[c], e)
  BY DEF TypeOK
<1>2. /\ Append(got[c], e) # <<>>
      /\ Append(got[c], e)[Len(Append(got[c], e))] = e
  BY <1>0
<1>3. Seen(c)' = e.seq
  BY <1>1, <1>2 DEF Seen
<1>4. Range(got'[c]) = Range(got[c]) \cup {e}
  BY <1>0, <1>1, RangeAppend
<1>5. start[c] <= Seen(c) /\ Range(got[c]) = {d \in log : start[c] < d.seq /\ d.seq <= Seen(c)}
  BY DEF Handed
<1>6. \A d \in log : d.seq = e.seq => d = e
  BY DEF LogOK
<1>7. {d \in log : start[c] < d.seq /\ d.seq <= e.seq} = Range(got[c]) \cup {e}
  <2>1. ASSUME NEW d \in log, start[c] < d.seq, d.seq <= e.seq
        PROVE  d \in Range(got[c]) \cup {e}
    <3>1. CASE d.seq <= Seen(c)
      BY <1>5, <2>1, <3>1
    <3>2. CASE Seen(c) < d.seq
      BY <1>0, <1>6, <2>1, <3>2
    <3> QED BY <1>0, <3>1, <3>2
  <2>2. ASSUME NEW d \in Range(got[c]) PROVE d \in log /\ start[c] < d.seq /\ d.seq <= e.seq
    BY <1>0, <1>5, <2>2
  <2>3. start[c] < e.seq /\ e.seq <= e.seq
    BY <1>0, <1>5
  <2> QED BY <2>1, <2>2, <2>3
<1>8. Ascending(got'[c])
  <2>1. \A d \in Range(got[c]) : d.seq < e.seq
    BY <1>0, <1>5
  <2> QED BY <1>0, <1>1, <2>1, AscendingAppend DEF Handed
<1>9. start[c] <= e.seq
  BY <1>0, <1>5
<1> QED BY <1>3, <1>4, <1>7, <1>8, <1>9 DEF Handed

\* The client is handed e, and e is the first event it has not seen.
TakesFirst(c, e) ==
  /\ e \in log /\ Seen(c) < e.seq
  /\ \A d \in log : Seen(c) < d.seq => e.seq <= d.seq
  /\ last'[c] = e.seq
  /\ got' = [got EXCEPT ![c] = Append(@, e)]

LEMMA ReplayTakesFirst ==
  ASSUME BusInv, NEW c \in Client, Replay(c)
  PROVE  \E e \in backlog[c] : TakesFirst(c, e) /\ backlog'[c] = backlog[c] \ {e}
<1>0. TypeOK /\ LogOK /\ ClientOK(c)
  BY DEF BusInv, BusOK
<1>1. PICK e \in backlog[c] : /\ IsFirst(e, backlog[c])
                              /\ Take(c, e)
                              /\ backlog' = [backlog EXCEPT ![c] = @ \ {e}]
  BY DEF Replay
<1>2. /\ last[c] = Seen(c)
      /\ backlog[c] \subseteq log
      /\ \A b \in backlog[c] : Seen(c) < b.seq
      /\ \A b \in backlog[c], d \in log :
           Seen(c) < d.seq /\ d.seq < b.seq => d \in backlog[c]
  BY <1>0 DEF ClientOK, BacklogOK, Replay
<1>3. /\ Seen(c) \in Nat /\ \A d \in log : d.seq \in Nat
  BY <1>0, EventNumbers
<1>4. e \in log /\ Seen(c) < e.seq /\ ~(e.seq <= last[c])
  BY <1>2, <1>3
<1>5. last'[c] = e.seq /\ got' = [got EXCEPT ![c] = Append(@, e)]
  BY <1>0, <1>1, <1>4 DEF Take, TypeOK
<1>6. \A d \in log : Seen(c) < d.seq => e.seq <= d.seq
  BY <1>1, <1>2, <1>3, <1>4 DEF IsFirst
<1>7. backlog'[c] = backlog[c] \ {e}
  BY <1>0, <1>1 DEF TypeOK
<1> QED BY <1>4, <1>5, <1>6, <1>7 DEF TakesFirst

LEMMA ReceiveTakesFirst ==
  ASSUME BusInv, NEW c \in Client, Receive(c), ~(Head(queue[c]).seq <= last[c])
  PROVE  TakesFirst(c, Head(queue[c]))
<1> DEFINE q == queue[c]
           e == Head(q)
<1>0. TypeOK /\ LogOK /\ ClientOK(c)
  BY DEF BusInv, BusOK
<1>1. mode[c] = "live" /\ q # <<>> /\ e # Stop /\ Take(c, e)
  BY DEF Receive
<1>2. q \in Seq(Event) /\ last[c] = Seen(c)
  BY <1>0, <1>1, EventNumbers DEF ClientOK
<1>3. Len(q) \in Nat /\ Len(q) > 0 /\ DOMAIN q = 1 .. Len(q) /\ e = q[1]
  BY <1>1, <1>2
<1>4. e \in Announced
  BY <1>0, <1>1, <1>3 DEF ClientOK, QueueOK
<1>5. /\ Seen(c) \in Nat /\ \A d \in log : d.seq \in Nat
  BY <1>0, EventNumbers
<1>6. \A i \in DOMAIN q : i = 1 \/ q[i] = Stop \/ e.seq < q[i].seq
  BY <1>0, <1>1, <1>3 DEF ClientOK, QueueOK
<1>7. \A d \in Range(q) : d = e \/ d = Stop \/ e.seq < d.seq
  BY <1>3, <1>6 DEF Range
<1>8. Stop \notin log
  BY <1>0 DEF LogOK, Stop, NoEvent
<1>9. \A d \in Announced : Seen(c) < d.seq => d \in Range(q)
  BY <1>0, <1>1 DEF ClientOK, OnItsWay
<1> HIDE DEF q, e
<1>10. last'[c] = e.seq /\ got' = [got EXCEPT ![c] = Append(@, e)]
  BY <1>0, <1>1 DEF Take, TypeOK, q, e
<1>11. e \in log /\ Seen(c) < e.seq
  BY <1>2, <1>4, <1>5 DEF Announced, q, e
<1>12. ASSUME NEW d \in log, Seen(c) < d.seq PROVE e.seq <= d.seq
  <2>1. CASE d \in Announced
    BY <1>5, <1>7, <1>8, <1>9, <1>11, <1>12, <2>1
  <2>2. CASE d \notin Announced
    <3>1. PICK t \in Task : pc[t] = "saved" /\ event[t] = d
      BY <2>2 DEF Announced, Saving
    <3>2. e = d \/ e.seq < d.seq
      BY <1>0, <1>11, <3>1, SavingIsLast
    <3> QED BY <1>5, <1>11, <3>2
  <2> QED BY <2>1, <2>2
<1> QED BY <1>10, <1>11, <1>12 DEF TakesFirst, q, e

LEMMA ReplayClient ==
  ASSUME BusInv, NEW c \in Client, Replay(c)
  PROVE  ClientOK(c)'
<1>0. TypeOK /\ LogOK /\ ClientOK(c)
  BY DEF BusInv, BusOK
<1>1. PICK e \in backlog[c] : TakesFirst(c, e) /\ backlog'[c] = backlog[c] \ {e}
  BY ReplayTakesFirst
<1>2. mode[c] = "replaying" /\ UNCHANGED <<log, counter, pc, event, mode, queue, start>>
  BY DEF Replay
<1>3. /\ backlog[c] \subseteq log
      /\ \A b \in backlog[c], d \in log :
           Seen(c) < d.seq /\ d.seq < b.seq => d \in backlog[c]
      /\ \A b \in backlog[c] : Seen(c) < b.seq
  BY <1>0, <1>2 DEF ClientOK, BacklogOK
<1>4. /\ Seen(c) \in Nat /\ \A d \in log : d.seq \in Nat
  BY <1>0, EventNumbers
<1>5. /\ e \in log /\ Seen(c) < e.seq /\ last'[c] = e.seq
      /\ \A d \in log : Seen(c) < d.seq => e.seq <= d.seq
  BY <1>1 DEF TakesFirst
<1>6. Seen(c)' = e.seq /\ Handed(c)'
  BY <1>0, <1>1, <1>2, TakeHands DEF ClientOK, TakesFirst
<1>7. Announced' = Announced
  BY <1>2, AnnouncedSame
<1>8. \A d \in log : d.seq = e.seq => d = e
  BY <1>0, <1>5 DEF LogOK
<1>9. BacklogOK(c)'
  <2>1. \A b \in backlog'[c] : b \in log /\ e.seq < b.seq
    BY <1>1, <1>3, <1>4, <1>5, <1>8
  <2>2. ASSUME NEW b \in backlog'[c], NEW d \in log, e.seq < d.seq, d.seq < b.seq
        PROVE  d \in backlog'[c]
    BY <1>1, <1>3, <1>4, <1>5, <2>2
  <2> QED BY <1>2, <1>6, <2>1, <2>2 DEF BacklogOK
<1>10. QueueOK(c)'
  BY <1>0, <1>2, <1>7 DEF ClientOK, QueueOK
<1>11. OnItsWay(c)'
  <2>1. ASSUME NEW d \in Announced, e.seq < d.seq
        PROVE  d \in backlog'[c] \/ d \in Range(queue[c])
    <3>1. d \in log /\ Seen(c) < d.seq /\ d # e
      BY <1>4, <1>5, <2>1 DEF Announced
    <3> QED BY <1>0, <1>1, <1>2, <3>1 DEF ClientOK, OnItsWay
  <2> QED BY <1>2, <1>6, <1>7, <2>1 DEF OnItsWay
<1> QED BY <1>2, <1>5, <1>6, <1>9, <1>10, <1>11 DEF ClientOK

LEMMA ReceiveClient ==
  ASSUME BusInv, NEW c \in Client, Receive(c)
  PROVE  ClientOK(c)'
<1> DEFINE q == queue[c]
           e == Head(q)
<1>0. TypeOK /\ LogOK /\ ClientOK(c)
  BY DEF BusInv, BusOK
<1>1. /\ mode[c] = "live" /\ q # <<>> /\ e # Stop
      /\ Take(c, e)
      /\ queue' = [queue EXCEPT ![c] = Tail(@)]
      /\ UNCHANGED <<log, counter, pc, event, mode, backlog, start>>
  BY DEF Receive
<1>2. q \in Seq(Event) /\ last[c] = Seen(c)
  BY <1>0, <1>1, EventNumbers DEF ClientOK
<1>3. /\ Len(q) \in Nat /\ Len(q) > 0
      /\ DOMAIN q = 1 .. Len(q)
      /\ e = q[1]
      /\ Tail(q) \in Seq(Event)
      /\ DOMAIN Tail(q) = 1 .. Len(q) - 1
      /\ \A i \in 1 .. Len(q) - 1 : Tail(q)[i] = q[i + 1]
  BY <1>1, <1>2
<1>4. queue'[c] = Tail(q)
  BY <1>0, <1>1 DEF TypeOK
<1>5. e \in Announced
  BY <1>0, <1>1, <1>3 DEF ClientOK, QueueOK
<1>6. Announced' = Announced
  BY <1>1, AnnouncedSame
<1>7. /\ Seen(c) \in Nat /\ \A d \in log : d.seq \in Nat
  BY <1>0, EventNumbers
<1>10. \A d \in Range(q) : d = e \/ d \in Range(Tail(q))
  BY <1>1, <1>2, RangeTail
<1> HIDE DEF q, e
<1>12. QueueOK(c)'
  <2>1. ASSUME NEW i \in DOMAIN Tail(q)
        PROVE  i + 1 \in DOMAIN q /\ Tail(q)[i] = q[i + 1] /\ i \in Nat
    BY <1>3
  <2>2. \A i \in DOMAIN Tail(q) : Tail(q)[i] = Stop \/ Tail(q)[i] \in Announced
    BY <1>0, <2>1 DEF ClientOK, QueueOK, q
  <2>3. ASSUME NEW i \in DOMAIN Tail(q), NEW j \in DOMAIN Tail(q), i < j,
               Tail(q)[i] # Stop, Tail(q)[j] # Stop
        PROVE  Tail(q)[i].seq < Tail(q)[j].seq
    <3>1. i + 1 < j + 1
      BY <2>1, <2>3
    <3> QED BY <1>0, <2>1, <2>3, <3>1 DEF ClientOK, QueueOK, q
  <2> QED BY <1>4, <1>6, <2>2, <2>3 DEF QueueOK
<1>13. \A d \in Announced : Seen(c) < d.seq => d \in Range(q)
  BY <1>0, <1>1 DEF ClientOK, OnItsWay, q
<1>14. CASE e.seq <= last[c]
  <2>1. UNCHANGED <<last, got>>
    BY <1>1, <1>14 DEF Take
  <2>2. Seen(c)' = Seen(c)
    BY <1>1, <2>1, SameSeen
  <2>3. Handed(c)' /\ BacklogOK(c)'
    BY <1>0, <1>1, <2>1, <2>2 DEF ClientOK, Handed, BacklogOK
  <2>4. \A d \in Announced : Seen(c) < d.seq => d \in Range(Tail(q))
    BY <1>2, <1>5, <1>7, <1>10, <1>13, <1>14 DEF Announced
  <2>5. OnItsWay(c)'
    BY <1>1, <1>4, <1>6, <2>2, <2>4 DEF OnItsWay
  <2> QED BY <1>0, <1>1, <1>12, <2>1, <2>2, <2>3, <2>5 DEF ClientOK
<1>15. CASE ~(e.seq <= last[c])
  <2>1. TakesFirst(c, e)
    BY <1>15, ReceiveTakesFirst DEF q, e
  <2>2. e \in log /\ Seen(c) < e.seq /\ last'[c] = e.seq
    BY <2>1 DEF TakesFirst
  <2>4. Seen(c)' = e.seq /\ Handed(c)'
    BY <1>0, <1>1, <2>1, TakeHands DEF ClientOK, TakesFirst
  <2>5. BacklogOK(c)'
    BY <1>1 DEF BacklogOK
  <2>6. \A d \in Announced : e.seq < d.seq => d \in Range(Tail(q))
    BY <1>7, <1>10, <1>13, <2>2 DEF Announced
  <2>7. OnItsWay(c)'
    BY <1>1, <1>4, <1>6, <2>4, <2>6 DEF OnItsWay
  <2> QED BY <1>1, <1>12, <2>2, <2>4, <2>5, <2>7 DEF ClientOK
<1> QED BY <1>14, <1>15

LEMMA SubscribeClient ==
  ASSUME BusInv, NEW c \in Client, Subscribe(c)
  PROVE  ClientOK(c)'
<1>0. TypeOK /\ LogOK /\ ClientOK(c)
  BY DEF BusInv, BusOK
<1>1. /\ mode'[c] = "joining" /\ queue'[c] = <<>> /\ last'[c] = Seen(c)
      /\ UNCHANGED <<log, pc, event, start, got>>
  BY <1>0 DEF Subscribe, Register, SetMode, TypeOK, history
<1>2. Seen(c)' = Seen(c)
  BY <1>1, SameSeen
<1>3. QueueOK(c)'
  BY <1>1 DEF QueueOK
<1> QED BY <1>0, <1>1, <1>2, <1>3 DEF ClientOK, Handed, BacklogOK, OnItsWay

LEMMA LoadClient ==
  ASSUME BusInv, NEW c \in Client, Load(c)
  PROVE  ClientOK(c)'
<1>0. TypeOK /\ LogOK /\ ClientOK(c)
  BY DEF BusInv, BusOK
<1>1. /\ mode[c] = "joining" /\ mode'[c] = "replaying"
      /\ backlog'[c] = {e \in log : e.seq > last[c]}
      /\ UNCHANGED <<log, pc, event, start, got, last, queue>>
  BY <1>0 DEF Load, SetMode, After, TypeOK, history
<1>2. Seen(c)' = Seen(c) /\ last[c] = Seen(c)
  BY <1>0, <1>1, SameSeen DEF ClientOK
<1>3. Announced' = Announced
  BY <1>1, AnnouncedSame
<1>4. Seen(c) \in Nat /\ \A d \in log : d.seq \in Nat
  BY <1>0, EventNumbers
<1>5. BacklogOK(c)'
  BY <1>1, <1>2, <1>4 DEF BacklogOK
<1>6. OnItsWay(c)'
  BY <1>1, <1>2, <1>3, <1>4 DEF OnItsWay, Announced
<1> QED BY <1>0, <1>1, <1>2, <1>3, <1>5, <1>6 DEF ClientOK, Handed, QueueOK

LEMMA GoLiveClient ==
  ASSUME BusInv, NEW c \in Client, GoLive(c)
  PROVE  ClientOK(c)'
<1>0. TypeOK /\ LogOK /\ ClientOK(c)
  BY DEF BusInv, BusOK
<1>1. /\ mode[c] = "replaying" /\ mode'[c] = "live" /\ backlog[c] = {}
      /\ UNCHANGED <<log, pc, event, start, got, last, queue, backlog>>
  BY <1>0 DEF GoLive, SetMode, TypeOK, history
<1>2. Seen(c)' = Seen(c)
  BY <1>1, SameSeen
<1>3. Announced' = Announced
  BY <1>1, AnnouncedSame
<1> QED BY <1>0, <1>1, <1>2, <1>3 DEF ClientOK, Handed, QueueOK, BacklogOK, OnItsWay

LEMMA AwayClient ==
  ASSUME BusInv, NEW c \in Client, mode'[c] = "away", queue'[c] = <<>>,
         UNCHANGED <<log, start, got>>
  PROVE  ClientOK(c)'
<1>0. ClientOK(c)
  BY DEF BusInv, BusOK
<1>1. Seen(c)' = Seen(c)
  BY SameSeen
<1>2. QueueOK(c)'
  BY DEF QueueOK
<1> QED BY <1>0, <1>1, <1>2 DEF ClientOK, Handed, BacklogOK, OnItsWay

LEMMA SnapshotClient ==
  ASSUME BusInv, NEW c \in Client, Snapshot(c)
  PROVE  ClientOK(c)'
<1>0. TypeOK /\ LogOK /\ ClientOK(c)
  BY DEF BusInv, BusOK
<1>1. PICK n \in 0 .. MaxEvents : IsTip(n, log, 0) /\ start' = [start EXCEPT ![c] = n]
  BY DEF Snapshot
<1>2. /\ start'[c] = n /\ got'[c] = <<>> /\ mode[c] = "away"
      /\ UNCHANGED <<log, pc, event, mode, queue, backlog, last>>
  BY <1>0, <1>1 DEF Snapshot, TypeOK, bus
<1>3. Seen(c)' = n
  BY <1>2 DEF Seen
<1>4. n = 0 \/ \E e \in log : e.seq = n
  BY <1>1 DEF IsTip
<1>5. n \in Nat /\ \A e \in log : e.seq \in Nat
  BY <1>0, EventNumbers
<1>6. Range(got'[c]) = {}
  BY <1>2 DEF Range
<1>7. {e \in log : n < e.seq /\ e.seq <= n} = {}
  BY <1>5
<1>8. Handed(c)'
  BY <1>2, <1>3, <1>4, <1>5, <1>6, <1>7 DEF Handed, Ascending
<1>9. Announced' = Announced
  BY <1>2, AnnouncedSame
<1> QED BY <1>0, <1>2, <1>8, <1>9 DEF ClientOK, BacklogOK, QueueOK, OnItsWay

LEMMA CloseClient ==
  ASSUME BusInv, Close, NEW c \in Client
  PROVE  ClientOK(c)'
<1>0. TypeOK /\ LogOK /\ ClientOK(c)
  BY DEF BusInv, BusOK
<1>1. /\ UNCHANGED <<log, pc, event, mode, backlog, last, start, got>>
      /\ queue'[c] = IF c \in Registered THEN Append(queue[c], Stop) ELSE queue[c]
  BY DEF Close, Push, history
<1>2. Announced' = Announced
  BY <1>1, AnnouncedSame
<1>3. CASE queue'[c] = queue[c]
  BY <1>0, <1>1, <1>2, <1>3, ClientIdle DEF Same
<1>4. CASE queue'[c] = Append(queue[c], Stop)
  <2>0. queue[c] \in Seq(Event)
    BY <1>0, EventNumbers
  <2> DEFINE n == Len(queue[c]) + 1
  <2>1. /\ Len(queue[c]) \in Nat
        /\ DOMAIN queue[c] = 1 .. Len(queue[c])
        /\ DOMAIN queue'[c] = 1 .. n
        /\ queue'[c][n] = Stop
        /\ \A i \in DOMAIN queue[c] : queue'[c][i] = queue[c][i]
    BY <1>4, <2>0
  <2>2. \A i \in DOMAIN queue'[c] : queue'[c][i] = Stop \/ i \in DOMAIN queue[c]
    BY <2>1
  <2>3. Range(queue'[c]) = Range(queue[c]) \cup {Stop}
    BY <1>4, <2>0, RangeAppend
  <2>4. QueueOK(c)'
    <3>1. \A i \in DOMAIN queue'[c] : queue'[c][i] = Stop \/ queue'[c][i] \in Announced'
      BY <1>0, <1>2, <2>1, <2>2 DEF ClientOK, QueueOK
    <3>2. \A i, j \in DOMAIN queue'[c] :
            i < j /\ queue'[c][i] # Stop /\ queue'[c][j] # Stop =>
              queue'[c][i].seq < queue'[c][j].seq
      BY <1>0, <2>1, <2>2 DEF ClientOK, QueueOK
    <3> QED BY <3>1, <3>2 DEF QueueOK
  <2>5. OnItsWay(c)'
    BY <1>0, <1>1, <1>2, <2>3, SameSeen DEF ClientOK, OnItsWay
  <2>6. Handed(c)' /\ BacklogOK(c)'
    BY <1>0, <1>1, SameSeen DEF ClientOK, Handed, BacklogOK
  <2> QED BY <1>0, <1>1, <2>4, <2>5, <2>6, SameSeen DEF ClientOK
<1> QED BY <1>1, <1>3, <1>4

LEMMA BusStep == Plain /\ BusInv /\ [Next]_vars => BusInv'
<1> SUFFICES ASSUME Plain, BusInv, [Next]_vars PROVE BusInv'
  OBVIOUS
<1>10. TypeOK' /\ LogOK'
  <2>1. TypeOK'
    BY TypeStep DEF BusInv
  <2>2. life' = 0
    BY <2>1 DEF TypeOK, Plain
  <2> QED BY <2>1, <2>2, LogStep DEF BusInv
<1> SUFFICES ASSUME NEW c \in Client PROVE ClientOK(c)'
  BY <1>10 DEF BusInv, BusOK
<1>0. TypeOK /\ LogOK /\ ClientOK(c)
  BY DEF BusInv, BusOK
<1>1. ASSUME NEW t \in Task, Number(t) \/ FailEmit(t) PROVE ClientOK(c)'
  <2>1. /\ log' = log /\ Same(c) /\ pc[t] # "saved"
        /\ \A u \in Task : u # t => pc'[u] = pc[u] /\ event'[u] = event[u]
        /\ pc'[t] # "saved"
    BY <1>0, <1>1 DEF Number, FailEmit, Plain, Same, bus, history, TypeOK
  <2>2. Announced' = Announced
    BY <2>1 DEF Announced, Saving
  <2> QED BY <1>0, <2>1, <2>2, ClientIdle
<1>2. ASSUME NEW t \in Task, Save(t) \/ FanOut(t) PROVE ClientOK(c)'
  BY <1>2, SaveClient, FanOutClient
<1>3. ASSUME NEW d \in Client, d # c,
             Load(d) \/ Replay(d) \/ GoLive(d) \/ Receive(d) \/ Stopped(d) \/ Snapshot(d)
               \/ Subscribe(d) \/ Disconnect(d)
      PROVE  ClientOK(c)'
  <2>1. UNCHANGED <<log, pc, event>>
    BY <1>3 DEF Load, Replay, GoLive, Receive, Stopped, Snapshot, Subscribe, Disconnect
  <2>2. Same(c)
    <3>1. CASE Load(d) \/ GoLive(d) \/ Stopped(d) \/ Snapshot(d) \/ Subscribe(d) \/ Disconnect(d)
      BY <1>0, <1>3, <3>1 DEF Same, Load, GoLive, Stopped, Snapshot, Subscribe, Disconnect,
         Unsubscribe, Register, SetMode, TypeOK, bus, history
    <3>2. CASE Replay(d) \/ Receive(d)
      BY <1>0, <1>3, <3>2 DEF Same, Replay, Receive, Take, TypeOK
    <3> QED BY <1>3, <3>1, <3>2
  <2> QED BY <1>0, <2>1, <2>2, AnnouncedSame, ClientIdle
<1>4. CASE Load(c) \/ Replay(c) \/ GoLive(c) \/ Receive(c) \/ Snapshot(c) \/ Subscribe(c)
  BY <1>4, LoadClient, ReplayClient, GoLiveClient, ReceiveClient, SnapshotClient,
     SubscribeClient
<1>5. CASE Stopped(c) \/ Disconnect(c) \/ Crash
  BY <1>5, AwayClient DEF Stopped, Disconnect, Crash, Unsubscribe, history
<1>6. CASE Close
  BY <1>6, CloseClient
<1>7. CASE UNCHANGED vars
  BY <1>0, <1>7, ClientIdle, AnnouncedSame DEF vars, bus, history, Same
<1>8. ASSUME NEW d \in Client PROVE ~CatchUp(d)
  BY <1>8 DEF CatchUp, Fetch, Send, SubscribeFromTip, Plain, BusInv, BusOK, ClientOK
<1>9. ~DeleteSession
  BY <1>0 DEF DeleteSession, Plain, TypeOK
<1> QED BY <1>1, <1>2, <1>3, <1>4, <1>5, <1>6, <1>7, <1>8, <1>9
        DEF Next, Direct, Emit, Stream

\* A client is handed exactly the log from where it joined up to what it has seen,
\* in order and without gap or repetition.
THEOREM GapFreeHolds ==
  ASSUME Plain PROVE Spec => []GapFree
<1>1. BusInv => GapFree
  BY DEF BusInv, BusOK, ClientOK, Handed, GapFree
<1>2. BusInv /\ [Next]_vars => BusInv'
  BY BusStep
<1> QED BY <1>1, <1>2, BusInit, PTL DEF Spec

------------------------------------------------------------------------------
(* The bus implements EventLog.                                            *)

Open == {c \in Client : mode[c] # "away"}
Cursor == [c \in Client |-> Seen(c)]

LEMMA LogInit == Init => Log!Init
BY DEF Init, Log!Init, Seen

LEMMA CursorOf ==
  ASSUME NEW c \in Client, \A d \in Client \ {c} : got'[d] = got[d] /\ start'[d] = start[d]
  PROVE  Cursor' = [Cursor EXCEPT ![c] = Seen(c)']
BY SameSeen DEF Cursor

\* A client that takes an event is shown the first one it has not seen.
\* Nothing that EventLog can see changes.
Stutter == log' = log /\ Cursor' = Cursor /\ Open' = Open

\* A client that is handed the first event it has not seen is shown it.
LEMMA ShowStep ==
  ASSUME BusInv, NEW c \in Client, NEW e, TakesFirst(c, e), c \in Open,
         log' = log, Open' = Open, start' = start
  PROVE  Log!Show(c)
<1>0. TypeOK /\ LogOK /\ Handed(c)
  BY DEF BusInv, BusOK, ClientOK
<1>1. /\ e \in log /\ Seen(c) < e.seq
      /\ \A d \in log : Seen(c) < d.seq => e.seq <= d.seq
      /\ got' = [got EXCEPT ![c] = Append(@, e)]
  BY DEF TakesFirst
<1>2. Seen(c)' = e.seq
  BY <1>0, <1>1, TakeHands
<1>3. Cursor' = [Cursor EXCEPT ![c] = e.seq]
  <2>1. \A d \in Client \ {c} : got'[d] = got[d] /\ start'[d] = start[d]
    BY <1>0, <1>1 DEF TypeOK
  <2> QED BY <1>2, <2>1, CursorOf
<1>4. Cursor[c] = Seen(c) /\ Seen(c) \in Nat /\ \A d \in log : d.seq \in Nat
  BY <1>0, EventNumbers DEF Cursor
<1>5. /\ e \in {d \in log : d.seq > Cursor[c]}
      /\ \A d \in {b \in log : b.seq > Cursor[c]} : e.seq <= d.seq
  BY <1>1, <1>4
<1> QED BY <1>3, <1>5 DEF Log!Show, Log!Unread, Cursor, Open

\* A client that reads the tip skips to the end of the log, or is there already.
LEMMA SnapshotStep ==
  ASSUME BusInv, NEW c \in Client, Snapshot(c)
  PROVE  Log!SkipToEnd(c) \/ Stutter
<1>0. TypeOK /\ LogOK /\ Handed(c)
  BY DEF BusInv, BusOK, ClientOK
<1>1. PICK n \in 0 .. MaxEvents : IsTip(n, log, 0) /\ start' = [start EXCEPT ![c] = n]
  BY DEF Snapshot
<1>2. /\ got' = [got EXCEPT ![c] = <<>>] /\ log' = log /\ mode' = mode /\ mode[c] = "away"
  BY DEF Snapshot, bus
<1>3. Open' = Open /\ c \notin Open
  BY <1>2 DEF Open
<1>4. Seen(c)' = n
  BY <1>0, <1>1, <1>2 DEF Seen, TypeOK
<1>5. Cursor' = [Cursor EXCEPT ![c] = n]
  <2>1. \A d \in Client \ {c} : got'[d] = got[d] /\ start'[d] = start[d]
    BY <1>0, <1>1, <1>2 DEF TypeOK
  <2> QED BY <1>4, <2>1, CursorOf
<1>6. Cursor[c] = Seen(c) /\ Seen(c) \in Nat /\ n \in Nat /\ \A d \in log : d.seq \in Nat
  BY <1>0, EventNumbers DEF Cursor
<1>7. Seen(c) <= n
  BY <1>0, <1>1, <1>6 DEF Handed, IsTip
<1>8. CASE Seen(c) = n
  <2>1. Cursor' = Cursor
    BY <1>5, <1>6, <1>8 DEF Cursor
  <2> QED BY <1>2, <1>3, <2>1 DEF Stutter
<1>9. CASE Seen(c) < n
  <2>1. PICK e \in log : e.seq = n
    BY <1>1, <1>6, <1>9 DEF IsTip
  <2>2. e \in {d \in log : d.seq > Cursor[c]} /\ \A d \in log : d.seq <= e.seq
    BY <1>1, <1>6, <1>9, <2>1 DEF IsTip
  <2>3. Cursor' = [Cursor EXCEPT ![c] = e.seq]
    BY <1>5, <2>1
  <2>4. Log!SkipToEnd(c)
    BY <1>2, <1>3, <2>2, <2>3 DEF Log!SkipToEnd, Log!Unread, Cursor, Open
  <2> QED BY <2>4
<1> QED BY <1>6, <1>7, <1>8, <1>9

LEMMA LogStepHolds == Plain /\ BusInv /\ [Next]_vars => [Log!Next]_Log!vars
<1> SUFFICES ASSUME Plain, BusInv, [Next]_vars
             PROVE  Log!Next \/ Stutter
  BY DEF Log!vars, Stutter, Cursor, Open
<1>0. TypeOK /\ LogOK /\ \A c \in Client : ClientOK(c)
  BY DEF BusInv, BusOK
<1>1. ASSUME NEW t \in Task, Save(t) PROVE Log!Next
  <2>1. log' = log \cup {event[t]} /\ event[t] \in Event /\ pc[t] = "numbered"
        /\ Cursor' = Cursor /\ Open' = Open
    BY <1>0, <1>1, SameSeen DEF Save, TypeOK, bus, history, Cursor, Open
  <2>2. \A d \in log : d.seq < event[t].seq
    BY <1>0, <2>1 DEF LogOK
  <2> QED BY <2>1, <2>2 DEF Log!Next, Log!Record, Cursor, Open
<1>2. ASSUME NEW t \in Task, Number(t) \/ FanOut(t) \/ FailEmit(t) PROVE Stutter
  BY <1>2, SameSeen DEF Number, FanOut, FailEmit, bus, history, Stutter, Cursor, Open
<1>3. ASSUME NEW c \in Client, Load(c) \/ GoLive(c) PROVE Stutter
  BY <1>0, <1>3, SameSeen DEF Load, GoLive, SetMode, TypeOK, history, Stutter, Cursor, Open
<1>4. CASE Close
  BY <1>4, SameSeen DEF Close, history, Stutter, Cursor, Open
<1>5. CASE Crash \/ \E c \in Client : Stopped(c) \/ Disconnect(c)
  <2>1. log' = log /\ Cursor' = Cursor /\ Open' \subseteq Open
    BY <1>5, SameSeen DEF Stopped, Disconnect, Crash, Unsubscribe, history, Cursor, Open
  <2> QED BY <2>1 DEF Log!Next, Log!Leave, Cursor, Open
<1>6. ASSUME NEW c \in Client, Subscribe(c) PROVE Log!Next
  <2>1. log' = log /\ Cursor' = Cursor /\ Open' = Open \cup {c}
    BY <1>0, <1>6, SameSeen DEF Subscribe, Register, SetMode, TypeOK, history, Cursor, Open
  <2> QED BY <2>1 DEF Log!Next, Log!Enter, Cursor, Open
<1>7. ASSUME NEW c \in Client, Replay(c) PROVE Log!Next
  <2>1. PICK e \in backlog[c] : TakesFirst(c, e)
    BY <1>7, ReplayTakesFirst
  <2>2. log' = log /\ Open' = Open /\ c \in Open /\ start' = start
    BY <1>7 DEF Replay, Open
  <2> QED BY <2>1, <2>2, ShowStep DEF Log!Next
<1>8. ASSUME NEW c \in Client, Receive(c) PROVE Log!Next \/ Stutter
  <2>1. log' = log /\ Open' = Open /\ c \in Open /\ start' = start
    BY <1>8 DEF Receive, Open
  <2>2. CASE Head(queue[c]).seq <= last[c]
    <3>1. got' = got
      BY <1>8, <2>2 DEF Receive, Take
    <3> QED BY <2>1, <3>1, SameSeen DEF Stutter, Cursor
  <2>3. CASE ~(Head(queue[c]).seq <= last[c])
    BY <1>8, <2>1, <2>3, ReceiveTakesFirst, ShowStep DEF Log!Next
  <2> QED BY <2>2, <2>3
<1>9. ASSUME NEW c \in Client, Snapshot(c) PROVE Log!Next \/ Stutter
  BY <1>9, SnapshotStep DEF Log!Next
<1>10. CASE UNCHANGED vars
  BY <1>10, SameSeen DEF vars, bus, history, Stutter, Cursor, Open
<1>11. (\A d \in Client : ~CatchUp(d)) /\ ~DeleteSession
  BY <1>0 DEF CatchUp, Fetch, Send, SubscribeFromTip, Plain, ClientOK, DeleteSession, TypeOK
<1> QED BY <1>1, <1>2, <1>3, <1>4, <1>5, <1>6, <1>7, <1>8, <1>9, <1>10, <1>11
        DEF Next, Direct, Emit, Stream

\* The bus implements the numbered log: every step is a step of it or changes
\* nothing it can see.
THEOREM Implements ==
  ASSUME Plain PROVE Spec => Log!Spec
<1>1. BusInv /\ [Next]_vars => BusInv'
  BY BusStep
<1> QED BY <1>1, BusInit, LogInit, LogStepHolds, PTL DEF Spec, Log!Spec

------------------------------------------------------------------------------
(* The order of delivery needs none of the setting above: saves may be cut, *)
(* clients may come through the endpoint and the session may be deleted     *)
(* under them.  A stream lets a number through when it is past its last     *)
(* one, so what the client has seen must be no further than that - which    *)
(* the catch-up of the endpoint breaks, while it hands over what it loaded, *)
(* and restores when it reads the tip of a log that has not been deleted.   *)

Ordered(c) ==
  life = 0 \/ c \notin Endpoint =>
    /\ Ascending(got[c])
    /\ mode[c] \in {"joining", "replaying", "live"} => Seen(c) <= last[c]
    /\ mode[c] = "catchup" =>
         /\ c \in Endpoint /\ backlog[c] \subseteq log
         /\ \A e \in backlog[c] : Seen(c) < e.seq
         /\ Seen(c) <= last[c] \/ \E e \in log : e.seq = Seen(c)

OrderInv == TypeOK /\ (life = 0 => LogOK) /\ \A c \in Client : Ordered(c)

LEMMA SeenAppend ==
  ASSUME TypeOK, NEW c \in Client, NEW e \in Event, got'[c] = Append(got[c], e)
  PROVE  Seen(c)' = e.seq
<1>1. got[c] \in Seq(Event)
  BY EventNumbers
<1>2. got'[c] # <<>> /\ got'[c][Len(got'[c])] = e
  BY <1>1
<1> QED BY <1>2 DEF Seen

\* An event past what the client has seen keeps the order.
LEMMA AscendingNext ==
  ASSUME TypeOK, NEW c \in Client, NEW e \in Event, Ascending(got[c]), Seen(c) < e.seq
  PROVE  Ascending(Append(got[c], e))
<1> DEFINE s == got[c]
<1>1. /\ s \in Seq(Event) /\ Seen(c) \in Nat
      /\ \A d \in Event : d.seq \in Nat
  BY EventNumbers
<1>2. /\ Len(s) \in Nat /\ DOMAIN s = 1 .. Len(s)
      /\ \A i \in DOMAIN s : s[i] \in Event
      /\ s # <<>> => Len(s) \in DOMAIN s
  BY <1>1
<1>3. ASSUME NEW i \in DOMAIN s PROVE s[i].seq < e.seq
  <2>1. s # <<>> /\ Seen(c) = s[Len(s)].seq
    BY <1>2 DEF Seen
  <2>2. CASE i = Len(s)
    BY <2>1, <2>2
  <2>3. CASE i < Len(s)
    <3>1. s[i].seq < s[Len(s)].seq
      BY <1>2, <2>1, <2>3 DEF Ascending
    <3>2. s[i].seq \in Nat /\ s[Len(s)].seq \in Nat /\ e.seq \in Nat
      BY <1>1, <1>2, <2>1
    <3> QED BY <2>1, <3>1, <3>2
  <2> QED BY <1>2, <2>2, <2>3
<1>4. \A d \in Range(s) : d.seq < e.seq
  BY <1>3 DEF Range
<1> QED BY <1>1, <1>4, AscendingAppend

\* A stream that lets a number through, or skips it, keeps the order.
LEMMA TakeOrdered ==
  ASSUME TypeOK, NEW c \in Client, NEW e \in Event, Take(c, e), Ascending(got[c]),
         Seen(c) <= last[c], start'[c] = start[c]
  PROVE  Ascending(got'[c]) /\ Seen(c)' <= last'[c]
<1>1. e.seq \in Nat /\ last[c] \in Nat /\ Seen(c) \in Nat
  BY EventNumbers
<1>2. CASE e.seq <= last[c]
  BY <1>2, SameSeen DEF Take
<1>3. CASE ~(e.seq <= last[c])
  <2>1. last'[c] = e.seq /\ got'[c] = Append(got[c], e)
    BY <1>3 DEF Take, TypeOK
  <2>2. Seen(c) < e.seq
    BY <1>1, <1>3
  <2> QED BY <1>1, <2>1, <2>2, SeenAppend, AscendingNext
<1> QED BY <1>2, <1>3

LEMMA OrderInit == Init => OrderInv
<1> SUFFICES ASSUME Init PROVE OrderInv
  OBVIOUS
<1>1. LogOK
  BY DEF Init, LogOK
<1>2. ASSUME NEW c \in Client PROVE Ordered(c)
  BY DEF Init, Ordered, Ascending
<1> QED BY <1>1, <1>2, TypeInit DEF OrderInv

\* A client that is handed nothing, whose stream goes on or ends.
LEMMA OrderedIdle ==
  ASSUME NEW c, Ordered(c), log \subseteq log' \/ life' # 0,
         life' = 0 => life = 0,
         got'[c] = got[c], start'[c] = start[c], last'[c] = last[c],
         \/ mode'[c] = "away"
         \/ mode'[c] = mode[c] /\ backlog'[c] = backlog[c]
  PROVE  Ordered(c)'
<1> SUFFICES ASSUME life' = 0 \/ c \notin Endpoint PROVE Ordered(c)'
  BY DEF Ordered
<1>1. Seen(c)' = Seen(c)
  BY SameSeen
<1>2. /\ Ascending(got[c])
      /\ mode[c] \in {"joining", "replaying", "live"} => Seen(c) <= last[c]
      /\ mode[c] = "catchup" =>
           /\ c \in Endpoint /\ backlog[c] \subseteq log
           /\ \A e \in backlog[c] : Seen(c) < e.seq
           /\ Seen(c) <= last[c] \/ \E e \in log : e.seq = Seen(c)
  BY DEF Ordered
<1>3. CASE mode'[c] = "away"
  BY <1>1, <1>2, <1>3 DEF Ordered
<1>4. CASE mode'[c] = mode[c] /\ backlog'[c] = backlog[c] /\ mode[c] # "catchup"
  BY <1>1, <1>2, <1>4 DEF Ordered
<1>5. CASE mode'[c] = mode[c] /\ backlog'[c] = backlog[c] /\ mode[c] = "catchup"
  <2>1. log \subseteq log'
    BY <1>2, <1>5
  <2> QED BY <1>1, <1>2, <1>5, <2>1 DEF Ordered
<1> QED BY <1>3, <1>4, <1>5

\* A client's own steps.
LEMMA OrderedOwn ==
  ASSUME OrderInv, NEW c \in Client,
         \/ Stream(c) \/ Snapshot(c) \/ Subscribe(c) \/ Disconnect(c) \/ CatchUp(c)
  PROVE  Ordered(c)'
<1>0. TypeOK /\ Ordered(c) /\ (life = 0 => LogOK)
  BY DEF OrderInv
<1>1. life' = life
  BY DEF Stream, Load, Replay, GoLive, Receive, Stopped, Snapshot, Subscribe, Disconnect,
     CatchUp, Fetch, Send, SubscribeFromTip, history
<1> SUFFICES ASSUME life = 0 \/ c \notin Endpoint PROVE Ordered(c)'
  BY <1>1 DEF Ordered
<1>2. /\ Ascending(got[c])
      /\ mode[c] \in {"joining", "replaying", "live"} => Seen(c) <= last[c]
      /\ mode[c] = "catchup" =>
           /\ c \in Endpoint /\ backlog[c] \subseteq log
           /\ \A e \in backlog[c] : Seen(c) < e.seq
           /\ Seen(c) <= last[c] \/ \E e \in log : e.seq = Seen(c)
  BY <1>0 DEF Ordered
<1>3. /\ Seen(c) \in Nat /\ last[c] \in Nat
      /\ \A e \in Event : e.seq \in Nat
      /\ log \subseteq Event /\ backlog[c] \subseteq Event
  BY <1>0, EventNumbers
<1>4. CASE Load(c) \/ GoLive(c)
  <2>1. /\ mode[c] \in {"joining", "replaying"} /\ mode'[c] \in {"replaying", "live"}
        /\ got'[c] = got[c] /\ start'[c] = start[c] /\ last'[c] = last[c]
    BY <1>0, <1>4 DEF Load, GoLive, SetMode, TypeOK, history
  <2> QED BY <1>2, <2>1, SameSeen DEF Ordered
<1>5. CASE Replay(c)
  <2>1. PICK e \in backlog[c] : Take(c, e)
    BY <1>5 DEF Replay
  <2>2. mode[c] = "replaying" /\ mode' = mode /\ start' = start
    BY <1>5 DEF Replay
  <2>3. e \in Event
    BY <1>3, <2>1
  <2>4. Ascending(got'[c]) /\ Seen(c)' <= last'[c]
    BY <1>0, <1>2, <2>1, <2>2, <2>3, TakeOrdered
  <2> QED BY <2>2, <2>4 DEF Ordered
<1>6. CASE Receive(c)
  <2>1. /\ mode[c] = "live" /\ mode' = mode /\ start' = start
        /\ queue[c] # <<>> /\ Take(c, Head(queue[c]))
    BY <1>6 DEF Receive
  <2>2. Head(queue[c]) \in Event
    BY <1>0, <2>1, EventNumbers
  <2>3. Ascending(got'[c]) /\ Seen(c)' <= last'[c]
    BY <1>0, <1>2, <2>1, <2>2, TakeOrdered
  <2> QED BY <2>1, <2>3 DEF Ordered
<1>7. CASE Stopped(c) \/ Disconnect(c)
  <2>1. /\ mode'[c] = "away" /\ got'[c] = got[c]
    BY <1>7 DEF Stopped, Disconnect, Unsubscribe, history
  <2> QED BY <1>2, <2>1 DEF Ordered
<1>8. CASE Snapshot(c)
  <2>1. mode'[c] = "away" /\ got'[c] = <<>>
    BY <1>0, <1>8 DEF Snapshot, TypeOK, bus
  <2> QED BY <2>1 DEF Ordered, Ascending
<1>9. CASE Subscribe(c)
  <2>1. /\ mode'[c] = "joining" /\ got'[c] = got[c] /\ start'[c] = start[c]
        /\ last'[c] = Seen(c)
    BY <1>0, <1>9 DEF Subscribe, Register, SetMode, TypeOK, history
  <2> QED BY <1>2, <1>3, <2>1, SameSeen DEF Ordered
<1>10. CASE Fetch(c)
  <2>1. /\ mode'[c] = "catchup" /\ got'[c] = got[c] /\ start'[c] = start[c]
        /\ last'[c] = Seen(c) /\ backlog'[c] = {e \in log : e.seq > Seen(c)}
        /\ log' = log /\ c \in Endpoint
    BY <1>0, <1>10 DEF Fetch, SetMode, After, TypeOK, history
  <2>2. \A e \in backlog'[c] : Seen(c) < e.seq
    BY <1>3, <2>1
  <2>3. Seen(c)' = Seen(c) /\ Seen(c)' <= last'[c]
    BY <1>3, <2>1, SameSeen
  <2> QED BY <1>2, <2>1, <2>2, <2>3 DEF Ordered
<1>11. CASE Send(c)
  <2>1. PICK e \in backlog[c] : /\ IsFirst(e, backlog[c])
                                /\ got' = [got EXCEPT ![c] = Append(@, e)]
                                /\ backlog' = [backlog EXCEPT ![c] = @ \ {e}]
    BY <1>11 DEF Send
  <2>2. /\ got'[c] = Append(got[c], e) /\ backlog'[c] = backlog[c] \ {e}
        /\ mode[c] = "catchup" /\ mode' = mode /\ log' = log
    BY <1>0, <1>11, <2>1 DEF Send, TypeOK
  <2>3. c \in Endpoint /\ e \in log /\ Seen(c) < e.seq /\ backlog[c] \subseteq log
    BY <1>2, <2>2
  <2>4. Ascending(got'[c]) /\ Seen(c)' = e.seq
    BY <1>0, <1>2, <1>3, <2>2, <2>3, SeenAppend, AscendingNext
  <2>5. ASSUME NEW d \in backlog'[c] PROVE e.seq < d.seq
    <3>1. e.seq <= d.seq /\ d # e /\ d \in log
      BY <2>1, <2>2, <2>3 DEF IsFirst
    <3>2. d.seq # e.seq
      BY <1>0, <2>3, <3>1 DEF LogOK
    <3> QED BY <1>3, <2>3, <3>1, <3>2
  <2> QED BY <2>2, <2>3, <2>4, <2>5 DEF Ordered
<1>12. CASE SubscribeFromTip(c)
  <2>1. PICK n \in 0 .. MaxEvents : IsTip(n, log, last[c]) /\ last' = [last EXCEPT ![c] = n]
    BY <1>12 DEF SubscribeFromTip
  <2>2. /\ mode[c] = "catchup" /\ mode'[c] = "joining" /\ last'[c] = n
        /\ got'[c] = got[c] /\ start'[c] = start[c]
    BY <1>0, <1>12, <2>1 DEF SubscribeFromTip, Register, SetMode, TypeOK, history
  <2>3. last[c] <= n /\ \A e \in log : e.seq <= n
    BY <2>1 DEF IsTip
  <2>4. Seen(c) <= n
    BY <1>2, <1>3, <2>2, <2>3
  <2> QED BY <1>2, <2>2, <2>4, SameSeen DEF Ordered
<1> QED BY <1>4, <1>5, <1>6, <1>7, <1>8, <1>9, <1>10, <1>11, <1>12 DEF Stream, CatchUp

LEMMA OrderStep == OrderInv /\ [Next]_vars => OrderInv'
<1> SUFFICES ASSUME OrderInv, [Next]_vars PROVE OrderInv'
  OBVIOUS
<1>0. TypeOK /\ (life = 0 => LogOK) /\ \A c \in Client : Ordered(c)
  BY DEF OrderInv
<1>1. TypeOK'
  BY <1>0, TypeStep
<1>2. life \in Nat /\ (life' = life \/ life' = life + 1)
  <2>1. life \in Nat
    BY <1>0, BoundsAssumption DEF TypeOK
  <2>2. CASE life' = life
    BY <2>1, <2>2
  <2>3. CASE DeleteSession
    BY <2>1, <2>3 DEF DeleteSession
  <2>4. life' = life \/ DeleteSession
    BY DEF Next, Direct, Emit, Number, Save, FanOut, FailEmit, Stream, Load,
     Replay, GoLive, Receive, Stopped, Snapshot, Subscribe, Disconnect, CatchUp, Fetch,
     Send, SubscribeFromTip, Close, Crash, vars, history
  <2> QED BY <2>1, <2>2, <2>3, <2>4
<1>3. life' = 0 => life = 0
  BY <1>2
<1>4. life' = 0 => LogOK'
  BY <1>0, <1>3, LogStep
<1>5. ASSUME NEW c \in Client PROVE Ordered(c)'
  <2>1. ASSUME NEW t \in Task, Emit(t) \/ FailEmit(t) PROVE Ordered(c)'
    <3>1. /\ log \subseteq log' /\ UNCHANGED <<got, start, last, mode, backlog>>
      BY <2>1 DEF Emit, Number, Save, FanOut, FailEmit, bus, history
    <3> QED BY <1>0, <1>3, <3>1, OrderedIdle
  <2>2. ASSUME NEW d \in Client, d # c,
               \/ Stream(d) \/ Snapshot(d) \/ Subscribe(d) \/ Disconnect(d) \/ CatchUp(d)
        PROVE  Ordered(c)'
    <3>1. log' = log
      BY <2>2 DEF Stream, Load, Replay, GoLive, Receive, Stopped, Snapshot, Subscribe,
         Disconnect, CatchUp, Fetch, Send, SubscribeFromTip
    <3>2. /\ got'[c] = got[c] /\ start'[c] = start[c] /\ last'[c] = last[c]
          /\ mode'[c] = mode[c] /\ backlog'[c] = backlog[c]
      <4>1. CASE \/ Load(d) \/ GoLive(d) \/ Stopped(d) \/ Snapshot(d) \/ Subscribe(d)
                 \/ Disconnect(d)
        BY <1>0, <2>2, <4>1 DEF Load, GoLive, Stopped, Snapshot, Subscribe, Disconnect,
           Unsubscribe, Register, SetMode, TypeOK, bus, history
      <4>2. CASE Replay(d) \/ Receive(d)
        BY <1>0, <2>2, <4>2 DEF Replay, Receive, Take, TypeOK
      <4>3. CASE CatchUp(d)
        BY <1>0, <2>2, <4>3 DEF CatchUp, Fetch, Send, SubscribeFromTip, Register, SetMode,
           TypeOK, history
      <4> QED BY <2>2, <4>1, <4>2, <4>3 DEF Stream
    <3> QED BY <1>0, <1>3, <3>1, <3>2, OrderedIdle
  <2>3. CASE \/ Stream(c) \/ Snapshot(c) \/ Subscribe(c) \/ Disconnect(c) \/ CatchUp(c)
    BY <2>3, OrderedOwn
  <2>4. CASE Close \/ UNCHANGED vars
    <3>1. UNCHANGED <<log, got, start, last, mode, backlog>>
      BY <2>4 DEF Close, vars, bus, history
    <3> QED BY <1>0, <1>3, <3>1, OrderedIdle
  <2>5. CASE Crash
    <3>1. UNCHANGED <<log, got, start, last>> /\ mode'[c] = "away"
      BY <2>5 DEF Crash, Unsubscribe
    <3> QED BY <1>0, <1>3, <3>1, OrderedIdle
  <2>6. CASE DeleteSession
    <3>1. UNCHANGED <<got, start, last, mode, backlog>> /\ life' = life + 1
      BY <2>6 DEF DeleteSession, bus
    <3>2. life' # 0
      BY <1>2, <3>1
    <3> QED BY <1>0, <3>1, <3>2, OrderedIdle
  <2> QED BY <2>1, <2>2, <2>3, <2>4, <2>5, <2>6 DEF Next, Direct
<1> QED BY <1>1, <1>4, <1>5 DEF OrderInv

\* Nothing arrives twice or out of order: for every client of the bus whatever
\* happens to the session, and for a client of the endpoint until the session is
\* deleted.
THEOREM HandedInOrderHolds == Spec => []HandedInOrder
<1>1. OrderInv => HandedInOrder
  BY DEF OrderInv, Ordered, HandedInOrder
<1> QED BY <1>1, OrderInit, OrderStep, PTL DEF Spec

\* Events are stored in the order of their numbers, each number once, unless the
\* session is deleted.
THEOREM SavedInOrderHolds ==
  ASSUME MaxDeletes = 0 PROVE Spec => SavedInOrder
<1>1. OrderInv => LogOK
  BY DEF OrderInv, TypeOK
<1>2. OrderInv /\ [Next]_vars => [\A e \in log' \ log : \A d \in log : d.seq < e.seq]_vars
  BY <1>1, SavedInOrderStep
<1> QED BY <1>2, OrderInit, OrderStep, PTL DEF Spec, SavedInOrder

================================================================================
