----------------------- MODULE EventsAndApprovalsProofs -----------------------
(***************************************************************************)
(* What holds of the events of one API task for any readers, runs, events, *)
(* approvals, failures, restarts and buffer: a reader whose stream ended   *)
(* was told the whole run, and no reader waits on a run that is over.      *)
(*                                                                         *)
(* And what the approval gateway guarantees for any requests, runs and     *)
(* people, any number of failures and restarts, and either store.  None of *)
(* its invariants is inductive.  Known adds what each stage of an asker or *)
(* an answerer knows of the entry and the row of its request, Durable what *)
(* an answer stored before it is signalled, and Agree, for one answer at a *)
(* time, that a row is decided once.                                       *)
(***************************************************************************)
EXTENDS TaskEvents, ApprovalGateway, Integers, Sequences, FiniteSets, Functions,
        FiniteSetTheorems, FunctionTheorems, TLAPS

------------------------------------------------------------------------------
(* Nobody waits.                                                            *)

\* Between two runs, the latest one is over; who looked before it was over has gone, and
\* who looked since closes the topic before it waits on it.
NobodyWaits ==
  /\ latest \in Nat /\ DOMAIN reader = Reader
  /\ \A c \in Reader : "stage" \in DOMAIN reader[c]
  /\ stage = "ending" => latest \in ended
  /\ stage = "off" /\ latest > 0 =>
       /\ latest \in ended
       /\ \A c \in Reader :
            /\ reader[c].stage = "status" => reader[c].over \/ closed
            /\ reader[c].stage = "hydrated" => closed
            /\ reader[c].stage # "live"

LEMMA StreamStep ==
  NobodyWaits /\ [Stream!Next]_Stream!vars => NobodyWaits'
<1> SUFFICES ASSUME NobodyWaits, [Stream!Next]_Stream!vars PROVE NobodyWaits'
  OBVIOUS
<1> USE DEF NobodyWaits
<1>1. CASE Stream!CreateRun \/ Stream!Reopen \/ Stream!AppendEvent \/ Stream!SinkFails
           \/ Stream!StoreApproval \/ Stream!Finalize
  <2>1. /\ latest' \in Nat /\ UNCHANGED reader
        /\ stage' \in {"created", "running", "stored", "ending"}
        /\ stage' = "ending" => latest' \in ended'
    BY <1>1 DEF Stream!CreateRun, Stream!Reopen, Stream!AppendEvent, Stream!SinkFails,
                Stream!StoreApproval, Stream!Finalize
  <2> QED BY <2>1
<1>2. CASE Stream!Publish
  <2>1. /\ stage' = "running" /\ UNCHANGED latest /\ DOMAIN reader' = Reader
        /\ \A c \in Reader : "stage" \in DOMAIN reader'[c]
    BY <1>2 DEF Stream!Publish
  <2> QED BY <2>1
<1>3. CASE Stream!Close
  <2>1. /\ stage = "ending" /\ stage' = "off" /\ closed' = TRUE /\ UNCHANGED <<latest, ended>>
        /\ reader' = [c \in Reader |->
             IF reader[c].stage = "live" THEN [reader[c] EXCEPT !.stage = "done"] ELSE reader[c]]
    BY <1>3 DEF Stream!Close, Stream!Subscribed
  <2>2. ASSUME NEW c \in Reader
        PROVE  "stage" \in DOMAIN reader'[c] /\ reader'[c].stage # "live"
    <3>1. CASE reader[c].stage = "live"
      <4>1. reader'[c] = [reader[c] EXCEPT !.stage = "done"]
        BY <2>1, <3>1
      <4> QED BY <4>1
    <3>2. CASE reader[c].stage # "live"
      BY <2>1, <3>2
    <3> QED BY <3>1, <3>2
  <2> QED BY <2>1, <2>2
<1>4. CASE Stream!Restart
  <2>1. /\ stage' = "off" /\ ended' = 1 .. latest /\ UNCHANGED latest
        /\ reader' = [c \in Reader |-> [stage |-> "idle"]]
    BY <1>4 DEF Stream!Restart, Stream!Idle
  <2> QED BY <2>1
\* A reader moves on; the others and the run stay where they are.
<1>5. ASSUME NEW c \in Reader, NEW new, reader' = [reader EXCEPT ![c] = new],
             "stage" \in DOMAIN new, UNCHANGED <<latest, ended, stage>>,
             closed => closed',
             stage = "off" /\ latest > 0 =>
               /\ new.stage = "status" => new.over \/ closed'
               /\ new.stage = "hydrated" => closed'
               /\ new.stage # "live"
      PROVE  NobodyWaits'
  <2>1. /\ DOMAIN reader' = Reader
        /\ \A d \in Reader : reader'[d] = IF d = c THEN new ELSE reader[d]
    BY <1>5
  <2> QED BY <1>5, <2>1
<1>6. ASSUME NEW c \in Reader, Stream!Connect(c) PROVE NobodyWaits'
  <2> DEFINE new == [stage |-> "history", of |-> latest, hist |-> Stream!ListEvents(latest)]
  <2>1. reader' = [reader EXCEPT ![c] = new] /\ UNCHANGED <<latest, ended, stage, closed>>
    BY <1>6 DEF Stream!Connect, Stream!topic
  <2>2. "stage" \in DOMAIN new /\ new.stage = "history"
    OBVIOUS
  <2> HIDE DEF new
  <2> QED BY <1>5, <2>1, <2>2
<1>7. ASSUME NEW c \in Reader, Stream!ReadStatus(c) PROVE NobodyWaits'
  <2> DEFINE new == [stage |-> "status", of |-> reader[c].of, hist |-> reader[c].hist,
                     over |-> latest \in ended]
  <2>1. reader' = [reader EXCEPT ![c] = new] /\ UNCHANGED <<latest, ended, stage, closed>>
    BY <1>7 DEF Stream!ReadStatus, Stream!topic
  <2>2. "stage" \in DOMAIN new /\ new.stage = "status" /\ new.over = (latest \in ended)
    OBVIOUS
  <2> HIDE DEF new
  <2> QED BY <1>5, <2>1, <2>2
<1>8. ASSUME NEW c \in Reader, Stream!Hydrate(c) PROVE NobodyWaits'
  <2> DEFINE new == [stage |-> "hydrated", of |-> reader[c].of]
  <2>1. /\ reader[c].stage = "status" /\ reader' = [reader EXCEPT ![c] = new]
        /\ closed' = (closed \/ reader[c].over) /\ UNCHANGED <<latest, ended, stage>>
    BY <1>8 DEF Stream!Hydrate
  <2>2. "stage" \in DOMAIN new /\ new.stage = "hydrated"
    OBVIOUS
  <2> HIDE DEF new
  <2> QED BY <1>5, <2>1, <2>2
<1>9. ASSUME NEW c \in Reader, Stream!Subscribe(c) PROVE NobodyWaits'
  <2> DEFINE new == [stage |-> IF closed THEN "done" ELSE "live", of |-> reader[c].of,
                     got |-> buffer]
  <2>1. /\ reader[c].stage = "hydrated" /\ reader' = [reader EXCEPT ![c] = new]
        /\ UNCHANGED <<latest, ended, stage, closed>>
    BY <1>9 DEF Stream!Subscribe, Stream!topic
  <2>2. "stage" \in DOMAIN new /\ new.stage = (IF closed THEN "done" ELSE "live")
    OBVIOUS
  <2> HIDE DEF new
  <2> QED BY <1>5, <2>1, <2>2
<1>10. ASSUME NEW c \in Reader, Stream!Leave(c) PROVE NobodyWaits'
  <2>1. /\ reader' = [reader EXCEPT ![c] = [stage |-> "idle"]]
        /\ UNCHANGED <<latest, ended, stage, closed>>
    BY <1>10 DEF Stream!Leave, Stream!Idle, Stream!topic
  <2> QED BY <1>5, <2>1
<1>11. CASE UNCHANGED Stream!vars
  BY <1>11 DEF Stream!vars, Stream!topic
<1> QED BY <1>1, <1>2, <1>3, <1>4, <1>6, <1>7, <1>8, <1>9, <1>10, <1>11 DEF Stream!Next

\* Nobody waits on the topic of a run that is over, whichever way connections, runs,
\* restarts and approvals overlap: for any number of readers, events and runs.
THEOREM NoReaderIsLeftBehind == Stream!Spec => []NoReaderLeftBehind
<1>1. Stream!Init => NobodyWaits
  BY DEF Stream!Init, Stream!Idle, NobodyWaits
<1>2. NobodyWaits => NoReaderLeftBehind
  BY DEF NobodyWaits, NoReaderLeftBehind, Stream!NoReaderLeftBehind, Stream!Subscribed
<1> QED BY <1>1, <1>2, StreamStep, PTL DEF Stream!Spec

------------------------------------------------------------------------------
(* What a reader is told.                                                   *)

\* Types, and that what is over is over.
StreamTypes ==
  /\ latest \in Nat /\ counter \in Nat /\ asked \in Nat /\ dropped \in Nat
  /\ counter <= MaxEvents /\ raced \in BOOLEAN /\ closed \in BOOLEAN
  /\ stage \in {"off", "created", "running", "stored", "ending"}
  /\ ended \subseteq 1 .. latest /\ (latest \in ended => stage \in {"ending", "off"})
  /\ (latest = 0 => stage = "off") /\ (stage = "created" => counter = 0)
  /\ stage = "stored" => counter > 0
  /\ buffer \in Seq(Nat) /\ DOMAIN reader = Reader

ReaderType(v) ==
  /\ v.stage \in {"idle", "history", "status", "hydrated", "live", "done"}
  /\ v.stage # "idle" => v.of \in 0 .. latest
  /\ v.stage \in {"history", "status"} => v.hist \in Seq(Nat)
  /\ v.stage = "status" => v.over \in BOOLEAN
  /\ v.stage \in {"live", "done"} =>
       v.got \in Seq(Nat) /\ v = [stage |-> v.stage, of |-> v.of, got |-> v.got]

\* The rows of the latest run are numbered without a gap: its events, each under its own
\* number, and approvals, which may have taken the number of an event.
Rows == Stream!RowsOf(latest)
Size == Cardinality(Rows)
Asked == {x \in Rows : x.event = MaxEvents}
RowsInOrder ==
  /\ \A x \in streamRow : x.run \in 0 .. latest /\ x.seq \in Nat
  /\ \A x, y \in Rows : x.seq = y.seq => x = y
  /\ Size \in Nat /\ {x.seq : x \in Rows} = 0 .. Size - 1
  /\ \A x \in Rows : (x.event = x.seq /\ x.event < counter) \/ (x.event = MaxEvents /\ StreamSql)
  /\ counter <= Size /\ Size <= counter + asked /\ (~StreamSql => Size = counter)
  /\ IsFiniteSet(Asked) /\ Cardinality(Asked) <= asked

AllStored == \A n \in 0 .. counter - 1 : \E x \in Rows : x.event = n
Undisturbed ==
  ~raced /\ dropped = 0 /\ AllStored /\ counter + asked < BufferSize

\* The events below p, in order, each once but for a 0 that may be there twice, and
\* approvals: a sequence that goes on well with p, when c is the next number of the run
\* and a the number of approvals.
Tells(s, p, a, c) ==
  /\ Len(s) <= a + p + 1
  /\ \A i \in DOMAIN s : s[i] = MaxEvents \/ s[i] < p \/ (s[i] = 0 /\ 0 < c)
  /\ \A n \in 0 .. p - 1 : \E i \in DOMAIN s : s[i] = n
  /\ \A i, j \in Stream!Told(s) : i < j => s[i] < s[j] \/ (s[i] = 0 /\ s[j] = 0 /\ p > 0)
  /\ \A i, j, k \in Stream!Told(s) : i < j /\ j < k => s[i] < s[k]

Published == IF stage = "stored" THEN counter - 1 ELSE counter
Telling(s) == Tells(s, Published, asked, counter)

TopicTells ==
  /\ stage \in {"running", "stored", "ending"} => Telling(buffer)
  /\ stage = "off" /\ latest > 0 => (buffer = <<>> \/ Telling(buffer))
  /\ closed => stage \in {"ending", "off", "created"}
ReaderTells(v) ==
  /\ v.stage \in {"history", "status", "hydrated"} => v.of = latest /\ stage # "created"
  /\ v.stage \in {"history", "status"} /\ latest > 0 /\ buffer = <<>> => Telling(v.hist)
  /\ v.stage = "status" /\ v.over => stage \in {"ending", "off"}
  /\ v.stage = "hydrated" /\ latest > 0 => Telling(buffer)
  /\ v.stage \in {"live", "done"} /\ v.of = latest /\ latest > 0 =>
       /\ stage # "created" /\ Telling(v.got)
       /\ v.stage = "done" => stage \in {"ending", "off"}

StreamInv ==
  /\ StreamTypes /\ \A c \in Reader : ReaderType(reader[c])
  /\ RowsInOrder
  /\ Undisturbed => TopicTells /\ (\A c \in Reader : ReaderTells(reader[c]))

------------------------------------------------------------------------------
(* Rows that are numbered without a gap, and the list of them.              *)

LEMMA SameCount == ASSUME NEW S PROVE Stream!Cardinality(S) = Cardinality(S)
BY DEF Cardinality, Stream!Cardinality

\* As many rows as numbers.
LEMMA NumberedCount ==
  ASSUME NEW R, NEW n \in Nat, {x.seq : x \in R} = 0 .. n - 1,
         \A x, y \in R : x.seq = y.seq => x = y
  PROVE  IsFiniteSet(R) /\ Cardinality(R) = n
<1> DEFINE g == [i \in 0 .. n - 1 |-> CHOOSE x \in R : x.seq = i]
<1>1. \A i \in 0 .. n - 1 : g[i] \in R /\ g[i].seq = i
  <2> SUFFICES ASSUME NEW i \in 0 .. n - 1 PROVE g[i] \in R /\ g[i].seq = i
    OBVIOUS
  <2>1. \E x \in R : x.seq = i
    OBVIOUS
  <2> QED BY <2>1
<1>2. g \in [0 .. n - 1 -> R]
  BY <1>1
<1> HIDE DEF g
<1>3. \A i, j \in 0 .. n - 1 : g[i] = g[j] => i = j
  BY <1>1
<1>4. \A x \in R : \E i \in 0 .. n - 1 : g[i] = x
  <2> SUFFICES ASSUME NEW x \in R PROVE \E i \in 0 .. n - 1 : g[i] = x
    OBVIOUS
  <2>1. x.seq \in 0 .. n - 1
    OBVIOUS
  <2> QED BY <1>1, <2>1
<1>5. g \in Bijection(0 .. n - 1, R)
  BY <1>2, <1>3, <1>4, Fun_IsBij
<1>6. ExistsBijection(0 .. n - 1, R)
  BY <1>5 DEF ExistsBijection
<1>7. IsFiniteSet(0 .. n - 1) /\ Cardinality(0 .. n - 1) = n
  BY FS_Interval
<1> QED BY <1>6, <1>7, FS_Bijection

\* The history of the latest run is the event of each row, under the row's number.
LEMMA ListIs ==
  ASSUME RowsInOrder
  PROVE  /\ DOMAIN Stream!ListEvents(latest) = 1 .. Size
         /\ \A x \in Rows : Stream!ListEvents(latest)[x.seq + 1] = x.event
<1> DEFINE before(x) == {y \in Rows : y.seq < x.seq}
           nth(i) == CHOOSE x \in Rows : Stream!Cardinality(before(x)) = i - 1
<1>0. Stream!ListEvents(latest) = [i \in 1 .. Stream!Cardinality(Rows) |-> nth(i).event]
  BY DEF Stream!ListEvents, Rows
<1>1. Stream!ListEvents(latest) = [i \in 1 .. Size |-> nth(i).event]
  <2>1. Stream!Cardinality(Rows) = Size
    BY SameCount DEF Size
  <2> HIDE DEF nth
  <2> QED BY <1>0, <2>1
<1>2. ASSUME NEW x \in Rows
      PROVE  x.seq \in 0 .. Size - 1 /\ Stream!Cardinality(before(x)) = x.seq
  <2>1. x.seq \in 0 .. Size - 1 /\ Size \in Nat /\ \A y \in Rows : y.seq \in 0 .. Size - 1
    BY DEF RowsInOrder
  <2>2. {y.seq : y \in before(x)} = 0 .. x.seq - 1
    <3>1. ASSUME NEW k \in 0 .. x.seq - 1 PROVE \E y \in before(x) : y.seq = k
      <4>1. k \in 0 .. Size - 1 /\ k < x.seq
        BY <2>1
      <4>2. \E y \in Rows : y.seq = k
        BY <4>1 DEF RowsInOrder
      <4> QED BY <4>1, <4>2
    <3>2. ASSUME NEW y \in before(x) PROVE y.seq \in 0 .. x.seq - 1
      BY <2>1
    <3> QED BY <3>1, <3>2
  <2>3. \A y, z \in before(x) : y.seq = z.seq => y = z
    BY DEF RowsInOrder
  <2> HIDE DEF before
  <2>4. x.seq \in Nat
    BY <2>1
  <2>5. Cardinality(before(x)) = x.seq
    BY <2>2, <2>3, <2>4, NumberedCount
  <2> QED BY <2>1, <2>5, SameCount
<1>3. ASSUME NEW x \in Rows, NEW i, i - 1 = x.seq PROVE nth(i) = x
  <2>1. \A y \in Rows : Stream!Cardinality(before(y)) = y.seq
    BY <1>2
  <2>2. \E y \in Rows : Stream!Cardinality(before(y)) = i - 1
    BY <1>3, <2>1
  <2>3. nth(i) \in Rows /\ Stream!Cardinality(before(nth(i))) = i - 1
    BY <2>2
  <2> HIDE DEF nth, before
  <2>4. nth(i).seq = x.seq
    BY <1>3, <2>1, <2>3
  <2> QED BY <2>3, <2>4 DEF RowsInOrder
<1> HIDE DEF nth
<1>4. \A x \in Rows : x.seq + 1 \in 1 .. Size /\ x.seq + 1 - 1 = x.seq
  BY <1>2 DEF RowsInOrder
<1> HIDE DEF before
<1>5. DOMAIN Stream!ListEvents(latest) = 1 .. Size
  BY <1>1
<1>6. ASSUME NEW x \in Rows PROVE Stream!ListEvents(latest)[x.seq + 1] = x.event
  <2>1. Stream!ListEvents(latest)[x.seq + 1] = nth(x.seq + 1).event
    BY <1>1, <1>4
  <2> DEFINE i == x.seq + 1
  <2>2. i - 1 = x.seq
    BY <1>2 DEF RowsInOrder
  <2> HIDE DEF i
  <2>3. nth(i) = x
    BY <1>3, <2>2
  <2>4. nth(x.seq + 1) = x
    BY <2>3 DEF i
  <2> QED BY <2>1, <2>4
<1> QED BY <1>5, <1>6

------------------------------------------------------------------------------
(* What can be put behind what is told.                                     *)

\* The run's next event, when it is published.
LEMMA TellsNext ==
  ASSUME NEW s \in Seq(Nat), NEW p \in Nat, NEW a \in Nat, NEW c \in Nat,
         p < c, p < MaxEvents, Tells(s, p, a, c)
  PROVE  Tells(Append(s, p), p + 1, a, c)
<1> DEFINE t == Append(s, p)
<1>0. MaxEvents \in Nat
  BY StreamAssumption
<1>1. /\ Len(t) = Len(s) + 1 /\ Len(s) \in Nat /\ DOMAIN t = 1 .. Len(s) + 1
      /\ DOMAIN s = 1 .. Len(s)
      /\ \A i \in 1 .. Len(s) : t[i] = s[i] /\ s[i] \in Nat
      /\ t[Len(s) + 1] = p
  OBVIOUS
<1> HIDE DEF t
<1> USE DEF Stream!Told, Stream!Approval
<1>2. \A i \in Stream!Told(s) : s[i] \in Nat /\ (s[i] < p \/ s[i] = 0)
  BY <1>0, <1>1 DEF Tells
<1>3. \A i \in Stream!Told(t) : (i \in Stream!Told(s) /\ t[i] = s[i]) \/ (i = Len(s) + 1 /\ t[i] = p)
  BY <1>1
<1>4. Len(t) <= a + p + 1 + 1
  BY <1>1 DEF Tells
<1>5. \A i \in DOMAIN t : t[i] = MaxEvents \/ t[i] < p + 1 \/ (t[i] = 0 /\ 0 < c)
  BY <1>0, <1>1 DEF Tells
<1>6. ASSUME NEW n \in 0 .. p PROVE \E i \in DOMAIN t : t[i] = n
  <2>1. CASE n = p
    BY <1>1, <2>1
  <2>2. CASE n # p
    <3>1. n \in 0 .. p - 1
      BY <2>2
    <3>2. PICK i \in DOMAIN s : s[i] = n
      BY <3>1 DEF Tells
    <3> QED BY <1>1, <3>2
  <2> QED BY <2>1, <2>2
<1>7. ASSUME NEW i \in Stream!Told(t), NEW j \in Stream!Told(t), i < j
      PROVE  t[i] < t[j] \/ (t[i] = 0 /\ t[j] = 0 /\ p + 1 > 0)
  <2>1. i \in Stream!Told(s) /\ t[i] = s[i]
    BY <1>1, <1>3, <1>7
  <2>2. CASE j \in Stream!Told(s) /\ t[j] = s[j]
    BY <1>2, <1>7, <2>1, <2>2 DEF Tells
  <2>3. CASE t[j] = p
    BY <1>2, <2>1, <2>3
  <2> QED BY <1>3, <2>2, <2>3
<1>8. ASSUME NEW i \in Stream!Told(t), NEW j \in Stream!Told(t), NEW k \in Stream!Told(t),
             i < j, j < k
      PROVE  t[i] < t[k]
  <2>1. i \in Stream!Told(s) /\ t[i] = s[i] /\ j \in Stream!Told(s) /\ t[j] = s[j]
    BY <1>1, <1>3, <1>8
  <2>2. CASE k \in Stream!Told(s) /\ t[k] = s[k]
    BY <1>8, <2>1, <2>2 DEF Tells
  <2>3. CASE t[k] = p
    <3>1. s[i] < s[j] \/ (s[i] = 0 /\ s[j] = 0 /\ p > 0)
      BY <1>8, <2>1 DEF Tells
    <3>2. /\ s[i] \in Nat /\ (s[i] < p \/ s[i] = 0)
          /\ s[j] \in Nat /\ (s[j] < p \/ s[j] = 0)
      BY <1>2, <2>1
    <3> QED BY <2>1, <2>3, <3>1, <3>2
  <2> QED BY <1>3, <2>2, <2>3
<1>9. p + 1 - 1 = p
  OBVIOUS
<1>10. Tells(t, p + 1, a, c)
  <2> HIDE DEF Stream!Told, Stream!Approval
  <2> QED BY <1>4, <1>5, <1>6, <1>7, <1>8, <1>9 DEF Tells
<1> QED BY <1>10 DEF t

\* More approvals and a higher number change nothing.
LEMMA TellsOn ==
  ASSUME NEW s \in Seq(Nat), NEW p \in Nat, NEW a \in Nat, NEW c \in Nat,
         NEW a1 \in Nat, NEW c1 \in Nat, a <= a1, c <= c1, Tells(s, p, a, c)
  PROVE  Tells(s, p, a1, c1)
<1>1. Len(s) \in Nat /\ (0 < c => 0 < c1)
  OBVIOUS
<1> QED BY <1>1 DEF Tells

\* It fits into the buffer.
LEMMA TellingFits ==
  ASSUME StreamTypes, Undisturbed, NEW s \in Seq(Nat), Len(s) <= asked + counter + 1
  PROVE  Stream!Newest(s) = s
BY StreamAssumption DEF StreamTypes, Undisturbed, Stream!Newest

\* The history of a run of which nothing has been published, or that has no event to be
\* published, tells it.
LEMMA HistoryTells ==
  ASSUME StreamTypes, RowsInOrder, AllStored, stage = "stored" => counter = 1
  PROVE  Stream!ListEvents(latest) \in Seq(Nat) /\ Telling(Stream!ListEvents(latest))
<1> DEFINE h == Stream!ListEvents(latest)
<1>0. /\ MaxEvents \in Nat /\ counter \in Nat /\ asked \in Nat /\ Size \in Nat
      /\ counter <= MaxEvents /\ counter <= Size /\ Size <= counter + asked
  BY StreamAssumption DEF StreamTypes, RowsInOrder
<1>1. DOMAIN h = 1 .. Size /\ \A x \in Rows : h[x.seq + 1] = x.event
  BY ListIs
<1>a. h = [i \in DOMAIN h |-> h[i]]
  BY DEF Stream!ListEvents
<1> HIDE DEF h
<1>2. ASSUME NEW i \in 1 .. Size
      PROVE  h[i] = IF i <= counter THEN i - 1 ELSE MaxEvents
  <2>1. i - 1 \in 0 .. Size - 1 /\ i - 1 + 1 = i
    BY <1>0
  <2>2. PICK x \in Rows : x.seq = i - 1
    BY <2>1 DEF RowsInOrder
  <2>3. h[i] = x.event
    BY <1>1, <2>1, <2>2
  <2>4. CASE i <= counter
    <3>1. i - 1 \in 0 .. counter - 1
      BY <1>0, <2>4
    <3>2. PICK y \in Rows : y.event = i - 1
      BY <3>1 DEF AllStored
    <3>3. y.event # MaxEvents
      BY <1>0, <3>1, <3>2
    <3>4. y.seq = i - 1
      BY <3>2, <3>3 DEF RowsInOrder
    <3>5. y = x
      BY <2>2, <3>4 DEF RowsInOrder
    <3> QED BY <2>3, <2>4, <3>2, <3>5
  <2>5. CASE ~(i <= counter)
    <3>1. ~(x.event = x.seq /\ x.event < counter)
      BY <1>0, <2>2, <2>5
    <3> QED BY <2>3, <2>5, <3>1 DEF RowsInOrder
  <2> QED BY <2>4, <2>5
<1>3. h \in Seq(Nat) /\ Len(h) = Size
  <2>1. \A i \in 1 .. Size : h[i] \in Nat
    BY <1>0, <1>2
  <2>2. h \in [1 .. Size -> Nat]
    BY <1>1, <1>a, <2>1
  <2> QED BY <1>0, <1>1, <2>2
<1>4. \A i \in Stream!Told(h) : i \in 1 .. counter /\ h[i] = i - 1
  BY <1>0, <1>1, <1>2 DEF Stream!Told, Stream!Approval
<1>5. \A p \in 0 .. counter - 1 : h[p + 1] = p /\ p + 1 \in DOMAIN h
  BY <1>0, <1>1, <1>2
<1>6. ASSUME NEW p \in Nat, p = counter \/ (p = 0 /\ counter = 1)
      PROVE  Tells(h, p, asked, counter)
  <2>1. Len(h) <= asked + p + 1
    BY <1>0, <1>3, <1>6
  <2>2. \A i \in DOMAIN h : h[i] = MaxEvents \/ h[i] < p \/ (h[i] = 0 /\ 0 < counter)
    BY <1>0, <1>1, <1>2, <1>6
  <2>3. \A n \in 0 .. p - 1 : \E i \in DOMAIN h : h[i] = n
    BY <1>0, <1>5, <1>6
  <2>4. \A i, j \in Stream!Told(h) : i < j => h[i] < h[j]
    BY <1>0, <1>4
  <2>5. \A i, j, k \in Stream!Told(h) : i < j /\ j < k => h[i] < h[k]
    BY <1>0, <1>4
  <2> QED BY <2>1, <2>2, <2>3, <2>4, <2>5 DEF Tells
<1>7. Published \in Nat /\ (Published = counter \/ (Published = 0 /\ counter = 1))
  BY <1>0 DEF Published
<1>8. Telling(h)
  BY <1>6, <1>7 DEF Telling
<1> QED BY <1>3, <1>8 DEF h

------------------------------------------------------------------------------
(* Rows that are added.                                                     *)

LEMMA SameRows ==
  ASSUME RowsInOrder, UNCHANGED <<streamRow, latest, counter, asked>>
  PROVE  RowsInOrder' /\ Rows' = Rows /\ AllStored' = AllStored
<1>1. Rows' = Rows
  BY DEF Rows, Stream!RowsOf
<1>2. Size' = Size /\ Asked' = Asked /\ AllStored' = AllStored
  BY <1>1 DEF Size, Asked, AllStored
<1> QED BY <1>1, <1>2 DEF RowsInOrder

LEMMA RowAdded ==
  ASSUME RowsInOrder, latest \in Nat, UNCHANGED latest,
         \E e \in Nat :
           streamRow' = streamRow \cup {[run |-> latest, seq |-> Size, event |-> e]}
  PROVE  /\ \A x \in streamRow' : x.run \in 0 .. latest /\ x.seq \in Nat
         /\ \A x, y \in Rows' : x.seq = y.seq => x = y
         /\ Size' = Size + 1 /\ {x.seq : x \in Rows'} = 0 .. Size' - 1
<1>1. PICK e \in Nat :
           streamRow' = streamRow \cup {[run |-> latest, seq |-> Size, event |-> e]}
  OBVIOUS
<1> DEFINE new == [run |-> latest, seq |-> Size, event |-> e]
<1>2. new.run = latest /\ new.seq = Size
  OBVIOUS
<1>3. streamRow' = streamRow \cup {new} /\ Rows' = Rows \cup {new}
  BY <1>1 DEF Rows, Stream!RowsOf
<1> HIDE DEF new
<1>4. /\ Size \in Nat /\ {x.seq : x \in Rows} = 0 .. Size - 1
      /\ \A x, y \in Rows : x.seq = y.seq => x = y
  BY DEF RowsInOrder
<1>5. \A x \in streamRow' : x.run \in 0 .. latest /\ x.seq \in Nat
  BY <1>2, <1>3, <1>4 DEF RowsInOrder
<1>6. \A x \in Rows : x.seq \in 0 .. Size - 1
  BY <1>4
<1>7. \A x, y \in Rows' : x.seq = y.seq => x = y
  BY <1>2, <1>3, <1>4, <1>6
<1>8. {x.seq : x \in Rows'} = 0 .. Size + 1 - 1
  <2>1. {x.seq : x \in Rows'} = {x.seq : x \in Rows} \cup {Size}
    BY <1>2, <1>3
  <2> QED BY <1>4, <2>1
<1>9. Cardinality(Rows') = Size + 1
  <2> DEFINE m == Size + 1
  <2>1. m \in Nat /\ {x.seq : x \in Rows'} = 0 .. m - 1
    BY <1>4, <1>8
  <2> HIDE DEF m
  <2>2. Cardinality(Rows') = m
    BY <1>7, <2>1, NumberedCount
  <2> QED BY <2>2 DEF m
<1>10. Size' = Size + 1
  BY <1>9 DEF Size
<1>11. {x.seq : x \in Rows'} = 0 .. Size' - 1
  <2>1. 0 .. Size' - 1 = 0 .. Size + 1 - 1
    BY <1>4, <1>10
  <2> QED BY <1>8, <2>1, Zenon
<1> QED BY <1>5, <1>7, <1>10, <1>11

\* The number an approval gets is the next one.
LEMMA NextNumber ==
  ASSUME RowsInOrder
  PROVE  (IF Rows = {} THEN 0
          ELSE 1 + CHOOSE n \in {x.seq : x \in Rows} : \A x \in Rows : x.seq <= n) = Size
<1>1. Size \in Nat /\ {x.seq : x \in Rows} = 0 .. Size - 1
  BY DEF RowsInOrder
<1>2. \A x \in Rows : x.seq \in 0 .. Size - 1
  BY <1>1
<1>3. CASE Rows = {}
  <2>1. ~(0 \in 0 .. Size - 1)
    BY <1>1, <1>3
  <2> QED BY <1>1, <1>3, <2>1
<1>4. CASE Rows # {}
  <2>1. Size - 1 \in 0 .. Size - 1
    BY <1>1, <1>2, <1>4
  <2> DEFINE last(n) == \A x \in Rows : x.seq <= n
             top == CHOOSE n \in {x.seq : x \in Rows} : last(n)
  <2>2. Size - 1 \in {x.seq : x \in Rows} /\ last(Size - 1)
    BY <1>1, <1>2, <2>1
  <2> HIDE DEF last
  <2>3. top \in {x.seq : x \in Rows} /\ last(top)
    BY <2>2
  <2> HIDE DEF top
  <2>4. PICK x \in Rows : x.seq = Size - 1
    BY <2>2
  <2>5. Size - 1 <= top
    BY <2>3, <2>4 DEF last
  <2>6. top \in 0 .. Size - 1
    BY <1>1, <2>3
  <2>7. 1 + top = Size
    BY <1>1, <2>5, <2>6
  <2> QED BY <1>4, <2>7 DEF top, last
<1> QED BY <1>3, <1>4

------------------------------------------------------------------------------
(* What the steps of the run do.                                            *)

USE DEF ReaderType

\* Nothing is stored, nobody connects and no run has begun.
LEMMA StreamInit == Stream!Init => StreamInv
<1> SUFFICES ASSUME Stream!Init PROVE StreamInv
  OBVIOUS
<1> USE StreamAssumption DEF Stream!Init, Stream!Idle
<1>1. StreamTypes
  <2>1. <<>> \in Seq(Nat) /\ DOMAIN reader = Reader /\ 0 <= MaxEvents
    OBVIOUS
  <2> QED BY <2>1 DEF StreamTypes
<1>2. \A c \in Reader : ReaderType(reader[c])
  OBVIOUS
<1>3. Rows = {}
  BY DEF Rows, Stream!RowsOf
<1>4. Size = 0 /\ IsFiniteSet(Asked) /\ Cardinality(Asked) = 0
  BY <1>3, FS_EmptySet DEF Size, Asked
<1>5. RowsInOrder
  BY <1>3, <1>4 DEF RowsInOrder
<1>6. TopicTells /\ \A c \in Reader : ReaderTells(reader[c])
  BY DEF TopicTells, ReaderTells
<1> QED BY <1>1, <1>2, <1>5, <1>6 DEF StreamInv

\* A new run has no reader yet: whoever connects meanwhile races with its start.
LEMMA CreateRunStep == ASSUME StreamInv, Stream!CreateRun PROVE StreamInv'
<1> USE StreamAssumption
<1>0. /\ stage = "off" /\ latest' = latest + 1 /\ counter' = 0 /\ stage' = "created"
      /\ raced' = (raced \/ \E c \in Reader : Stream!Connecting(c))
      /\ UNCHANGED <<streamRow, ended, buffer, closed, reader, asked, dropped>>
  BY DEF Stream!CreateRun, Stream!Races, Stream!topic
<1>1. StreamTypes' /\ \A c \in Reader : ReaderType(reader[c])'
  <2>1. latest \in Nat /\ latest + 1 \in Nat /\ 0 .. latest \subseteq 0 .. latest + 1
    BY DEF StreamInv, StreamTypes
  <2>2. ~(latest + 1 \in ended)
    BY DEF StreamInv, StreamTypes
  <2>3. StreamTypes'
    BY <1>0, <2>1, <2>2 DEF StreamInv, StreamTypes
  <2> QED BY <1>0, <2>1, <2>3 DEF StreamInv
<1>2. RowsInOrder'
  <2>1. Rows' = {}
    BY <1>0 DEF StreamInv, StreamTypes, RowsInOrder, Rows, Stream!RowsOf
  <2>2. Size' = 0 /\ IsFiniteSet(Asked') /\ Cardinality(Asked') = 0
    BY <2>1, FS_EmptySet DEF Size, Asked
  <2>3. \A x \in streamRow : x.run \in 0 .. latest + 1
    BY DEF StreamInv, StreamTypes, RowsInOrder
  <2> QED BY <1>0, <2>1, <2>2, <2>3 DEF StreamInv, StreamTypes, RowsInOrder
<1>3. ASSUME Undisturbed' PROVE TopicTells' /\ \A c \in Reader : ReaderTells(reader[c])'
  <2>1. \A c \in Reader : ~(reader[c].stage \in {"history", "status", "hydrated"})
    BY <1>0, <1>3 DEF Undisturbed, Stream!Connecting
  <2>2. \A c \in Reader : reader[c].stage # "idle" => reader[c].of # latest + 1
    BY DEF StreamInv, StreamTypes
  <2> QED BY <1>0, <2>1, <2>2 DEF TopicTells, ReaderTells
<1> QED BY <1>1, <1>2, <1>3 DEF StreamInv

\* The topic of the new run is empty, and so is what was told of it.
LEMMA ReopenStep == ASSUME StreamInv, Stream!Reopen PROVE StreamInv'
<1> USE StreamAssumption
<1>0. /\ stage = "created" /\ stage' = "running" /\ closed' = FALSE /\ buffer' = <<>>
      /\ raced' = (raced \/ \E c \in Reader : Stream!Connecting(c))
      /\ UNCHANGED <<streamRow, latest, ended, counter, reader, asked, dropped>>
  BY DEF Stream!Reopen, Stream!Races
<1>1. StreamTypes' /\ \A c \in Reader : ReaderType(reader[c])'
  <2>1. <<>> \in Seq(Nat) /\ (raced' \in BOOLEAN) /\ latest # 0 /\ ~(latest \in ended)
    BY <1>0 DEF StreamInv, StreamTypes
  <2>2. StreamTypes'
    BY <1>0, <2>1 DEF StreamInv, StreamTypes
  <2> QED BY <1>0, <2>2 DEF StreamInv
<1>2. RowsInOrder' /\ AllStored' = AllStored
  BY <1>0, SameRows DEF StreamInv
<1>3. ASSUME Undisturbed' PROVE TopicTells' /\ \A c \in Reader : ReaderTells(reader[c])'
  <2>1. \A c \in Reader : ~(reader[c].stage \in {"history", "status", "hydrated"})
    BY <1>0, <1>3 DEF Undisturbed, Stream!Connecting
  <2>2. Undisturbed /\ counter = 0 /\ latest \in Nat /\ latest > 0 /\ asked \in Nat
    BY <1>0, <1>2, <1>3 DEF Undisturbed, StreamInv, StreamTypes
  <2>3. Telling(buffer)'
    BY <1>0, <2>2 DEF Telling, Tells, Published, Stream!Told
  <2>4. \A c \in Reader : ~(reader[c].stage \in {"live", "done"} /\ reader[c].of = latest)
    BY <1>0, <2>2 DEF StreamInv, ReaderTells
  <2> QED BY <1>0, <2>1, <2>2, <2>3, <2>4 DEF TopicTells, ReaderTells
<1> QED BY <1>1, <1>2, <1>3 DEF StreamInv

\* What is told stays told when the run stores an event: it is published later.
LEMMA AppendEventStep == ASSUME StreamInv, Stream!AppendEvent PROVE StreamInv'
<1> USE StreamAssumption
<1>0. /\ stage = "running" /\ counter < MaxEvents /\ counter' = counter + 1
      /\ stage' = "stored"
      /\ streamRow' = IF StreamSql /\ \E x \in Rows : x.seq = counter THEN streamRow
                      ELSE streamRow \cup
                             {[run |-> latest, seq |-> counter, event |-> counter]}
      /\ UNCHANGED <<latest, ended, buffer, closed, reader, asked, dropped, raced>>
  BY DEF Stream!AppendEvent, Stream!topic, Stream!history, Rows
<1>1. /\ latest \in Nat /\ counter \in Nat /\ asked \in Nat /\ Size \in Nat
      /\ counter <= Size /\ Size <= counter + asked /\ (~StreamSql => Size = counter)
      /\ latest # 0 /\ ~(latest \in ended)
  BY <1>0 DEF StreamInv, StreamTypes, RowsInOrder
<1>2. StreamTypes' /\ \A c \in Reader : ReaderType(reader[c])'
  BY <1>0, <1>1 DEF StreamInv, StreamTypes
<1>3. \A x \in Rows : x.event # counter /\ x.seq \in 0 .. Size - 1
  BY <1>0, <1>1 DEF StreamInv, RowsInOrder
<1>4. CASE StreamSql /\ \E x \in Rows : x.seq = counter
  <2>1. UNCHANGED streamRow /\ Rows' = Rows
    BY <1>0, <1>4 DEF Rows, Stream!RowsOf
  <2>2. Size' = Size /\ Asked' = Asked /\ counter + 1 <= Size
    BY <1>1, <1>3, <1>4, <2>1 DEF Size, Asked
  <2>3. \A x \in Rows : (x.event = x.seq /\ x.event < counter + 1)
                          \/ (x.event = MaxEvents /\ StreamSql)
    BY <1>1, <1>3 DEF StreamInv, RowsInOrder
  <2>4. Size <= counter + 1 + asked
    BY <1>1
  <2>5. RowsInOrder'
    BY <1>0, <1>4, <2>1, <2>2, <2>3, <2>4 DEF StreamInv, RowsInOrder
  <2>6. ~AllStored'
    BY <1>0, <1>1, <1>3, <2>1 DEF AllStored
  <2> QED BY <1>2, <2>5, <2>6 DEF StreamInv, Undisturbed
<1>5. CASE ~(StreamSql /\ \E x \in Rows : x.seq = counter)
  <2> DEFINE new == [run |-> latest, seq |-> counter, event |-> counter]
  <2>1. counter = Size
    <3>1. ASSUME counter # Size PROVE FALSE
      <4>1. counter \in 0 .. Size - 1 /\ StreamSql
        BY <1>1, <3>1
      <4>2. \E x \in Rows : x.seq = counter
        BY <4>1 DEF StreamInv, RowsInOrder
      <4> QED BY <1>5, <4>1, <4>2
    <3> QED BY <3>1
  <2>2. streamRow' = streamRow \cup {new} /\ Rows' = Rows \cup {new}
        /\ new.seq = counter /\ new.event = counter
    BY <1>0, <1>5 DEF Rows, Stream!RowsOf
  <2>3. \E e \in Nat :
           streamRow' = streamRow \cup {[run |-> latest, seq |-> Size, event |-> e]}
    BY <1>1, <2>1, <2>2
  <2>4. /\ \A x \in streamRow' : x.run \in 0 .. latest /\ x.seq \in Nat
        /\ \A x, y \in Rows' : x.seq = y.seq => x = y
        /\ Size' = Size + 1 /\ {x.seq : x \in Rows'} = 0 .. Size' - 1
    BY <1>0, <1>1, <2>3, RowAdded DEF StreamInv
  <2> HIDE DEF new
  <2>5. Asked' = Asked
    BY <1>0, <1>1, <2>2 DEF Asked
  <2>6. \A x \in Rows' : (x.event = x.seq /\ x.event < counter + 1)
                           \/ (x.event = MaxEvents /\ StreamSql)
    BY <1>1, <1>3, <2>2 DEF StreamInv, RowsInOrder
  <2>7. /\ Size' \in Nat /\ counter + 1 <= Size' /\ Size' <= counter + 1 + asked
        /\ (~StreamSql => Size' = counter + 1)
    BY <1>1, <2>1, <2>4
  <2>8. RowsInOrder'
    BY <1>0, <2>4, <2>5, <2>6, <2>7 DEF StreamInv, RowsInOrder
  <2>9. ASSUME Undisturbed' PROVE TopicTells' /\ \A c \in Reader : ReaderTells(reader[c])'
    <3>1. AllStored
      BY <1>0, <1>1, <2>2, <2>9 DEF Undisturbed, AllStored
    <3>2. Undisturbed
      BY <1>0, <1>1, <2>9, <3>1 DEF Undisturbed, StreamInv, StreamTypes
    <3>3. Published' = counter /\ Published = counter
      BY <1>0, <1>1 DEF Published
    <3>4. \A t \in Seq(Nat) : Tells(t, counter, asked, counter) =>
                              Tells(t, counter, asked, counter + 1)
      BY <1>1, TellsOn
    <3>5. ~closed /\ Telling(buffer)'
      BY <1>0, <1>1, <3>2, <3>3, <3>4 DEF StreamInv, StreamTypes, TopicTells, Telling
    <3>6. TopicTells'
      BY <1>0, <3>5 DEF TopicTells
    <3>7. ASSUME NEW c \in Reader PROVE ReaderTells(reader[c])'
      <4>1. ReaderTells(reader[c]) /\ ReaderType(reader[c])
        BY <3>2 DEF StreamInv
      <4>2. reader[c].stage \in {"history", "status"} /\ buffer = <<>> =>
              Telling(reader[c].hist)'
        BY <1>0, <1>1, <3>3, <3>4, <4>1 DEF ReaderTells, Telling
      <4>3. reader[c].stage \in {"live", "done"} /\ reader[c].of = latest =>
              Telling(reader[c].got)'
        BY <1>0, <1>1, <3>3, <3>4, <4>1 DEF ReaderTells, Telling
      <4> HIDE DEF ReaderType
      <4> QED BY <1>0, <1>1, <3>5, <4>1, <4>2, <4>3 DEF ReaderTells
    <3> QED BY <3>6, <3>7
  <2> QED BY <1>2, <2>8, <2>9 DEF StreamInv
<1> QED BY <1>4, <1>5

\* An approval changes nothing in what is told.
LEMMA StoreApprovalStep == ASSUME StreamInv, Stream!StoreApproval PROVE StreamInv'
<1> USE StreamAssumption
<1>0. /\ stage = "running" /\ asked' = asked + 1
      /\ UNCHANGED <<latest, ended, stage, counter, buffer, closed, reader, dropped, raced>>
  BY DEF Stream!StoreApproval, Stream!topic
<1>1. /\ latest \in Nat /\ counter \in Nat /\ asked \in Nat /\ Size \in Nat
      /\ counter <= Size /\ Size <= counter + asked /\ (~StreamSql => Size = counter)
      /\ latest # 0 /\ counter <= MaxEvents
  BY <1>0 DEF StreamInv, StreamTypes, RowsInOrder
<1>2. StreamTypes' /\ \A c \in Reader : ReaderType(reader[c])'
  BY <1>0, <1>1 DEF StreamInv, StreamTypes
<1>3. IsFiniteSet(Asked) /\ Cardinality(Asked) \in Nat /\ Cardinality(Asked) <= asked
  BY FS_CardinalityType DEF StreamInv, RowsInOrder
<1>4. RowsInOrder' /\ (AllStored' => AllStored)
  <2>1. CASE ~StreamSql
    <3>1. Rows' = Rows /\ UNCHANGED streamRow
      BY <1>0, <2>1 DEF Stream!StoreApproval, Rows, Stream!RowsOf
    <3>2. Size' = Size /\ Asked' = Asked /\ AllStored' = AllStored
      BY <1>0, <3>1 DEF Size, Asked, AllStored
    <3>3. Size <= counter + (asked + 1) /\ Cardinality(Asked) <= asked + 1
      BY <1>1, <1>3
    <3> QED BY <1>0, <3>1, <3>2, <3>3 DEF StreamInv, RowsInOrder
  <2>2. CASE StreamSql
    <3> DEFINE new == [run |-> latest, seq |-> Size, event |-> MaxEvents]
               number == IF Rows = {} THEN 0
                         ELSE 1 + CHOOSE n \in {x.seq : x \in Rows} :
                                    \A x \in Rows : x.seq <= n
    <3>1. streamRow' = streamRow \cup
                         {[run |-> latest, event |-> MaxEvents, seq |-> number]}
      BY <2>2 DEF Stream!StoreApproval, Stream!Approval, Rows
    <3>2. number = Size
      BY NextNumber DEF StreamInv
    <3> HIDE DEF number
    <3>3. streamRow' = streamRow \cup {new}
      BY <3>1, <3>2
    <3>4. Rows' = Rows \cup {new} /\ new.seq = Size /\ new.event = MaxEvents
      BY <1>0, <3>3 DEF Rows, Stream!RowsOf
    <3>5. /\ \A x \in streamRow' : x.run \in 0 .. latest /\ x.seq \in Nat
          /\ \A x, y \in Rows' : x.seq = y.seq => x = y
          /\ Size' = Size + 1 /\ {x.seq : x \in Rows'} = 0 .. Size' - 1
      BY <1>0, <1>1, <3>3, RowAdded DEF StreamInv
    <3> HIDE DEF new
    <3>6. Asked' = Asked \cup {new}
      BY <3>4 DEF Asked
    <3>7. IsFiniteSet(Asked') /\ Cardinality(Asked') <= asked + 1
      <4>1. /\ IsFiniteSet(Asked \cup {new})
            /\ Cardinality(Asked \cup {new}) =
                 IF new \in Asked THEN Cardinality(Asked) ELSE Cardinality(Asked) + 1
        BY <1>3, FS_AddElement
      <4>2. Cardinality(Asked \cup {new}) <= asked + 1
        BY <1>1, <1>3, <4>1
      <4> QED BY <3>6, <4>1, <4>2
    <3>8. \A x \in Rows' : (x.event = x.seq /\ x.event < counter)
                             \/ (x.event = MaxEvents /\ StreamSql)
      BY <2>2, <3>4 DEF StreamInv, RowsInOrder
    <3>9. Size' \in Nat /\ counter <= Size' /\ Size' <= counter + (asked + 1)
      BY <1>1, <3>5
    <3>10. RowsInOrder'
      BY <1>0, <2>2, <3>5, <3>7, <3>8, <3>9 DEF RowsInOrder
    <3>11. AllStored' => AllStored
      BY <1>0, <1>1, <3>4 DEF AllStored
    <3> QED BY <3>10, <3>11
  <2> QED BY <2>1, <2>2
<1>5. ASSUME Undisturbed' PROVE TopicTells' /\ \A c \in Reader : ReaderTells(reader[c])'
  <2>1. Undisturbed
    BY <1>0, <1>1, <1>4, <1>5 DEF Undisturbed, StreamInv, StreamTypes
  <2>2. Published' = counter /\ Published = counter
    BY <1>0, <1>1 DEF Published
  <2>3. \A t \in Seq(Nat) : Tells(t, counter, asked, counter) =>
                            Tells(t, counter, asked + 1, counter)
    BY <1>1, TellsOn
  <2>4. ~closed /\ Telling(buffer)'
    BY <1>0, <2>1, <2>2, <2>3 DEF StreamInv, StreamTypes, TopicTells, Telling
  <2>5. TopicTells'
    BY <1>0, <2>4 DEF TopicTells
  <2>6. ASSUME NEW c \in Reader PROVE ReaderTells(reader[c])'
    <3>1. ReaderTells(reader[c]) /\ ReaderType(reader[c])
      BY <2>1 DEF StreamInv
    <3>2. reader[c].stage \in {"history", "status"} /\ buffer = <<>> =>
            Telling(reader[c].hist)'
      BY <1>0, <1>1, <2>2, <2>3, <3>1 DEF ReaderTells, Telling
    <3>3. reader[c].stage \in {"live", "done"} /\ reader[c].of = latest =>
            Telling(reader[c].got)'
      BY <1>0, <1>1, <2>2, <2>3, <3>1 DEF ReaderTells, Telling
    <3> HIDE DEF ReaderType
    <3> QED BY <1>0, <1>1, <2>4, <3>1, <3>2, <3>3 DEF ReaderTells
  <2> QED BY <2>5, <2>6
<1> QED BY <1>2, <1>4, <1>5 DEF StreamInv

\* Everybody who waits is told the next event, and it is kept for who comes later.
LEMMA PublishStep == ASSUME StreamInv, Stream!Publish PROVE StreamInv'
<1> USE StreamAssumption
<1> DEFINE next == counter - 1
<1>0. /\ stage = "stored" /\ stage' = "running"
      /\ UNCHANGED <<streamRow, latest, ended, counter, closed, asked, dropped, raced>>
  BY DEF Stream!Publish, Stream!history
<1>a. CASE closed
  <2>1. UNCHANGED <<buffer, reader>>
    BY <1>a DEF Stream!Publish
  <2>2. StreamTypes' /\ \A c \in Reader : ReaderType(reader[c])'
    BY <1>0, <2>1 DEF StreamInv, StreamTypes
  <2>3. RowsInOrder' /\ AllStored' = AllStored
    BY <1>0, SameRows DEF StreamInv
  <2>4. ~Undisturbed'
    BY <1>0, <1>a, <2>3 DEF StreamInv, TopicTells, Undisturbed
  <2> QED BY <2>2, <2>3, <2>4 DEF StreamInv
<1>b. CASE ~closed
  <2>0. /\ buffer' = Stream!Newest(Append(buffer, next))
        /\ reader' = [c \in Reader |->
             IF reader[c].stage = "live" THEN [reader[c] EXCEPT !.got = Append(@, next)]
             ELSE reader[c]]
    BY <1>b DEF Stream!Publish, Stream!Subscribed
  <2>1. /\ latest \in Nat /\ counter \in Nat /\ asked \in Nat /\ next \in Nat
        /\ next + 1 = counter /\ next < MaxEvents
        /\ latest # 0 /\ buffer \in Seq(Nat) /\ ~(latest \in ended)
    BY <1>0 DEF StreamInv, StreamTypes
  <2>2. Append(buffer, next) \in Seq(Nat) /\ buffer' \in Seq(Nat)
    <3>1. Append(buffer, next) \in Seq(Nat)
      BY <2>1
    <3> DEFINE b == Append(buffer, next)
    <3> HIDE DEF b, next
    <3>2. b \in Seq(Nat)
      BY <3>1 DEF b
    <3>3. Len(b) > BufferSize => SubSeq(b, Len(b) - BufferSize + 1, Len(b)) \in Seq(Nat)
      BY <3>2
    <3>4. Stream!Newest(b) \in Seq(Nat)
      BY <3>2, <3>3 DEF Stream!Newest
    <3> QED BY <2>0, <3>1, <3>4 DEF b
  <2>3. ASSUME NEW c \in Reader, reader[c].stage = "live"
        PROVE  /\ reader[c].got \in Seq(Nat) /\ reader[c].of \in 0 .. latest
               /\ reader'[c] = [stage |-> "live", of |-> reader[c].of,
                                got |-> Append(reader[c].got, next)]
    <3>1. /\ reader[c].got \in Seq(Nat) /\ reader[c].of \in 0 .. latest
          /\ reader[c] = [stage |-> "live", of |-> reader[c].of, got |-> reader[c].got]
      BY <2>3 DEF StreamInv
    <3> DEFINE got == Append(reader[c].got, next)
    <3>2. reader'[c] = [reader[c] EXCEPT !.got = got]
      BY <2>0, <2>3
    <3> HIDE DEF got
    <3>3. reader'[c] = [stage |-> "live", of |-> reader[c].of, got |-> got]
      BY <3>1, <3>2
    <3> QED BY <3>1, <3>3 DEF got
  <2>4. ASSUME NEW c \in Reader, reader[c].stage # "live" PROVE reader'[c] = reader[c]
    BY <2>0, <2>4
  <2>5. DOMAIN reader' = Reader
    BY <2>0
  <2> HIDE DEF next
  <2>6. \A c \in Reader : ReaderType(reader[c])'
    <3> SUFFICES ASSUME NEW c \in Reader PROVE ReaderType(reader[c])'
      OBVIOUS
    <3>1. CASE reader[c].stage = "live"
      <4> DEFINE got == Append(reader[c].got, next)
      <4>0. \A t \in Seq(Nat) : Append(t, next) \in Seq(Nat)
        BY <2>1
      <4>1. got \in Seq(Nat)
        BY <2>3, <3>1, <4>0
      <4> HIDE DEF got
      <4>2. reader'[c] = [stage |-> "live", of |-> reader[c].of, got |-> got]
        BY <2>3, <3>1 DEF got
      <4>3. reader[c].of \in 0 .. latest'
        BY <1>0, <2>3, <3>1
      <4> QED BY <4>1, <4>2, <4>3
    <3>2. CASE reader[c].stage # "live"
      BY <1>0, <2>4, <3>2 DEF StreamInv
    <3> QED BY <3>1, <3>2
  <2>7. StreamTypes'
    BY <1>0, <2>1, <2>2, <2>5 DEF StreamInv, StreamTypes
  <2>8. RowsInOrder' /\ AllStored' = AllStored
    BY <1>0, SameRows DEF StreamInv
  <2>9. ASSUME Undisturbed' PROVE TopicTells' /\ \A c \in Reader : ReaderTells(reader[c])'
    <3>1. Undisturbed
      BY <1>0, <2>8, <2>9 DEF Undisturbed
    <3>2. Published = next /\ Published' = next + 1
      BY <1>0, <2>1 DEF Published, next
    <3>3. \A t \in Seq(Nat) : Tells(t, next, asked, counter) =>
                              Tells(Append(t, next), next + 1, asked, counter)
      BY <2>1, TellsNext
    <3>4. Tells(buffer, next, asked, counter)
      BY <1>0, <3>1, <3>2 DEF StreamInv, TopicTells, Telling
    <3>5. Len(Append(buffer, next)) <= asked + counter + 1
      <4>1. Len(buffer) <= asked + next + 1
        BY <3>4 DEF Tells
      <4> QED BY <2>1, <4>1
    <3>6. buffer' = Append(buffer, next)
      BY <2>0, <2>2, <3>1, <3>5, TellingFits DEF StreamInv, next
    <3>7. Telling(buffer)' /\ buffer' # <<>>
      BY <1>0, <2>1, <3>2, <3>3, <3>4, <3>6 DEF Telling
    <3>8. TopicTells'
      BY <1>0, <1>b, <3>7 DEF TopicTells
    <3>9. ASSUME NEW c \in Reader PROVE ReaderTells(reader[c])'
      <4>1. ReaderTells(reader[c]) /\ ReaderType(reader[c])
        BY <3>1 DEF StreamInv
      <4>2. CASE reader[c].stage = "live"
        <5> DEFINE got == Append(reader[c].got, next)
        <5>1. reader'[c] = [stage |-> "live", of |-> reader[c].of, got |-> got]
          BY <2>3, <4>2
        <5>2. reader[c].of = latest => Tells(reader[c].got, next, asked, counter)
          BY <2>1, <3>2, <4>1, <4>2 DEF ReaderTells, Telling
        <5>3. reader[c].of = latest => Tells(got, next + 1, asked, counter)
          BY <2>3, <3>3, <4>2, <5>2
        <5> HIDE DEF got
        <5> QED BY <1>0, <3>2, <5>1, <5>3 DEF ReaderTells, Telling
      <4>3. CASE reader[c].stage # "live"
        <5>1. reader'[c] = reader[c]
          BY <2>4, <4>3
        <5>2. ~(reader[c].stage = "done" /\ reader[c].of = latest)
          BY <1>0, <2>1, <4>1 DEF ReaderTells
        <5>3. ~(reader[c].stage = "status" /\ reader[c].over)
          BY <1>0, <4>1 DEF ReaderTells
        <5> HIDE DEF ReaderType
        <5> QED BY <1>0, <3>7, <4>1, <4>3, <5>1, <5>2, <5>3 DEF ReaderTells
      <4> QED BY <4>2, <4>3
    <3> QED BY <3>8, <3>9
  <2> QED BY <2>6, <2>7, <2>8, <2>9 DEF StreamInv
<1> QED BY <1>a, <1>b

\* An event that is stored and not published disturbs the stream.
LEMMA SinkFailsStep == ASSUME StreamInv, Stream!SinkFails PROVE StreamInv'
<1>0. /\ stage = "stored" /\ stage' = "running" /\ dropped' = dropped + 1
      /\ UNCHANGED <<streamRow, latest, ended, counter, buffer, closed, reader, asked, raced>>
  BY DEF Stream!SinkFails, Stream!topic
<1>1. StreamTypes' /\ \A c \in Reader : ReaderType(reader[c])'
  BY <1>0 DEF StreamInv, StreamTypes
<1>2. RowsInOrder' /\ AllStored' = AllStored
  BY <1>0, SameRows DEF StreamInv
<1>3. ~Undisturbed'
  BY <1>0 DEF StreamInv, StreamTypes, Undisturbed
<1> QED BY <1>1, <1>2, <1>3 DEF StreamInv

\* The end of a run tells nothing.
LEMMA FinalizeStep == ASSUME StreamInv, Stream!Finalize PROVE StreamInv'
<1>0. /\ stage = "running" /\ stage' = "ending" /\ ended' = ended \cup {latest}
      /\ UNCHANGED <<streamRow, latest, counter, buffer, closed, reader, asked, dropped, raced>>
  BY DEF Stream!Finalize, Stream!topic, Stream!history
<1>1. StreamTypes' /\ \A c \in Reader : ReaderType(reader[c])'
  BY <1>0 DEF StreamInv, StreamTypes
<1>2. RowsInOrder' /\ AllStored' = AllStored
  BY <1>0, SameRows DEF StreamInv
<1>3. ASSUME Undisturbed' PROVE TopicTells' /\ \A c \in Reader : ReaderTells(reader[c])'
  <2>1. Undisturbed
    BY <1>0, <1>2, <1>3 DEF Undisturbed
  <2>2. Published' = Published
    BY <1>0 DEF Published
  <2> HIDE DEF ReaderType
  <2> QED BY <1>0, <2>1, <2>2 DEF StreamInv, TopicTells, ReaderTells, Telling
<1> QED BY <1>1, <1>2, <1>3 DEF StreamInv

\* Whoever waits has been told everything when the topic closes.
LEMMA CloseStep == ASSUME StreamInv, Stream!Close PROVE StreamInv'
<1>0. /\ stage = "ending" /\ stage' = "off" /\ closed' = TRUE
      /\ reader' = [c \in Reader |->
           IF reader[c].stage = "live" THEN [reader[c] EXCEPT !.stage = "done"]
           ELSE reader[c]]
      /\ UNCHANGED <<streamRow, latest, ended, counter, buffer, asked, dropped, raced>>
  BY DEF Stream!Close, Stream!history, Stream!Subscribed
<1>1. ASSUME NEW c \in Reader, reader[c].stage = "live"
      PROVE  reader'[c] = [stage |-> "done", of |-> reader[c].of, got |-> reader[c].got]
  <2>1. reader[c] = [stage |-> "live", of |-> reader[c].of, got |-> reader[c].got]
    BY <1>1 DEF StreamInv
  <2>2. reader'[c] = [reader[c] EXCEPT !.stage = "done"]
    BY <1>0, <1>1
  <2> QED BY <2>1, <2>2
<1>2. ASSUME NEW c \in Reader, reader[c].stage # "live" PROVE reader'[c] = reader[c]
  BY <1>0, <1>2
<1>3. StreamTypes' /\ \A c \in Reader : ReaderType(reader[c])'
  <2>1. StreamTypes'
    BY <1>0 DEF StreamInv, StreamTypes
  <2>2. ASSUME NEW c \in Reader PROVE ReaderType(reader[c])'
    <3>1. ReaderType(reader[c])
      BY DEF StreamInv
    <3> QED BY <1>0, <1>1, <1>2, <3>1
  <2> QED BY <2>1, <2>2
<1>4. RowsInOrder' /\ AllStored' = AllStored
  BY <1>0, SameRows DEF StreamInv
<1>5. ASSUME Undisturbed' PROVE TopicTells' /\ \A c \in Reader : ReaderTells(reader[c])'
  <2>1. Undisturbed
    BY <1>0, <1>4, <1>5 DEF Undisturbed
  <2>2. Published' = Published
    BY <1>0 DEF Published
  <2>3. TopicTells'
    BY <1>0, <2>1, <2>2 DEF StreamInv, TopicTells, Telling
  <2>4. ASSUME NEW c \in Reader PROVE ReaderTells(reader[c])'
    <3>1. ReaderTells(reader[c])
      BY <2>1 DEF StreamInv
    <3>2. Published' = Published
      BY <1>0 DEF Published
    <3>3. CASE reader[c].stage = "live"
      BY <1>0, <1>1, <3>1, <3>2, <3>3 DEF ReaderTells, Telling
    <3>4. CASE reader[c].stage # "live"
      <4>1. reader'[c] = reader[c]
        BY <1>2, <3>4
      <4> HIDE DEF ReaderType
      <4> QED BY <1>0, <3>1, <3>2, <3>4, <4>1 DEF ReaderTells, Telling
    <3> QED BY <3>3, <3>4
  <2> QED BY <2>3, <2>4
<1> QED BY <1>3, <1>4, <1>5 DEF StreamInv

\* A new process has no topic and no reader.
LEMMA RestartStep == ASSUME StreamInv, Stream!Restart PROVE StreamInv'
<1>0. /\ stage' = "off" /\ buffer' = <<>> /\ closed' = FALSE /\ ended' = 1 .. latest
      /\ reader' = [c \in Reader |-> [stage |-> "idle"]]
      /\ UNCHANGED <<streamRow, latest, counter, asked, dropped, raced>>
  BY DEF Stream!Restart, Stream!Idle
<1>1. StreamTypes' /\ \A c \in Reader : ReaderType(reader[c])'
  <2>1. <<>> \in Seq(Nat)
    OBVIOUS
  <2> QED BY <1>0, <2>1 DEF StreamInv, StreamTypes
<1>2. RowsInOrder'
  BY <1>0, SameRows DEF StreamInv
<1>3. TopicTells' /\ \A c \in Reader : ReaderTells(reader[c])'
  BY <1>0 DEF TopicTells, ReaderTells
<1> QED BY <1>1, <1>2, <1>3 DEF StreamInv

------------------------------------------------------------------------------
(* What the steps of a reader do.                                           *)

\* A reader moves on: the run and the other readers stay where they are, and the topic
\* is filled or closed at most.
LEMMA ReaderStep ==
  ASSUME StreamInv, NEW c \in Reader, DOMAIN reader' = Reader,
         \A d \in Reader \ {c} : reader'[d] = reader[d], ReaderType(reader[c])',
         UNCHANGED <<streamRow, latest, ended, stage, counter, asked, dropped>>,
         buffer' \in Seq(Nat), closed' \in BOOLEAN, raced' \in BOOLEAN, raced => raced',
         Undisturbed /\ Undisturbed' =>
           /\ UNCHANGED buffer \/ (buffer = <<>> /\ (latest > 0 => Telling(buffer)'))
           /\ closed' => closed \/ stage \in {"ending", "off"}
           /\ ReaderTells(reader[c])'
  PROVE  StreamInv'
<1>1. StreamTypes'
  BY DEF StreamInv, StreamTypes
<1>2. ASSUME NEW d \in Reader PROVE ReaderType(reader[d])'
  <2>1. CASE d = c
    <3> HIDE DEF ReaderType
    <3> QED BY <2>1
  <2>2. CASE d # c
    <3>1. reader'[d] = reader[d] /\ ReaderType(reader[d])
      BY <2>2 DEF StreamInv
    <3> QED BY <3>1
  <2> QED BY <2>1, <2>2
<1>3. RowsInOrder' /\ AllStored' = AllStored
  BY SameRows DEF StreamInv
<1>4. ASSUME Undisturbed' PROVE TopicTells' /\ \A d \in Reader : ReaderTells(reader[d])'
  <2>1. Undisturbed
    BY <1>3, <1>4 DEF Undisturbed
  <2>2. Published' = Published /\ \A t : Tells(t, Published, asked, counter) =>
                                         Tells(t, Published', asked', counter')
    BY DEF Published
  <2>3. stage # "off" => latest > 0
    BY DEF StreamInv, StreamTypes
  <2>4. latest > 0 /\ Telling(buffer) => Telling(buffer)'
    BY <1>4, <2>1, <2>2 DEF Telling, Tells, Stream!Told
  <2>5. TopicTells'
    BY <1>4, <2>1, <2>2, <2>3, <2>4 DEF StreamInv, TopicTells, Telling
  <2>6. ASSUME NEW d \in Reader, d # c PROVE ReaderTells(reader[d])'
    <3>1. reader'[d] = reader[d] /\ ReaderTells(reader[d])
      BY <2>1, <2>6 DEF StreamInv
    <3>2. latest > 0 /\ buffer' = <<>> => buffer = <<>>
      BY <1>4, <2>1 DEF Telling
    <3> HIDE DEF ReaderType
    <3> QED BY <1>4, <2>1, <2>2, <2>3, <2>4, <3>1, <3>2 DEF ReaderTells, Telling
  <2> QED BY <1>4, <2>1, <2>5, <2>6
<1> QED BY <1>1, <1>2, <1>3, <1>4 DEF StreamInv

\* The history of a run nothing of which is kept yet.
LEMMA ConnectStep ==
  ASSUME StreamInv, NEW c \in Reader, Stream!Connect(c) PROVE StreamInv'
<1> DEFINE h == Stream!ListEvents(latest)
<1>0. /\ reader' = [reader EXCEPT ![c] = [stage |-> "history", of |-> latest, hist |-> h]]
      /\ raced' = (raced \/ stage = "created")
      /\ UNCHANGED <<streamRow, latest, ended, stage, counter, buffer, closed, asked, dropped>>
  BY DEF Stream!Connect, Stream!topic
<1>1. h \in Seq(Nat)
  <2>1. DOMAIN h = 1 .. Size /\ Size \in Nat /\ h = [i \in DOMAIN h |-> h[i]]
    BY ListIs DEF StreamInv, RowsInOrder, Stream!ListEvents
  <2>2. \A x \in Rows : h[x.seq + 1] = x.event /\ x.event \in Nat
    BY ListIs, StreamAssumption DEF StreamInv, RowsInOrder, Rows, Stream!RowsOf
  <2>3. {x.seq : x \in Rows} = 0 .. Size - 1
    BY DEF StreamInv, RowsInOrder
  <2> HIDE DEF h
  <2>4. ASSUME NEW i \in 1 .. Size PROVE h[i] \in Nat
    <3>1. i - 1 \in 0 .. Size - 1 /\ i - 1 + 1 = i
      BY <2>1
    <3>2. PICK x \in Rows : x.seq = i - 1
      BY <2>3, <3>1
    <3> QED BY <2>2, <3>1, <3>2
  <2>5. h \in [1 .. Size -> Nat]
    BY <2>1, <2>4
  <2> QED BY <2>1, <2>5
<1> HIDE DEF h
<1>2. /\ DOMAIN reader' = Reader /\ \A d \in Reader \ {c} : reader'[d] = reader[d]
      /\ reader'[c] = [stage |-> "history", of |-> latest, hist |-> h]
  BY <1>0 DEF StreamInv, StreamTypes
<1>3. ReaderType(reader[c])'
  BY <1>0, <1>1, <1>2 DEF StreamInv, StreamTypes
<1>4. ASSUME Undisturbed, Undisturbed' PROVE ReaderTells(reader[c])'
  <2>1. stage # "created"
    BY <1>0, <1>4 DEF Undisturbed
  <2>2. ASSUME latest > 0, buffer = <<>> PROVE Telling(h)
    <3>1. ASSUME stage = "stored" PROVE counter = 1
      <4>1. Tells(<<>>, counter - 1, asked, counter)
        BY <1>4, <2>2, <3>1 DEF StreamInv, TopicTells, Telling, Published
      <4>2. counter \in Nat /\ counter > 0
        BY <3>1 DEF StreamInv, StreamTypes
      <4>3. ~(0 \in 0 .. counter - 1 - 1)
        BY <4>1 DEF Tells
      <4> QED BY <4>2, <4>3
    <3> QED BY <1>4, <3>1, HistoryTells DEF StreamInv, Undisturbed, h
  <2>3. Published' = Published
    BY <1>0 DEF Published
  <2> QED BY <1>0, <1>2, <2>1, <2>2, <2>3 DEF ReaderTells, Telling
<1>5. /\ buffer' \in Seq(Nat) /\ closed' \in BOOLEAN /\ raced' \in BOOLEAN
      /\ raced => raced'
  BY <1>0 DEF StreamInv, StreamTypes
<1> QED BY <1>0, <1>2, <1>3, <1>4, <1>5, ReaderStep

\* A run that looks over is over.
LEMMA ReadStatusStep ==
  ASSUME StreamInv, NEW c \in Reader, Stream!ReadStatus(c) PROVE StreamInv'
<1> DEFINE over == latest \in ended
<1>0. /\ reader[c].stage = "history"
      /\ reader' = [reader EXCEPT ![c] = [stage |-> "status", of |-> reader[c].of,
                                          hist |-> reader[c].hist, over |-> over]]
      /\ UNCHANGED <<streamRow, latest, ended, stage, counter, buffer, closed, asked, dropped,
                     raced>>
  BY DEF Stream!ReadStatus, Stream!topic, Stream!history
<1>1. over \in BOOLEAN /\ (over => stage \in {"ending", "off"})
  BY DEF StreamInv, StreamTypes
<1> HIDE DEF over
<1>2. /\ DOMAIN reader' = Reader /\ \A d \in Reader \ {c} : reader'[d] = reader[d]
      /\ reader'[c] = [stage |-> "status", of |-> reader[c].of, hist |-> reader[c].hist,
                       over |-> over]
  BY <1>0 DEF StreamInv, StreamTypes
<1>3. ReaderType(reader[c])'
  BY <1>0, <1>1, <1>2 DEF StreamInv
<1>4. ASSUME Undisturbed, Undisturbed' PROVE ReaderTells(reader[c])'
  <2>1. ReaderTells(reader[c]) /\ Published' = Published
    BY <1>0, <1>4 DEF StreamInv, Published
  <2> QED BY <1>0, <1>1, <1>2, <2>1 DEF ReaderTells, Telling
<1>5. buffer' \in Seq(Nat) /\ closed' \in BOOLEAN /\ raced' \in BOOLEAN
  BY <1>0 DEF StreamInv, StreamTypes
<1> QED BY <1>0, <1>2, <1>3, <1>4, <1>5, ReaderStep

\* An empty topic is filled with what tells the run; it is closed for a run that is over.
LEMMA HydrateStep ==
  ASSUME StreamInv, NEW c \in Reader, Stream!Hydrate(c) PROVE StreamInv'
<1> DEFINE hist == reader[c].hist
<1>0. /\ reader[c].stage = "status"
      /\ buffer' = IF buffer = <<>> THEN Stream!Newest(hist) ELSE buffer
      /\ closed' = (closed \/ reader[c].over)
      /\ reader' = [reader EXCEPT ![c] = [stage |-> "hydrated", of |-> reader[c].of]]
      /\ UNCHANGED <<streamRow, latest, ended, stage, counter, asked, dropped, raced>>
  BY DEF Stream!Hydrate, Stream!history
<1>1. hist \in Seq(Nat) /\ reader[c].of \in 0 .. latest /\ reader[c].over \in BOOLEAN
  BY <1>0 DEF StreamInv
<1> HIDE DEF hist
<1>2. /\ DOMAIN reader' = Reader /\ \A d \in Reader \ {c} : reader'[d] = reader[d]
      /\ reader'[c] = [stage |-> "hydrated", of |-> reader[c].of]
  BY <1>0 DEF StreamInv, StreamTypes
<1>3. ReaderType(reader[c])'
  BY <1>0, <1>1, <1>2
<1>4. buffer' \in Seq(Nat)
  <2>1. buffer \in Seq(Nat) /\ BufferSize \in Nat
    BY StreamAssumption DEF StreamInv, StreamTypes
  <2>2. Len(hist) > BufferSize =>
          SubSeq(hist, Len(hist) - BufferSize + 1, Len(hist)) \in Seq(Nat)
    BY <1>1, <2>1
  <2>3. Stream!Newest(hist) \in Seq(Nat)
    BY <1>1, <2>1, <2>2 DEF Stream!Newest
  <2> QED BY <1>0, <2>1, <2>3
<1>5. ASSUME Undisturbed, Undisturbed'
      PROVE  /\ UNCHANGED buffer \/ (buffer = <<>> /\ (latest > 0 => Telling(buffer)'))
             /\ closed' => closed \/ stage \in {"ending", "off"}
             /\ ReaderTells(reader[c])'
  <2>0. ReaderTells(reader[c])
    BY <1>5 DEF StreamInv
  <2>1. reader[c].over => stage \in {"ending", "off"}
    BY <1>0, <2>0 DEF ReaderTells
  <2>2. reader[c].of = latest /\ stage # "created"
    BY <1>0, <2>0 DEF ReaderTells
  <2>3. latest > 0 => Telling(buffer)'
    <3> SUFFICES ASSUME latest > 0 PROVE Telling(buffer)'
      OBVIOUS
    <3>1. CASE buffer = <<>>
      <4>1. Telling(hist)
        BY <1>0, <2>0, <3>1 DEF ReaderTells, hist
      <4>2. Len(hist) <= asked + Published + 1 /\ Published <= counter
        BY <4>1 DEF Telling, Tells, Published, StreamInv, StreamTypes
      <4>3. asked \in Nat /\ counter \in Nat /\ Published \in Int
        BY DEF StreamInv, StreamTypes, Published
      <4>4. Len(hist) <= asked + counter + 1
        BY <1>1, <4>2, <4>3
      <4>5. buffer' = hist
        BY <1>0, <1>1, <1>5, <3>1, <4>4, TellingFits DEF StreamInv
      <4>6. Published' = Published
        BY <1>0 DEF Published
      <4> QED BY <1>0, <4>1, <4>5, <4>6 DEF Telling
    <3>2. CASE buffer # <<>>
      <4>1. Telling(buffer)
        BY <1>5, <2>2, <3>2 DEF StreamInv, StreamTypes, TopicTells
      <4>2. Published' = Published
        BY <1>0 DEF Published
      <4> QED BY <1>0, <3>2, <4>1, <4>2 DEF Telling
    <3> QED BY <3>1, <3>2
  <2>4. ReaderTells(reader[c])'
    BY <1>0, <1>2, <2>2, <2>3 DEF ReaderTells
  <2> QED BY <1>0, <2>1, <2>3, <2>4
<1>6. closed' \in BOOLEAN /\ raced' \in BOOLEAN
  BY <1>0, <1>1 DEF StreamInv, StreamTypes
<1> QED BY <1>0, <1>2, <1>3, <1>4, <1>5, <1>6, ReaderStep

\* A reader begins with what the topic keeps.
LEMMA SubscribeStep ==
  ASSUME StreamInv, NEW c \in Reader, Stream!Subscribe(c) PROVE StreamInv'
<1>0. /\ reader[c].stage = "hydrated"
      /\ reader' = [reader EXCEPT ![c] = [stage |-> IF closed THEN "done" ELSE "live",
                                          of |-> reader[c].of, got |-> buffer]]
      /\ UNCHANGED <<streamRow, latest, ended, stage, counter, buffer, closed, asked, dropped,
                     raced>>
  BY DEF Stream!Subscribe, Stream!topic, Stream!history
<1>1. reader[c].of \in 0 .. latest /\ buffer \in Seq(Nat)
  BY <1>0 DEF StreamInv, StreamTypes
<1>2. /\ DOMAIN reader' = Reader /\ \A d \in Reader \ {c} : reader'[d] = reader[d]
      /\ reader'[c] = [stage |-> IF closed THEN "done" ELSE "live", of |-> reader[c].of,
                       got |-> buffer]
  BY <1>0 DEF StreamInv, StreamTypes
<1>3. ReaderType(reader[c])'
  BY <1>0, <1>1, <1>2
<1>4. ASSUME Undisturbed, Undisturbed' PROVE ReaderTells(reader[c])'
  <2>1. /\ ReaderTells(reader[c]) /\ Published' = Published
        /\ closed => stage \in {"ending", "off", "created"}
    BY <1>0, <1>4 DEF StreamInv, Published, TopicTells
  <2> QED BY <1>0, <1>2, <2>1 DEF ReaderTells, Telling
<1>5. buffer' \in Seq(Nat) /\ closed' \in BOOLEAN /\ raced' \in BOOLEAN
  BY <1>0 DEF StreamInv, StreamTypes
<1> QED BY <1>0, <1>2, <1>3, <1>4, <1>5, ReaderStep

\* A reader that has gone was told nothing.
LEMMA LeaveStep ==
  ASSUME StreamInv, NEW c \in Reader, Stream!Leave(c) PROVE StreamInv'
<1>0. /\ reader' = [reader EXCEPT ![c] = [stage |-> "idle"]]
      /\ UNCHANGED <<streamRow, latest, ended, stage, counter, buffer, closed, asked, dropped,
                     raced>>
  BY DEF Stream!Leave, Stream!Idle, Stream!topic, Stream!history
<1>1. /\ DOMAIN reader' = Reader /\ \A d \in Reader \ {c} : reader'[d] = reader[d]
      /\ reader'[c] = [stage |-> "idle"]
  BY <1>0 DEF StreamInv, StreamTypes
<1>2. ReaderType(reader[c])' /\ ReaderTells(reader[c])'
  BY <1>1 DEF ReaderTells
<1>3. buffer' \in Seq(Nat) /\ closed' \in BOOLEAN /\ raced' \in BOOLEAN
  BY <1>0 DEF StreamInv, StreamTypes
<1> QED BY <1>0, <1>1, <1>2, <1>3, ReaderStep

------------------------------------------------------------------------------
(* What it comes to.                                                        *)

\* An event that was lost has an approval in its place.
LEMMA LostToApprovals ==
  ASSUME StreamInv
  PROVE  Stream!Cardinality(Stream!LostOfLatest) <= IF StreamSql THEN asked ELSE 0
<1> USE StreamAssumption
<1> DEFINE lost == Stream!LostOfLatest
<1>1. /\ counter \in Nat /\ asked \in Nat /\ Size \in Nat /\ counter <= Size
      /\ {x.seq : x \in Rows} = 0 .. Size - 1
      /\ IsFiniteSet(Asked) /\ Cardinality(Asked) <= asked /\ Cardinality(Asked) \in Nat
  BY FS_CardinalityType DEF StreamInv, StreamTypes, RowsInOrder
<1>2. ASSUME NEW n \in lost PROVE \E x \in Asked : x.seq = n
  <2>1. n \in 0 .. MaxEvents - 1 /\ n < counter /\ \A x \in Rows : x.event # n
    BY DEF Stream!LostOfLatest, Stream!Lost, Stream!Stored, Rows
  <2>2. n \in 0 .. Size - 1
    BY <1>1, <2>1
  <2>3. PICK x \in Rows : x.seq = n
    BY <1>1, <2>2
  <2>4. x.event = MaxEvents
    BY <2>1, <2>3 DEF StreamInv, RowsInOrder
  <2> QED BY <2>3, <2>4 DEF Asked
<1> HIDE DEF lost
<1> DEFINE taken == [n \in lost |-> CHOOSE x \in Asked : x.seq = n]
<1>3. \A n \in lost : taken[n] \in Asked /\ taken[n].seq = n
  BY <1>2
<1>4. taken \in [lost -> Asked]
  BY <1>3
<1> HIDE DEF taken
<1>5. taken \in Injection(lost, Asked)
  BY <1>3, <1>4, Fun_IsInj
<1>6. IsFiniteSet(lost) /\ Cardinality(lost) <= Cardinality(Asked)
  BY <1>1, <1>5, FS_Injection
<1>7. Cardinality(lost) \in Nat /\ Cardinality(lost) <= asked
  <2>1. Cardinality(lost) \in Nat
    BY <1>6, FS_CardinalityType
  <2> QED BY <1>1, <1>6, <2>1
<1>8. CASE StreamSql
  BY <1>7, <1>8, SameCount DEF lost
<1>9. CASE ~StreamSql
  <2>1. lost = {}
    <3>1. \A x \in Rows : x.event < counter
      BY <1>9 DEF StreamInv, RowsInOrder
    <3>2. counter <= MaxEvents
      BY DEF StreamInv, StreamTypes
    <3>3. Asked = {}
      BY <1>1, <3>1, <3>2 DEF Asked
    <3> QED BY <1>2, <3>3
  <2>2. Cardinality(lost) = 0
    BY <2>1, FS_EmptySet
  <2> QED BY <1>9, <2>2, SameCount DEF lost
<1> QED BY <1>8, <1>9

\* A stream that ended, of a run that is over, has told it.
LEMMA DoneIsWhole ==
  ASSUME StreamInv, NEW c \in Reader,
         reader[c].stage = "done", reader[c].of = latest, stage = "off", latest > 0,
         ~raced, dropped = 0, Stream!LostOfLatest = {}, counter + asked < BufferSize
  PROVE  Stream!Whole(reader[c].got, counter)
<1> USE StreamAssumption
<1> DEFINE s == reader[c].got
<1>1. counter \in Nat /\ counter <= MaxEvents /\ s \in Seq(Nat)
  BY DEF StreamInv, StreamTypes
<1>2. AllStored
  <2>1. ASSUME NEW n \in 0 .. counter - 1, \A x \in Rows : x.event # n PROVE FALSE
    <3>1. n \in 0 .. MaxEvents - 1 /\ n < counter
      BY <1>1
    <3>2. n \in Stream!LostOfLatest
      BY <2>1, <3>1 DEF Stream!LostOfLatest, Stream!Lost, Stream!Stored, Rows
    <3> QED BY <3>2
  <2> QED BY <2>1 DEF AllStored
<1>3. Tells(s, counter, asked, counter)
  BY <1>2 DEF StreamInv, Undisturbed, ReaderTells, Telling, Published
<1> HIDE DEF s
<1>4. \A i \in DOMAIN s : s[i] \in Nat
  BY <1>1
<1>5. {s[i] : i \in Stream!Told(s)} = 0 .. counter - 1
  <2>1. ASSUME NEW i \in Stream!Told(s) PROVE s[i] \in 0 .. counter - 1
    <3>1. i \in DOMAIN s /\ s[i] # MaxEvents
      BY DEF Stream!Told, Stream!Approval
    <3>2. s[i] < counter
      BY <1>1, <1>3, <3>1 DEF Tells
    <3> QED BY <1>1, <1>4, <3>1, <3>2
  <2>2. ASSUME NEW n \in 0 .. counter - 1 PROVE \E i \in Stream!Told(s) : s[i] = n
    <3>1. PICK i \in DOMAIN s : s[i] = n
      BY <1>3 DEF Tells
    <3>2. n # MaxEvents
      BY <1>1
    <3> QED BY <3>1, <3>2 DEF Stream!Told, Stream!Approval
  <2> QED BY <2>1, <2>2
<1>6. Stream!Whole(s, counter)
  BY <1>3, <1>5 DEF Stream!Whole, Tells
<1> QED BY <1>6 DEF s

\* A reader whose stream has ended was told every event of the run, in order, however
\* connections, stored events, restarts and other readers overlap, unless something that
\* the model names came between; and no more events are lost than approvals were stored.
THEOREM StreamsAreAlwaysComplete == Stream!Spec => []StreamComplete
<1>1. StreamInv => StreamComplete
  BY LostToApprovals, DoneIsWhole DEF StreamComplete, Stream!StreamComplete
<1>2. StreamInv /\ [Stream!Next]_Stream!vars => StreamInv'
  <2> SUFFICES ASSUME StreamInv, [Stream!Next]_Stream!vars PROVE StreamInv'
    OBVIOUS
  <2>1. ASSUME NEW c \in Reader,
               Stream!Connect(c) \/ Stream!ReadStatus(c) \/ Stream!Hydrate(c)
                 \/ Stream!Subscribe(c) \/ Stream!Leave(c)
        PROVE  StreamInv'
    BY <2>1, ConnectStep, ReadStatusStep, HydrateStep, SubscribeStep, LeaveStep
  <2>2. CASE UNCHANGED Stream!vars
    <3>1. UNCHANGED <<streamRow, latest, ended, stage, counter, buffer, closed, reader, asked,
                      dropped, raced>>
      BY <2>2 DEF Stream!vars, Stream!topic, Stream!history
    <3>2. RowsInOrder' /\ AllStored' = AllStored
      BY <3>1, SameRows DEF StreamInv
    <3>3. StreamTypes' /\ \A c \in Reader : ReaderType(reader[c])'
      BY <3>1 DEF StreamInv, StreamTypes
    <3>4. Undisturbed' = Undisturbed /\ Published' = Published
      BY <3>1, <3>2 DEF Undisturbed, Published
    <3>5. /\ TopicTells' = TopicTells
          /\ \A c \in Reader : ReaderTells(reader[c])' = ReaderTells(reader[c])
      BY <3>1, <3>4 DEF TopicTells, ReaderTells, Telling
    <3> QED BY <3>2, <3>3, <3>4, <3>5 DEF StreamInv
  <2> QED BY <2>1, <2>2, CreateRunStep, ReopenStep, AppendEventStep, PublishStep,
             SinkFailsStep, StoreApprovalStep, FinalizeStep, CloseStep, RestartStep
          DEF Stream!Next
<1> QED BY <1>1, <1>2, StreamInit, PTL DEF Stream!Spec

------------------------------------------------------------------------------
(* The approval gateway.                                                    *)

Known ==
  /\ \A i \in Id : pending[i] # "none" => row[i] # "none"
  /\ \A a \in Asker : ask[a].stage \in {"barring", "barred"} => ask[a].id \in Barred
  /\ \A a \in Asker : ask[a].stage \in {"joining", "saving", "saved", "waiting"} =>
       ask[a].id \notin Low \cup Barred
  /\ \A a \in Asker : ask[a].stage \in {"saving", "saved"} => pending[ask[a].id] = "none"
  /\ \A a \in Asker : ask[a].stage = "saved" => row[ask[a].id] # "none"
  /\ \A a \in Asker : ask[a].stage = "waiting" => pending[ask[a].id] # "none"
  /\ \A r \in Answerer : answer[r].stage \in {"persist", "confirm"} =>
       pending[answer[r].id] # "none"

KnownInv == TypeOK /\ Known

Stored ==
  \A r \in Answerer : answer[r].stage = "confirm" /\ answer[r].id \notin Barred =>
    row[answer[r].id] \in Decision

Durable == DecisionDurable /\ Stored

\* Nothing of this request's steps holds for a row that is decided another way.
DecidedOnce(i) ==
  /\ i \in Low => row[i] = "none" /\ returned[i] \subseteq {"yes"}
  /\ i \notin Low => returned[i] \subseteq {row[i]}
  /\ pending[i] \in Decision => row[i] = pending[i]
  /\ row[i] \in Decision /\ pending[i] = "open" =>
       \E r \in Answerer : answer[r].stage = "confirm" /\ answer[r].id = i
  /\ \A r \in Answerer : answer[r].stage = "persist" /\ answer[r].id = i =>
       row[i] = "pending" /\ pending[i] = "open"
  /\ \A r \in Answerer : answer[r].stage = "confirm" /\ answer[r].id = i =>
       row[i] = answer[r].says /\ pending[i] = "open"
  /\ \A a \in Asker : ask[a].stage \in {"joining", "saving"} /\ ask[a].id = i =>
       pending[i] # "none" \/ row[i] \notin Decision
  /\ \A a \in Asker : ask[a].stage = "saved" /\ ask[a].id = i => row[i] = "pending"

Agree == faults = 0 => \A i \in Id \ Barred : DecidedOnce(i)

\* One answer at a time.
SingleAnswerer == \A r, q \in Answerer : r = q

------------------------------------------------------------------------------
(* Type correctness.                                                       *)

\* The gateway starts well typed.
LEMMA TypeInit == Init => TypeOK
BY NamesAssumption, BoundsAssumption
   DEF Init, TypeOK, Resting, Idle, NoOne, Decision

\* Every step keeps the types, and the lock with its holder.
LEMMA TypeStep == TypeOK /\ [Next]_vars => TypeOK'
<1> SUFFICES ASSUME TypeOK, [Next]_vars PROVE TypeOK'
  OBVIOUS
<1> USE NamesAssumption, BoundsAssumption DEF TypeOK, NoOne, Idle, Decision
<1>1. ASSUME NEW a \in Asker, NEW i \in Id, Answered(a, i) PROVE TypeOK'
  BY <1>1 DEF Answered, Gives, OnRecord, At
<1>2. ASSUME NEW a \in Asker, NEW i \in Id, Request(a, i) PROVE TypeOK'
  BY <1>2 DEF Request, OnRecord, At, history
<1>3. ASSUME NEW a \in Asker, BarSave(a) PROVE TypeOK'
  BY <1>3 DEF BarSave, SaveRow, AskerTo, At, history
<1>4. ASSUME NEW a \in Asker, BarDeny(a) PROVE TypeOK'
  BY <1>4 DEF BarDeny, Return, Gives, At
<1>5. ASSUME NEW a \in Asker, Join(a) PROVE TypeOK'
  BY <1>5 DEF Join, AskerTo, At, history
<1>6. ASSUME NEW a \in Asker, SaveRequest(a) PROVE TypeOK'
  BY <1>6 DEF SaveRequest, SaveRow, AskerTo, At, history
<1>7. ASSUME NEW a \in Asker, Register(a) PROVE TypeOK'
  BY <1>7 DEF Register, AskerTo, At, history
<1>8. ASSUME NEW a \in Asker, Wake(a) PROVE TypeOK'
  BY <1>8 DEF Wake, Return, Gives, At
<1>9. ASSUME NEW a \in Asker, AskFails(a) PROVE TypeOK'
  BY <1>9 DEF AskFails, At
<1>10. ASSUME NEW r \in Answerer, NEW i \in Id, NEW d \in Decision, Resolve(r, i, d)
       PROVE  TypeOK'
  BY <1>10 DEF Resolve, At, history
<1>11. ASSUME NEW r \in Answerer, Lookup(r) PROVE TypeOK'
  BY <1>11 DEF Lookup, AnswererTo, AnswererDone, At, history
<1>12. ASSUME NEW r \in Answerer, Persist(r) PROVE TypeOK'
  BY <1>12 DEF Persist, AnswererTo, At, history
<1>13. ASSUME NEW r \in Answerer, Confirm(r) PROVE TypeOK'
  BY <1>13 DEF Confirm, AnswererDone, At, history
<1>14. ASSUME NEW r \in Answerer, AnswerFails(r) PROVE TypeOK'
  BY <1>14 DEF AnswerFails, AnswererDone, At
<1>15. CASE Restart
  BY <1>15 DEF Restart, Resting, Restored
<1>16. CASE UNCHANGED vars
  BY <1>16 DEF vars, history
<1> QED
  BY <1>1, <1>2, <1>3, <1>4, <1>5, <1>6, <1>7, <1>8, <1>9, <1>10, <1>11, <1>12, <1>13,
     <1>14, <1>15, <1>16 DEF Next, Asking, Answering

\* Every reachable state is well typed, and the lock is held by whoever is saving a
\* request or looking one up, as the two halves of the gateway take it.
THEOREM GatewayTypeHolds == Spec => []TypeOK
BY TypeInit, TypeStep, PTL DEF Spec

------------------------------------------------------------------------------
(* Who waits is known.                                                     *)

\* Every step keeps what the stages know of entries and rows.
LEMMA KnownStep == TypeOK /\ Known /\ [Next]_vars => Known'
<1> SUFFICES ASSUME TypeOK, Known, [Next]_vars PROVE Known'
  OBVIOUS
<1> USE NamesAssumption, LevelsAssumption DEF TypeOK, NoOne, Idle, Decision, Known
<1>1. ASSUME NEW a \in Asker, NEW i \in Id, Answered(a, i) PROVE Known'
  BY <1>1 DEF Answered, Gives, OnRecord, At
<1>2. ASSUME NEW a \in Asker, NEW i \in Id, Request(a, i) PROVE Known'
  BY <1>2 DEF Request, OnRecord, At, history
<1>3. ASSUME NEW a \in Asker, BarSave(a) PROVE Known'
  BY <1>3 DEF BarSave, SaveRow, AskerTo, At, history
<1>4. ASSUME NEW a \in Asker, BarDeny(a) PROVE Known'
  BY <1>4 DEF BarDeny, Return, Gives, At
<1>5. ASSUME NEW a \in Asker, Join(a) PROVE Known'
  BY <1>5 DEF Join, AskerTo, At, history
<1>6. ASSUME NEW a \in Asker, SaveRequest(a) PROVE Known'
  BY <1>6 DEF SaveRequest, SaveRow, AskerTo, At, history
<1>7. ASSUME NEW a \in Asker, Register(a) PROVE Known'
  BY <1>7 DEF Register, AskerTo, At, history
<1>8. ASSUME NEW a \in Asker, Wake(a) PROVE Known'
  BY <1>8 DEF Wake, Return, Gives, At
<1>9. ASSUME NEW a \in Asker, AskFails(a) PROVE Known'
  BY <1>9 DEF AskFails, At
<1>10. ASSUME NEW r \in Answerer, NEW i \in Id, NEW d \in Decision, Resolve(r, i, d)
       PROVE  Known'
  BY <1>10 DEF Resolve, At, history
<1>11. ASSUME NEW r \in Answerer, Lookup(r) PROVE Known'
  BY <1>11 DEF Lookup, AnswererTo, AnswererDone, At, history
<1>12. ASSUME NEW r \in Answerer, Persist(r) PROVE Known'
  BY <1>12 DEF Persist, AnswererTo, At, history
<1>13. ASSUME NEW r \in Answerer, Confirm(r) PROVE Known'
  BY <1>13 DEF Confirm, AnswererDone, At, history
<1>14. ASSUME NEW r \in Answerer, AnswerFails(r) PROVE Known'
  BY <1>14 DEF AnswerFails, AnswererDone, At
<1>15. CASE Restart
  BY <1>15 DEF Restart, Resting, Restored
<1>16. CASE UNCHANGED vars
  BY <1>16 DEF vars, history
<1> QED
  BY <1>1, <1>2, <1>3, <1>4, <1>5, <1>6, <1>7, <1>8, <1>9, <1>10, <1>11, <1>12, <1>13,
     <1>14, <1>15, <1>16 DEF Next, Asking, Answering

\* Whoever waits has an entry that an answer finds and a row that a restart finds,
\* whatever failed.
THEOREM WaitersAreKnownHolds == Spec => []WaitersAreKnown
<1>1. Init => KnownInv
  BY TypeInit DEF KnownInv, Known, Init, Resting, Idle
<1>2. KnownInv /\ [Next]_vars => KnownInv'
  BY TypeStep, KnownStep DEF KnownInv
<1>3. KnownInv => WaitersAreKnown
  BY DEF KnownInv, Known, TypeOK, WaitersAreKnown, Idle
<1> QED
  BY <1>1, <1>2, <1>3, PTL DEF Spec

------------------------------------------------------------------------------
(* Decisions are durable.                                                  *)

\* No step releases a waiter before its decision is stored, or takes it back.
LEMMA DurableStep == KnownInv /\ Durable /\ [Next]_vars => Durable'
<1> SUFFICES ASSUME KnownInv, Durable, [Next]_vars PROVE Durable'
  OBVIOUS
<1> USE NamesAssumption, LevelsAssumption DEF TypeOK, NoOne, Idle, Decision, KnownInv, Known, Durable, DecisionDurable, Stored
<1>1. ASSUME NEW a \in Asker, NEW i \in Id, Answered(a, i) PROVE Durable'
  BY <1>1 DEF Answered, Gives, OnRecord, At
<1>2. ASSUME NEW a \in Asker, NEW i \in Id, Request(a, i) PROVE Durable'
  BY <1>2 DEF Request, OnRecord, At, history
<1>3. ASSUME NEW a \in Asker, BarSave(a) PROVE Durable'
  BY <1>3 DEF BarSave, SaveRow, AskerTo, At, history
<1>4. ASSUME NEW a \in Asker, BarDeny(a) PROVE Durable'
  BY <1>4 DEF BarDeny, Return, Gives, At
<1>5. ASSUME NEW a \in Asker, Join(a) PROVE Durable'
  BY <1>5 DEF Join, AskerTo, At, history
<1>6. ASSUME NEW a \in Asker, SaveRequest(a) PROVE Durable'
  BY <1>6 DEF SaveRequest, SaveRow, AskerTo, At, history
<1>7. ASSUME NEW a \in Asker, Register(a) PROVE Durable'
  BY <1>7 DEF Register, AskerTo, At, history
<1>8. ASSUME NEW a \in Asker, Wake(a) PROVE Durable'
  BY <1>8 DEF Wake, Return, Gives, At
<1>9. ASSUME NEW a \in Asker, AskFails(a) PROVE Durable'
  BY <1>9 DEF AskFails, At
<1>10. ASSUME NEW r \in Answerer, NEW i \in Id, NEW d \in Decision, Resolve(r, i, d)
       PROVE  Durable'
  BY <1>10 DEF Resolve, At, history
<1>11. ASSUME NEW r \in Answerer, Lookup(r) PROVE Durable'
  BY <1>11 DEF Lookup, AnswererTo, AnswererDone, At, history
<1>12. ASSUME NEW r \in Answerer, Persist(r) PROVE Durable'
  BY <1>12 DEF Persist, AnswererTo, At, history
<1>13. ASSUME NEW r \in Answerer, Confirm(r) PROVE Durable'
  BY <1>13 DEF Confirm, AnswererDone, At, history
<1>14. ASSUME NEW r \in Answerer, AnswerFails(r) PROVE Durable'
  BY <1>14 DEF AnswerFails, AnswererDone, At
<1>15. CASE Restart
  BY <1>15 DEF Restart, Resting, Restored
<1>16. CASE UNCHANGED vars
  BY <1>16 DEF vars, history
<1> QED
  BY <1>1, <1>2, <1>3, <1>4, <1>5, <1>6, <1>7, <1>8, <1>9, <1>10, <1>11, <1>12, <1>13,
     <1>14, <1>15, <1>16 DEF Next, Asking, Answering

\* What releases a waiter is in the store by then, and stays there.
THEOREM DecisionDurableHolds == Spec => []DecisionDurable
<1>1. Init => KnownInv /\ Durable
  BY TypeInit DEF KnownInv, Known, Durable, DecisionDurable, Stored, Init, Resting, Idle, Decision
<1>2. KnownInv /\ Durable /\ [Next]_vars => KnownInv' /\ Durable'
  BY TypeStep, KnownStep, DurableStep DEF KnownInv
<1> QED
  BY <1>1, <1>2, PTL DEF Spec, Durable

------------------------------------------------------------------------------
(* One decision.                                                           *)

\* With one answer at a time, no step decides a row again.
LEMMA AgreeStep == SingleAnswerer /\ KnownInv /\ Agree /\ [Next]_vars => Agree'
<1> SUFFICES ASSUME SingleAnswerer, KnownInv, Agree, [Next]_vars,
                    faults' = 0, NEW j \in Id \ Barred
             PROVE  DecidedOnce(j)'
  BY DEF Agree
<1>0. faults = 0
  <2>1. faults' >= faults
    BY DEF Next, Asking, Answering, vars, history, KnownInv, TypeOK, Answered, Request,
       BarSave, BarDeny, Join, SaveRequest, Register, Wake, AskFails, Resolve, Lookup,
       Persist, Confirm, AnswerFails, Restart, Return
  <2> QED
    BY <2>1 DEF KnownInv, TypeOK
<1> USE <1>0, NamesAssumption, LevelsAssumption
    DEF TypeOK, NoOne, Idle, Decision, KnownInv, Known, SingleAnswerer, Agree, DecidedOnce
<1>1. ASSUME NEW a \in Asker, NEW i \in Id, Answered(a, i) PROVE DecidedOnce(j)'
  BY <1>1 DEF Answered, Gives, OnRecord, At
<1>2. ASSUME NEW a \in Asker, NEW i \in Id, Request(a, i) PROVE DecidedOnce(j)'
  BY <1>2 DEF Request, OnRecord, At, history
<1>3. ASSUME NEW a \in Asker, BarSave(a) PROVE DecidedOnce(j)'
  BY <1>3 DEF BarSave, SaveRow, AskerTo, At, history
<1>4. ASSUME NEW a \in Asker, BarDeny(a) PROVE DecidedOnce(j)'
  BY <1>4 DEF BarDeny, Return, Gives, At
<1>5. ASSUME NEW a \in Asker, Join(a) PROVE DecidedOnce(j)'
  BY <1>5 DEF Join, AskerTo, At, history
<1>6. ASSUME NEW a \in Asker, SaveRequest(a) PROVE DecidedOnce(j)'
  BY <1>6 DEF SaveRequest, SaveRow, AskerTo, At, history
<1>7. ASSUME NEW a \in Asker, Register(a) PROVE DecidedOnce(j)'
  BY <1>7 DEF Register, AskerTo, At, history
<1>8. ASSUME NEW a \in Asker, Wake(a) PROVE DecidedOnce(j)'
  BY <1>8 DEF Wake, Return, Gives, At
<1>9. ASSUME NEW a \in Asker, AskFails(a) PROVE DecidedOnce(j)'
  BY <1>9 DEF AskFails, At
<1>10. ASSUME NEW r \in Answerer, NEW i \in Id, NEW d \in Decision, Resolve(r, i, d)
       PROVE  DecidedOnce(j)'
  BY <1>10 DEF Resolve, At, history
<1>11. ASSUME NEW r \in Answerer, Lookup(r) PROVE DecidedOnce(j)'
  BY <1>11 DEF Lookup, AnswererTo, AnswererDone, At, history
<1>12. ASSUME NEW r \in Answerer, Persist(r) PROVE DecidedOnce(j)'
  BY <1>12 DEF Persist, AnswererTo, At, history
<1>13. ASSUME NEW r \in Answerer, Confirm(r) PROVE DecidedOnce(j)'
  BY <1>13 DEF Confirm, AnswererDone, At, history
<1>14. ASSUME NEW r \in Answerer, AnswerFails(r) PROVE DecidedOnce(j)'
  BY <1>14 DEF AnswerFails, AnswererDone, At
<1>15. CASE Restart
  BY <1>15 DEF Restart, Resting, Restored
<1>16. CASE UNCHANGED vars
  BY <1>16 DEF vars, history
<1> QED
  BY <1>1, <1>2, <1>3, <1>4, <1>5, <1>6, <1>7, <1>8, <1>9, <1>10, <1>11, <1>12, <1>13,
     <1>14, <1>15, <1>16 DEF Next, Asking, Answering

\* While one answer is given at a time and nothing fails, all askers of a request that
\* is not blocked are given one decision, before and after any number of restarts.
THEOREM AnswersAgreeHolds == ASSUME SingleAnswerer PROVE Spec => []AnswersAgree
<1>1. Init => KnownInv /\ Agree
  BY TypeInit
     DEF KnownInv, Known, Agree, DecidedOnce, Init, Resting, Idle, Decision
<1>2. KnownInv /\ Agree /\ [Next]_vars => KnownInv' /\ Agree'
  BY TypeStep, KnownStep, AgreeStep DEF KnownInv
<1>3. KnownInv /\ Agree => AnswersAgree
  <2> SUFFICES ASSUME Agree, faults = 0, NEW i \in Id \ Barred
               PROVE  Cardinality(returned[i]) <= 1
    BY DEF AnswersAgree
  <2>1. PICK d : returned[i] \subseteq {d}
    BY DEF Agree, DecidedOnce
  <2>2. returned[i] = {} \/ returned[i] = {d}
    BY <2>1
  <2>3. Cardinality({}) = 0 /\ Cardinality({d}) = 1
    BY FS_EmptySet, FS_Singleton
  <2> QED
    BY <2>2, <2>3
<1> QED
  BY <1>1, <1>2, <1>3, PTL DEF Spec

===============================================================================
