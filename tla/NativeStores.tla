------------------------------ MODULE NativeStores ------------------------------
(***************************************************************************)
(* The native agent's two databases side by side: every call goes to       *)
(* MemoryDatabase's dictionaries ("mem"; SQLiteDatabase keeps the same     *)
(* ones, see BlobStore) and to the rows of the canonical schema that       *)
(* PostgresDatabase writes ("sql").  The connection to PostgreSQL may be   *)
(* lost after a call was committed and before its answer arrived: _run     *)
(* asks again, and the rows are written a second time.                     *)
(*                                                                         *)
(* An event is two calls, its number and its row; every other call is one  *)
(* transaction.  NativeRun and EventBus have who makes the calls and when. *)
(***************************************************************************)
EXTENDS Naturals, FiniteSetsExt, SequencesExt

CONSTANTS Session,    \* a set of numbers above 0, for the order of ids
          Run, SessionOf, \* run ids, and the session of each
          Note, Call,   \* note ids; tool call ids, which the model invents
          Global, NoRun,  \* no session (0); the event was logged outside a run
          LateCalls,    \* a session may be deleted under the run that serves it
          MaxWrites, MaxTurns, MaxLost  \* bounds

VARIABLES mem, sql,
          deleted,  \* sessions deleted so far; ids are never given out twice
          drawn,    \* [Session -> the numbers drawn for an event to come, <<>> if none]
          writes, lost  \* things stored, which also tells the time; answers lost

vars == <<mem, sql, deleted, drawn, writes, lost>>

Idle == <<>>
With(f, x, v) == [y \in DOMAIN f \cup {x} |-> IF y = x THEN v ELSE f[y]]
Dropping(f, S) == [x \in DOMAIN f \ S |-> f[x]]
Nothing == [x \in {} |-> x]
Later(a, b) == IF a > b THEN a ELSE b
\* updated_at DESC, id DESC
Newest(updated) ==
  SetToSortSeq(DOMAIN updated, LAMBDA a, b : \/ updated[a] > updated[b]
                                             \/ updated[a] = updated[b] /\ a > b)

------------------------------------------------------------------------------
(* In memory.                                                               *)
MemEmpty ==
  [updated |-> Nothing, messages |-> [s \in Session |-> <<>>],
   events |-> [s \in Session |-> <<>>], sequence |-> [s \in Session |-> 0],
   runs |-> Nothing, grants |-> <<>>, notes |-> Nothing]

MemCreate(s) == [mem EXCEPT !.updated = With(@, s, writes)]
MemDelete(s) ==
  [mem EXCEPT !.updated = Dropping(@, {s}), !.messages[s] = <<>>, !.events[s] = <<>>,
              !.sequence[s] = 0,
              !.runs = Dropping(@, {r \in Run : SessionOf[r] = s}),
              !.grants = SelectSeq(@, LAMBDA g : g # s),
              !.notes = Dropping(@, {n \in DOMAIN @ : @[n].session = s})]
MemSaveMessage(m, s) ==
  [m EXCEPT !.messages[s] = Append(@, writes + 1),
            !.updated = IF s \in DOMAIN @ THEN With(@, s, Later(@[s], writes + 1)) ELSE @]
MemNext(s) == [mem EXCEPT !.sequence[s] = @ + 1]
MemSaveEvent(s, e) == [mem EXCEPT !.events[s] = Append(@, e)]
MemSaveRun(r, receipt) == [mem EXCEPT !.runs = With(@, r, receipt)]
MemSaveGrant(s) == [mem EXCEPT !.grants = Append(@, s)]
MemSaveNote(n, note) == [mem EXCEPT !.notes = With(@, n, note)]
MemTouch(n, at) ==
  [mem EXCEPT !.notes = IF n \in DOMAIN @ THEN With(@, n, [@[n] EXCEPT !.used = at]) ELSE @]

MemEvents(s) == SortSeq(mem.events[s], LAMBDA a, b : a.n < b.n)
MemRuns == mem.runs
MemGrants(s) == {g \in ToSet(mem.grants) : g \in {s, Global}}
MemNotes(s) == {<<n, mem.notes[n]>> : n \in {x \in DOMAIN mem.notes :
                                              mem.notes[x].session \in {s, Global}}}

------------------------------------------------------------------------------
(* In PostgreSQL.  "threads" are agent_threads, which messages, numbers,    *)
(* grants, notes, tasks and runs refer to ON DELETE CASCADE; "runs" are     *)
(* agent_runs with their task, and carry a receipt once it was saved.       *)
SqlEmpty ==
  [threads |-> Nothing, messages |-> <<>>, sequences |-> Nothing, runs |-> Nothing,
   events |-> {}, calls |-> {}, turns |-> {}, grants |-> <<>>, notes |-> Nothing]

\* The row of a run that has events and no receipt yet: status 'running'.
Unfinished == [over |-> FALSE, turns |-> 0, tokens |-> 0]
Refers(d, s) == s = Global \/ s \in DOMAIN d.threads   \* else a foreign key fails

SqlCreate(s, d) ==
  [d EXCEPT !.threads = IF s \in DOMAIN @ THEN @ ELSE With(@, s, writes)]
SqlDelete(s, d) ==
  [d EXCEPT !.threads = Dropping(@, {s}),
            !.messages = SelectSeq(@, LAMBDA m : m.thread # s),
            !.sequences = Dropping(@, {s}),
            !.runs = Dropping(@, {k \in DOMAIN @ : k[1] = s}),
            !.events = {e \in @ : e.run[1] # s}, !.calls = {c \in @ : c.run[1] # s},
            !.turns = {t \in @ : t.run[1] # s},
            !.grants = SelectSeq(@, LAMBDA g : g # s),
            !.notes = Dropping(@, {n \in DOMAIN @ : @[n].session = s})]

\* ON CONFLICT (id) DO NOTHING
InsertMessage(row, d) ==
  IF \E m \in ToSet(d.messages) : m.key = row.key THEN d
  ELSE [d EXCEPT !.messages = Append(@, row)]
SqlSaveMessage(s, key, d) ==
  IF ~Refers(d, s) THEN d
  ELSE [InsertMessage([thread |-> s, key |-> key, body |-> writes + 1], d) EXCEPT
          !.threads = With(@, s, Later(@[s], writes + 1))]

SqlNext(s, d) ==
  IF ~Refers(d, s) THEN d
  ELSE [d EXCEPT !.sequences = With(@, s, IF s \in DOMAIN @ THEN @[s] + 1 ELSE 1)]

\* What is logged outside a run is filed under a run of that name ...
OutsideRuns == "session"
Filed(r) == IF r = NoRun THEN OutsideRuns ELSE r
\* ... and the payload of every event also holds its run's id.
Row(e) == [e EXCEPT !.run = Filed(@), !.namesRun = TRUE]

\* The thread, the task and the run an event or a receipt belongs to.
EnsureRun(s, r, d) ==
  [SqlCreate(s, d) EXCEPT
     !.runs = IF <<s, r>> \in DOMAIN @ THEN @ ELSE With(@, <<s, r>>, Unfinished)]
\* A row of tool_calls for each call of a run, from its first event on.
PersistEventDetails(run, e, d) ==
  LET row == {c \in d.calls : c.run = run /\ c.call = e.call}
      finished == e.type = "tool_finished" \/ \E c \in row : c.done
  IN  IF e.type = "text" THEN d
      ELSE [d EXCEPT !.calls =
              (@ \ row) \cup {[run |-> run, call |-> e.call, done |-> finished]}]
SqlSaveEvent(s, e, d) ==
  LET run == <<s, Filed(e.run)>>
      known == EnsureRun(s, Filed(e.run), d)
      taken == \E x \in d.events : x.run = run /\ x.event.n = e.n
  IN  PersistEventDetails(run, e,
        IF taken THEN known
        ELSE [known EXCEPT !.events = @ \cup {[run |-> run, event |-> Row(e)]}])

\* Split exactly; the last row receives the remainder.
Share(total, count, turn) ==
  LET base == total \div count
  IN  IF turn = count THEN total - base * (count - 1) ELSE base
TurnRows(run, receipt) ==
  LET count == Later(1, receipt.turns)
  IN  {[run |-> run, turn |-> t, tokens |-> Share(receipt.tokens, count, t)] : t \in 1 .. count}
ReplaceTurns(run, receipt, d) ==
  [d EXCEPT !.turns = {t \in @ : t.run # run} \cup TurnRows(run, receipt)]
SqlSaveRun(r, receipt, d) ==
  LET run == <<SessionOf[r], r>>
  IN  ReplaceTurns(run, receipt,
        [EnsureRun(SessionOf[r], r, d) EXCEPT !.runs[run] = [receipt EXCEPT !.tokens = 0]])

SqlSaveGrant(s, d) == IF Refers(d, s) THEN [d EXCEPT !.grants = Append(@, s)] ELSE d
SqlSaveNote(n, note, d) ==
  IF Refers(d, note.session) THEN [d EXCEPT !.notes = With(@, n, note)] ELSE d
SqlTouch(n, at, d) ==
  [d EXCEPT !.notes = IF n \in DOMAIN @ THEN With(@, n, [@[n] EXCEPT !.used = at]) ELSE @]

SqlMessages(s) ==
  LET mine == SelectSeq(sql.messages, LAMBDA m : m.thread = s)
  IN  [i \in DOMAIN mine |-> mine[i].body]
SqlEvents(s) ==
  SetToSortSeq({x.event : x \in {y \in sql.events : y.run[1] = s}}, LAMBDA a, b : a.n < b.n)
\* get_run and list_runs: a row whether or not it carries a receipt, and what its turns
\* add up to.
SqlRuns ==
  LET rows(r) == {t \in sql.turns : t.run = <<SessionOf[r], r>>}
  IN  [r \in {x \in Run : <<SessionOf[x], x>> \in DOMAIN sql.runs} |->
         [sql.runs[<<SessionOf[r], r>>] EXCEPT
            !.tokens = MapThenSumSet(LAMBDA t : t.tokens, rows(r))]]
SqlGrants(s) == {g \in ToSet(sql.grants) : g \in {s, Global}}
SqlNotes(s) == {<<n, sql.notes[n]>> : n \in {x \in DOMAIN sql.notes :
                                              sql.notes[x].session \in {s, Global}}}

------------------------------------------------------------------------------
Init ==
  /\ mem = MemEmpty /\ sql = SqlEmpty
  /\ deleted = {} /\ drawn = [s \in Session |-> Idle]
  /\ writes = 0 /\ lost = 0

\* _run: the call is made once, or again because the connection was lost with its answer.
AnswerLost == lost < MaxLost /\ lost' = lost + 1
Ran(Op(_)) ==
  \/ sql' = Op(sql) /\ UNCHANGED lost
  \/ sql' = Op(Op(sql)) /\ AnswerLost

\* A call that stores something: the time of what it stores.
Written == writes < MaxWrites /\ writes' = writes + 1
Served(s) == s \in DOMAIN mem.updated \/ (LateCalls /\ s \in deleted)

CreateSession(s) ==
  /\ s \notin deleted \cup DOMAIN mem.updated
  /\ mem' = MemCreate(s) /\ Ran(LAMBDA d : SqlCreate(s, d))
  /\ UNCHANGED <<deleted, drawn, writes>>

DeleteSession(s) ==
  /\ s \in DOMAIN mem.updated
  /\ LateCalls \/ drawn[s] = Idle
  /\ mem' = MemDelete(s) /\ Ran(LAMBDA d : SqlDelete(s, d))
  /\ deleted' = deleted \cup {s} /\ UNCHANGED <<drawn, writes>>

SaveMessage(s) ==
  /\ Served(s) /\ Written
  /\ mem' = MemSaveMessage(mem, s) /\ Ran(LAMBDA d : SqlSaveMessage(s, <<s, writes + 1>>, d))
  /\ UNCHANGED <<deleted, drawn>>

\* Mutant of ForkKey: the copy keeps the storage id of its source.
SourceKey(f, m) == m.key
ForkKey(f, m) == <<f, m.body>>
\* The copies keep body and time.  Lost answers are SaveMessage's.
ForkSession(s, f) ==
  /\ s \in DOMAIN mem.updated /\ f \notin deleted \cup DOMAIN mem.updated
  /\ mem' = [MemCreate(f) EXCEPT !.messages[f] = mem.messages[s]]
  /\ sql' = FoldLeft(LAMBDA d, m : [InsertMessage([thread |-> f, key |-> ForkKey(f, m),
                                                   body |-> m.body], d) EXCEPT
                                      !.threads[f] = Later(@, m.body)],
                     SqlCreate(f, sql), SelectSeq(sql.messages, LAMBDA m : m.thread = s))
  /\ UNCHANGED <<deleted, drawn, lost, writes>>

NextSequence(s) ==
  /\ Served(s) /\ Refers(sql, s) /\ drawn[s] = Idle /\ writes < MaxWrites
  /\ mem' = MemNext(s) /\ Ran(LAMBDA d : SqlNext(s, d))
  /\ drawn' = [drawn EXCEPT ![s] = <<mem'.sequence[s], sql'.sequences[s]>>]
  /\ UNCHANGED <<deleted, writes>>

SaveEvent(s, r, type, call) ==
  LET e(n) == [n |-> n, id |-> writes + 1, run |-> r, namesRun |-> FALSE,
                type |-> type, call |-> call]
  IN  /\ drawn[s] # Idle /\ r \in {NoRun} \cup {x \in Run : SessionOf[x] = s}
      /\ mem' = MemSaveEvent(s, e(drawn[s][1]))
      /\ Ran(LAMBDA d : SqlSaveEvent(s, e(drawn[s][2]), d))
      /\ drawn' = [drawn EXCEPT ![s] = Idle] /\ Written
      /\ UNCHANGED deleted

\* A resumed run saves its receipt again, with more turns.
SaveRun(r, turns) ==
  LET receipt == [over |-> TRUE, turns |-> turns, tokens |-> 2 * turns + 1]
  IN  /\ Served(SessionOf[r])
      /\ ~\E x \in DOMAIN mem.runs : x = r /\ mem.runs[x].turns >= turns
      /\ Written
      /\ mem' = MemSaveRun(r, receipt) /\ Ran(LAMBDA d : SqlSaveRun(r, receipt, d))
      /\ UNCHANGED <<deleted, drawn>>

SavePermission(s) ==
  /\ s = Global \/ Served(s)
  /\ Written
  /\ mem' = MemSaveGrant(s) /\ Ran(LAMBDA d : SqlSaveGrant(s, d))
  /\ UNCHANGED <<deleted, drawn>>

Remember(n, s) ==
  LET note == [session |-> s, used |-> writes + 1]
  IN  /\ s = Global \/ Served(s)
      /\ n \notin DOMAIN mem.notes /\ Written
      /\ mem' = MemSaveNote(n, note) /\ Ran(LAMBDA d : SqlSaveNote(n, note, d))
      /\ UNCHANGED <<deleted, drawn>>
Recall(n) ==
  /\ n \in DOMAIN mem.notes /\ Written
  /\ mem' = MemTouch(n, writes + 1) /\ Ran(LAMBDA d : SqlTouch(n, writes + 1, d))
  /\ UNCHANGED <<deleted, drawn>>

Next ==
  \/ \E s \in Session : \/ CreateSession(s) \/ DeleteSession(s) \/ SaveMessage(s)
                        \/ NextSequence(s) \/ \E f \in Session : ForkSession(s, f)
  \/ \E s \in Session, r \in Run \cup {NoRun} :
       SaveEvent(s, r, "text", NoRun)
       \/ \E c \in Call, type \in {"tool_started", "tool_finished"} : SaveEvent(s, r, type, c)
  \/ \E r \in Run, turns \in 1 .. MaxTurns : SaveRun(r, turns)
  \/ \E s \in Session \cup {Global} : SavePermission(s) \/ \E n \in Note : Remember(n, s)
  \/ \E n \in Note : Recall(n)

Spec == Init /\ [][Next]_vars

------------------------------------------------------------------------------
\* An event without its number: a number may be skipped when an answer is lost.
Unnumbered(log) == [i \in DOMAIN log |-> [log[i] EXCEPT !.n = 0]]

\* The runs a log speaks of.
Told == {r \in Run : \E e \in ToSet(mem.events[SessionOf[r]]) : e.run = r}

\* The two databases answer alike (database.py 3-5: "the rest of the agent never knows
\* whether it is talking to memory or Postgres"), also when PostgreSQL was asked twice:
\* the sessions and their order, each conversation, each log in its order, every receipt
\* down to the tokens its turns add up to, the grants and the notes that hold; and the
\* rows of tool calls tell what the log tells.  They differ in two things, and in no other:
\* PostgreSQL has a record of a run without a receipt once an event of it was logged (see
\* OnlyReceipts), and it names a run for every event, in its run_id and in its data.
NativeStoresAgree ==
  /\ Newest(mem.updated) = Newest(sql.threads)
  /\ DOMAIN SqlRuns = DOMAIN MemRuns \cup Told
  /\ \A r \in DOMAIN SqlRuns : SqlRuns[r] = IF r \in DOMAIN MemRuns THEN MemRuns[r] ELSE Unfinished
  /\ \A s \in Session :
       /\ mem.messages[s] = SqlMessages(s)
       /\ Unnumbered([i \in DOMAIN MemEvents(s) |-> Row(MemEvents(s)[i])]) = Unnumbered(SqlEvents(s))
       /\ MemGrants(s) = SqlGrants(s) /\ MemNotes(s) = SqlNotes(s)
  /\ \A s \in Session : LET told == {e \in ToSet(mem.events[s]) : e.type # "text"}
     IN  {c \in sql.calls : c.run[1] = s} =
           {[run |-> <<s, Filed(e.run)>>, call |-> e.call,
             done |-> \E x \in told : /\ x.run = e.run /\ x.call = e.call
                                      /\ x.type = "tool_finished"] : e \in told}

\* postgres.py 499, of get_run: "One run's receipt, rebuilt into a `RunRecord`, or None if
\* there isn't one."
OnlyReceipts == \A r \in DOMAIN SqlRuns : SqlRuns[r].over

\* A deleted session is not among the sessions again (database.py 69: "Remove a session
\* and everything filed under it").
DeletedStaysDeleted == deleted \cap (DOMAIN sql.threads \cup DOMAIN mem.updated) = {}

===============================================================================
