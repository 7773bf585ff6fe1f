---------------------------- MODULE ServicesProofs ----------------------------
(***************************************************************************)
(* What holds of the smaller services around the agents, each shown on an  *)
(* invariant of its own, for every value of the constants: what a caller   *)
(* was told is stored stays stored, the two repositories answer alike,     *)
(* verdicts go onto the steps they judge, a cloud provider is only called  *)
(* with its own key, and a stream tells its run.                           *)
(***************************************************************************)
EXTENDS BlobStore, ApiParts, Integers, Sequences, FiniteSets, FiniteSetTheorems,
        WellFoundedInduction, TLAPS

------------------------------------------------------------------------------
(* The object store of a task.  As long as no call is cancelled, the lock   *)
(* covers the thread of its holder, so the row is never replaced by         *)
(* something older than itself.                                             *)

\* Whoever has a thread holds the lock; while it does, nothing is behind what it writes.
Covered ==
  /\ \A c \in Caller : thread[c] # "none" => lock = c
  /\ \A c \in Caller : thread[c] \in {"storing", "done"} => pickled[c] = values
  /\ \A c \in Caller : thread[c] = "done" => row = values
  /\ \A c \in Caller : thread[c] # "none" => values[call[c].object] = call[c].value
Behind == \A x \in Object : row[x] <= values[x]
IInv == TypeOK /\ Covered /\ Behind /\ ToldIsStored

\* The initial dictionaries, row and promises are all empty.
LEMMA InitHolds ==
  ASSUME MaxValue \in Nat, MaxFaults \in Nat, Object # {}
  PROVE  Init => IInv
<1>1. NoWrite \in [object : Object, value : Value]
  BY DEF NoWrite, Value, Gone
<1>2. 0 \in Value /\ "none" \in Threads /\ 0 \in 0 .. MaxFaults
  BY DEF Value, Gone, Threads
<1>3. ASSUME Init PROVE TypeOK
  BY <1>1, <1>2, <1>3 DEF Init, TypeOK
<1>4. ASSUME Init PROVE Covered /\ Behind /\ ToldIsStored
  BY <1>4 DEF Init, Covered, Behind, ToldIsStored
<1>5. QED
  BY <1>3, <1>4 DEF IInv

\* The start of a call, whatever it changes.
LEMMA ChangeKeeps ==
  ASSUME MaxValue \in Nat, IInv, NoCaller \notin Caller,
         NEW c \in Caller, NEW x \in Object, NEW v \in Value, v >= values[x],
         Acquire(c), Change(c, x, v)
  PROVE  IInv'
<1>1. TypeOK'
  BY DEF IInv, TypeOK, Change, Acquire, Threads
<1>2. \A d \in Caller : thread[d] = "none"
  BY DEF IInv, TypeOK, Covered, Acquire
<1>3. Covered'
  BY <1>2 DEF IInv, TypeOK, Covered, Change, Acquire, Threads
<1>4. Behind'
  BY SMTT(30) DEF IInv, TypeOK, Behind, Change, Value, Gone
<1>5. ToldIsStored'
  BY DEF IInv, ToldIsStored, Change
<1>6. QED
  BY <1>1, <1>3, <1>4, <1>5 DEF IInv

\* No step loses what the row holds, one step for each action.
LEMMA NextKeeps ==
  ASSUME MaxValue \in Nat, MaxFaults \in Nat, Object # {}, NoCaller \notin Caller, ~Cancels,
         IInv, [Next]_vars
  PROVE  IInv'
<1> USE DEF Value, Gone, Threads
<1>1. ASSUME NEW c \in Caller, NEW x \in Object, SaveRecord(c, x) PROVE IInv'
  <2>1. values[x] + 1 \in Value /\ values[x] + 1 >= values[x]
    BY <1>1 DEF SaveRecord, IInv, TypeOK
  <2>2. QED
    BY <1>1, <2>1, ChangeKeeps DEF SaveRecord
<1>2. ASSUME NEW c \in Caller, NEW x \in Object, Delete(c, x) PROVE IInv'
  <2>1. Gone \in Value /\ Gone >= values[x]
    BY <1>2 DEF Delete, IInv, TypeOK
  <2>2. QED
    BY <1>2, <2>1, ChangeKeeps DEF Delete
<1>3. ASSUME NEW c \in Caller, Pickle(c) PROVE IInv'
  BY <1>3 DEF IInv, TypeOK, Covered, Behind, ToldIsStored, Pickle
<1>4. ASSUME NEW c \in Caller, Store(c) PROVE IInv'
  <2>1. row' = values /\ values' = values /\ told' = told
    BY <1>4 DEF IInv, Covered, Store
  <2>2. TypeOK' /\ Covered'
    BY <1>4, <2>1 DEF IInv, TypeOK, Covered, Store
  <2>3. Behind' /\ ToldIsStored'
    BY <2>1, SMTT(30) DEF IInv, TypeOK, Behind, ToldIsStored
  <2>4. QED
    BY <2>2, <2>3 DEF IInv
<1>5. ASSUME NEW c \in Caller, WriteFails(c) PROVE IInv'
  BY <1>5 DEF IInv, TypeOK, Covered, Behind, ToldIsStored, WriteFails
<1>6. ASSUME NEW c \in Caller, Return(c) PROVE IInv'
  <2>1. TypeOK'
    BY <1>6 DEF IInv, TypeOK, Return, NoWrite
  <2>2. Covered' /\ Behind'
    BY <1>6 DEF IInv, TypeOK, Covered, Behind, Return
  <2>3. ToldIsStored'
    BY <1>6, SMTT(30) DEF IInv, TypeOK, Covered, ToldIsStored, Return
  <2>4. QED
    BY <2>1, <2>2, <2>3 DEF IInv
<1>7. ASSUME NEW c \in Caller, Orphan(c) PROVE IInv'
  BY <1>7 DEF IInv, Covered, Orphan
<1>8. ASSUME Close PROVE IInv'
  <2>1. TypeOK'
    BY <1>8 DEF IInv, TypeOK, Close
  <2>2. Covered'
    BY <1>8 DEF IInv, TypeOK, Covered, Close
  <2>3. Behind' /\ ToldIsStored'
    BY <1>8, SMTT(30) DEF IInv, TypeOK, Behind, ToldIsStored, Close
  <2>4. QED
    BY <2>1, <2>2, <2>3 DEF IInv
<1>9. ASSUME Load, faults' \in 0 .. MaxFaults PROVE IInv'
  <2>1. TypeOK' /\ Covered'
    BY <1>9 DEF IInv, TypeOK, Covered, Load
  <2>2. Behind' /\ ToldIsStored'
    BY <1>9, SMTT(30) DEF IInv, TypeOK, Behind, ToldIsStored, Load
  <2>3. QED
    BY <2>1, <2>2 DEF IInv
<1>10. ASSUME Crash \/ Reopen PROVE IInv'
  <2>1. faults' \in 0 .. MaxFaults /\ Load
    BY <1>10 DEF Crash, Reopen, IInv, TypeOK
  <2>2. QED
    BY <2>1, <1>9
<1>11. ASSUME UNCHANGED vars PROVE IInv'
  BY <1>11 DEF vars, IInv, TypeOK, Covered, Behind, ToldIsStored
<1>12. QED
  BY <1>1, <1>2, <1>3, <1>4, <1>5, <1>6, <1>7, <1>8, <1>10, <1>11 DEF Next, Cancel

\* Without cancelled calls, the row is never behind what a caller was told: neither a
\* failed write, nor a crash or a restart between any two steps takes it back.
THEOREM ToldStays ==
  ASSUME MaxValue \in Nat, MaxFaults \in Nat, Object # {}, NoCaller \notin Caller, ~Cancels
  PROVE  Spec => []ToldIsStored
<1>1. Init => IInv
  BY InitHolds
<1>2. IInv /\ [Next]_vars => IInv'
  BY NextKeeps
<1>3. IInv => ToldIsStored
  BY DEF IInv
<1>4. QED
  BY <1>1, <1>2, <1>3, PTL DEF Spec

------------------------------------------------------------------------------
(* The task repositories.  What both keep in the same shape is the same; a  *)
(* run in memory is the row without its attempt number, and an entry of an  *)
(* approval is its last row.                                                *)

\* A run of the SQL store without its attempt number, the run in memory.
Plain(x) == [id |-> x.id, task |-> x.task, status |-> x.status]
OfTask(k) == {x \in sql.runs : x.task = k}

\* What is kept under the same name in both stores is the same.
TablesMatch ==
  /\ DOMAIN mem = {"threads", "tasks", "status", "runs", "approvals", "llm", "tools"}
  /\ DOMAIN sql = {"threads", "tasks", "status", "runs", "events", "llm", "tools", "evaluated"}
  /\ mem.threads = sql.threads /\ mem.tasks = sql.tasks /\ mem.status = sql.status
  /\ mem.llm = sql.llm /\ mem.tools = sql.tools

\* Calls are finitely many, and report both counts or neither.
CallsCount ==
  IsFiniteSet(mem.llm) /\ \A c \in mem.llm : c.usage \in {"known", "none"}

\* Both have the same runs, and the attempts of a task are numbered in the order of the
\* ids, up to a last one.
RunsMatch ==
  /\ ids \in Nat /\ \A x \in sql.runs : x.id < ids
  /\ sql.runs \subseteq [id : Nat, task : Task, status : {"created", "running", "completed"},
                         attempt : Nat]
  /\ mem.runs = {Plain(x) : x \in sql.runs}
  /\ \A x, y \in sql.runs : x.id = y.id => x = y
  /\ \A x, y \in sql.runs : x.task = y.task /\ x.id < y.id => x.attempt < y.attempt
  /\ \A x \in sql.runs : \E y \in OfTask(x.task) : \A z \in OfTask(x.task) : z.attempt <= y.attempt

\* The last row of a request says what its entry in memory says, and goes with its task.
ApprovalsMatch ==
  /\ sql.events \subseteq [at : Nat, run : Nat, request : Approval, answer : {"open", "yes", "no"}]
  /\ \E n \in Nat : \A e \in sql.events : e.at <= n
  /\ \A e, f \in sql.events : e.at = f.at => e = f
  /\ \A e \in sql.events : \E x \in OfTask(AskedBy[e.request]) : x.id = e.run
  /\ DOMAIN mem.approvals = {e.request : e \in sql.events}
  /\ \A e \in sql.events :
       (\A f \in sql.events : f.request = e.request => f.at <= e.at)
         => mem.approvals[e.request] = e.answer

StoresInv == TablesMatch /\ CallsCount /\ RunsMatch /\ ApprovalsMatch

\* What fails in PostgreSQL fails in memory.
FailuresMatch == "sql" \in raised => "mem" \in raised

LEMMA SameCount == ASSUME NEW S PROVE Stores!Cardinality(S) = Cardinality(S)
BY DEF Cardinality, Stores!Cardinality

LEMMA LeastOf ==
  ASSUME NEW M, M \subseteq Nat, M # {} PROVE \E i \in M : \A j \in M : i <= j
<1> DEFINE R == OpToRel(<, Nat)
<1>1. \A i, j \in Nat : <<j, i>> \in R <=> j < i
  BY DEF OpToRel
<1>2. IsWellFoundedOn(R, Nat)
  BY NatLessThanWellFounded
<1> HIDE DEF R
<1>3. PICK i \in M : \A j \in M : <<j, i>> \notin R
  BY <1>2, WFMin
<1>4. ASSUME NEW j \in M PROVE i <= j
  <2>1. i \in Nat /\ j \in Nat /\ ~ (j < i)
    BY <1>1, <1>3
  <2> QED BY <2>1
<1> QED BY <1>4

\* A bounded set of numbers has a last one.
LEMMA GreatestOf ==
  ASSUME NEW n \in Nat, NEW M, M \subseteq 0 .. n, M # {}
  PROVE  \E i \in M : \A j \in M : j <= i
<1> DEFINE D == {n - i : i \in M}
<1>1. \A i \in M : i \in Nat /\ n - i \in Nat
  OBVIOUS
<1>2. D \subseteq Nat /\ D # {}
  BY <1>1
<1>3. PICK d \in D : \A e \in D : d <= e
  BY <1>2, LeastOf
<1>4. PICK i \in M : d = n - i
  OBVIOUS
<1>5. ASSUME NEW j \in M PROVE j <= i
  <2>1. n - i <= n - j
    BY <1>3, <1>4
  <2> QED BY <1>1, <2>1
<1> QED BY <1>5

\* The next approval row is later than every other.
LEMMA NowIsLater ==
  ASSUME ApprovalsMatch
  PROVE  Stores!Now \in Nat /\ \A e \in sql.events : e.at < Stores!Now
<1>1. PICK n \in Nat : \A e \in sql.events : e.at \in 0 .. n
  BY DEF ApprovalsMatch
<1>2. Stores!Times \subseteq 0 .. n /\ Stores!Times # {}
  BY <1>1 DEF Stores!Times
<1>3. PICK m \in Stores!Times : \A k \in Stores!Times : k <= m
  BY <1>2, GreatestOf
<1> DEFINE top == CHOOSE i \in Stores!Times : \A k \in Stores!Times : k <= i
<1>4. top \in Stores!Times /\ \A k \in Stores!Times : k <= top
  BY <1>3
<1>5. Stores!Now = 1 + top
  BY DEF Stores!Now
<1> HIDE DEF top
<1>6. \A e \in sql.events : e.at \in Stores!Times
  BY DEF Stores!Times
<1> QED
  <2>1. top \in Nat
    BY <1>2, <1>4
  <2>2. \A k \in Stores!Times : k \in Nat /\ k <= top
    BY <1>2, <1>4
  <2> QED BY <1>5, <1>6, <2>1, <2>2

LEMMA StoresInit == Stores!Init => StoresInv
<1> SUFFICES ASSUME Stores!Init PROVE StoresInv
  OBVIOUS
<1> USE DEF Stores!Init, Stores!MemEmpty, Stores!SqlEmpty, Stores!Empty
<1>1. TablesMatch
  BY DEF TablesMatch
<1>2. CallsCount
  BY FS_EmptySet DEF CallsCount
<1>3. RunsMatch
  BY DEF RunsMatch
<1>4. ApprovalsMatch
  BY DEF ApprovalsMatch
<1> QED BY <1>1, <1>2, <1>3, <1>4 DEF StoresInv

\* The run created last is the one with the last attempt number.
LEMMA LatestAgree ==
  ASSUME TablesMatch, RunsMatch, NEW k
  PROVE  /\ Stores!MemLatest(k) = {Plain(x) : x \in Stores!SelectLatestRun(k)}
         /\ \A x \in OfTask(k) : Stores!SelectLatestRun(k) # {}
         /\ \A x, y \in Stores!SelectLatestRun(k) : x = y
         /\ Stores!SelectLatestRun(k) \subseteq OfTask(k)
<1> DEFINE own == OfTask(k)
<1>1. Stores!SqlOf(k) = own
  BY DEF Stores!SqlOf, OfTask
<1>2. Stores!SelectLatestRun(k) = {x \in own : \A y \in own : y.attempt <= x.attempt}
  BY <1>1 DEF Stores!SelectLatestRun, Stores!AttemptNos
<1>3. Stores!MemOf(k) = {Plain(x) : x \in own}
  BY DEF Stores!MemOf, RunsMatch, OfTask, Plain
<1>4. Stores!MemLatest(k) = {x \in {Plain(z) : z \in own} :
                               \A y \in {Plain(z) : z \in own} : y.id <= x.id}
  BY <1>3 DEF Stores!MemLatest
<1>5. \A x, y \in own : /\ x.id \in Nat /\ y.id \in Nat /\ x.attempt \in Nat /\ y.attempt \in Nat
                        /\ (x.id = y.id => x = y)
                        /\ (x.id < y.id => x.attempt < y.attempt)
                        /\ x.task = k
  BY DEF RunsMatch, OfTask
<1>6. \A x \in own : \E y \in own : \A z \in own : z.attempt <= y.attempt
  BY <1>5 DEF RunsMatch, OfTask
<1>7. \A x, y \in own : y.attempt <= x.attempt <=> y.id <= x.id
  <2> SUFFICES ASSUME NEW x \in own, NEW y \in own PROVE y.attempt <= x.attempt <=> y.id <= x.id
    OBVIOUS
  <2>1. CASE x.id = y.id
    BY <1>5, <2>1
  <2>2. CASE x.id < y.id
    BY <1>5, <2>2
  <2>3. CASE y.id < x.id
    BY <1>5, <2>3
  <2> QED BY <1>5, <2>1, <2>2, <2>3
<1>8. \A x \in own : Plain(x).id = x.id
  BY DEF Plain
<1> HIDE DEF own
<1>9. Stores!MemLatest(k) = {Plain(x) : x \in Stores!SelectLatestRun(k)}
  BY <1>2, <1>4, <1>7, <1>8
<1>10. \A x, y \in Stores!SelectLatestRun(k) : x = y
  <2> SUFFICES ASSUME NEW x \in own, NEW y \in own, x.attempt <= y.attempt, y.attempt <= x.attempt
               PROVE  x = y
    BY <1>2
  <2>1. x.id <= y.id /\ y.id <= x.id
    BY <1>7
  <2> QED BY <1>5, <2>1
<1>11. \A x \in own : Stores!SelectLatestRun(k) # {}
  BY <1>2, <1>6
<1> QED BY <1>2, <1>9, <1>10, <1>11 DEF own

\* The last row of each request is its state.
LEMMA StatesAgree ==
  ASSUME ApprovalsMatch
  PROVE  /\ DOMAIN Stores!SelectApprovalStates = DOMAIN mem.approvals
         /\ \A q \in DOMAIN mem.approvals : Stores!SelectApprovalStates[q] = mem.approvals[q]
<1>1. DOMAIN Stores!SelectApprovalStates = DOMAIN mem.approvals
  BY DEF Stores!SelectApprovalStates, ApprovalsMatch
<1>2. ASSUME NEW q \in DOMAIN mem.approvals PROVE Stores!SelectApprovalStates[q] = mem.approvals[q]
  <2> DEFINE own == {e \in sql.events : e.request = q}
             newest == CHOOSE e \in own : \A f \in own : f.at <= e.at
  <2>1. own # {} /\ \A e \in own : e \in sql.events /\ e.at \in Nat /\ e.request = q
    BY <1>2 DEF ApprovalsMatch
  <2>2. PICK n \in Nat : \A e \in sql.events : e.at <= n
    BY DEF ApprovalsMatch
  <2>3. {e.at : e \in own} \subseteq 0 .. n /\ {e.at : e \in own} # {}
    BY <2>1, <2>2
  <2>4. PICK m \in {e.at : e \in own} : \A j \in {e.at : e \in own} : j <= m
    BY <2>3, GreatestOf
  <2>5. newest \in own /\ \A f \in own : f.at <= newest.at
    BY <2>4
  <2>6. Stores!SelectApprovalStates[q] = newest.answer
    BY <1>2 DEF Stores!SelectApprovalStates, Stores!RowsOf, ApprovalsMatch
  <2>7. mem.approvals[newest.request] = newest.answer /\ newest.request = q
    <3> HIDE DEF newest
    <3> QED BY <2>1, <2>5 DEF ApprovalsMatch
  <2> QED BY <2>6, <2>7
<1> QED BY <1>1, <1>2

\* Reading None as zero changes that number and nothing else.
LEMMA ReadAsZero ==
  ASSUME NEW a, NEW b, NEW c, NEW t
  PROVE  Stores!NoneAsZero([llm |-> a, tools |-> b, ok |-> c, tokens |-> t])
         = [llm |-> a, tools |-> b, ok |-> c, tokens |-> IF t = {} THEN {0} ELSE t]
BY DEF Stores!NoneAsZero

\* Same rows, same answers.
LEMMA AnswersAgree == StoresInv /\ FailuresMatch => StoresAgree
<1> SUFFICES ASSUME StoresInv, FailuresMatch PROVE StoresAgree
  OBVIOUS
<1>0. TablesMatch /\ CallsCount /\ RunsMatch /\ ApprovalsMatch
  BY DEF StoresInv
<1>1. Stores!MemThreads = Stores!SelectThreads
  BY <1>0 DEF TablesMatch, Stores!MemThreads, Stores!SelectThreads
<1>2. \A k : {x.status : x \in Stores!MemLatest(k)} = {x.status : x \in Stores!SelectLatestRun(k)}
  <2> SUFFICES ASSUME NEW k PROVE {x.status : x \in Stores!MemLatest(k)}
                                  = {x.status : x \in Stores!SelectLatestRun(k)}
    OBVIOUS
  <2>1. Stores!MemLatest(k) = {Plain(x) : x \in Stores!SelectLatestRun(k)}
    BY <1>0, LatestAgree
  <2>2. \A x : Plain(x).status = x.status
    BY DEF Plain
  <2> QED BY <2>1, <2>2
<1>3. \A k : {x.id : x \in Stores!MemLatest(k)} = {x.id : x \in Stores!SelectLatestRun(k)}
  <2> SUFFICES ASSUME NEW k PROVE {x.id : x \in Stores!MemLatest(k)}
                                  = {x.id : x \in Stores!SelectLatestRun(k)}
    OBVIOUS
  <2>1. Stores!MemLatest(k) = {Plain(x) : x \in Stores!SelectLatestRun(k)}
    BY <1>0, LatestAgree
  <2>2. \A x : Plain(x).id = x.id
    BY DEF Plain
  <2> QED BY <2>1, <2>2
<1>4. ASSUME NEW t \in Thread PROVE Stores!MemTasks(t) = Stores!SelectTasksByThread(t)
  BY <1>0, <1>2 DEF TablesMatch, Stores!MemTasks, Stores!SelectTasksByThread
<1>5. Stores!MemOpenRuns = Stores!SelectOpenRuns
  <2>1. mem.runs = {Plain(x) : x \in sql.runs}
    BY <1>0 DEF RunsMatch
  <2>2. \A x : Plain(x).task = x.task /\ Plain(x).id = x.id /\ Plain(x).status = x.status
    BY DEF Plain
  <2>3. {y \in mem.runs : y.status \in Stores!Open}
        = {Plain(x) : x \in {y \in sql.runs : y.status \in Stores!Open}}
    BY <2>1, <2>2
  <2> QED BY <2>2, <2>3 DEF Stores!MemOpenRuns, Stores!SelectOpenRuns
<1>6. /\ Stores!MemPending = Stores!SqlPending
      /\ \A q \in Approval : Stores!MemState(q) = Stores!SqlState(q)
  BY <1>0, StatesAgree DEF Stores!MemPending, Stores!SqlPending, Stores!MemState, Stores!SqlState
<1>7. ASSUME NEW r \in 1 .. ids - 1, Stores!MemHas(r)
      PROVE  Stores!MemMetrics(r) = Stores!NoneAsZero(Stores!RunMetrics(r))
  <2> DEFINE asked == {c \in mem.llm : c.run = r}
             known == Stores!Cardinality({c \in asked : c.usage = "known"})
             part == Stores!Cardinality({c \in asked : c.usage = "partial"})
             ran == {c \in mem.tools : c.run = r}
  <2>1. {c \in asked : c.usage = "partial"} = {}
    BY <1>0 DEF CallsCount
  <2>2. part = 0
    BY <2>1, SameCount, FS_EmptySet
  <2>3. known \in Nat
    <3>1. IsFiniteSet({c \in asked : c.usage = "known"})
      BY <1>0, FS_Subset DEF CallsCount
    <3> QED BY <3>1, SameCount, FS_CardinalityType
  <2> DEFINE all == Stores!Cardinality(asked)
             uses == Stores!Cardinality(ran)
             well == Stores!Cardinality({c \in ran : c.ok})
             read == IF known = 0 THEN {} ELSE {2 * known}
  <2>4. Stores!MemMetrics(r)
        = [llm |-> all, tools |-> uses, ok |-> well, tokens |-> {2 * known + part}]
    BY DEF Stores!MemMetrics
  <2>5. Stores!RunMetrics(r) = [llm |-> all, tools |-> uses, ok |-> well, tokens |-> read]
    BY <1>0 DEF TablesMatch, Stores!RunMetrics
  <2>6. (IF read = {} THEN {0} ELSE read) = {2 * known + part}
    <3> HIDE DEF known, part
    <3>1. {2 * known} # {}
      OBVIOUS
    <3>2. 2 * known + part = 2 * known /\ (known = 0 => 2 * known = 0)
      BY <2>2, <2>3
    <3> QED BY <3>1, <3>2
  <2> HIDE DEF all, uses, well, read, known, part
  <2>7. Stores!NoneAsZero([llm |-> all, tools |-> uses, ok |-> well, tokens |-> read])
        = [llm |-> all, tools |-> uses, ok |-> well, tokens |-> IF read = {} THEN {0} ELSE read]
    BY ReadAsZero
  <2> QED BY <2>4, <2>5, <2>6, <2>7
<1> QED
  BY <1>0, <1>1, <1>3, <1>4, <1>5, <1>6, <1>7
     DEF TablesMatch, FailuresMatch, StoresAgree, Stores!StoresAgree

\* A new run has the next id and the next number of its task.
LEMMA RunCreated ==
  ASSUME TablesMatch, RunsMatch, NEW k \in Task, Stores!CreateRun(k)
  PROVE  TablesMatch' /\ RunsMatch'
<1> DEFINE n == IF OfTask(k) = {} THEN 0
                ELSE CHOOSE n \in Stores!AttemptNos(k) : \A m \in Stores!AttemptNos(k) : m <= n
           new == [id |-> ids, task |-> k, status |-> "created", attempt |-> 1 + n]
<1>1. /\ mem' = [mem EXCEPT !.runs = @ \cup {[id |-> ids, task |-> k, status |-> "created"]}]
      /\ sql' = [sql EXCEPT !.runs = @ \cup {new}] /\ ids' = ids + 1
  BY DEF Stores!CreateRun, Stores!MemCreateRun, Stores!InsertRun, Stores!SqlOf, OfTask
<1>2. n \in Nat /\ \A x \in OfTask(k) : x.attempt <= n
  <2>1. Stores!AttemptNos(k) = {x.attempt : x \in OfTask(k)}
    BY DEF Stores!AttemptNos, Stores!SqlOf, OfTask
  <2>2. CASE OfTask(k) = {}
    BY <2>2
  <2>3. CASE OfTask(k) # {}
    <3>1. PICK y \in OfTask(k) : \A z \in OfTask(k) : z.attempt <= y.attempt
      BY <2>3 DEF RunsMatch, OfTask
    <3>2. \E i \in Stores!AttemptNos(k) : \A m \in Stores!AttemptNos(k) : m <= i
      BY <2>1, <3>1
    <3>3. n \in Stores!AttemptNos(k) /\ \A m \in Stores!AttemptNos(k) : m <= n
      BY <2>3, <3>2
    <3>4. \A x \in OfTask(k) : x.attempt \in Nat
      BY DEF RunsMatch, OfTask
    <3> HIDE DEF n
    <3> QED BY <2>1, <3>3, <3>4
  <2> QED BY <2>2, <2>3
<1> HIDE DEF n
<1>3. TablesMatch'
  BY <1>1 DEF TablesMatch
<1>4. sql.runs' = sql.runs \cup {new} /\ ids' = ids + 1
      /\ mem.runs' = mem.runs \cup {[id |-> ids, task |-> k, status |-> "created"]}
  BY <1>1 DEF TablesMatch
<1>5. /\ new.id = ids /\ new.task = k /\ new.attempt = 1 + n
      /\ Plain(new) = [id |-> ids, task |-> k, status |-> "created"]
      /\ new \in [id : Nat, task : Task, status : {"created", "running", "completed"},
                  attempt : Nat]
  BY <1>2 DEF Plain, RunsMatch
<1> HIDE DEF new
<1>6. /\ ids \in Nat /\ \A x \in sql.runs : x.id < ids /\ x.id \in Nat /\ x.attempt \in Nat
      /\ \A x \in sql.runs : x.task = k => x.attempt <= n
  BY <1>2 DEF RunsMatch, OfTask
<1>7. \A x \in sql.runs' : x.id < ids'
  BY <1>4, <1>5, <1>6
<1>8. \A x, y \in sql.runs' : x.id = y.id => x = y
  BY <1>4, <1>5, <1>6 DEF RunsMatch
<1>9. \A x, y \in sql.runs' : x.task = y.task /\ x.id < y.id => x.attempt < y.attempt
  BY <1>2, <1>4, <1>5, <1>6 DEF RunsMatch
<1>10. ASSUME NEW x \in sql.runs'
       PROVE  \E y \in OfTask(x.task)' : \A z \in OfTask(x.task)' : z.attempt <= y.attempt
  <2>1. CASE x.task = k
    <3>1. new \in OfTask(x.task)' /\ \A z \in OfTask(x.task)' : z.attempt <= new.attempt
      BY <1>2, <1>4, <1>5, <1>6, <2>1 DEF OfTask
    <3> QED BY <3>1
  <2>2. CASE x.task # k
    <3>1. x \in sql.runs /\ OfTask(x.task)' = OfTask(x.task)
      BY <1>4, <1>5, <2>2 DEF OfTask
    <3> QED BY <3>1 DEF RunsMatch
  <2> QED BY <2>1, <2>2
<1>11. mem.runs' = {Plain(x) : x \in sql.runs'}
  BY <1>4, <1>5 DEF RunsMatch
<1> QED BY <1>3, <1>4, <1>5, <1>6, <1>7, <1>8, <1>9, <1>10, <1>11 DEF RunsMatch

\* A status that is written changes no number.
LEMMA RunPut ==
  ASSUME TablesMatch, RunsMatch, NEW r, NEW s \in {"running", "completed"},
         mem' = Stores!MemPut(r, s), sql' = Stores!UpdateRun(r, s), ids' = ids
  PROVE  TablesMatch' /\ RunsMatch'
<1> DEFINE put(x) == IF x.id = r THEN [x EXCEPT !.status = s] ELSE x
<1>1. TablesMatch'
  BY DEF TablesMatch, Stores!MemPut, Stores!UpdateRun
<1>2. sql.runs' = {put(x) : x \in sql.runs}
  BY DEF TablesMatch, Stores!UpdateRun
<1>3. mem.runs' = {put(x) : x \in mem.runs}
  BY DEF TablesMatch, Stores!MemPut
<1>4. ASSUME NEW x \in sql.runs
      PROVE  /\ put(x).id = x.id /\ put(x).task = x.task /\ put(x).attempt = x.attempt
             /\ put(x) \in [id : Nat, task : Task, status : {"created", "running", "completed"},
                            attempt : Nat]
             /\ put(Plain(x)) = Plain(put(x))
             /\ x.id \in Nat /\ x.attempt \in Nat
  <2>1. x \in [id : Nat, task : Task, status : {"created", "running", "completed"}, attempt : Nat]
    BY DEF RunsMatch
  <2> QED BY <2>1 DEF Plain
<1> HIDE DEF put
<1>5. mem.runs' = {Plain(x) : x \in sql.runs'}
  <2>1. mem.runs' = {put(Plain(x)) : x \in sql.runs}
    BY <1>3 DEF RunsMatch
  <2>2. mem.runs' = {Plain(put(x)) : x \in sql.runs}
    BY <1>4, <2>1
  <2> QED BY <1>2, <2>2
<1>6. \A x, y \in sql.runs' : x.id = y.id => x = y
  BY <1>2, <1>4 DEF RunsMatch
<1>11. \A x, y \in sql.runs' : x.task = y.task /\ x.id < y.id => x.attempt < y.attempt
  BY <1>2, <1>4 DEF RunsMatch
<1>7. ASSUME NEW x \in sql.runs
      PROVE  \E y \in OfTask(x.task)' : \A z \in OfTask(x.task)' : z.attempt <= y.attempt
  <2>1. OfTask(x.task)' = {put(y) : y \in OfTask(x.task)}
    BY <1>2, <1>4 DEF OfTask
  <2>2. PICK y \in OfTask(x.task) : \A z \in OfTask(x.task) : z.attempt <= y.attempt
    BY DEF RunsMatch
  <2>3. \A z \in OfTask(x.task) : put(z).attempt = z.attempt
    BY <1>4 DEF OfTask
  <2> QED BY <2>1, <2>2, <2>3
<1>8. ids' \in Nat /\ \A x \in sql.runs' : x.id < ids'
  BY <1>2, <1>4 DEF RunsMatch
<1>9. sql.runs' \subseteq [id : Nat, task : Task, status : {"created", "running", "completed"},
                          attempt : Nat]
  BY <1>2, <1>4
<1>10. \A x \in sql.runs' :
         \E y \in OfTask(x.task)' : \A z \in OfTask(x.task)' : z.attempt <= y.attempt
  <2> SUFFICES ASSUME NEW w \in sql.runs
               PROVE  \E y \in OfTask(put(w).task)' :
                        \A z \in OfTask(put(w).task)' : z.attempt <= y.attempt
    BY <1>2
  <2> QED BY <1>4, <1>7 DEF OfTask
<1> QED BY <1>1, <1>5, <1>6, <1>8, <1>9, <1>10, <1>11 DEF RunsMatch


\* A thread takes its runs, their calls and the approvals of its tasks with it.
LEMMA ThreadDeleted ==
  ASSUME Stores!Setting, StoresInv, NEW t \in Thread, Stores!DeleteThread(t)
  PROVE  StoresInv'
<1> DEFINE T == Stores!TasksIn(t)
           gone == {x.id : x \in {y \in sql.runs : y.task \in T}}
<1>0. TablesMatch /\ CallsCount /\ RunsMatch /\ ApprovalsMatch
  BY DEF StoresInv
<1>1. sql' = [Stores!DeleteThreadTasks(Stores!DeleteThreadRuns(
                Stores!DeleteThreadEvents(sql, gone), gone), t)
              EXCEPT !.threads = Stores!Without(@, {t})]
      /\ ids' = ids
  <2>1. gone \cap sql.evaluated = {}
    BY DEF Stores!Setting, Stores!DeleteThread
  <2> HIDE DEF gone
  <2>2. sql' = Stores!SqlDeleteThread(t) /\ ids' = ids
    BY DEF Stores!DeleteThread, Stores!Kept
  <2> USE DEF gone
  <2> QED BY <2>1, <2>2 DEF Stores!SqlDeleteThread
<1>2. {x.id : x \in {y \in mem.runs : y.task \in T}} = gone
  <2>1. \A x : Plain(x).task = x.task /\ Plain(x).id = x.id
    BY DEF Plain
  <2> QED BY <1>0, <2>1 DEF RunsMatch
<1>3. mem' = [mem EXCEPT !.threads = Stores!Without(@, {t}), !.tasks = Stores!Without(@, T),
                !.status = Stores!Dropping(@, T),
                !.runs = @ \ {x \in mem.runs : x.task \in T},
                !.approvals = Stores!Dropping(@, {q \in Approval : AskedBy[q] \in T}),
                !.llm = Stores!NotOf(@, gone), !.tools = Stores!NotOf(@, gone)]
  BY <1>2 DEF Stores!DeleteThread, Stores!MemDeleteThread
<1>4. TablesMatch'
  <2> HIDE DEF gone
  <2> QED BY <1>0, <1>1, <1>3 DEF TablesMatch, Stores!DeleteThreadTasks, Stores!DeleteThreadRuns,
        Stores!DeleteThreadEvents
<1>5. /\ sql.runs' = {x \in sql.runs : x.id \notin gone}
      /\ sql.events' = {e \in sql.events : e.run \notin gone}
      /\ mem.runs' = {x \in mem.runs : x.task \notin T}
      /\ mem.approvals' = [q \in DOMAIN mem.approvals \ {q \in Approval : AskedBy[q] \in T}
                            |-> mem.approvals[q]]
      /\ mem.llm' \subseteq mem.llm
  <2> HIDE DEF gone
  <2> QED BY <1>0, <1>1, <1>3 DEF TablesMatch, Stores!DeleteThreadTasks, Stores!DeleteThreadRuns,
        Stores!DeleteThreadEvents, Stores!NotOf, Stores!Dropping
<1>6. CallsCount'
  BY <1>0, <1>5, FS_Subset DEF CallsCount
<1>7. sql.runs' = {x \in sql.runs : x.task \notin T}
  BY <1>0, <1>5 DEF RunsMatch
<1> HIDE DEF T, gone
<1>8. mem.runs' = {Plain(x) : x \in sql.runs'}
  <2>1. \A x : Plain(x).task = x.task
    BY DEF Plain
  <2> QED BY <1>0, <1>5, <1>7, <2>1 DEF RunsMatch
<1>9. \A x \in sql.runs' : OfTask(x.task)' = OfTask(x.task)
  BY <1>7 DEF OfTask
<1>10. RunsMatch'
  <2>1. sql.runs' \subseteq sql.runs
    BY <1>7
  <2>2. \A x \in sql.runs' :
          \E y \in OfTask(x.task)' : \A z \in OfTask(x.task)' : z.attempt <= y.attempt
    <3> SUFFICES ASSUME NEW x \in sql.runs'
                 PROVE  \E y \in OfTask(x.task)' : \A z \in OfTask(x.task)' : z.attempt <= y.attempt
      OBVIOUS
    <3> QED BY <1>0, <1>9, <2>1 DEF RunsMatch
  <2> QED BY <1>0, <1>1, <1>8, <2>1, <2>2 DEF RunsMatch
<1>11. \A e \in sql.events : e \in sql.events' <=> AskedBy[e.request] \notin T
  <2> SUFFICES ASSUME NEW e \in sql.events
               PROVE  e \in sql.events' <=> AskedBy[e.request] \notin T
    OBVIOUS
  <2>1. PICK x \in sql.runs : x.id = e.run /\ x.task = AskedBy[e.request]
    BY <1>0 DEF ApprovalsMatch, OfTask
  <2>2. x.id \in gone <=> x.task \in T
    BY <1>0 DEF gone, RunsMatch
  <2> QED BY <1>5, <2>1, <2>2
<1>12. ApprovalsMatch'
  <2>1. sql.events' \subseteq sql.events
    BY <1>5
  <2>2. \A e \in sql.events' : \A f \in sql.events : f.request = e.request => f \in sql.events'
    BY <1>11, <2>1
  <2>3. \A e \in sql.events' : \E x \in OfTask(AskedBy[e.request])' : x.id = e.run
    <3> SUFFICES ASSUME NEW e \in sql.events'
                 PROVE  \E x \in OfTask(AskedBy[e.request])' : x.id = e.run
      OBVIOUS
    <3>1. PICK x \in OfTask(AskedBy[e.request]) : x.id = e.run
      BY <1>0, <2>1 DEF ApprovalsMatch
    <3>2. AskedBy[e.request] \notin T
      BY <1>11, <2>1
    <3> QED BY <1>7, <3>1, <3>2 DEF OfTask
  <2>4. \A e \in sql.events : e.request \in Approval
    BY <1>0 DEF ApprovalsMatch
  <2>5. DOMAIN mem.approvals' = {e.request : e \in sql.events'}
        /\ \A q \in DOMAIN mem.approvals' : mem.approvals'[q] = mem.approvals[q]
    BY <1>0, <1>5, <1>11, <2>1, <2>4 DEF ApprovalsMatch
  <2>6. \A e \in sql.events' :
          (\A f \in sql.events' : f.request = e.request => f.at <= e.at)
            => mem.approvals'[e.request] = e.answer
    BY <1>0, <2>1, <2>2, <2>5 DEF ApprovalsMatch
  <2>7. \E n \in Nat : \A e \in sql.events' : e.at <= n
    BY <1>0, <2>1 DEF ApprovalsMatch
  <2> QED BY <1>0, <2>1, <2>3, <2>5, <2>6, <2>7 DEF ApprovalsMatch
<1> QED BY <1>4, <1>6, <1>10, <1>12 DEF StoresInv

\* A row of an approval for the latest run of its task, and its entry in memory.
LEMMA RowAdded ==
  ASSUME StoresInv, NEW q \in Approval, NEW answer \in {"open", "yes", "no"},
         OfTask(AskedBy[q]) # {}, sql' = Stores!SqlSaveApproval(q, answer),
         DOMAIN mem' = DOMAIN mem, \A f \in DOMAIN mem \ {"approvals"} : mem'[f] = mem[f],
         DOMAIN mem.approvals' = DOMAIN mem.approvals \cup {q},
         \A p \in DOMAIN mem.approvals : p # q => mem.approvals'[p] = mem.approvals[p],
         mem.approvals'[q] = answer, ids' = ids
  PROVE  StoresInv'
<1> DEFINE run == CHOOSE x \in Stores!SelectLatestRun(AskedBy[q]) : TRUE
           new == [at |-> Stores!Now, run |-> run.id, request |-> q, answer |-> answer]
<1>0. TablesMatch /\ CallsCount /\ RunsMatch /\ ApprovalsMatch
  BY DEF StoresInv
<1>1. run \in OfTask(AskedBy[q])
  <2>1. Stores!SelectLatestRun(AskedBy[q]) # {}
        /\ Stores!SelectLatestRun(AskedBy[q]) \subseteq OfTask(AskedBy[q])
    BY <1>0, LatestAgree
  <2> QED BY <2>1
<1>2. sql' = [sql EXCEPT !.events = @ \cup {new}]
  BY DEF Stores!SqlSaveApproval, Stores!SqlOf, OfTask, Stores!InsertApprovalEvent
<1>3. Stores!Now \in Nat /\ \A e \in sql.events : e.at < Stores!Now
  BY <1>0, NowIsLater
<1>4. /\ new.at = Stores!Now /\ new.request = q /\ new.answer = answer /\ new.run = run.id
      /\ new \in [at : Nat, run : Nat, request : Approval, answer : {"open", "yes", "no"}]
  <2>1. run.id \in Nat
    BY <1>0, <1>1 DEF RunsMatch, OfTask
  <2> HIDE DEF run
  <2> QED BY <1>3, <2>1
<1> HIDE DEF run, new
<1>5. TablesMatch' /\ CallsCount' /\ RunsMatch'
  <2>1. /\ \A f \in {"threads", "tasks", "status", "runs", "llm", "tools"} :
             mem'[f] = mem[f] /\ sql'[f] = sql[f]
        /\ DOMAIN sql' = DOMAIN sql
    BY <1>0, <1>2 DEF TablesMatch
  <2>2. /\ mem.threads' = mem.threads /\ mem.tasks' = mem.tasks /\ mem.status' = mem.status
        /\ mem.runs' = mem.runs /\ mem.llm' = mem.llm /\ mem.tools' = mem.tools
        /\ sql.threads' = sql.threads /\ sql.tasks' = sql.tasks /\ sql.status' = sql.status
        /\ sql.runs' = sql.runs /\ sql.llm' = sql.llm /\ sql.tools' = sql.tools
    BY <2>1
  <2>3. TablesMatch'
    BY <1>0, <2>1, <2>2 DEF TablesMatch
  <2>4. CallsCount' /\ RunsMatch'
    BY <1>0, <2>2 DEF CallsCount, RunsMatch, OfTask
  <2> QED BY <2>3, <2>4
<1>6. ApprovalsMatch'
  <2>1. sql.events' = sql.events \cup {new} /\ sql.runs' = sql.runs
    BY <1>0, <1>2 DEF TablesMatch
  <2>2. \A e \in sql.events : e.at \in Nat /\ e.at < new.at
    BY <1>0, <1>3, <1>4 DEF ApprovalsMatch
  <2>3. \A e, f \in sql.events' : e.at = f.at => e = f
    BY <1>0, <1>3, <1>4, <2>1, <2>2 DEF ApprovalsMatch
  <2>4. new.at \in Nat /\ \A e \in sql.events' : e.at <= new.at
    BY <1>3, <1>4, <2>1, <2>2
  <2>5. \A e \in sql.events' : \E x \in OfTask(AskedBy[e.request])' : x.id = e.run
    BY <1>0, <1>1, <1>4, <2>1 DEF ApprovalsMatch, OfTask
  <2>6. DOMAIN mem.approvals' = {e.request : e \in sql.events'}
    BY <1>0, <1>4, <2>1 DEF ApprovalsMatch
  <2>7. ASSUME NEW e \in sql.events', \A f \in sql.events' : f.request = e.request => f.at <= e.at
        PROVE  mem.approvals'[e.request] = e.answer
    <3>1. CASE e = new
      BY <1>4, <3>1
    <3>2. CASE e # new
      <4>1. e \in sql.events /\ e.request # q
        BY <1>4, <2>1, <2>2, <2>7, <3>2, <1>3
      <4>2. e.request \in DOMAIN mem.approvals
        BY <1>0, <4>1 DEF ApprovalsMatch
      <4> QED BY <1>0, <2>1, <2>7, <4>1, <4>2 DEF ApprovalsMatch
    <3> QED BY <3>1, <3>2
  <2>8. sql.events' \subseteq [at : Nat, run : Nat, request : Approval,
                              answer : {"open", "yes", "no"}]
    BY <1>0, <1>4, <2>1 DEF ApprovalsMatch
  <2> QED BY <2>3, <2>4, <2>5, <2>6, <2>7, <2>8 DEF ApprovalsMatch
<1> QED BY <1>5, <1>6 DEF StoresInv


\* What an entry says is an answer, or that there is none yet.
LEMMA StateIsAnswer ==
  ASSUME ApprovalsMatch, NEW q \in DOMAIN mem.approvals
  PROVE  mem.approvals[q] \in {"open", "yes", "no"}
<1> DEFINE own == {e \in sql.events : e.request = q}
<1>1. own # {} /\ \A e \in own : e \in sql.events /\ e.at \in Nat /\ e.request = q
  BY DEF ApprovalsMatch
<1>2. PICK n \in Nat : \A e \in sql.events : e.at <= n
  BY DEF ApprovalsMatch
<1>3. {e.at : e \in own} \subseteq 0 .. n /\ {e.at : e \in own} # {}
  BY <1>1, <1>2
<1>4. PICK m \in {e.at : e \in own} : \A j \in {e.at : e \in own} : j <= m
  BY <1>3, GreatestOf
<1>5. PICK e \in own : \A f \in own : f.at <= e.at
  BY <1>4
<1> QED BY <1>1, <1>5 DEF ApprovalsMatch

\* A new entry, or a new answer in one, with its row.
LEMMA EntryMade ==
  ASSUME StoresInv, NEW q \in Approval, NEW answer \in {"open", "yes", "no"},
         OfTask(AskedBy[q]) # {}, sql' = Stores!SqlSaveApproval(q, answer),
         mem' = [mem EXCEPT !.approvals = Stores!With(@, q, answer)], ids' = ids
  PROVE  StoresInv'
<1>1. "approvals" \in DOMAIN mem
  BY DEF StoresInv, TablesMatch
<1>2. /\ DOMAIN mem' = DOMAIN mem /\ \A f \in DOMAIN mem \ {"approvals"} : mem'[f] = mem[f]
      /\ mem.approvals' = Stores!With(mem.approvals, q, answer)
  BY <1>1
<1>3. /\ DOMAIN mem.approvals' = DOMAIN mem.approvals \cup {q}
      /\ \A p \in DOMAIN mem.approvals : p # q => mem.approvals'[p] = mem.approvals[p]
      /\ mem.approvals'[q] = answer
  BY <1>2 DEF Stores!With
<1> QED BY <1>2, <1>3, RowAdded

\* No call makes a difference between the stores, one step for each.
LEMMA StoresStep == Stores!Setting /\ StoresInv /\ [Stores!Next]_Stores!vars => StoresInv'
<1> SUFFICES ASSUME Stores!Setting, StoresInv, [Stores!Next]_Stores!vars PROVE StoresInv'
  OBVIOUS
<1>0. TablesMatch /\ CallsCount /\ RunsMatch /\ ApprovalsMatch
  BY DEF StoresInv
<1>a. \A r : Stores!MemHas(r) <=> \E x \in sql.runs : x.id = r
  <2>1. \A x : Plain(x).id = x.id
    BY DEF Plain
  <2> QED BY <1>0, <2>1 DEF RunsMatch, Stores!MemHas
\* Calls that leave runs and approvals alone.
<1>b. ASSUME mem.runs' = mem.runs, sql.runs' = sql.runs, mem.approvals' = mem.approvals,
             sql.events' = sql.events, ids' = ids
      PROVE  RunsMatch' /\ ApprovalsMatch'
  <2>1. \A k : OfTask(k)' = OfTask(k)
    BY <1>b DEF OfTask
  <2>2. RunsMatch'
    BY <1>0, <1>b, <2>1 DEF RunsMatch
  <2>3. ApprovalsMatch'
    BY <1>0, <1>b, <2>1 DEF ApprovalsMatch
  <2> QED BY <2>2, <2>3
\* Calls on runs that leave approvals alone.
<1>c. ASSUME mem.approvals' = mem.approvals, sql.events' = sql.events,
             \A x \in sql.runs : \E y \in sql.runs' : y.id = x.id /\ y.task = x.task
      PROVE  ApprovalsMatch'
  <2>1. \A e \in sql.events : \E x \in OfTask(AskedBy[e.request])' : x.id = e.run
    <3> SUFFICES ASSUME NEW e \in sql.events
                 PROVE  \E x \in OfTask(AskedBy[e.request])' : x.id = e.run
      OBVIOUS
    <3>1. PICK x \in sql.runs : x.id = e.run /\ x.task = AskedBy[e.request]
      BY <1>0 DEF ApprovalsMatch, OfTask
    <3>2. PICK y \in sql.runs' : y.id = x.id /\ y.task = x.task
      BY <1>c
    <3> QED BY <3>1, <3>2 DEF OfTask
  <2> QED BY <1>0, <1>c, <2>1 DEF ApprovalsMatch
<1>1. ASSUME NEW t \in Thread, Stores!CreateThread(t) PROVE StoresInv'
  <2>1. /\ mem' = [mem EXCEPT !.threads = <<t>> \o @]
        /\ sql' = [sql EXCEPT !.threads = <<t>> \o @] /\ ids' = ids
    BY <1>0, <1>1 DEF Stores!CreateThread, Stores!MemCreateThread, Stores!UpsertThread,
                      Stores!Touched, Stores!Kept, TablesMatch
  <2>2. TablesMatch' /\ CallsCount'
    BY <1>0, <2>1 DEF TablesMatch, CallsCount
  <2>3. RunsMatch' /\ ApprovalsMatch'
    BY <1>0, <1>b, <2>1 DEF TablesMatch
  <2> QED BY <2>2, <2>3 DEF StoresInv
<1>2. ASSUME NEW t \in Thread, Stores!DeleteThread(t) PROVE StoresInv'
  BY <1>2, ThreadDeleted
<1>3. ASSUME NEW k \in Task, Stores!SaveTask(k) PROVE StoresInv'
  <2>1. /\ mem' = [mem EXCEPT !.threads = Stores!Touched(@, ThreadOf[k]),
                     !.tasks = Stores!Append(@, k), !.status = Stores!With(@, k, "planning")]
        /\ sql' = [[sql EXCEPT !.threads = Stores!Touched(@, ThreadOf[k])]
                   EXCEPT !.tasks = Stores!Append(@, k), !.status = Stores!With(@, k, "planning")]
        /\ ids' = ids
    BY <1>3 DEF Stores!SaveTask, Stores!MemSaveTask, Stores!SqlSaveTask, Stores!InsertTask,
                Stores!UpsertThread, Stores!Kept
  <2>2. TablesMatch' /\ CallsCount'
    BY <1>0, <2>1 DEF TablesMatch, CallsCount
  <2>3. RunsMatch' /\ ApprovalsMatch'
    BY <1>0, <1>b, <2>1 DEF TablesMatch
  <2> QED BY <2>2, <2>3 DEF StoresInv
<1>4. ASSUME NEW k \in Task, Stores!CreateRun(k) PROVE StoresInv'
  <2>1. TablesMatch' /\ RunsMatch'
    BY <1>0, <1>4, RunCreated
  <2>2. /\ mem.llm' = mem.llm /\ mem.approvals' = mem.approvals /\ sql.events' = sql.events
        /\ sql.runs \subseteq sql.runs'
    BY <1>0, <1>4 DEF TablesMatch, Stores!CreateRun, Stores!MemCreateRun, Stores!InsertRun
  <2>3. CallsCount'
    BY <1>0, <2>2 DEF CallsCount
  <2>4. ApprovalsMatch'
    BY <1>c, <2>2
  <2> QED BY <2>1, <2>3, <2>4 DEF StoresInv
<1>5. ASSUME NEW k \in Task, NEW s \in Stores!Final, Stores!SettleTask(k, s) PROVE StoresInv'
  <2>1. /\ mem' = [mem EXCEPT !.status = Stores!With(@, k, s)]
        /\ sql' = [sql EXCEPT !.status = Stores!With(@, k, s)] /\ ids' = ids
    BY <1>0, <1>5 DEF Stores!SettleTask, Stores!MemUpdateTaskStatus, Stores!UpdateTaskStatus,
                      Stores!Kept, TablesMatch
  <2>2. TablesMatch' /\ CallsCount'
    BY <1>0, <2>1 DEF TablesMatch, CallsCount
  <2>3. RunsMatch' /\ ApprovalsMatch'
    BY <1>0, <1>b, <2>1 DEF TablesMatch
  <2> QED BY <2>2, <2>3 DEF StoresInv
<1>6. ASSUME NEW r, NEW s \in {"running", "completed"},
             mem' = Stores!MemPut(r, s), sql' = Stores!UpdateRun(r, s), ids' = ids
      PROVE  StoresInv'
  <2>1. TablesMatch' /\ RunsMatch'
    BY <1>0, <1>6, RunPut
  <2>2. /\ mem.llm' = mem.llm /\ mem.approvals' = mem.approvals /\ sql.events' = sql.events
        /\ sql.runs' = {IF x.id = r THEN [x EXCEPT !.status = s] ELSE x : x \in sql.runs}
    BY <1>0, <1>6 DEF TablesMatch, Stores!MemPut, Stores!UpdateRun
  <2>3. CallsCount'
    BY <1>0, <2>2 DEF CallsCount
  <2>4. ASSUME NEW x \in sql.runs PROVE \E y \in sql.runs' : y.id = x.id /\ y.task = x.task
    <3>1. x \in [id : Nat, task : Task, status : {"created", "running", "completed"}, attempt : Nat]
      BY <1>0 DEF RunsMatch
    <3>2. [x EXCEPT !.status = s].id = x.id /\ [x EXCEPT !.status = s].task = x.task
      BY <3>1
    <3>3. (IF x.id = r THEN [x EXCEPT !.status = s] ELSE x) \in sql.runs'
      BY <2>2
    <3> QED BY <3>2, <3>3
  <2>5. ApprovalsMatch'
    BY <1>c, <2>2, <2>4
  <2> QED BY <2>1, <2>3, <2>5 DEF StoresInv
<1>7. ASSUME NEW r, Stores!MarkRunRunning(r) PROVE StoresInv'
  BY <1>6, <1>7 DEF Stores!MarkRunRunning, Stores!MemMarkRunRunning, Stores!Kept
<1>8. ASSUME NEW r, NEW s \in Stores!Final, Stores!FinalizeRun(r, s) PROVE StoresInv'
  BY <1>6, <1>8 DEF Stores!FinalizeRun, Stores!MemFinalizeRun, Stores!Kept, Stores!Final
<1>9. ASSUME NEW r, Stores!Evaluate(r) PROVE StoresInv'
  <2>1. /\ mem' = mem /\ ids' = ids
        /\ sql' = [sql EXCEPT !.evaluated = @ \cup {r}]
    BY <1>9 DEF Stores!Evaluate, Stores!Kept
  <2>2. TablesMatch' /\ CallsCount'
    BY <1>0, <2>1 DEF TablesMatch, CallsCount
  <2>3. RunsMatch' /\ ApprovalsMatch'
    BY <1>0, <1>b, <2>1 DEF TablesMatch
  <2> QED BY <2>2, <2>3 DEF StoresInv
<1>10. ASSUME NEW r, NEW u \in Usages, Stores!RecordLlmCall(r, u) PROVE StoresInv'
  <2> DEFINE new == [no |-> stored, run |-> r, usage |-> u]
  <2>1. CASE ~Stores!MemHas(r)
    <3>1. mem' = mem /\ sql' = sql /\ ids' = ids
      BY <1>10, <1>a, <2>1
         DEF Stores!RecordLlmCall, Stores!MemSaveLlmCall, Stores!SqlSaveLlmCall, Stores!SqlHas
    <3>2. TablesMatch' /\ CallsCount'
      BY <1>0, <3>1 DEF TablesMatch, CallsCount
    <3> QED BY <1>b, <3>1, <3>2 DEF StoresInv
  <2>2. CASE Stores!MemHas(r)
    <3>1. /\ mem' = [mem EXCEPT !.llm = @ \cup {new}]
          /\ sql' = [sql EXCEPT !.llm = @ \cup {new}] /\ ids' = ids
      BY <1>10, <1>a, <2>2
         DEF Stores!RecordLlmCall, Stores!MemSaveLlmCall, Stores!SqlSaveLlmCall, Stores!SqlHas
    <3>2. new.usage \in {"known", "none"}
      BY DEF Stores!Setting
    <3> HIDE DEF new
    <3>3. TablesMatch'
      BY <1>0, <3>1 DEF TablesMatch
    <3>4. mem.llm' = mem.llm \cup {new}
      BY <1>0, <3>1 DEF TablesMatch
    <3>5. CallsCount'
      BY <1>0, <3>2, <3>4, FS_AddElement DEF CallsCount
    <3>6. RunsMatch' /\ ApprovalsMatch'
      BY <1>0, <1>b, <3>1 DEF TablesMatch
    <3> QED BY <3>3, <3>5, <3>6 DEF StoresInv
  <2> QED BY <2>1, <2>2
<1>11. ASSUME NEW r, NEW ok \in BOOLEAN, Stores!RecordToolCall(r, ok) PROVE StoresInv'
  <2> DEFINE new == [no |-> stored, run |-> r, ok |-> ok]
  <2>1. CASE ~Stores!MemHas(r)
    <3>1. mem' = mem /\ sql' = sql /\ ids' = ids
      BY <1>11, <1>a, <2>1
         DEF Stores!RecordToolCall, Stores!MemSaveToolCall, Stores!SqlSaveToolCall, Stores!SqlHas
    <3>2. TablesMatch' /\ CallsCount'
      BY <1>0, <3>1 DEF TablesMatch, CallsCount
    <3> QED BY <1>b, <3>1, <3>2 DEF StoresInv
  <2>2. CASE Stores!MemHas(r)
    <3>1. /\ mem' = [mem EXCEPT !.tools = @ \cup {new}]
          /\ sql' = [sql EXCEPT !.tools = @ \cup {new}] /\ ids' = ids
      BY <1>11, <1>a, <2>2
         DEF Stores!RecordToolCall, Stores!MemSaveToolCall, Stores!SqlSaveToolCall, Stores!SqlHas
    <3> HIDE DEF new
    <3>2. TablesMatch' /\ CallsCount'
      BY <1>0, <3>1 DEF TablesMatch, CallsCount
    <3>3. RunsMatch' /\ ApprovalsMatch'
      BY <1>0, <1>b, <3>1 DEF TablesMatch
    <3> QED BY <3>2, <3>3 DEF StoresInv
  <2> QED BY <2>1, <2>2
<1>12. ASSUME NEW q \in Approval, Stores!SaveApprovalRequest(q) PROVE StoresInv'
  <2>1. OfTask(AskedBy[q]) # {}
    <3>1. Stores!MemLatest(AskedBy[q]) # {}
      BY <1>12 DEF Stores!SaveApprovalRequest
    <3>2. Stores!SelectLatestRun(AskedBy[q]) # {}
      BY <1>0, <3>1, LatestAgree
    <3> QED BY <1>0, <3>2, LatestAgree
  <2>2. /\ sql' = Stores!SqlSaveApproval(q, "open") /\ ids' = ids
        /\ mem' = Stores!MemSaveApprovalRequest(q) /\ Stores!MemState(q) \in {"none", "open"}
    BY <1>12 DEF Stores!SaveApprovalRequest, Stores!Kept
  <2>3. CASE q \in DOMAIN mem.approvals
    <3>1. mem' = mem
      BY <2>2, <2>3 DEF Stores!MemSaveApprovalRequest
    <3>2. mem.approvals[q] = "open"
      <4>1. \A e \in sql.events : e.answer \in {"open", "yes", "no"}
        BY <1>0 DEF ApprovalsMatch
      <4>2. q \in DOMAIN Stores!SelectApprovalStates
        BY <1>0, <2>3, StatesAgree
      <4>3. mem.approvals[q] \in {"none", "open"}
        BY <2>2, <2>3 DEF Stores!MemState
      <4>4. mem.approvals[q] # "none"
        BY <1>0, <2>3, StateIsAnswer
      <4> QED BY <4>3, <4>4
    <3> QED BY <2>1, <2>2, <2>3, <3>1, <3>2, RowAdded
  <2>4. CASE q \notin DOMAIN mem.approvals
    <3>1. mem' = [mem EXCEPT !.approvals = Stores!With(@, q, "open")]
      BY <2>2, <2>4 DEF Stores!MemSaveApprovalRequest
    <3> QED BY <1>0, <2>1, <2>2, <3>1, EntryMade
  <2> QED BY <2>3, <2>4
<1>13. ASSUME NEW q \in Approval, NEW answer \in {"yes", "no"}, Stores!ResolveApproval(q, answer)
       PROVE  StoresInv'
  <2>1. /\ sql' = Stores!SqlResolveApproval(q, answer) /\ ids' = ids
        /\ mem' = Stores!MemResolveApproval(q, answer)
    BY <1>13 DEF Stores!ResolveApproval, Stores!Kept
  <2>2. CASE q \notin DOMAIN mem.approvals
    <3>1. Stores!SqlState(q) = "none"
      BY <1>0, <2>2, StatesAgree DEF Stores!SqlState
    <3>2. mem' = mem /\ sql' = sql
      BY <2>1, <2>2, <3>1 DEF Stores!SqlResolveApproval, Stores!MemResolveApproval
    <3>3. TablesMatch' /\ CallsCount'
      BY <1>0, <3>2 DEF TablesMatch, CallsCount
    <3> QED BY <1>b, <2>1, <3>2, <3>3 DEF StoresInv
  <2>3. CASE q \in DOMAIN mem.approvals
    <3>1. Stores!SqlState(q) = mem.approvals[q] /\ mem.approvals[q] # "none"
      BY <1>0, <2>3, StatesAgree, StateIsAnswer DEF Stores!SqlState
    <3>2. sql' = Stores!SqlSaveApproval(q, answer)
      BY <2>1, <3>1 DEF Stores!SqlResolveApproval
    <3>3. mem' = [mem EXCEPT !.approvals = Stores!With(@, q, answer)]
      BY <2>1, <2>3 DEF Stores!MemResolveApproval
    <3>4. OfTask(AskedBy[q]) # {}
      BY <1>0, <2>3 DEF ApprovalsMatch
    <3> QED BY <1>0, <2>1, <3>2, <3>3, <3>4, EntryMade
  <2> QED BY <2>2, <2>3
<1>14. ASSUME UNCHANGED Stores!vars PROVE StoresInv'
  <2>1. mem' = mem /\ sql' = sql /\ ids' = ids
    BY <1>14 DEF Stores!vars
  <2>2. TablesMatch' /\ CallsCount'
    BY <1>0, <2>1 DEF TablesMatch, CallsCount
  <2> QED BY <1>b, <2>1, <2>2 DEF StoresInv
<1> QED
  BY <1>1, <1>2, <1>3, <1>4, <1>5, <1>7, <1>8, <1>9, <1>10, <1>11, <1>12, <1>13, <1>14
     DEF Stores!Next

\* A call that refers to a run fails in both stores or in neither; an update only in memory.
LEMMA FailuresStep ==
  StoresInv /\ FailuresMatch /\ [Stores!Next]_Stores!vars => FailuresMatch'
<1> SUFFICES ASSUME StoresInv, FailuresMatch, [Stores!Next]_Stores!vars PROVE FailuresMatch'
  OBVIOUS
<1>1. \A r : Stores!MemHas(r) <=> Stores!SqlHas(r)
  <2>1. \A x : Plain(x).id = x.id
    BY DEF Plain
  <2> QED BY <2>1 DEF StoresInv, RunsMatch, Stores!MemHas, Stores!SqlHas
<1>2. ASSUME Stores!Kept PROVE FailuresMatch'
  BY <1>2 DEF Stores!Kept, FailuresMatch
<1>3. ASSUME NEW r, Stores!MarkRunRunning(r) \/ \E s \in Stores!Final : Stores!FinalizeRun(r, s)
      PROVE  FailuresMatch'
  BY <1>3 DEF Stores!MarkRunRunning, Stores!FinalizeRun, Stores!MemRaises, FailuresMatch
<1>4. ASSUME NEW r, \/ \E u \in Usages : Stores!RecordLlmCall(r, u)
                    \/ \E ok \in BOOLEAN : Stores!RecordToolCall(r, ok)
      PROVE  FailuresMatch'
  <2>1. raised' = Stores!MemRaises(r) \cup Stores!SqlRaises(r)
    BY <1>4 DEF Stores!RecordLlmCall, Stores!RecordToolCall
  <2> QED BY <1>1, <2>1 DEF Stores!MemRaises, Stores!SqlRaises, FailuresMatch
<1>5. ASSUME NEW k \in Task, Stores!CreateRun(k) PROVE FailuresMatch'
  BY <1>5 DEF Stores!CreateRun, FailuresMatch
<1>6. ASSUME NEW t \in Thread, Stores!CreateThread(t) \/ Stores!DeleteThread(t) PROVE FailuresMatch'
  BY <1>2, <1>6 DEF Stores!CreateThread, Stores!DeleteThread
<1>7. ASSUME NEW k \in Task, Stores!SaveTask(k) \/ \E s \in Stores!Final : Stores!SettleTask(k, s)
      PROVE  FailuresMatch'
  BY <1>2, <1>7 DEF Stores!SaveTask, Stores!SettleTask
<1>8. ASSUME NEW r, Stores!Evaluate(r) PROVE FailuresMatch'
  BY <1>2, <1>8 DEF Stores!Evaluate
<1>9. ASSUME NEW q \in Approval, \/ Stores!SaveApprovalRequest(q)
                                 \/ \E a \in {"yes", "no"} : Stores!ResolveApproval(q, a)
      PROVE  FailuresMatch'
  BY <1>2, <1>9 DEF Stores!SaveApprovalRequest, Stores!ResolveApproval
<1>10. ASSUME UNCHANGED Stores!vars PROVE FailuresMatch'
  BY <1>10 DEF Stores!vars, FailuresMatch
<1> QED
  BY <1>3, <1>4, <1>5, <1>6, <1>7, <1>8, <1>9, <1>10 DEF Stores!Next

\* The repositories in memory and in PostgreSQL answer the service alike after any calls of
\* it in any order, however many threads, tasks, runs and requests there are: a number that
\* is missing in PostgreSQL is zero in memory and nothing else differs, and no call fails in
\* PostgreSQL alone.  (InMemoryTaskRepository, PostgresTaskRepository)
THEOREM StoresAlwaysAgree == Stores!Setting => (Stores!Spec => []StoresAgree)
<1> SUFFICES ASSUME Stores!Setting PROVE Stores!Spec => []StoresAgree
  OBVIOUS
<1> DEFINE Inv == StoresInv /\ FailuresMatch
<1>1. Stores!Init => Inv
  BY StoresInit DEF Stores!Init, FailuresMatch
<1>2. Inv /\ [Stores!Next]_Stores!vars => Inv'
  BY StoresStep, FailuresStep
<1>3. Inv => StoresAgree
  BY AnswersAgree
<1> QED BY <1>1, <1>2, <1>3, PTL DEF Stores!Spec

------------------------------------------------------------------------------
(* The records of a graph run.                                              *)

\* A number of the plan that is worked on stands for its step of that plan, and without a
\* failure or a resume every number stands for a stored one.
NumbersAreCurrent ==
  /\ planNo \in Nat /\ planLen \in Nat /\ current \in Nat /\ current >= 1
  /\ recordFaults \in Nat /\ resumes \in Nat
  /\ \A i \in DOMAIN stepIds : i <= planLen => stepIds[i] = <<planNo, i>>
  /\ \A i \in DOMAIN stepIds : i \in Nat /\ i >= 1
  /\ recordFaults = 0 /\ resumes = 0 =>
       \A i \in 1 .. planLen : i \in DOMAIN stepIds /\ <<planNo, i>> \in stepRow

\* A verdict is under its step; what waits for its verdict has none, and none is missing,
\* as long as nothing failed or was resumed.
VerdictsAreRight ==
  /\ \A v \in verdictRow : v.row = v.judged
  /\ recordFaults = 0 /\ resumes = 0 =>
       /\ given = {v.judged : v \in verdictRow}
       /\ \A x \in given : \E p, i \in Nat :
            x = <<p, i>> /\ (p < planNo \/ (p = planNo /\ i < current))

RecordInv == NumbersAreCurrent /\ VerdictsAreRight

LEMMA RecordInit == Records!Init => RecordInv
<1> SUFFICES ASSUME Records!Init PROVE RecordInv
  OBVIOUS
<1>1. DOMAIN stepIds = {}
  BY DEF Records!Init, Records!None
<1>2. NumbersAreCurrent
  BY <1>1 DEF Records!Init, NumbersAreCurrent
<1>3. VerdictsAreRight
  BY DEF Records!Init, VerdictsAreRight
<1> QED BY <1>2, <1>3 DEF RecordInv

LEMMA RecordStep ==
  ASSUME FaultAt \subseteq {"plan", "verdict"}, MaxSteps \in Nat, RecordInv,
         [Records!Next]_Records!vars
  PROVE  RecordInv'
<1>0. NumbersAreCurrent /\ VerdictsAreRight
  BY DEF RecordInv
<1>1. CASE Records!PlanCreated
  <2>1. PICK n \in 1 .. MaxSteps :
          /\ current > planLen /\ planNo' = planNo + 1 /\ planLen' = n /\ current' = 1
          /\ UNCHANGED <<verdictRow, given, resumes>>
          /\ \/ /\ recordFaults' = recordFaults
                /\ stepIds' = Records!Numbered(n, planNo')
                /\ stepRow' = stepRow \cup {<<planNo', i>> : i \in 1 .. n}
             \/ /\ recordFaults' = recordFaults + 1
                /\ stepIds' = Records!Restrict(stepIds, DOMAIN stepIds \ 1 .. n)
                /\ UNCHANGED stepRow
    BY <1>1 DEF Records!PlanCreated, Records!NewPlan, Records!Fails, Records!Works
  <2>2. VerdictsAreRight'
    <3>1. recordFaults' = 0 => recordFaults = 0
      BY <1>0, <2>1 DEF NumbersAreCurrent
    <3>2. ASSUME recordFaults' = 0, resumes' = 0, NEW x \in given'
          PROVE  \E p, i \in Nat : x = <<p, i>> /\ (p < planNo' \/ (p = planNo' /\ i < current'))
      <4>1. PICK p \in Nat, i \in Nat : x = <<p, i>> /\ p <= planNo
        BY <1>0, <2>1, <3>1, <3>2 DEF VerdictsAreRight, NumbersAreCurrent
      <4>2. p < planNo'
        BY <1>0, <2>1, <4>1 DEF NumbersAreCurrent
      <4> QED BY <4>1, <4>2
    <3> QED BY <1>0, <2>1, <3>1, <3>2 DEF VerdictsAreRight
  <2>3. CASE /\ recordFaults' = recordFaults
             /\ stepIds' = Records!Numbered(n, planNo')
             /\ stepRow' = stepRow \cup {<<planNo', i>> : i \in 1 .. n}
    <3>1. /\ DOMAIN stepIds' = 1 .. n \cup DOMAIN stepIds
          /\ \A i \in DOMAIN stepIds' : i <= n => stepIds'[i] = <<planNo', i>>
      BY <2>3 DEF Records!Numbered
    <3>2. \A i \in 1 .. n : <<planNo', i>> \in stepRow'
      BY <2>3
    <3>3. 1 .. planLen' \subseteq DOMAIN stepIds' /\ \A i \in DOMAIN stepIds' : i \in Nat /\ i >= 1
      BY <1>0, <2>1, <3>1 DEF NumbersAreCurrent
    <3>4. NumbersAreCurrent'
      BY <1>0, <2>1, <2>3, <3>1, <3>2, <3>3 DEF NumbersAreCurrent
    <3> QED BY <2>2, <3>4 DEF RecordInv
  <2>4. CASE /\ recordFaults' = recordFaults + 1
             /\ stepIds' = Records!Restrict(stepIds, DOMAIN stepIds \ 1 .. n)
             /\ UNCHANGED stepRow
    <3>1. DOMAIN stepIds' = DOMAIN stepIds \ 1 .. n
      BY <2>4 DEF Records!Restrict
    <3>2. NumbersAreCurrent'
      BY <1>0, <2>1, <2>4, <3>1 DEF NumbersAreCurrent
    <3> QED BY <2>2, <3>2 DEF RecordInv
  <2> QED BY <2>1, <2>3, <2>4
<1>2. CASE Records!VerificationRecorded
  <2> DEFINE x == <<planNo, current>>
  <2>1. /\ current <= planLen /\ current' \in {current + 1, planLen + 1}
        /\ given' = given \cup {x}
        /\ UNCHANGED <<planNo, planLen, stepIds, stepRow, resumes>>
        /\ \/ recordFaults' = recordFaults /\ Records!SaveVerification(current)
           \/ recordFaults' = recordFaults + 1 /\ UNCHANGED verdictRow
    BY <1>2 DEF Records!VerificationRecorded, Records!Fails, Records!Works
  <2>2. current' \in Nat /\ current' > current
    BY <1>0, <2>1 DEF NumbersAreCurrent
  <2>3. NumbersAreCurrent'
    BY <1>0, <2>1, <2>2 DEF NumbersAreCurrent
  <2>4. \/ UNCHANGED verdictRow
        \/ verdictRow' = verdictRow \cup {[row |-> x, judged |-> x]}
    BY <1>0, <2>1 DEF Records!SaveVerification, NumbersAreCurrent
  <2>5. \A v \in verdictRow' : v.row = v.judged
    BY <1>0, <2>4 DEF VerdictsAreRight
  <2>6. ASSUME recordFaults' = 0, resumes' = 0
        PROVE  given' = {v.judged : v \in verdictRow'}
    <3>1. recordFaults = 0 /\ resumes = 0 /\ Records!SaveVerification(current)
      BY <1>0, <2>1, <2>6 DEF NumbersAreCurrent
    <3>2. current \in DOMAIN stepIds /\ stepIds[current] = x /\ x \in stepRow
      BY <1>0, <2>1, <3>1 DEF NumbersAreCurrent
    <3>3. x \notin given
      BY <1>0, <3>1 DEF VerdictsAreRight, NumbersAreCurrent
    <3>4. ~\E v \in verdictRow : v.row = x
      BY <1>0, <3>1, <3>3 DEF VerdictsAreRight
    <3>5. verdictRow' = verdictRow \cup {[row |-> x, judged |-> x]}
      BY <3>1, <3>2, <3>4 DEF Records!SaveVerification
    <3>6. given = {v.judged : v \in verdictRow}
      BY <1>0, <3>1 DEF VerdictsAreRight
    <3> HIDE DEF x
    <3> DEFINE new == [row |-> x, judged |-> x]
    <3>7. new.judged = x
      OBVIOUS
    <3> HIDE DEF new
    <3>8. {v.judged : v \in verdictRow \cup {new}} = {v.judged : v \in verdictRow} \cup {x}
      BY <3>7
    <3> QED BY <2>1, <3>5, <3>6, <3>8 DEF new
  <2>7. ASSUME recordFaults' = 0, resumes' = 0, NEW y \in given'
        PROVE  \E p, i \in Nat : y = <<p, i>> /\ (p < planNo' \/ (p = planNo' /\ i < current'))
    <3>1. CASE y = x
      BY <1>0, <2>1, <2>2, <3>1 DEF NumbersAreCurrent
    <3>2. CASE y \in given
      <4>1. recordFaults = 0 /\ resumes = 0
        BY <1>0, <2>1, <2>7 DEF NumbersAreCurrent
      <4>2. PICK p \in Nat, i \in Nat : y = <<p, i>> /\ (p < planNo \/ (p = planNo /\ i < current))
        BY <1>0, <3>2, <4>1 DEF VerdictsAreRight
      <4>3. p < planNo' \/ (p = planNo' /\ i < current')
        BY <1>0, <2>1, <2>2, <4>2 DEF NumbersAreCurrent
      <4> QED BY <4>2, <4>3
    <3> QED BY <2>1, <2>7, <3>1, <3>2
  <2> QED BY <2>3, <2>5, <2>6, <2>7 DEF RecordInv, VerdictsAreRight
<1>3. CASE Records!Resume
  <2>1. /\ resumes' = resumes + 1 /\ DOMAIN stepIds' = {}
        /\ current' = current \/ (current \in 2 .. planLen /\ current' = current - 1)
        /\ UNCHANGED <<planNo, planLen, stepRow, verdictRow, recordFaults>>
    BY <1>3 DEF Records!Resume, Records!None
  <2> QED BY <1>0, <2>1 DEF RecordInv, NumbersAreCurrent, VerdictsAreRight
<1>4. CASE UNCHANGED Records!vars
  BY <1>0, <1>4 DEF Records!vars, RecordInv, NumbersAreCurrent, VerdictsAreRight
<1> QED BY <1>1, <1>2, <1>3, <1>4 DEF Records!Next

\* While only the calls that store a plan or a verdict fail, a verdict is kept with the
\* step it was given on, and without failures and resumes none is missing: for plans of
\* any length, replanned and resumed any number of times.
THEOREM VerdictsAlwaysOnTheirSteps ==
  ASSUME FaultAt \subseteq {"plan", "verdict"}, MaxSteps \in Nat
  PROVE  Records!Spec => []VerdictsOnTheirSteps
<1>1. RecordInv => VerdictsOnTheirSteps
  BY DEF RecordInv, VerdictsAreRight, VerdictsOnTheirSteps, Records!VerdictsOnTheirSteps
<1>2. Records!Init => RecordInv
  BY RecordInit
<1>3. RecordInv /\ [Records!Next]_Records!vars => RecordInv'
  BY RecordStep
<1> QED BY <1>1, <1>2, <1>3, PTL DEF Records!Spec

------------------------------------------------------------------------------
(* Settings.                                                                *)

Words == {"ollama", "groq", "openai", "local", "none"}
Config == [provider : {"ollama", "groq", "openai", "none"}, model : Words, key : Words,
           url : Words]

\* A cloud provider goes with a key of its own and not with the local server.
Homely(s) ==
  s.provider \in {"groq", "openai"} => s.key = s.provider /\ s.url # "local"

SettingsTypes ==
  /\ graph \in Config /\ client \in Config
  /\ clients \in [Settings!NativeProvider -> Config]
  /\ owner \in [Settings!Provider -> {"ollama", "groq", "none"}]
  /\ agentModel \in Settings!Provider /\ owner[agentModel] # "none"
  /\ judge \in [provider : Settings!Provider, model : Settings!Provider \cup {"none"},
                keys : [Settings!Provider -> Words], urls : [Settings!Provider -> Words]]
  /\ patchAt \in [Patch -> {"none", "asking", "applying", "done", "refused"}]
  /\ body \in [Patch -> Settings!Fields] /\ old \in [Patch -> Config]
  /\ wanted \in [Patch -> Config]
  /\ used \in [{"native", "langgraph", "judge"} -> Config]

\* Whatever is in force, registered, waits to be applied or is used is homely; what waits
\* for Ollama is for Ollama.
AllHomely ==
  /\ Homely(graph) /\ client = graph
  /\ \A p \in Settings!NativeProvider : Homely(clients[p])
  /\ \A p \in Settings!Provider : judge.keys[p] \in {p, "none"}
  /\ \A q \in Patch :
       /\ patchAt[q] = "asking" =>
            Settings!ProviderOf(body[q], old[q].provider) = "ollama"
       /\ patchAt[q] = "applying" => Homely(wanted[q])
  /\ \A t \in {"native", "langgraph", "judge"} : Homely(used[t])

SettingsInv == SettingsTypes /\ AllHomely

LEMMA SettingsInit == Settings!Setting /\ Settings!Init => SettingsInv
<1> SUFFICES ASSUME Settings!Setting, Settings!Init PROVE SettingsInv
  OBVIOUS
<1> USE DEF Settings!Provider, Settings!NativeProvider
<1>1. /\ Settings!First \in Config /\ Homely(Settings!First)
      /\ Settings!Nothing \in Config /\ Homely(Settings!Nothing)
      /\ Settings!NoBody \in Settings!Fields
  BY DEF Settings!First, Settings!Nothing, Settings!Settings, Settings!NoBody,
         Settings!Fields, Config, Words, Homely
<1>2. \A p \in Settings!Provider : Settings!EnvKey(p) \in {p, "none"} /\ Settings!EnvKey(p) \in Words
  BY DEF Settings!EnvKey, Words
<1>3. graph = Settings!First /\ client = Settings!First /\ agentModel = "ollama"
  BY DEF Settings!Init
<1>4. /\ clients \in [Settings!NativeProvider -> Config]
      /\ \A p \in Settings!NativeProvider : Homely(clients[p])
  <2>1. clients = [p \in Settings!NativeProvider |->
                     IF p = "ollama" THEN Settings!First ELSE Settings!Nothing]
    BY DEF Settings!Init
  <2> QED BY <1>1, <2>1
<1>5. /\ owner \in [Settings!Provider -> {"ollama", "groq", "none"}]
      /\ owner["ollama"] = "ollama"
  BY DEF Settings!Init
<1>6. /\ judge \in [provider : Settings!Provider, model : Settings!Provider \cup {"none"},
                    keys : [Settings!Provider -> Words], urls : [Settings!Provider -> Words]]
      /\ \A p \in Settings!Provider : judge.keys[p] \in {p, "none"}
  <2> DEFINE K == [p \in Settings!Provider |-> Settings!EnvKey(p)]
             U == [p \in Settings!Provider |-> "none"]
  <2>1. judge = [provider |-> "ollama", model |-> "none", keys |-> K, urls |-> U]
    BY DEF Settings!Init
  <2>2. K \in [Settings!Provider -> Words] /\ \A p \in Settings!Provider : K[p] \in {p, "none"}
    BY <1>2
  <2>3. U \in [Settings!Provider -> Words]
    BY DEF Words
  <2> HIDE DEF K, U
  <2> QED BY <2>1, <2>2, <2>3
<1>7. /\ patchAt = [q \in Patch |-> "none"] /\ body = [q \in Patch |-> Settings!NoBody]
      /\ old = [q \in Patch |-> Settings!Nothing] /\ wanted = [q \in Patch |-> Settings!Nothing]
      /\ used = [t \in {"native", "langgraph", "judge"} |-> Settings!Nothing]
  BY DEF Settings!Init
<1>8. SettingsTypes
  BY <1>1, <1>3, <1>4, <1>5, <1>6, <1>7 DEF SettingsTypes
<1>9. AllHomely
  BY <1>1, <1>3, <1>4, <1>6, <1>7 DEF AllHomely
<1> QED BY <1>8, <1>9 DEF SettingsInv

\* What a body asks for is well formed, and homely unless it is refused: a key is entered
\* for the provider, kept with it or from the environment, and the local URL is dropped.
LEMMA TargetIsHomely ==
  ASSUME NEW b \in Settings!Fields, NEW was \in Config, NEW model \in Words,
         Homely(was) \/ Settings!ProviderOf(b, was.provider) = "ollama"
  PROVE  LET s == Settings!Target(b, was, model)
         IN  /\ s \in Config
             /\ s.provider \in {"groq", "openai", "ollama"} /\ model \in Settings!Provider =>
                  s.model \in Settings!Provider
             /\ Settings!Refusable(s) \/ Homely(s)
<1> DEFINE p == Settings!ProviderOf(b, was.provider)
           m == Settings!ResolveModel(p, Settings!Chosen(b.model, p, model))
           k == Settings!Key(b, p, was)
           u == Settings!CleanBaseUrl(p, Settings!Chosen(b.url, p, was.url))
           s == Settings!Target(b, was, model)
<1>1. /\ b.provider \in {"unset", "ollama", "groq", "openai"}
      /\ b.model \in {"unset", "empty", "given"} /\ b.key \in {"unset", "empty", "given"}
      /\ b.url \in {"unset", "empty", "local", "given"}
  BY DEF Settings!Fields
<1>2. /\ was.provider \in {"ollama", "groq", "openai", "none"}
      /\ was.key \in Words /\ was.url \in Words
  BY DEF Config
<1>3. s = [provider |-> p, model |-> m, key |-> k, url |-> u]
  BY DEF Settings!Target, Settings!Settings
<1>4. p \in {"ollama", "groq", "openai", "none"}
  BY <1>1, <1>2 DEF Settings!ProviderOf
<1>5. m \in Words /\ (p # "none" /\ model \in Settings!Provider => m \in Settings!Provider)
  BY <1>1, <1>4 DEF Settings!ResolveModel, Settings!Chosen, Words, Settings!Provider
<1>6. u \in Words /\ (p \in {"groq", "openai"} => u # "local")
  BY <1>1, <1>2, <1>4 DEF Settings!CleanBaseUrl, Settings!Chosen, Words
<1>7. k \in Words /\ (p \in {"groq", "openai"} => k \in {p, "none"})
  <2>1. Settings!EnvKey(p) \in {p, "none"}
    BY DEF Settings!EnvKey
  <2>2. CASE b.key = "given"
    BY <1>4, <2>2 DEF Settings!Key, Settings!KeepsKey, Words
  <2>3. CASE b.key # "given" /\ Settings!KeepsKey(b, p, was)
    BY <1>2, <1>4, <2>3 DEF Settings!Key, Settings!KeepsKey, Homely
  <2>4. CASE b.key # "given" /\ ~Settings!KeepsKey(b, p, was)
    BY <1>4, <2>1, <2>4 DEF Settings!Key, Words
  <2> QED BY <2>2, <2>3, <2>4
<1> HIDE DEF p, m, k, u, s
<1>8. s \in Config
  BY <1>3, <1>4, <1>5, <1>6, <1>7 DEF Config
<1>9. s.provider = p /\ s.model = m /\ s.key = k /\ s.url = u
  BY <1>3
<1>10. Settings!Refusable(s) \/ Homely(s)
  BY <1>4, <1>6, <1>7, <1>9 DEF Settings!Refusable, Homely
<1> QED BY <1>5, <1>8, <1>9, <1>10 DEF s

\* The settings both tracks read are well formed and homely.
LEMMA NowIsHomely ==
  ASSUME SettingsInv, NEW t \in {"native", "langgraph"}
  PROVE  /\ Settings!Now(t) \in Config /\ Homely(Settings!Now(t))
         /\ Settings!NativeNow \in Config /\ Homely(Settings!NativeNow)
<1> DEFINE c == clients[owner[agentModel]]
<1>1. SettingsTypes /\ AllHomely
  BY DEF SettingsInv
<1>2. owner[agentModel] \in Settings!NativeProvider /\ agentModel \in Words
  BY <1>1 DEF SettingsTypes, Settings!NativeProvider, Settings!Provider, Words
<1>3. c \in Config /\ Homely(c)
  BY <1>1, <1>2 DEF SettingsTypes, AllHomely
<1>4. Settings!NativeNow = [c EXCEPT !.model = agentModel]
  BY DEF Settings!NativeNow
<1> HIDE DEF c
<1>5. Settings!NativeNow \in Config /\ Homely(Settings!NativeNow)
  BY <1>2, <1>3, <1>4 DEF Config, Homely
<1>6. graph \in Config /\ Homely(graph)
  BY <1>1 DEF SettingsTypes, AllHomely
<1> QED BY <1>5, <1>6 DEF Settings!Now

\* A handler that has what it needs refuses, waits to apply or applies something homely.
LEMMA ConcludeKeeps ==
  ASSUME Settings!Setting, SettingsInv, NEW q \in Patch,
         NEW b \in Settings!Fields, NEW was \in Config,
         Homely(was) \/ Settings!ProviderOf(b, was.provider) = "ollama",
         Settings!Conclude(q, b, was),
         body' \in [Patch -> Settings!Fields], old' \in [Patch -> Config],
         \A r \in Patch : r # q => body'[r] = body[r] /\ old'[r] = old[r],
         UNCHANGED <<judge, used>>
  PROVE  SettingsInv'
<1>1. SettingsTypes /\ AllHomely
  BY DEF SettingsInv
<1>2. CASE Settings!Refuse(q)
  <2>1. /\ patchAt' = [patchAt EXCEPT ![q] = "refused"]
        /\ UNCHANGED <<graph, client, clients, owner, agentModel, wanted>>
    BY <1>2 DEF Settings!Refuse, Settings!Move, Settings!langgraph, Settings!native
  <2>2. /\ patchAt' \in [Patch -> {"none", "asking", "applying", "done", "refused"}]
        /\ \A r \in Patch : patchAt'[r] \in {"asking", "applying"} =>
             r # q /\ patchAt'[r] = patchAt[r]
    BY <1>1, <2>1 DEF SettingsTypes
  <2>3. SettingsTypes'
    BY <1>1, <2>1, <2>2 DEF SettingsTypes
  <2>4. AllHomely'
    BY <1>1, <2>1, <2>2 DEF AllHomely, Homely, Settings!ProviderOf
  <2> QED BY <2>3, <2>4 DEF SettingsInv
<1>3. CASE TrackOf[q] = "native" /\ ~Settings!Refuse(q)
  <2> DEFINE s == Settings!Target(b, was, agentModel)
  <2>1. agentModel \in Settings!Provider /\ agentModel \in Words
    BY <1>1 DEF SettingsTypes, Settings!Provider, Words
  <2>2. /\ s \in Config
        /\ s.provider \in {"groq", "openai", "ollama"} => s.model \in Settings!Provider
        /\ Settings!Refusable(s) \/ Homely(s)
    BY <2>1, TargetIsHomely
  <2>3. /\ s.provider \in Settings!NativeProvider /\ ~Settings!Refusable(s)
        /\ clients' = [clients EXCEPT ![s.provider] = Settings!Registered(s)]
        /\ owner' = [owner EXCEPT ![s.model] = s.provider]
        /\ agentModel' = s.model
        /\ patchAt' = [patchAt EXCEPT ![q] = "done"]
        /\ UNCHANGED <<graph, client, wanted>>
    BY <1>3 DEF Settings!Conclude, Settings!Apply, Settings!Move, Settings!langgraph,
                Settings!Allowed
  <2> HIDE DEF s
  <2>4. Settings!Registered(s) \in Config /\ Homely(Settings!Registered(s))
    <3> DEFINE key == IF s.provider = "groq" THEN s.key ELSE "none"
               url == IF s.provider = "ollama" /\ s.url = "none" THEN "local" ELSE s.url
    <3>1. /\ s = [provider |-> s.provider, model |-> s.model, key |-> s.key, url |-> s.url]
          /\ s.key \in Words /\ s.url \in Words /\ s.provider \in {"groq", "ollama"}
      BY <2>2, <2>3 DEF Config, Settings!NativeProvider
    <3>2. Settings!Registered(s) =
            [provider |-> s.provider, model |-> "none", key |-> key, url |-> url]
      <4>1. Settings!Registered(s) = [s EXCEPT !.model = "none", !.key = key, !.url = url]
        BY DEF Settings!Registered
      <4> HIDE DEF key, url
      <4> QED BY <3>1, <4>1
    <3>3. key \in Words /\ url \in Words
      BY <3>1 DEF Words
    <3>4. s.provider = "groq" => Homely(s)
      BY <2>2, <2>3
    <3>5. s.provider = "groq" => key = "groq" /\ url # "local"
      BY <3>4 DEF Homely
    <3> HIDE DEF key, url
    <3> QED BY <3>1, <3>2, <3>3, <3>5 DEF Config, Homely, Words
  <2>5. /\ clients' \in [Settings!NativeProvider -> Config]
        /\ \A p \in Settings!NativeProvider : Homely(clients'[p])
    BY <1>1, <2>3, <2>4 DEF SettingsTypes, AllHomely
  <2>6. /\ owner' \in [Settings!Provider -> {"ollama", "groq", "none"}]
        /\ agentModel' \in Settings!Provider /\ owner'[agentModel'] # "none"
    BY <1>1, <2>2, <2>3 DEF SettingsTypes, Settings!NativeProvider
  <2>7. /\ patchAt' \in [Patch -> {"none", "asking", "applying", "done", "refused"}]
        /\ \A r \in Patch : patchAt'[r] \in {"asking", "applying"} =>
             r # q /\ patchAt'[r] = patchAt[r]
    BY <1>1, <2>3 DEF SettingsTypes
  <2>8. SettingsTypes'
    BY <1>1, <2>3, <2>5, <2>6, <2>7 DEF SettingsTypes
  <2>9. AllHomely'
    BY <1>1, <2>3, <2>5, <2>7 DEF AllHomely, Homely, Settings!ProviderOf
  <2> QED BY <2>8, <2>9 DEF SettingsInv
<1>4. CASE TrackOf[q] # "native" /\ ~Settings!Refuse(q)
  <2> DEFINE s == Settings!Target(b, was, was.model)
  <2>1. was.model \in Words
    BY DEF Config
  <2>2. s \in Config /\ (Settings!Refusable(s) \/ Homely(s))
    BY <2>1, TargetIsHomely
  <2>3. /\ ~Settings!Refusable(s)
        /\ patchAt' = [patchAt EXCEPT ![q] = "applying"]
        /\ wanted' = [wanted EXCEPT ![q] = s]
        /\ UNCHANGED <<graph, client, clients, owner, agentModel>>
    BY <1>4 DEF Settings!Conclude, Settings!Decide, Settings!Move, Settings!langgraph,
                Settings!native
  <2> HIDE DEF s
  <2>4. /\ patchAt' \in [Patch -> {"none", "asking", "applying", "done", "refused"}]
        /\ \A r \in Patch : patchAt'[r] = "asking" => r # q /\ patchAt[r] = "asking"
        /\ \A r \in Patch : patchAt'[r] = "applying" => r = q \/ patchAt[r] = "applying"
    BY <1>1, <2>3 DEF SettingsTypes
  <2>5. /\ wanted' \in [Patch -> Config] /\ wanted'[q] = s
        /\ \A r \in Patch : r # q => wanted'[r] = wanted[r]
    BY <1>1, <2>2, <2>3 DEF SettingsTypes
  <2>6. \A r \in Patch : patchAt'[r] = "applying" => Homely(wanted'[r])
    BY <1>1, <2>2, <2>3, <2>4, <2>5 DEF AllHomely
  <2>7. SettingsTypes'
    BY <1>1, <2>3, <2>4, <2>5 DEF SettingsTypes
  <2>8. AllHomely'
    BY <1>1, <2>3, <2>4, <2>6 DEF AllHomely, Homely, Settings!ProviderOf
  <2> QED BY <2>7, <2>8 DEF SettingsInv
<1> QED BY <1>2, <1>3, <1>4

\* A run uses something homely.
LEMMA UsingKeeps ==
  ASSUME SettingsInv, NEW t \in {"native", "langgraph", "judge"}, NEW s \in Config, Homely(s),
         used' = [used EXCEPT ![t] = s],
         UNCHANGED <<graph, client, clients, owner, agentModel, judge, patchAt, body, old,
                     wanted>>
  PROVE  SettingsInv'
<1>1. SettingsTypes /\ AllHomely
  BY DEF SettingsInv
<1>2. /\ used' \in [{"native", "langgraph", "judge"} -> Config]
      /\ \A x \in {"native", "langgraph", "judge"} : Homely(used'[x])
  BY <1>1 DEF SettingsTypes, AllHomely
<1>3. SettingsTypes'
  BY <1>1, <1>2 DEF SettingsTypes
<1>4. AllHomely'
  BY <1>1, <1>2 DEF AllHomely, Homely, Settings!ProviderOf
<1> QED BY <1>3, <1>4 DEF SettingsInv

LEMMA SettingsStep ==
  ASSUME Settings!Setting, Builds = {TRUE}, SettingsInv,
         [Settings!Next]_Settings!settingsVars
  PROVE  SettingsInv'
<1>0. SettingsTypes /\ AllHomely
  BY DEF SettingsInv
<1> USE DEF Settings!langgraph, Settings!native, Settings!patches
<1>1. ASSUME NEW q \in Patch, NEW b \in Bodies, Settings!Ask(q, b) PROVE SettingsInv'
  <2> DEFINE now == Settings!Now(TrackOf[q])
  <2>1. /\ b \in Settings!Fields /\ TrackOf[q] \in {"native", "langgraph"}
        /\ now \in Config
    BY NowIsHomely DEF Settings!Setting
  <2>2. /\ Settings!ProviderOf(b, now.provider) = "ollama"
        /\ patchAt' = [patchAt EXCEPT ![q] = "asking"]
        /\ body' = [body EXCEPT ![q] = b] /\ old' = [old EXCEPT ![q] = now]
        /\ UNCHANGED <<graph, client, clients, owner, agentModel, judge, wanted, used>>
    BY <1>1 DEF Settings!Ask, Settings!Move
  <2> HIDE DEF now
  <2>3. SettingsTypes'
    BY <1>0, <2>1, <2>2 DEF SettingsTypes
  <2>4. ASSUME NEW r \in Patch
        PROVE  /\ patchAt'[r] = "asking" =>
                    Settings!ProviderOf(body'[r], old'[r].provider) = "ollama"
               /\ patchAt'[r] = "applying" => Homely(wanted'[r])
    <3>1. CASE r = q
      BY <1>0, <2>1, <2>2, <3>1 DEF SettingsTypes
    <3>2. CASE r # q
      BY <1>0, <2>2, <3>2 DEF SettingsTypes, AllHomely
    <3> QED BY <3>1, <3>2
  <2>5. AllHomely'
    BY <1>0, <2>2, <2>4 DEF AllHomely, Homely, Settings!ProviderOf
  <2> QED BY <2>3, <2>5 DEF SettingsInv
<1>2. ASSUME NEW q \in Patch, Settings!OllamaSilent(q) PROVE SettingsInv'
  <2>1. /\ patchAt' = [patchAt EXCEPT ![q] = "refused"]
        /\ UNCHANGED <<graph, client, clients, owner, agentModel, wanted, body, old, judge, used>>
    BY <1>2 DEF Settings!OllamaSilent, Settings!Refuse, Settings!Move
  <2>2. SettingsTypes'
    BY <1>0, <2>1 DEF SettingsTypes
  <2>3. \A r \in Patch : patchAt'[r] \in {"asking", "applying"} => patchAt'[r] = patchAt[r]
    BY <1>0, <2>1 DEF SettingsTypes
  <2>4. AllHomely'
    BY <1>0, <2>1, <2>3 DEF AllHomely, Homely, Settings!ProviderOf
  <2> QED BY <2>2, <2>4 DEF SettingsInv
<1>3. ASSUME NEW q \in Patch, Settings!OllamaAnswers(q) PROVE SettingsInv'
  <2>1. /\ patchAt[q] = "asking" /\ Settings!Conclude(q, body[q], old[q])
        /\ UNCHANGED <<body, old, judge, used>>
    BY <1>3 DEF Settings!OllamaAnswers
  <2>2. /\ body[q] \in Settings!Fields /\ old[q] \in Config
        /\ body \in [Patch -> Settings!Fields] /\ old \in [Patch -> Config]
        /\ Settings!ProviderOf(body[q], old[q].provider) = "ollama"
    BY <1>0, <2>1 DEF SettingsTypes, AllHomely
  <2> QED BY <2>1, <2>2, ConcludeKeeps
<1>4. ASSUME NEW q \in Patch, NEW b \in Bodies, Settings!Answer(q, b) PROVE SettingsInv'
  <2> DEFINE now == Settings!Now(TrackOf[q])
  <2>1. /\ b \in Settings!Fields /\ TrackOf[q] \in {"native", "langgraph"}
        /\ now \in Config /\ Homely(now)
    BY NowIsHomely DEF Settings!Setting
  <2>2. /\ Settings!Conclude(q, b, now)
        /\ body' = [body EXCEPT ![q] = b] /\ old' = [old EXCEPT ![q] = now]
        /\ UNCHANGED <<judge, used>>
    BY <1>4 DEF Settings!Answer
  <2> HIDE DEF now
  <2>3. /\ body' \in [Patch -> Settings!Fields] /\ old' \in [Patch -> Config]
        /\ \A r \in Patch : r # q => body'[r] = body[r] /\ old'[r] = old[r]
    BY <1>0, <2>1, <2>2 DEF SettingsTypes
  <2> QED BY <2>1, <2>2, <2>3, ConcludeKeeps
<1>5. ASSUME NEW q \in Patch, Settings!Reconfigure(q) PROVE SettingsInv'
  <2>1. /\ patchAt[q] = "applying" /\ graph' = wanted[q] /\ client' = wanted[q]
        /\ patchAt' = [patchAt EXCEPT ![q] = "done"]
        /\ UNCHANGED <<clients, owner, agentModel, judge, body, old, wanted, used>>
    BY <1>5 DEF Settings!Reconfigure, Settings!Move
  <2>2. SettingsTypes'
    BY <1>0, <2>1 DEF SettingsTypes
  <2>3. \A r \in Patch : patchAt'[r] \in {"asking", "applying"} => patchAt'[r] = patchAt[r]
    BY <1>0, <2>1 DEF SettingsTypes
  <2>4. Homely(wanted[q])
    BY <1>0, <2>1 DEF AllHomely
  <2>5. AllHomely'
    BY <1>0, <2>1, <2>3, <2>4 DEF AllHomely, Homely, Settings!ProviderOf
  <2> QED BY <2>2, <2>5 DEF SettingsInv
<1>6. CASE \/ Settings!Compile \/ Settings!Compiled \/ UNCHANGED Settings!settingsVars
  <2>1. UNCHANGED <<graph, client, clients, owner, agentModel, judge, patchAt, body, old,
                    wanted, used>>
    BY <1>6 DEF Settings!Compile, Settings!Compiled, Settings!settingsVars
  <2> QED BY <1>0, <2>1 DEF SettingsInv, SettingsTypes, AllHomely, Homely, Settings!ProviderOf
<1>7. CASE Settings!GraphRun
  <2>1. graph \in Config /\ Homely(graph) /\ client = graph
    BY <1>0 DEF SettingsTypes, AllHomely
  <2>2. /\ used' = [used EXCEPT !["langgraph"] = [graph EXCEPT !.key = graph.key]]
        /\ UNCHANGED <<graph, client, clients, owner, agentModel, judge, patchAt, body, old,
                       wanted>>
    BY <1>7, <2>1 DEF Settings!GraphRun, Settings!Using
  <2>3. [graph EXCEPT !.key = graph.key] = graph
    BY <2>1 DEF Config
  <2> QED BY <2>1, <2>2, <2>3, UsingKeeps
<1>8. CASE Settings!NativeRun
  <2>1. Settings!NativeNow \in Config /\ Homely(Settings!NativeNow)
    BY NowIsHomely
  <2>2. /\ used' = [used EXCEPT !["native"] = Settings!NativeNow]
        /\ UNCHANGED <<graph, client, clients, owner, agentModel, judge, patchAt, body, old,
                       wanted>>
    BY <1>8 DEF Settings!NativeRun
  <2> QED BY <2>1, <2>2, UsingKeeps
<1>9. ASSUME NEW p \in Settings!Provider, Settings!JudgeRun(p) PROVE SettingsInv'
  <2> DEFINE m == Settings!ResolveModel(p, judge.model)
             k == Settings!JudgeKey(p)
             u == Settings!CleanBaseUrl(p, judge.urls[p])
             s == [provider |-> p, model |-> m, key |-> k, url |-> u]
  <2>1. /\ judge.model \in Words /\ judge.urls[p] \in Words /\ p \in Words
        /\ judge.keys[p] \in {p, "none"}
    BY <1>0 DEF SettingsTypes, AllHomely, Settings!Provider, Words
  <2>2. m \in Words /\ k \in {p, "none"} /\ k \in Words /\ u \in Words
    BY <2>1 DEF Settings!ResolveModel, Settings!JudgeKey, Settings!EnvKey,
                Settings!CleanBaseUrl, Words
  <2>3. p # "ollama" => k = p /\ u # "local"
    BY <1>9, <2>2 DEF Settings!JudgeRun, Settings!CleanBaseUrl
  <2>4. used' = [used EXCEPT !["judge"] = s]
    BY <1>9 DEF Settings!JudgeRun, Settings!Settings
  <2>5. UNCHANGED <<graph, client, clients, owner, agentModel, judge, patchAt, body, old,
                    wanted>>
    BY <1>9 DEF Settings!JudgeRun
  <2> HIDE DEF m, k, u
  <2>6. s \in Config /\ Homely(s)
    BY <2>2, <2>3 DEF Config, Homely, Settings!Provider
  <2> HIDE DEF s
  <2> QED BY <2>4, <2>5, <2>6, UsingKeeps
<1>10. ASSUME NEW b \in Bodies, Settings!PatchJudge(b) PROVE SettingsInv'
  <2> DEFINE p == Settings!ProviderOf(b, judge.provider)
             m == Settings!Chosen(b.model, p, judge.model)
             k == Settings!Chosen(b.key, p, judge.keys[p])
             u == Settings!Chosen(b.url, p, judge.urls[p])
  <2>1. /\ b.provider \in {"unset", "ollama", "groq", "openai"}
        /\ b.model \in {"unset", "empty", "given"} /\ b.key \in {"unset", "empty", "given"}
        /\ b.url \in {"unset", "empty", "local", "given"}
    BY DEF Settings!Fields, Settings!Setting
  <2>2. p \in Settings!Provider
    BY <1>0, <2>1 DEF SettingsTypes, Settings!ProviderOf, Settings!Provider
  <2>3. /\ judge.model \in Settings!Provider \cup {"none"}
        /\ judge.keys \in [Settings!Provider -> Words]
        /\ judge.urls \in [Settings!Provider -> Words]
        /\ judge.keys[p] \in {p, "none"} /\ judge.urls[p] \in Words
    BY <1>0, <2>2 DEF SettingsTypes, AllHomely
  <2>4. /\ m \in Settings!Provider \cup {"none"} /\ k \in {p, "none"} /\ k \in Words
        /\ u \in Words
    BY <2>1, <2>2, <2>3 DEF Settings!Chosen, Settings!Provider, Words
  <2>5. judge' = [provider |-> p, model |-> m, keys |-> [judge.keys EXCEPT ![p] = k],
                  urls |-> [judge.urls EXCEPT ![p] = u]]
    BY <1>0, <1>10 DEF Settings!PatchJudge, SettingsTypes
  <2>6. UNCHANGED <<graph, client, clients, owner, agentModel, patchAt, body, old, wanted,
                    used>>
    BY <1>10 DEF Settings!PatchJudge
  <2> HIDE DEF p, m, k, u
  <2>7. /\ judge' \in [provider : Settings!Provider, model : Settings!Provider \cup {"none"},
                       keys : [Settings!Provider -> Words], urls : [Settings!Provider -> Words]]
        /\ \A o \in Settings!Provider : judge'.keys[o] \in {o, "none"}
    <3>1. /\ [judge.keys EXCEPT ![p] = k] \in [Settings!Provider -> Words]
          /\ [judge.urls EXCEPT ![p] = u] \in [Settings!Provider -> Words]
      BY <2>3, <2>4
    <3>2. \A o \in Settings!Provider : [judge.keys EXCEPT ![p] = k][o] \in {o, "none"}
      BY <1>0, <2>2, <2>3, <2>4 DEF AllHomely
    <3> QED BY <2>2, <2>4, <2>5, <3>1, <3>2
  <2>8. SettingsTypes'
    BY <1>0, <2>6, <2>7 DEF SettingsTypes
  <2>9. AllHomely'
    BY <1>0, <2>6, <2>7 DEF AllHomely, Homely, Settings!ProviderOf
  <2> QED BY <2>8, <2>9 DEF SettingsInv
<1> QED BY <1>1, <1>2, <1>3, <1>4, <1>5, <1>6, <1>7, <1>8, <1>9, <1>10
        DEF Settings!Next, Settings!NextGraph, Settings!NextNative, Settings!NextJudge,
            Settings!Patching, Settings!Patched

\* As long as no model client refuses its settings, a run of a cloud provider has a key of
\* that provider and not the local server's URL, and a LangGraph run's client is the one
\* its settings describe: for any requests, bodies and environment.
THEOREM CallsAlwaysGoHome ==
  ASSUME Settings!Setting, Builds = {TRUE}
  PROVE  Settings!Spec => []CallsGoHome
<1>1. SettingsInv => CallsGoHome
  BY DEF SettingsInv, SettingsTypes, AllHomely, Homely, CallsGoHome, Settings!CallsGoHome,
         Settings!Provider
<1>2. Settings!Init => SettingsInv
  BY SettingsInit
<1>3. SettingsInv /\ [Settings!Next]_Settings!settingsVars => SettingsInv'
  BY SettingsStep
<1> QED BY <1>1, <1>2, <1>3, PTL DEF Settings!Spec

------------------------------------------------------------------------------
(* The requests around a native run.                                        *)

Request == Requests!Request
Receipt == Requests!Receipt
Logs == [sequence : Nat, run : Sender, helper : BOOLEAN,
         type : {"text", "error", "finished"}]
Frame == Logs \cup {Receipt}

RequestTypes ==
  /\ logged \in [Session -> Seq(Logs)]
  /\ runOf \in [Request -> Sender \cup {NoRequest}]
  /\ runAt \in [Request -> {"none", "running", "done", "raised", "cancelled"}]
  /\ stream \in [Sender -> {"none", "asked", "reading", "awaiting", "closed", "gone"}]
  /\ seen \in [Sender -> Nat] /\ frames \in [Sender -> Seq(Frame)]

Begun(r) == stream[r] \notin {"none", "asked"}

\* A request at work serves a run of its session that was begun; a sender its own.
Serving ==
  /\ \A q \in Sender : runOf[q] = q /\ (runAt[q] = "none" <=> ~Begun(q))
  /\ \A q \in Request : runAt[q] = "running" =>
       runOf[q] \in Sender /\ Begun(runOf[q]) /\ SessionOf[runOf[q]] = SessionOf[q]

\* The events of a session are numbered, and of runs of the session that were begun.
Numbered ==
  \A s \in Session : \A n \in DOMAIN logged[s] :
    /\ logged[s][n].sequence = n
    /\ SessionOf[logged[s][n].run] = s /\ Begun(logged[s][n].run)

InOrder(f) ==
  \A i, j \in DOMAIN f :
    i < j => f[i] # Receipt /\ (f[j] = Receipt \/ f[i].sequence < f[j].sequence)
OwnEnd(f) ==
  \E i \in DOMAIN f :
    /\ f[i].type \in {"finished", "error"} /\ ~f[i].helper
    /\ \A j \in DOMAIN f : j > i => f[j] = Receipt
Entries(f) == {f[i] : i \in DOMAIN f}

\* What the response of a sender has told.
Hears(q) ==
  /\ seen[q] <= Len(logged[SessionOf[q]])
  /\ {e \in Entries(frames[q]) : e # Receipt}
       = {e \in Entries(logged[SessionOf[q]]) : e.sequence <= seen[q] /\ e.run = q}
  /\ InOrder(frames[q])
  /\ stream[q] = "awaiting" /\ runAt[q] = "running" => OwnEnd(frames[q])
  /\ Receipt \in Entries(frames[q]) => stream[q] = "closed" /\ runAt[q] = "done"
  /\ ~Begun(q) => frames[q] = <<>>

StreamsInv == RequestTypes /\ Serving /\ Numbered /\ \A q \in Sender : Hears(q)

LEMMA StreamsInit == Requests!Setting /\ Requests!Init => StreamsInv
<1> SUFFICES ASSUME Requests!Setting, Requests!Init PROVE StreamsInv
  OBVIOUS
<1>1. /\ logged = [s \in Session |-> <<>>]
      /\ runOf = [q \in Request |-> IF q \in Sender THEN q ELSE NoRequest]
      /\ runAt = [q \in Request |-> "none"]
      /\ stream = [q \in Sender |-> "none"] /\ seen = [q \in Sender |-> 0]
      /\ frames = [q \in Sender |-> <<>>]
  BY DEF Requests!Init, Request
<1>2. Sender \subseteq Request /\ \A q \in Sender : SessionOf[q] \in Session
  BY DEF Requests!Setting, Request, Requests!Request
<1>3. <<>> \in Seq(Logs) /\ <<>> \in Seq(Frame) /\ Len(<<>>) = 0 /\ DOMAIN <<>> = {}
  OBVIOUS
<1>4. RequestTypes
  BY <1>1, <1>3 DEF RequestTypes
<1>5. Serving
  BY <1>1, <1>2 DEF Serving, Begun
<1>6. Numbered
  BY <1>1, <1>3 DEF Numbered
<1>7. ASSUME NEW q \in Sender PROVE Hears(q)
  <2>1. frames[q] = <<>> /\ logged[SessionOf[q]] = <<>> /\ seen[q] = 0 /\ stream[q] = "none"
    BY <1>1, <1>2
  <2>2. Entries(<<>>) = {} /\ InOrder(<<>>)
    BY <1>3 DEF Entries, InOrder
  <2> QED BY <1>3, <2>1, <2>2 DEF Hears
<1> QED BY <1>4, <1>5, <1>6, <1>7 DEF StreamsInv

LEMMA NoReceiptLogged ==
  ASSUME Requests!Setting
  PROVE  Receipt \notin Logs /\ Receipt.sequence = 0 /\ Sender \subseteq Request
BY DEF Requests!Setting, Receipt, Requests!Receipt, Request, Requests!Request, Logs

\* A frame more.
LEMMA FrameMore ==
  ASSUME NEW f \in Seq(Frame), NEW e \in Frame, Receipt \notin Entries(f), InOrder(f),
         e = Receipt \/ \A d \in Entries(f) : d.sequence < e.sequence
  PROVE  /\ Append(f, e) \in Seq(Frame) /\ Entries(Append(f, e)) = Entries(f) \cup {e}
         /\ InOrder(Append(f, e))
         /\ e.type \in {"finished", "error"} /\ ~e.helper => OwnEnd(Append(f, e))
<1> DEFINE g == Append(f, e)
<1>1. /\ g \in Seq(Frame) /\ DOMAIN g = DOMAIN f \cup {Len(f) + 1} /\ g[Len(f) + 1] = e
      /\ DOMAIN f = 1 .. Len(f) /\ Len(f) \in Nat
      /\ \A i \in DOMAIN f : g[i] = f[i]
  OBVIOUS
<1> HIDE DEF g
<1>2. Entries(g) = Entries(f) \cup {e}
  BY <1>1 DEF Entries
<1>3. ASSUME NEW i \in DOMAIN g, NEW j \in DOMAIN g, i < j
      PROVE  g[i] # Receipt /\ (g[j] = Receipt \/ g[i].sequence < g[j].sequence)
  <2>1. i \in DOMAIN f /\ g[i] = f[i] /\ f[i] \in Entries(f)
    BY <1>1, <1>3 DEF Entries
  <2>2. CASE j = Len(f) + 1
    BY <1>1, <2>1, <2>2
  <2>3. CASE j # Len(f) + 1
    BY <1>1, <1>3, <2>1, <2>3 DEF InOrder
  <2> QED BY <2>2, <2>3
<1>4. InOrder(g)
  BY <1>3 DEF InOrder
<1>5. ASSUME e.type \in {"finished", "error"}, ~e.helper PROVE OwnEnd(g)
  BY <1>1, <1>5 DEF OwnEnd
<1> QED BY <1>1, <1>2, <1>4, <1>5 DEF g

\* A stream that stays where it is keeps what it told, whatever is logged or ends.
LEMMA HearsStill ==
  ASSUME StreamsInv, NEW q \in Sender, SessionOf[q] \in Session,
         stream'[q] = stream[q], seen'[q] = seen[q], frames'[q] = frames[q],
         runAt'[q] = runAt[q] \/ runAt[q] = "running",
         Len(logged'[SessionOf[q]]) \in Nat,
         Len(logged'[SessionOf[q]]) >= Len(logged[SessionOf[q]]),
         Entries(logged[SessionOf[q]]) \subseteq Entries(logged'[SessionOf[q]]),
         \A e \in Entries(logged'[SessionOf[q]]) :
           e \in Entries(logged[SessionOf[q]]) \/ ~(e.sequence <= seen[q])
  PROVE  Hears(q)'
<1>1. Hears(q) /\ seen[q] \in Nat /\ Len(logged[SessionOf[q]]) \in Nat
  BY DEF StreamsInv, RequestTypes
<1>2. (seen[q] <= Len(logged[SessionOf[q]]))'
  BY <1>1 DEF Hears
<1>3. {e \in Entries(logged[SessionOf[q]]) : e.sequence <= seen[q] /\ e.run = q}'
        = {e \in Entries(logged[SessionOf[q]]) : e.sequence <= seen[q] /\ e.run = q}
  OBVIOUS
<1>4. {e \in Entries(frames[q]) : e # Receipt}' = {e \in Entries(frames[q]) : e # Receipt}
  BY DEF Receipt, Requests!Receipt, Entries
<1>5. ~Begun(q)' => frames[q]' = <<>>
  BY <1>1 DEF Hears, Begun
<1>6. Receipt \in Entries(frames[q]) => runAt[q] # "running"
  BY <1>1 DEF Hears
<1>7. (Receipt \in Entries(frames[q]))' = (Receipt \in Entries(frames[q]))
  BY DEF Receipt, Requests!Receipt, Entries
<1>8. InOrder(frames[q])' /\ (OwnEnd(frames[q]) => OwnEnd(frames[q])')
  BY <1>1 DEF Hears, InOrder, OwnEnd, Receipt, Requests!Receipt
<1>9. /\ (stream[q] = "awaiting" /\ runAt[q] = "running")' => OwnEnd(frames[q])'
      /\ (Receipt \in Entries(frames[q]))' => (stream[q] = "closed" /\ runAt[q] = "done")'
  BY <1>1, <1>6, <1>7, <1>8 DEF Hears
<1> QED BY <1>1, <1>2, <1>3, <1>4, <1>5, <1>8, <1>9 DEF Hears

\* When no event is logged, only a stream that moves has anything to show.
LEMMA SameLogs ==
  ASSUME Requests!Setting, StreamsInv, UNCHANGED logged,
         \A r \in Sender : Begun(r) => Begun(r)'
  PROVE  /\ Numbered'
         /\ \A q \in Sender :
              /\ SessionOf[q] \in Session
              /\ stream'[q] = stream[q] /\ seen'[q] = seen[q] /\ frames'[q] = frames[q]
                 /\ (runAt'[q] = runAt[q] \/ runAt[q] = "running")
                   => Hears(q)'
<1>1. RequestTypes /\ Numbered
  BY DEF StreamsInv
<1>2. ASSUME NEW s \in Session, NEW n \in DOMAIN logged[s]
      PROVE  logged[s][n].run \in Sender
  <2>1. logged[s] \in Seq(Logs)
    BY <1>1 DEF RequestTypes
  <2>2. logged[s][n] \in Logs
    BY <2>1
  <2> QED BY <2>2 DEF Logs
<1>3. Numbered'
  BY <1>1, <1>2 DEF Numbered
<1>4. \A q \in Sender : SessionOf[q] \in Session
  BY NoReceiptLogged DEF Requests!Setting, Request
<1>5. ASSUME NEW q \in Sender, stream'[q] = stream[q], seen'[q] = seen[q],
             frames'[q] = frames[q], runAt'[q] = runAt[q] \/ runAt[q] = "running"
      PROVE  Hears(q)'
  <2>1. Len(logged[SessionOf[q]]) \in Nat
    BY <1>1, <1>4 DEF RequestTypes
  <2> QED BY <1>4, <1>5, <2>1, HearsStill
<1> QED BY <1>3, <1>4, <1>5

LEMMA StreamsStep ==
  Requests!Setting /\ StreamsInv /\ [Requests!Next]_Requests!vars => StreamsInv'
<1> SUFFICES ASSUME Requests!Setting, StreamsInv, [Requests!Next]_Requests!vars
             PROVE  StreamsInv'
  OBVIOUS
<1>0. RequestTypes /\ Serving /\ Numbered /\ \A q \in Sender : Hears(q)
  BY DEF StreamsInv
<1>a. /\ Sender \subseteq Request /\ Receipt \notin Logs /\ Receipt.sequence = 0
      /\ \A q \in Request : SessionOf[q] \in Session
      /\ Sender \cap Resumer = {} /\ NoRequest \notin Sender
  BY NoReceiptLogged DEF Requests!Setting, Request, Requests!Request
\* The end of a run, of whatever request.
<1>b. ASSUME NEW q \in Request, NEW how \in {"done", "raised", "cancelled"},
             Requests!Ends(q, how), UNCHANGED <<seen, frames>>,
             \/ UNCHANGED stream
             \/ q \in Sender /\ stream[q] = "awaiting" /\ stream' = [stream EXCEPT ![q] = "gone"]
      PROVE  StreamsInv'
  <2>1. /\ runAt[q] = "running" /\ runAt' = [runAt EXCEPT ![q] = how]
        /\ UNCHANGED <<logged, runOf>>
    BY <1>b DEF Requests!Ends
  <2>2. \A r \in Sender : Begun(r)' <=> Begun(r)
    BY <1>0, <1>b DEF Begun, RequestTypes
  <2>3. RequestTypes'
    BY <1>0, <1>b, <2>1 DEF RequestTypes
  <2>4. Serving'
    BY <1>0, <1>a, <2>1, <2>2 DEF Serving, RequestTypes
  <2>5. ASSUME NEW r \in Sender PROVE runAt'[r] = runAt[r] \/ runAt[r] = "running"
    BY <1>0, <1>a, <2>1 DEF RequestTypes
  <2>6. ASSUME NEW r \in Sender PROVE Hears(r)'
    <3>1. CASE stream'[r] = stream[r]
      BY <1>b, <2>1, <2>2, <2>5, <3>1, SameLogs
    <3>2. CASE stream'[r] # stream[r]
      <4>1. r = q /\ stream[r] = "awaiting" /\ stream'[r] = "gone"
        BY <1>0, <1>b, <3>2 DEF RequestTypes
      <4>2. Hears(r) /\ Receipt \notin Entries(frames[r])
        BY <1>0, <4>1 DEF Hears
      <4>3. /\ seen'[r] = seen[r] /\ frames'[r] = frames[r]
            /\ logged'[SessionOf[r]] = logged[SessionOf[r]] /\ Begun(r) /\ Begun(r)'
        BY <1>b, <2>1, <4>1 DEF Begun
      <4>4. {d \in Entries(frames[r]) : d # Receipt}'
              = {d \in Entries(logged[SessionOf[r]]) : d.sequence <= seen[r] /\ d.run = r}'
        BY <4>2, <4>3 DEF Entries, Receipt, Requests!Receipt, Hears
      <4>5. InOrder(frames[r])' /\ (Receipt \notin Entries(frames[r]))'
        BY <4>2, <4>3 DEF Hears, InOrder, Entries, Receipt, Requests!Receipt
      <4>6. (seen[r] <= Len(logged[SessionOf[r]]))'
        BY <4>2, <4>3 DEF Hears
      <4> QED BY <4>1, <4>3, <4>4, <4>5, <4>6 DEF Hears
    <3> QED BY <3>1, <3>2
  <2> QED BY <2>1, <2>2, <2>3, <2>4, <2>6, SameLogs DEF StreamsInv
<1>1. ASSUME NEW q \in Sender, Requests!TakeTip(q) PROVE StreamsInv'
  <2>1. /\ stream[q] = "none" /\ runAt[q] = "none"
        /\ stream' = [stream EXCEPT ![q] = "asked"]
        /\ seen' = [seen EXCEPT ![q] = Len(logged[SessionOf[q]])]
        /\ UNCHANGED <<logged, runOf, runAt, frames>>
    BY <1>1 DEF Requests!TakeTip, Requests!requests
  <2>2. \A r \in Sender : Begun(r)' <=> Begun(r)
    BY <1>0, <2>1 DEF Begun, RequestTypes
  <2>3. Len(logged[SessionOf[q]]) \in Nat
    BY <1>0, <1>a DEF RequestTypes
  <2>4. RequestTypes'
    BY <1>0, <2>1, <2>3 DEF RequestTypes
  <2>5. Serving'
    BY <1>0, <1>a, <2>1, <2>2 DEF Serving
  <2>6. ASSUME NEW r \in Sender PROVE Hears(r)'
    <3>1. CASE r # q
      <4>1. stream'[r] = stream[r] /\ seen'[r] = seen[r] /\ frames'[r] = frames[r]
            /\ runAt'[r] = runAt[r]
        BY <1>0, <2>1, <3>1 DEF RequestTypes
      <4> QED BY <2>1, <2>2, <4>1, SameLogs
    <3>2. CASE r = q
      <4>1. ~Begun(r) /\ frames[r] = <<>>
        BY <1>0, <2>1, <3>2 DEF Hears, Begun
      <4>2. \A e \in Entries(logged[SessionOf[r]]) : e.run # r
        BY <1>0, <1>a, <4>1 DEF Numbered, Entries
      <4>3. Entries(<<>>) = {} /\ InOrder(<<>>)
        BY DEF Entries, InOrder
      <4>4. seen'[r] = Len(logged[SessionOf[r]]) /\ stream'[r] = "asked"
        BY <1>0, <2>1, <3>2 DEF RequestTypes
      <4> QED BY <2>1, <2>3, <3>2, <4>1, <4>2, <4>3, <4>4 DEF Hears, InOrder, Entries
    <3> QED BY <3>1, <3>2
  <2> QED BY <2>1, <2>2, <2>4, <2>5, <2>6, SameLogs DEF StreamsInv
<1>2. ASSUME NEW q \in Sender, Requests!StartRun(q) PROVE StreamsInv'
  <2>1. /\ stream[q] = "asked" /\ stream' = [stream EXCEPT ![q] = "reading"]
        /\ runAt' = [runAt EXCEPT ![q] = "running"]
        /\ UNCHANGED <<logged, runOf, seen, frames>>
    BY <1>2 DEF Requests!StartRun
  <2>2. \A r \in Sender : (Begun(r) => Begun(r)') /\ (Begun(r)' <=> Begun(r) \/ r = q)
    BY <1>0, <2>1 DEF Begun, RequestTypes
  <2>3. RequestTypes'
    BY <1>0, <1>a, <2>1 DEF RequestTypes
  <2>4. Serving'
    BY <1>0, <1>a, <2>1, <2>2 DEF Serving, RequestTypes
  <2>5. ASSUME NEW r \in Sender PROVE Hears(r)'
    <3>1. CASE r # q
      <4>1. stream'[r] = stream[r] /\ seen'[r] = seen[r] /\ frames'[r] = frames[r]
            /\ runAt'[r] = runAt[r]
        BY <1>0, <1>a, <2>1, <3>1 DEF RequestTypes
      <4> QED BY <2>1, <2>2, <4>1, SameLogs
    <3>2. CASE r = q
      <4>1. stream'[r] = "reading" /\ frames[r] = <<>> /\ Hears(r)
        BY <1>0, <2>1, <3>2 DEF RequestTypes, Hears, Begun
      <4>2. Receipt \notin Entries(frames[r])
        BY <4>1 DEF Entries
      <4> QED BY <2>1, <4>1, <4>2
               DEF Hears, Begun, InOrder, Entries, Receipt, Requests!Receipt
    <3> QED BY <3>1, <3>2
  <2> QED BY <2>1, <2>2, <2>3, <2>4, <2>5, SameLogs DEF StreamsInv
<1>3. ASSUME NEW q \in Sender, Requests!Read(q) PROVE StreamsInv'
  <2> DEFINE n == seen[q] + 1
             e == logged[SessionOf[q]][n]
  <2>1. /\ stream[q] = "reading" /\ seen[q] < Len(logged[SessionOf[q]])
        /\ frames' = [frames EXCEPT ![q] =
             IF Requests!BelongsToRun(q, e) THEN Append(@, e) ELSE @]
        /\ stream' = [stream EXCEPT ![q] =
             IF Requests!BelongsToRun(q, e) /\ Requests!EndsStream(q, e) THEN "awaiting" ELSE @]
        /\ seen' = [seen EXCEPT ![q] = @ + 1]
        /\ UNCHANGED <<logged, runOf, runAt>>
    BY <1>3 DEF Requests!Read, Requests!requests
  <2>2. /\ n \in DOMAIN logged[SessionOf[q]] /\ e \in Logs /\ e.sequence = n
        /\ logged[SessionOf[q]] \in Seq(Logs) /\ seen[q] \in Nat /\ n = seen[q] + 1
        /\ frames[q] \in Seq(Frame) /\ e \in Frame
    <3>1. logged[SessionOf[q]] \in Seq(Logs) /\ seen[q] \in Nat /\ frames[q] \in Seq(Frame)
      BY <1>0, <1>a DEF RequestTypes
    <3>2. n \in DOMAIN logged[SessionOf[q]]
      BY <2>1, <3>1
    <3>3. e \in Logs
      BY <3>1, <3>2
    <3>4. e.sequence = n
      BY <1>0, <1>a, <3>2 DEF Numbered
    <3> QED BY <3>1, <3>2, <3>3, <3>4 DEF Frame
  <2> HIDE DEF e, n
  <2>3. Hears(q) /\ Begun(q) /\ Receipt \notin Entries(frames[q])
    BY <1>0, <2>1 DEF Hears, Begun
  <2>4. stream'[q] \in {"reading", "awaiting"} /\ \A r \in Sender : Begun(r)' <=> Begun(r)
    BY <1>0, <2>1 DEF Begun, RequestTypes
  <2>5. /\ InOrder(frames[q]) /\ Receipt \notin Logs /\ e # Receipt
        /\ \A d \in Entries(frames[q]) : d \in Logs /\ d.sequence < e.sequence
    <3>1. ASSUME NEW d \in Entries(frames[q]) PROVE d \in Logs /\ d.sequence < e.sequence
      <4>1. d \in Frame /\ d # Receipt
        BY <2>2, <2>3 DEF Entries
      <4>2. d \in Logs
        BY <4>1 DEF Frame
      <4>3. d.sequence <= seen[q]
        BY <2>3, <4>1 DEF Hears
      <4> QED BY <2>2, <4>2, <4>3 DEF Logs
    <3> QED BY <1>a, <2>2, <2>3, <3>1 DEF Hears
  <2>6. /\ Append(frames[q], e) \in Seq(Frame)
        /\ Entries(Append(frames[q], e)) = Entries(frames[q]) \cup {e}
        /\ InOrder(Append(frames[q], e))
        /\ e.type \in {"finished", "error"} /\ ~e.helper => OwnEnd(Append(frames[q], e))
    BY <2>2, <2>3, <2>5, FrameMore
  <2>7. frames'[q] = IF e.run = q THEN Append(frames[q], e) ELSE frames[q]
    BY <1>0, <2>1 DEF RequestTypes, Requests!BelongsToRun
  <2>8. seen'[q] = n /\ n \in Nat
    BY <1>0, <2>1, <2>2 DEF RequestTypes
  <2>9. RequestTypes'
    <3>1. frames'[q] \in Seq(Frame)
      BY <2>2, <2>6, <2>7
    <3> QED BY <1>0, <2>1, <2>8, <3>1 DEF RequestTypes
  <2>10. Serving'
    BY <1>0, <1>a, <2>1, <2>4 DEF Serving
  <2>11. ASSUME NEW r \in Sender PROVE Hears(r)'
    <3>1. CASE r # q
      <4>1. stream'[r] = stream[r] /\ seen'[r] = seen[r] /\ frames'[r] = frames[r]
            /\ runAt'[r] = runAt[r]
        BY <1>0, <2>1, <3>1 DEF RequestTypes
      <4> QED BY <2>1, <2>4, <4>1, SameLogs
    <3>2. CASE r = q
      <4> DEFINE heard(m) == {d \in Entries(logged[SessionOf[q]]) : d.sequence <= m /\ d.run = q}
      <4>1. \A d \in Entries(logged[SessionOf[q]]) :
              d.sequence \in Nat /\ (d.sequence = n => d = e)
        BY <1>0, <1>a, <2>2 DEF Numbered, Entries, e
      <4>2. e \in Entries(logged[SessionOf[q]])
        BY <2>2 DEF Entries, e
      <4>3. heard(n) = heard(seen[q]) \cup (IF e.run = q THEN {e} ELSE {})
        BY <2>2, <4>1, <4>2
      <4>4. {d \in Entries(frames'[q]) : d # Receipt}
              = {d \in Entries(frames[q]) : d # Receipt} \cup (IF e.run = q THEN {e} ELSE {})
        BY <2>5, <2>6, <2>7
      <4>5. {d \in Entries(frames'[q]) : d # Receipt} = heard(n)
        BY <2>3, <4>3, <4>4 DEF Hears
      <4>6. Receipt \notin Entries(frames'[q]) /\ InOrder(frames'[q])
        BY <2>3, <2>5, <2>6, <2>7
      <4>7. stream'[q] = "awaiting" /\ runAt[q] = "running" => OwnEnd(frames'[q])
        BY <1>0, <2>1, <2>6, <2>7 DEF RequestTypes, Requests!BelongsToRun, Requests!EndsStream
      <4>8. n <= Len(logged[SessionOf[q]]) /\ Begun(q)'
        BY <2>2, <2>3, <2>4
      <4>9. InOrder(frames[q])' /\ (OwnEnd(frames'[q]) => OwnEnd(frames[q])')
        BY <4>6 DEF InOrder, OwnEnd, Receipt, Requests!Receipt
      <4>10. {d \in Entries(frames[q]) : d # Receipt}'
               = {d \in Entries(logged[SessionOf[q]]) : d.sequence <= seen[q] /\ d.run = q}'
        BY <2>1, <2>8, <4>5 DEF Entries, Receipt, Requests!Receipt
      <4>11. (Receipt \notin Entries(frames[q]))'
        BY <4>6 DEF Entries, Receipt, Requests!Receipt
      <4>12. (stream[q] = "awaiting" /\ runAt[q] = "running")' => OwnEnd(frames[q])'
        BY <2>1, <4>7, <4>9
      <4>13. (seen[q] <= Len(logged[SessionOf[q]]))'
        BY <2>1, <2>8, <4>8
      <4> QED BY <3>2, <4>8, <4>9, <4>10, <4>11, <4>12, <4>13 DEF Hears
    <3> QED BY <3>1, <3>2
  <2> QED BY <2>1, <2>4, <2>9, <2>10, <2>11, SameLogs DEF StreamsInv
<1>4. ASSUME NEW q \in Sender, Requests!GiveReceipt(q) PROVE StreamsInv'
  <2>1. /\ stream[q] = "awaiting" /\ runAt[q] # "running"
        /\ frames' = [frames EXCEPT ![q] =
             IF runAt[q] = "done" THEN Append(@, Receipt) ELSE @]
        /\ stream' = [stream EXCEPT ![q] = "closed"]
        /\ UNCHANGED <<logged, runOf, runAt, seen>>
    BY <1>4 DEF Requests!GiveReceipt, Requests!requests, Receipt
  <2>2. Hears(q) /\ Begun(q) /\ Receipt \notin Entries(frames[q]) /\ frames[q] \in Seq(Frame)
    BY <1>0, <2>1 DEF Hears, Begun, RequestTypes
  <2>3. Receipt \in Frame /\ InOrder(frames[q])
    BY <2>2 DEF Frame, Hears
  <2>4. /\ Append(frames[q], Receipt) \in Seq(Frame)
        /\ Entries(Append(frames[q], Receipt)) = Entries(frames[q]) \cup {Receipt}
        /\ InOrder(Append(frames[q], Receipt))
    BY <2>2, <2>3, FrameMore
  <2>5. stream'[q] = "closed" /\ \A r \in Sender : Begun(r)' <=> Begun(r)
    BY <1>0, <2>1 DEF Begun, RequestTypes
  <2>6. frames'[q] = IF runAt[q] = "done" THEN Append(frames[q], Receipt) ELSE frames[q]
    BY <1>0, <2>1 DEF RequestTypes
  <2>7. RequestTypes'
    <3>1. frames'[q] \in Seq(Frame)
      BY <2>2, <2>4, <2>6
    <3> QED BY <1>0, <2>1, <3>1 DEF RequestTypes
  <2>8. Serving'
    BY <1>0, <1>a, <2>1, <2>5 DEF Serving
  <2>9. ASSUME NEW r \in Sender PROVE Hears(r)'
    <3>1. CASE r # q
      <4>1. stream'[r] = stream[r] /\ seen'[r] = seen[r] /\ frames'[r] = frames[r]
            /\ runAt'[r] = runAt[r]
        BY <1>0, <2>1, <3>1 DEF RequestTypes
      <4> QED BY <2>1, <2>5, <4>1, SameLogs
    <3>2. CASE r = q
      <4>1. {d \in Entries(frames'[q]) : d # Receipt} = {d \in Entries(frames[q]) : d # Receipt}
        BY <2>4, <2>6
      <4>2. InOrder(frames'[q]) /\ (Receipt \in Entries(frames'[q]) => runAt[q] = "done")
        BY <2>2, <2>3, <2>4, <2>6
      <4>3. InOrder(frames[q])' /\ (Receipt \in Entries(frames[q]))' => (runAt[q] = "done")'
        BY <2>1, <4>2 DEF InOrder, Entries, Receipt, Requests!Receipt
      <4>4. {d \in Entries(frames[q]) : d # Receipt}'
              = {d \in Entries(logged[SessionOf[q]]) : d.sequence <= seen[q] /\ d.run = q}'
        BY <2>1, <2>2, <4>1 DEF Entries, Receipt, Requests!Receipt, Hears
      <4>5. InOrder(frames[q])'
        BY <4>2 DEF InOrder, Receipt, Requests!Receipt
      <4>6. (seen[q] <= Len(logged[SessionOf[q]]))' /\ Begun(q)'
        BY <2>1, <2>2, <2>5 DEF Hears
      <4> QED BY <2>5, <3>2, <4>3, <4>4, <4>5, <4>6 DEF Hears
    <3> QED BY <3>1, <3>2
  <2> QED BY <2>1, <2>5, <2>7, <2>8, <2>9, SameLogs DEF StreamsInv
<1>5. ASSUME NEW q \in Sender, Requests!Disconnect(q) PROVE StreamsInv'
  <2>1. /\ stream[q] \in {"reading", "awaiting"}
        /\ stream' = [stream EXCEPT ![q] = "gone"] /\ UNCHANGED <<seen, frames>>
    BY <1>5 DEF Requests!Disconnect
  <2>2. CASE stream[q] = "awaiting" /\ runAt[q] = "running"
    <3>1. Requests!Ends(q, "cancelled")
      BY <1>5, <2>2 DEF Requests!Disconnect
    <3> QED BY <1>a, <1>b, <2>1, <2>2, <3>1
  <2>3. CASE ~(stream[q] = "awaiting" /\ runAt[q] = "running")
    <3>1. UNCHANGED <<logged, runOf, runAt>>
      BY <1>5, <2>3 DEF Requests!Disconnect, Requests!requests
    <3>2. \A r \in Sender : Begun(r)' <=> Begun(r)
      BY <1>0, <2>1 DEF Begun, RequestTypes
    <3>3. RequestTypes'
      BY <1>0, <2>1, <3>1 DEF RequestTypes
    <3>4. Serving'
      BY <1>0, <1>a, <3>1, <3>2 DEF Serving
    <3>5. ASSUME NEW r \in Sender PROVE Hears(r)'
      <4>1. CASE stream'[r] = stream[r]
        BY <2>1, <3>1, <3>2, <4>1, SameLogs
      <4>2. CASE stream'[r] # stream[r]
        <5>1. r = q /\ stream[r] \in {"reading", "awaiting"} /\ stream'[r] = "gone"
          BY <1>0, <2>1, <4>2 DEF RequestTypes
        <5>2. Hears(r) /\ Receipt \notin Entries(frames[r])
          BY <1>0, <5>1 DEF Hears
        <5>3. /\ seen'[r] = seen[r] /\ frames'[r] = frames[r]
              /\ logged'[SessionOf[r]] = logged[SessionOf[r]] /\ Begun(r)'
          BY <2>1, <3>1, <5>1 DEF Begun
        <5>4. {d \in Entries(frames[r]) : d # Receipt}'
                = {d \in Entries(logged[SessionOf[r]]) : d.sequence <= seen[r] /\ d.run = r}'
          BY <5>2, <5>3 DEF Entries, Receipt, Requests!Receipt, Hears
        <5>5. InOrder(frames[r])' /\ (Receipt \notin Entries(frames[r]))'
          BY <5>2, <5>3 DEF Hears, InOrder, Entries, Receipt, Requests!Receipt
        <5>6. (seen[r] <= Len(logged[SessionOf[r]]))'
          BY <5>2, <5>3 DEF Hears
        <5> QED BY <5>1, <5>3, <5>4, <5>5, <5>6 DEF Hears
      <4> QED BY <4>1, <4>2
    <3> QED BY <3>1, <3>2, <3>3, <3>4, <3>5, SameLogs DEF StreamsInv
  <2> QED BY <2>2, <2>3
<1>6. ASSUME NEW q \in Request, Requests!Return(q) \/ Requests!Raise(q) PROVE StreamsInv'
  <2>1. UNCHANGED <<stream, seen, frames>>
    BY <1>6 DEF Requests!Return, Requests!Raise, Requests!streams
  <2>2. Requests!Ends(q, "done") \/ Requests!Ends(q, "raised")
    BY <1>6 DEF Requests!Return, Requests!Raise
  <2> QED BY <1>b, <2>1, <2>2
<1>7. ASSUME NEW q \in Request, NEW type \in {"text", "error", "finished"},
             NEW helper \in BOOLEAN, Requests!Emit(q, type, helper)
      PROVE  StreamsInv'
  <2> DEFINE s == SessionOf[q]
             e == [sequence |-> Len(logged[s]) + 1, run |-> runOf[q], helper |-> helper,
                   type |-> type]
  <2>1. /\ runAt[q] = "running" /\ logged' = [logged EXCEPT ![s] = Append(logged[s], e)]
        /\ UNCHANGED <<runOf, runAt, stream, seen, frames>>
    BY <1>7 DEF Requests!Emit, Requests!requests, Requests!streams
  <2>2. runOf[q] \in Sender /\ Begun(runOf[q]) /\ SessionOf[runOf[q]] = s /\ s \in Session
    BY <1>0, <1>a, <2>1 DEF Serving
  <2>3. logged[s] \in Seq(Logs) /\ Len(logged[s]) \in Nat
    BY <1>0, <2>2 DEF RequestTypes
  <2>4. /\ e \in Logs /\ e.run = runOf[q] /\ e.sequence = Len(logged[s]) + 1
    BY <2>2, <2>3 DEF Logs
  <2> HIDE DEF e
  <2>5. /\ logged'[s] \in Seq(Logs) /\ Len(logged'[s]) = Len(logged[s]) + 1
        /\ DOMAIN logged'[s] = DOMAIN logged[s] \cup {Len(logged[s]) + 1}
        /\ logged'[s][Len(logged[s]) + 1] = e
        /\ \A n \in DOMAIN logged[s] : logged'[s][n] = logged[s][n]
        /\ \A t \in Session : t # s => logged'[t] = logged[t]
    <3>1. logged'[s] = Append(logged[s], e) /\ \A t \in Session : t # s => logged'[t] = logged[t]
      BY <1>0, <2>1, <2>2 DEF RequestTypes
    <3> QED BY <2>3, <2>4, <3>1
  <2>6. RequestTypes'
    BY <1>0, <2>1, <2>2, <2>5 DEF RequestTypes
  <2>7. Serving'
    BY <1>0, <2>1 DEF Serving, Begun
  <2>8. ASSUME NEW t \in Session, NEW n \in DOMAIN logged'[t]
        PROVE  /\ logged'[t][n].sequence = n
               /\ SessionOf[logged'[t][n].run] = t /\ Begun(logged'[t][n].run)
    <3>1. CASE t = s /\ n = Len(logged[s]) + 1
      BY <2>2, <2>4, <2>5, <3>1
    <3>2. CASE ~(t = s /\ n = Len(logged[s]) + 1)
      <4>1. n \in DOMAIN logged[t] /\ logged'[t][n] = logged[t][n]
        BY <2>5, <2>8, <3>2
      <4> QED BY <1>0, <4>1 DEF Numbered
    <3> QED BY <3>1, <3>2
  <2>9. Numbered'
    BY <2>1, <2>8 DEF Numbered, Begun
  <2>10. ASSUME NEW r \in Sender PROVE Hears(r)'
    <3>1. SessionOf[r] \in Session /\ logged[SessionOf[r]] \in Seq(Logs) /\ seen[r] \in Nat
          /\ seen[r] <= Len(logged[SessionOf[r]])
      BY <1>0, <1>a DEF RequestTypes, Hears
    <3>2. CASE SessionOf[r] # s
      <4>1. logged'[SessionOf[r]] = logged[SessionOf[r]]
        BY <2>5, <3>1, <3>2
      <4> QED BY <2>1, <3>1, <4>1, HearsStill
    <3>3. CASE SessionOf[r] = s
      <4>1. Entries(logged'[s]) = Entries(logged[s]) \cup {e}
        BY <2>5 DEF Entries
      <4>2. ~(e.sequence <= seen[r])
        BY <2>3, <2>4, <3>1, <3>3
      <4>3. /\ Entries(logged[s]) \subseteq Entries(logged'[s])
            /\ \A d \in Entries(logged'[s]) :
                 d \in Entries(logged[s]) \/ ~(d.sequence <= seen[r])
            /\ Len(logged'[s]) \in Nat /\ Len(logged'[s]) >= Len(logged[s])
        BY <2>3, <2>5, <4>1, <4>2
      <4> HIDE DEF s
      <4> QED BY <2>1, <3>1, <3>3, <4>3, HearsStill
    <3> QED BY <3>2, <3>3
  <2> QED BY <2>6, <2>7, <2>9, <2>10 DEF StreamsInv
<1>8. ASSUME NEW q \in Resumer, NEW r \in Sender, Requests!Peek(q, r) PROVE StreamsInv'
  <2>1. /\ runOf' = [runOf EXCEPT ![q] = r] /\ runAt' = [runAt EXCEPT ![q] = "running"]
        /\ Requests!Latest(SessionOf[q], r) /\ UNCHANGED <<logged, stream, seen, frames>>
    BY <1>8 DEF Requests!Peek, Requests!streams
  <2>2. q \in Request /\ q \notin Sender /\ SessionOf[q] \in Session
    BY <1>a DEF Request, Requests!Request
  <2>3. Begun(r) /\ SessionOf[r] = SessionOf[q]
    BY <1>0, <2>1, <2>2 DEF Numbered, Requests!Latest
  <2>4. RequestTypes'
    BY <1>0, <2>1, <2>2 DEF RequestTypes
  <2>5. \A p \in Sender : Begun(p)' <=> Begun(p)
    BY <2>1 DEF Begun
  <2>6. Serving'
    BY <1>0, <1>a, <2>1, <2>2, <2>3, <2>5 DEF Serving, RequestTypes
  <2>7. ASSUME NEW p \in Sender PROVE Hears(p)'
    <3>1. runAt'[p] = runAt[p]
      BY <1>0, <1>a, <2>1, <2>2 DEF RequestTypes
    <3> QED BY <2>1, <2>5, <3>1, SameLogs
  <2> QED BY <2>1, <2>4, <2>5, <2>6, <2>7, SameLogs DEF StreamsInv
<1>9. ASSUME UNCHANGED <<logged, runOf, runAt, stream, seen, frames>> PROVE StreamsInv'
  <2>1. \A p \in Sender : Begun(p)' <=> Begun(p)
    BY <1>9 DEF Begun
  <2>2. RequestTypes' /\ Serving'
    BY <1>0, <1>9, <2>1 DEF RequestTypes, Serving, Begun
  <2>3. ASSUME NEW p \in Sender PROVE Hears(p)'
    BY <1>9, <2>1, SameLogs
  <2> QED BY <1>9, <2>1, <2>2, <2>3, SameLogs DEF StreamsInv
<1>10. ASSUME NEW s, NEW a, NEW b, Requests!Cancelling(s, a, b) PROVE StreamsInv'
  BY <1>9, <1>10 DEF Requests!Cancelling, Requests!requests, Requests!streams
<1>11. CASE \E s \in Session : \/ Requests!CancelSession(s)
                              \/ \E r \in Requests!Runs : Requests!CancelRun(s, r)
  BY <1>10, <1>11 DEF Requests!CancelSession, Requests!CancelRun
<1>12. CASE UNCHANGED Requests!vars
  BY <1>9, <1>12 DEF Requests!vars, Requests!requests, Requests!streams
<1> QED BY <1>1, <1>2, <1>3, <1>4, <1>5, <1>6, <1>7, <1>8, <1>11, <1>12
        DEF Requests!Next, Request, Requests!Runs

\* The response to a send tells what its run and the run's helpers log, in order and
\* nothing else, and stops before the run is over only on the run's own end or error:
\* for any sessions, requests, events and cancels, resumes of a live run included.
THEOREM StreamsAlwaysTellTheRun ==
  ASSUME Requests!Setting
  PROVE  Requests!Spec => []Requests!StreamsTellTheRun
<1>1. ASSUME StreamsInv PROVE Requests!StreamsTellTheRun
  <2>1. ASSUME NEW q \in Sender
        PROVE  /\ Requests!Told(q) = {e \in Requests!ToSet(logged[SessionOf[q]]) :
                                         e.sequence <= seen[q] /\ Requests!BelongsToRun(q, e)}
               /\ OwnEnd(frames[q]) => Requests!OnOwnEnd(q)
               /\ Entries(frames[q]) = Requests!ToSet(frames[q])
    BY <1>1 DEF StreamsInv, Hears, Entries, Requests!ToSet, Requests!Told, OwnEnd, Receipt,
       Requests!OnOwnEnd, Requests!BelongsToRun
  <2> QED BY <1>1, <2>1 DEF StreamsInv, Hears, InOrder, Receipt, Requests!StreamsTellTheRun
<1>2. Requests!Init => StreamsInv
  BY StreamsInit
<1>3. StreamsInv /\ [Requests!Next]_Requests!vars => StreamsInv'
  BY StreamsStep
<1> QED BY <1>1, <1>2, <1>3, PTL DEF Requests!Spec

\* The registry of cancellations holds, for each run that is served, the request that
\* serves it, and a session's entry lists those of its runs.
Registered ==
  /\ registry \in [Sender -> Request \cup {NoRequest}]
  /\ \A r \in Sender : registry[r] # NoRequest =>
       registry[r] \in Request /\ runAt[registry[r]] = "running" /\ runOf[registry[r]] = r
  /\ \A q \in Request : runAt[q] = "running" => registry[runOf[q]] = q
  /\ index = [s \in Session |->
       {r \in Sender : SessionOf[r] = s /\ registry[r] # NoRequest}]

CancelsInv == StreamsInv /\ Registered /\ flipped = aimed

LEMMA ServedIsRegistered ==
  ASSUME Requests!Setting, CancelsInv, NEW r \in Sender
  PROVE  Requests!ServedBy(r) = {registry[r]} \ {NoRequest}
BY DEF CancelsInv, Registered, Requests!ServedBy, Request, Requests!Setting

LEMMA CancelsStep ==
  ASSUME Requests!Setting, ~ResumesLive, CancelsInv, [Requests!Next]_Requests!vars
  PROVE  CancelsInv'
<1>0. /\ StreamsInv /\ RequestTypes /\ Serving /\ Registered /\ flipped = aimed
      /\ Sender \subseteq Request /\ NoRequest \notin Request
      /\ \A q \in Request : SessionOf[q] \in Session
      /\ Sender \cap Resumer = {}
  BY NoReceiptLogged
     DEF CancelsInv, StreamsInv, Requests!Setting, Request, Requests!Request
<1>a. StreamsInv'
  BY <1>0, StreamsStep
<1>b. ASSUME UNCHANGED Requests!requests PROVE Registered'
  BY <1>0, <1>b DEF Requests!requests, Registered
\* A run is served by q from here on, and was by nobody.
<1>c. ASSUME NEW q \in Request, NEW r \in Sender, Requests!Register(q, r),
             SessionOf[r] = SessionOf[q], registry[r] = NoRequest, runAt[q] # "running",
             runAt' = [runAt EXCEPT ![q] = "running"], runOf' = [runOf EXCEPT ![q] = r]
      PROVE  Registered'
  <2>1. /\ registry' = [registry EXCEPT ![r] = q]
        /\ index' = [index EXCEPT ![SessionOf[q]] = @ \cup {r}]
    BY <1>c DEF Requests!Register
  <2>2. registry' \in [Sender -> Request \cup {NoRequest}]
    BY <1>0, <2>1 DEF Registered
  <2>3. /\ registry'[r] = q /\ runAt'[q] = "running" /\ runOf'[q] = r /\ q # NoRequest
        /\ \A p \in Sender : p # r => registry'[p] = registry[p]
        /\ \A p \in Request : p # q => runAt'[p] = runAt[p] /\ runOf'[p] = runOf[p]
    BY <1>0, <1>c, <2>1 DEF Registered, RequestTypes
  <2>4. ASSUME NEW p \in Sender, registry'[p] # NoRequest
        PROVE  /\ registry'[p] \in Request /\ runAt'[registry'[p]] = "running"
               /\ runOf'[registry'[p]] = p
    BY <1>0, <1>c, <2>3, <2>4 DEF Registered
  <2>5. ASSUME NEW p \in Request, runAt'[p] = "running" PROVE registry'[runOf'[p]] = p
    <3>1. CASE p = q
      BY <2>3, <3>1
    <3>2. CASE p # q
      <4>1. registry[runOf[p]] = p /\ runOf[p] \in Sender
        BY <1>0, <2>3, <2>5, <3>2 DEF Registered, Serving
      <4> QED BY <1>0, <1>c, <2>3, <3>2, <4>1
    <3> QED BY <3>1, <3>2
  <2>6. index' = [s \in Session |->
          {p \in Sender : SessionOf[p] = s /\ registry'[p] # NoRequest}]
    <3>1. ASSUME NEW s \in Session
          PROVE  index'[s] = {p \in Sender : SessionOf[p] = s /\ registry'[p] # NoRequest}
      BY <1>0, <1>c, <2>1, <2>3 DEF Registered
    <3>2. index' = [s \in Session |-> index'[s]]
      BY <1>0, <2>1 DEF Registered
    <3> QED BY <3>1, <3>2
  <2> QED BY <2>2, <2>4, <2>5, <2>6 DEF Registered
<1>d. ASSUME NEW q \in Request, NEW how \in {"done", "raised", "cancelled"},
             Requests!Ends(q, how)
      PROVE  CancelsInv'
  <2> DEFINE r == runOf[q]
  <2>1. /\ runAt[q] = "running" /\ runAt' = [runAt EXCEPT ![q] = how]
        /\ registry' = [registry EXCEPT ![r] = NoRequest]
        /\ index' = [index EXCEPT ![SessionOf[q]] = index[SessionOf[q]] \ {r}]
        /\ UNCHANGED <<runOf, flipped, aimed>>
    BY <1>d DEF Requests!Ends, Requests!Unregister, Requests!Unlisted
  <2>2. r \in Sender /\ SessionOf[r] = SessionOf[q] /\ registry[r] = q
    BY <1>0, <2>1 DEF Serving, Registered
  <2> HIDE DEF r
  <2>3. registry' \in [Sender -> Request \cup {NoRequest}]
    BY <1>0, <2>1 DEF Registered
  <2>4. /\ registry'[r] = NoRequest /\ runAt'[q] # "running"
        /\ \A p \in Sender : p # r => registry'[p] = registry[p]
        /\ \A p \in Request : p # q => runAt'[p] = runAt[p]
    BY <1>0, <2>1, <2>2 DEF Registered, RequestTypes
  <2>5. ASSUME NEW p \in Sender, registry'[p] # NoRequest
        PROVE  /\ registry'[p] \in Request /\ runAt'[registry'[p]] = "running"
               /\ runOf'[registry'[p]] = p
    <3>1. p # r /\ registry[p] \in Request /\ runOf[registry[p]] = p
          /\ runAt[registry[p]] = "running"
      BY <1>0, <2>4, <2>5 DEF Registered
    <3> QED BY <2>1, <2>4, <3>1 DEF r
  <2>6. ASSUME NEW p \in Request, runAt'[p] = "running" PROVE registry'[runOf'[p]] = p
    <3>1. p # q /\ registry[runOf[p]] = p /\ runOf[p] \in Sender
      BY <1>0, <2>4, <2>6 DEF Registered, Serving
    <3> QED BY <2>1, <2>2, <2>4, <3>1
  <2>7. index' = [s \in Session |->
          {p \in Sender : SessionOf[p] = s /\ registry'[p] # NoRequest}]
    <3>1. ASSUME NEW s \in Session
          PROVE  index'[s] = {p \in Sender : SessionOf[p] = s /\ registry'[p] # NoRequest}
      BY <1>0, <2>1, <2>2, <2>4 DEF Registered
    <3>2. index' = [s \in Session |-> index'[s]]
      BY <1>0, <2>1 DEF Registered
    <3> QED BY <3>1, <3>2
  <2> QED BY <1>0, <1>a, <2>1, <2>3, <2>5, <2>6, <2>7 DEF Registered, CancelsInv
<1>1. ASSUME NEW q \in Sender,
             \/ Requests!TakeTip(q) \/ Requests!Read(q) \/ Requests!GiveReceipt(q)
      PROVE  CancelsInv'
  <2>1. UNCHANGED Requests!requests /\ UNCHANGED <<flipped, aimed>>
    BY <1>1 DEF Requests!TakeTip, Requests!Read, Requests!GiveReceipt
  <2> QED BY <1>0, <1>a, <1>b, <2>1 DEF CancelsInv
<1>2. ASSUME NEW q \in Sender, Requests!StartRun(q) PROVE CancelsInv'
  <2>1. /\ stream[q] = "asked" /\ Requests!Register(q, q)
        /\ runAt' = [runAt EXCEPT ![q] = "running"] /\ UNCHANGED <<runOf, flipped, aimed>>
    BY <1>2 DEF Requests!StartRun
  <2>2. ~Begun(q) /\ runOf[q] = q
    BY <1>0, <2>1 DEF Begun, Serving
  <2>3. registry[q] = NoRequest /\ runAt[q] # "running"
    BY <1>0, <2>2 DEF Registered, Serving
  <2>4. runOf' = [runOf EXCEPT ![q] = q]
    BY <1>0, <2>1, <2>2 DEF RequestTypes
  <2>5. Registered'
    BY <1>0, <1>c, <2>1, <2>3, <2>4
  <2> QED BY <1>0, <1>a, <2>1, <2>5 DEF CancelsInv
<1>3. ASSUME NEW q \in Sender, Requests!Disconnect(q) PROVE CancelsInv'
  <2>1. \/ Requests!Ends(q, "cancelled")
        \/ UNCHANGED Requests!requests /\ UNCHANGED <<flipped, aimed>>
    BY <1>3 DEF Requests!Disconnect
  <2>2. CASE Requests!Ends(q, "cancelled")
    BY <1>0, <1>d, <2>2
  <2>3. CASE UNCHANGED Requests!requests /\ UNCHANGED <<flipped, aimed>>
    BY <1>0, <1>a, <1>b, <2>3 DEF CancelsInv
  <2> QED BY <2>1, <2>2, <2>3
<1>4. ASSUME NEW q \in Request, Requests!Return(q) \/ Requests!Raise(q) PROVE CancelsInv'
  <2>1. Requests!Ends(q, "done") \/ Requests!Ends(q, "raised")
    BY <1>4 DEF Requests!Return, Requests!Raise
  <2> QED BY <1>d, <2>1
<1>5. ASSUME NEW q, NEW type, NEW helper, Requests!Emit(q, type, helper) PROVE CancelsInv'
  <2>1. UNCHANGED Requests!requests /\ UNCHANGED <<flipped, aimed>>
    BY <1>5 DEF Requests!Emit
  <2> QED BY <1>0, <1>a, <1>b, <2>1 DEF CancelsInv
<1>6. ASSUME NEW q \in Resumer, NEW r \in Sender, Requests!Peek(q, r) PROVE CancelsInv'
  <2>1. /\ runAt[q] = "none" /\ Requests!Latest(SessionOf[q], r)
        /\ Requests!ServedBy(r) = {} /\ Requests!Register(q, r)
        /\ runOf' = [runOf EXCEPT ![q] = r] /\ runAt' = [runAt EXCEPT ![q] = "running"]
        /\ UNCHANGED <<flipped, aimed>>
    BY <1>6, ~ResumesLive DEF Requests!Peek
  <2>2. q \in Request /\ SessionOf[q] \in Session
    BY <1>0 DEF Request, Requests!Request
  <2>3. SessionOf[r] = SessionOf[q]
    BY <1>0, <2>1, <2>2 DEF StreamsInv, Numbered, Requests!Latest
  <2>4. registry[r] = NoRequest
    BY <2>1, ServedIsRegistered
  <2>5. Registered'
    BY <1>c, <2>1, <2>2, <2>3, <2>4
  <2> QED BY <1>0, <1>a, <2>1, <2>5 DEF CancelsInv
\* A cancel flips what serves the runs it means.
<1>7. ASSUME NEW a \in SUBSET Sender, NEW b \in SUBSET Sender, NEW s,
             Requests!Cancelling(s, a, b),
             \A r \in Sender : registry[r] # NoRequest => (r \in a <=> r \in b)
      PROVE  CancelsInv'
  <2>1. /\ aimed' = aimed \cup UNION {Requests!ServedBy(r) : r \in a}
        /\ flipped' = flipped \cup ({registry[r] : r \in b} \ {NoRequest})
        /\ UNCHANGED Requests!requests
    BY <1>7 DEF Requests!Cancelling
  <2>2. \A r \in a : Requests!ServedBy(r) = {registry[r]} \ {NoRequest}
    BY ServedIsRegistered
  <2>3. UNION {Requests!ServedBy(r) : r \in a} = {registry[r] : r \in a} \ {NoRequest}
    BY <2>2
  <2>4. {registry[r] : r \in a} \ {NoRequest} = {registry[r] : r \in b} \ {NoRequest}
    BY <1>7
  <2>5. flipped' = aimed'
    BY <1>0, <2>1, <2>3, <2>4
  <2> QED BY <1>a, <1>b, <2>1, <2>5 DEF CancelsInv
<1>8. ASSUME NEW s \in Session, NEW r \in Sender, Requests!CancelRun(s, r) PROVE CancelsInv'
  <2>1. Requests!Cancelling(s, {r}, {r})
    BY <1>8 DEF Requests!CancelRun
  <2> QED BY <1>7, <2>1
<1>9. ASSUME NEW s \in Session, Requests!CancelSession(s) PROVE CancelsInv'
  <2>1. Requests!Cancelling(s, {r \in Sender : SessionOf[r] = s}, index[s])
    BY <1>9 DEF Requests!CancelSession, Requests!Runs
  <2>2. index[s] = {r \in Sender : SessionOf[r] = s /\ registry[r] # NoRequest}
    BY <1>0 DEF Registered
  <2> DEFINE a == {r \in Sender : SessionOf[r] = s}
             b == index[s]
  <2>3. /\ a \in SUBSET Sender /\ b \in SUBSET Sender
        /\ \A r \in Sender : registry[r] # NoRequest => (r \in a <=> r \in b)
    BY <2>2
  <2>4. Requests!Cancelling(s, a, b)
    BY <2>1
  <2> HIDE DEF a, b
  <2> QED BY <1>7, <2>3, <2>4
<1>10. CASE UNCHANGED Requests!vars
  BY <1>0, <1>a, <1>b, <1>10 DEF Requests!vars, CancelsInv
<1> QED BY <1>1, <1>2, <1>3, <1>4, <1>5, <1>6, <1>8, <1>9, <1>10
        DEF Requests!Next, Request, Requests!Runs

\* Where no live run is resumed, a cancel flips the cancellations of the runs it means and
\* no other, however sends, resumes and cancels overlap in a session; and the streams tell
\* their runs: for any sessions, requests and events.
THEOREM RequestsAlwaysMindTheirRuns ==
  ASSUME Requests!Setting, ~ResumesLive
  PROVE  Requests!Spec => []RequestsMindTheirRuns
<1>1. Requests!Init => CancelsInv
  <2> SUFFICES ASSUME Requests!Init PROVE CancelsInv
    OBVIOUS
  <2>1. /\ registry = [r \in Sender |-> NoRequest] /\ index = [s \in Session |-> {}]
        /\ runAt = [q \in Request |-> "none"] /\ flipped = {} /\ aimed = {}
    BY DEF Requests!Init, Requests!Runs, Request
  <2>2. \A s \in Session : {r \in Sender : SessionOf[r] = s /\ registry[r] # NoRequest} = {}
    BY <2>1
  <2>3. Registered
    BY <2>1, <2>2 DEF Registered
  <2> QED BY <2>1, <2>3, StreamsInit DEF CancelsInv
<1>2. CancelsInv /\ [Requests!Next]_Requests!vars => CancelsInv'
  BY CancelsStep
<1>3. CancelsInv => Requests!CancelsHitTheirRuns
  BY DEF CancelsInv, Requests!CancelsHitTheirRuns
<1>4. Requests!Spec => []Requests!CancelsHitTheirRuns
  BY <1>1, <1>2, <1>3, PTL DEF Requests!Spec
<1>5. Requests!Spec => []Requests!StreamsTellTheRun
  BY StreamsAlwaysTellTheRun
<1> QED BY <1>4, <1>5, PTL DEF RequestsMindTheirRuns, Requests!RequestsMindTheirRuns

------------------------------------------------------------------------------
(* The event bus.                                                           *)

BusProofs == INSTANCE EventBusProofs
  WITH Task <- Emitter, Client <- Listener, MaxEvents <- MaxNumbered,
       MaxFaults <- MaxBusFaults, log <- busLog, counter <- numbered, faults <- busFaults

\* The theorems of EventBusProofs speak of the same bus.
LEMMA SameBus ==
  (BusProofs!Init <=> Bus!Init) /\ ([BusProofs!Next]_BusProofs!vars <=> [Bus!Next]_Bus!vars)
<1>1. BusProofs!vars = Bus!vars /\ (BusProofs!vars' = BusProofs!vars <=> Bus!vars' = Bus!vars)
  BY DEF Bus!vars, BusProofs!vars, Bus!bus, BusProofs!bus, Bus!history, BusProofs!history
<1>2. BusProofs!Init <=> Bus!Init
  BY DEF Bus!Init, BusProofs!Init, Bus!NoEvent, BusProofs!NoEvent
<1>3. ASSUME NEW t \in Emitter
      PROVE  /\ (BusProofs!Emit(t) <=> Bus!Emit(t))
             /\ (BusProofs!FailEmit(t) <=> Bus!FailEmit(t))
  <2>1. BusProofs!Number(t) <=> Bus!Number(t)
    BY DEF Bus!Number, BusProofs!Number, Bus!LockFree, BusProofs!LockFree, Bus!bus,
           BusProofs!bus, Bus!history, BusProofs!history, Bus!NoEvent, BusProofs!NoEvent
  <2>2. BusProofs!Save(t) <=> Bus!Save(t)
    BY DEF Bus!Save, BusProofs!Save, Bus!bus, BusProofs!bus, Bus!history, BusProofs!history
  <2>3. BusProofs!FanOut(t) <=> Bus!FanOut(t)
    BY DEF Bus!FanOut, BusProofs!FanOut, Bus!Push, BusProofs!Push, Bus!Registered,
           BusProofs!Registered, Bus!history, BusProofs!history, Bus!NoEvent, BusProofs!NoEvent
  <2>4. BusProofs!FailEmit(t) <=> Bus!FailEmit(t)
    BY DEF Bus!FailEmit, BusProofs!FailEmit, Bus!bus, BusProofs!bus, Bus!NoEvent,
           BusProofs!NoEvent
  <2> QED BY <2>1, <2>2, <2>3, <2>4 DEF Bus!Emit, BusProofs!Emit
<1>4. ASSUME NEW c \in Listener
      PROVE  BusProofs!Stream(c) <=> Bus!Stream(c)
  <2>1. BusProofs!Load(c) <=> Bus!Load(c)
    BY DEF Bus!Load, BusProofs!Load, Bus!SetMode, BusProofs!SetMode, Bus!After,
           BusProofs!After, Bus!history, BusProofs!history
  <2>2. BusProofs!Replay(c) <=> Bus!Replay(c)
    BY DEF Bus!Replay, BusProofs!Replay, Bus!IsFirst, BusProofs!IsFirst, Bus!Take,
           BusProofs!Take
  <2>3. BusProofs!GoLive(c) <=> Bus!GoLive(c)
    BY DEF Bus!GoLive, BusProofs!GoLive, Bus!SetMode, BusProofs!SetMode, Bus!history,
           BusProofs!history
  <2>4. BusProofs!Receive(c) <=> Bus!Receive(c)
    BY DEF Bus!Receive, BusProofs!Receive, Bus!Take, BusProofs!Take, Bus!Stop, BusProofs!Stop,
           Bus!NoEvent, BusProofs!NoEvent
  <2>5. BusProofs!Stopped(c) <=> Bus!Stopped(c)
    BY DEF Bus!Stopped, BusProofs!Stopped, Bus!Unsubscribe, BusProofs!Unsubscribe, Bus!Stop,
           BusProofs!Stop, Bus!NoEvent, BusProofs!NoEvent, Bus!history, BusProofs!history
  <2> QED BY <2>1, <2>2, <2>3, <2>4, <2>5 DEF Bus!Stream, BusProofs!Stream
<1>5. ASSUME NEW c \in Listener
      PROVE  /\ (BusProofs!Snapshot(c) <=> Bus!Snapshot(c))
             /\ (BusProofs!Subscribe(c) <=> Bus!Subscribe(c))
             /\ (BusProofs!Disconnect(c) <=> Bus!Disconnect(c))
  <2>1. BusProofs!Snapshot(c) <=> Bus!Snapshot(c)
    BY DEF Bus!Snapshot, BusProofs!Snapshot, Bus!IsTip, BusProofs!IsTip, Bus!bus, BusProofs!bus
  <2>2. BusProofs!Subscribe(c) <=> Bus!Subscribe(c)
    BY DEF Bus!Subscribe, BusProofs!Subscribe, Bus!Register, BusProofs!Register, Bus!SetMode,
           BusProofs!SetMode, Bus!Seen, BusProofs!Seen, Bus!history, BusProofs!history
  <2>3. BusProofs!Disconnect(c) <=> Bus!Disconnect(c)
    BY DEF Bus!Disconnect, BusProofs!Disconnect, Bus!Unsubscribe, BusProofs!Unsubscribe,
           Bus!history, BusProofs!history
  <2> QED BY <2>1, <2>2, <2>3
<1>6. ASSUME NEW c \in Listener
      PROVE  BusProofs!CatchUp(c) <=> Bus!CatchUp(c)
  <2>1. BusProofs!Fetch(c) <=> Bus!Fetch(c)
    BY DEF Bus!Fetch, BusProofs!Fetch, Bus!SetMode, BusProofs!SetMode, Bus!After,
           BusProofs!After, Bus!Seen, BusProofs!Seen, Bus!history, BusProofs!history
  <2>2. BusProofs!Send(c) <=> Bus!Send(c)
    BY DEF Bus!Send, BusProofs!Send, Bus!IsFirst, BusProofs!IsFirst
  <2>3. BusProofs!SubscribeFromTip(c) <=> Bus!SubscribeFromTip(c)
    BY DEF Bus!SubscribeFromTip, BusProofs!SubscribeFromTip, Bus!Register, BusProofs!Register,
           Bus!SetMode, BusProofs!SetMode, Bus!IsTip, BusProofs!IsTip, Bus!history,
           BusProofs!history
  <2> QED BY <2>1, <2>2, <2>3 DEF Bus!CatchUp, BusProofs!CatchUp
<1>7. BusProofs!Close <=> Bus!Close
  BY DEF Bus!Close, BusProofs!Close, Bus!Push, BusProofs!Push, Bus!Registered,
         BusProofs!Registered, Bus!Stop, BusProofs!Stop, Bus!NoEvent, BusProofs!NoEvent,
         Bus!Range, BusProofs!Range, Bus!history, BusProofs!history
<1>8. BusProofs!DeleteSession <=> Bus!DeleteSession
  BY DEF Bus!DeleteSession, BusProofs!DeleteSession, Bus!bus, BusProofs!bus
<1>9. BusProofs!Crash <=> Bus!Crash
  BY DEF Bus!Crash, BusProofs!Crash, Bus!Unsubscribe, BusProofs!Unsubscribe, Bus!NoEvent,
         BusProofs!NoEvent
<1>10. BusProofs!Direct <=> Bus!Direct
  BY <1>3, <1>4, <1>5, <1>7, <1>9 DEF BusProofs!Direct, Bus!Direct
<1>11. BusProofs!Next <=> Bus!Next
  BY <1>6, <1>8, <1>10 DEF BusProofs!Next, Bus!Next
<1> QED BY <1>1, <1>2, <1>11

\* Nothing arrives twice or out of order at a client of the bus, whatever happens to the
\* session, nor at a client of the endpoint until the session is deleted.
THEOREM ClientsAlwaysHearInOrder ==
  ASSUME Bus!ClientsAssumption, Bus!CutAssumption, Bus!BoundsAssumption
  PROVE  Bus!Spec => []HandedInOrder
<1>1. BusProofs!Spec => []BusProofs!HandedInOrder
  <2>1. /\ BusProofs!ClientsAssumption /\ BusProofs!CutAssumption
        /\ BusProofs!BoundsAssumption
    BY DEF Bus!ClientsAssumption, BusProofs!ClientsAssumption, Bus!CutAssumption, BusProofs!CutAssumption,
       Bus!BoundsAssumption, BusProofs!BoundsAssumption
  <2> QED BY <2>1, BusProofs!HandedInOrderHolds
<1>2. BusProofs!HandedInOrder => HandedInOrder
  BY DEF HandedInOrder, Bus!HandedInOrder, BusProofs!HandedInOrder,
     Bus!Ascending, BusProofs!Ascending
<1>3. Bus!Init => BusProofs!Init
  BY SameBus
<1>4. [Bus!Next]_Bus!vars => [BusProofs!Next]_BusProofs!vars
  BY SameBus
<1> QED BY <1>1, <1>2, <1>3, <1>4, PTL DEF Bus!Spec, BusProofs!Spec

================================================================================
