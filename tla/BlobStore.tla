------------------------------ MODULE BlobStore ------------------------------
(***************************************************************************)
(* The desktop's two SQLite stores, the API's SQLiteTaskRepository and the *)
(* native SQLiteDatabase: the dictionaries of the store in memory, and one *)
(* row that holds them all, pickled.  Every call changes the dictionaries, *)
(* then has a worker thread pickle and store the whole, under one lock;    *)
(* what the calls say is in TaskStores and NativeStores.                   *)
(*                                                                         *)
(* A value counts the changes of its object: 0 before it was made, Gone    *)
(* once it was deleted.  A thread that runs cannot be cancelled: when the  *)
(* call is, its lock is free again and its thread goes on.                 *)
(***************************************************************************)
EXTENDS Naturals

CONSTANTS Object, Caller, NoCaller,
          Cancels,            \* calls may be cancelled while their thread runs
          MaxValue, MaxFaults \* bounds: changes of an object; failed writes and crashes

VARIABLES values,   \* the dictionaries: [Object -> 0 .. Gone]
          row,      \* the stored row, likewise
          lock,     \* the caller that holds _write_lock
          call,     \* [Caller -> [object, value] it writes]
          thread,   \* [Caller -> what its worker thread does]
          pickled,  \* [Caller -> what it pickled]
          isOpen,   \* the connection
          told,     \* [Object -> the last value a caller was told is stored]
          faults

vars == <<values, row, lock, call, thread, pickled, isOpen, told, faults>>

Gone == MaxValue + 1
Value == 0 .. Gone
Threads == {"none", "pickling", "storing", "done", "failed"}
NoWrite == [object |-> CHOOSE x \in Object : TRUE, value |-> 0]

TypeOK ==
  /\ values \in [Object -> Value] /\ row \in [Object -> Value] /\ told \in [Object -> Value]
  /\ lock \in Caller \cup {NoCaller} /\ thread \in [Caller -> Threads]
  /\ call \in [Caller -> [object : Object, value : Value]]
  /\ pickled \in [Caller -> [Object -> Value]]
  /\ isOpen \in BOOLEAN /\ faults \in 0 .. MaxFaults

Init ==
  /\ values = [x \in Object |-> 0] /\ row = values /\ told = values
  /\ lock = NoCaller /\ thread = [c \in Caller |-> "none"]
  /\ call = [c \in Caller |-> NoWrite] /\ pickled = [c \in Caller |-> values]
  /\ isOpen = TRUE /\ faults = 0

------------------------------------------------------------------------------
(* A call: the change, and the write of everything, under the lock.         *)
Free(c) == thread[c] = "none" /\ lock # c

Change(c, x, v) ==
  /\ values' = [values EXCEPT ![x] = v]
  /\ call' = [call EXCEPT ![c] = [object |-> x, value |-> v]]
  /\ thread' = [thread EXCEPT ![c] = "pickling"]
  /\ UNCHANGED <<row, pickled, isOpen, told, faults>>

\* Mutant of Acquire: nobody waits for the lock.
AcquireAtOnce(c) == lock' = c
Acquire(c) == lock = NoCaller /\ lock' = c

\* save_task, create_run, append_event, ... and save_message, next_sequence, ...
SaveRecord(c, x) ==
  /\ Free(c) /\ values[x] < MaxValue /\ Acquire(c) /\ Change(c, x, values[x] + 1)

\* delete_thread, delete_session: what is not there is not written either.
Delete(c, x) ==
  /\ Free(c) /\ values[x] \in 1 .. MaxValue /\ Acquire(c) /\ Change(c, x, Gone)

\* _write_sync: the worker thread pickles the dictionaries as they are, ...
Pickle(c) ==
  /\ thread[c] = "pickling" /\ isOpen
  /\ pickled' = [pickled EXCEPT ![c] = values]
  /\ thread' = [thread EXCEPT ![c] = "storing"]
  /\ UNCHANGED <<values, row, lock, call, isOpen, told, faults>>
\* ... replaces the row and commits, ...
Store(c) ==
  /\ thread[c] = "storing" /\ isOpen
  /\ row' = pickled[c]
  /\ thread' = [thread EXCEPT ![c] = "done"]
  /\ UNCHANGED <<values, lock, call, pickled, isOpen, told, faults>>
\* ... or fails: a dictionary changed under it, the disk, another process's lock.
WriteFails(c) ==
  /\ thread[c] \in {"pickling", "storing"}
  /\ \/ ~isOpen /\ UNCHANGED faults
     \/ faults < MaxFaults /\ faults' = faults + 1
  /\ thread' = [thread EXCEPT ![c] = "failed"]
  /\ UNCHANGED <<values, row, lock, call, pickled, isOpen, told>>

\* The call returns, or raises: the change stays in the dictionaries all the same.
Return(c) ==
  /\ thread[c] \in {"done", "failed"} /\ lock = c
  /\ lock' = NoCaller /\ thread' = [thread EXCEPT ![c] = "none"]
  /\ told' = IF thread[c] = "done" /\ told[call[c].object] < call[c].value
             THEN [told EXCEPT ![call[c].object] = call[c].value] ELSE told
  /\ call' = [call EXCEPT ![c] = NoWrite]
  /\ UNCHANGED <<values, row, pickled, isOpen, faults>>

\* The caller is cancelled: the lock is released, the thread is not stopped.
Cancel(c) ==
  /\ Cancels /\ lock = c /\ thread[c] \in {"pickling", "storing"}
  /\ lock' = NoCaller
  /\ UNCHANGED <<values, row, call, thread, pickled, isOpen, told, faults>>
\* A thread nobody waits for ends.
Orphan(c) ==
  /\ thread[c] \in {"done", "failed"} /\ lock # c
  /\ thread' = [thread EXCEPT ![c] = "none"]
  /\ UNCHANGED <<values, row, lock, call, pickled, isOpen, told, faults>>

\* close: everything is written once more, then the connection goes.
Close ==
  /\ isOpen /\ lock = NoCaller
  /\ row' = values /\ isOpen' = FALSE
  /\ UNCHANGED <<values, lock, call, thread, pickled, told, faults>>

------------------------------------------------------------------------------
\* _load, after the process ended, in order or not: what the row holds.
Load ==
  /\ values' = row /\ isOpen' = TRUE
  /\ lock' = NoCaller /\ thread' = [c \in Caller |-> "none"]
  /\ UNCHANGED <<row, call, pickled, told>>
Crash == faults < MaxFaults /\ faults' = faults + 1 /\ Load
Reopen == ~isOpen /\ UNCHANGED faults /\ Load

Next ==
  \/ \E c \in Caller :
       \/ \E x \in Object : SaveRecord(c, x) \/ Delete(c, x)
       \/ Pickle(c) \/ Store(c) \/ WriteFails(c) \/ Return(c) \/ Cancel(c) \/ Orphan(c)
  \/ Close \/ Crash \/ Reopen

Spec == Init /\ [][Next]_vars

------------------------------------------------------------------------------
\* What a caller was told is stored stays stored (sqlite.py 3-10: "crash-safe
\* durability"): over failed writes, crashes and restarts, the row is never behind it.
ToldIsStored == \A x \in Object : row[x] >= told[x]

===============================================================================
