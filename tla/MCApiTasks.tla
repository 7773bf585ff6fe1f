------------------------------ MODULE MCApiTasks ------------------------------
(***************************************************************************)
(* The tasks of the API on small instances: their life cycle, and the      *)
(* events of one of them.  "part" picks which of the two takes its steps.  *)
(***************************************************************************)
EXTENDS TaskLifecycle, TaskEvents, TLC

CONSTANT Parts
VARIABLE part

(* Two tasks of one thread and an evaluation attempt, with two requests at once. *)
CONSTANTS k1, k2, e1, chat, bench, q1, q2

Tasks == {k1, k2, e1}
Evals == {e1}
Threads == {chat, bench}
Threading == [k \in Tasks |-> IF k = e1 THEN bench ELSE chat]
Requests == {q1, q2}

(* A reader of a task; readers touch nothing of each other. *)
CONSTANT c1
Readers == {c1}

Symmetry == Permutations(Requests) \cup Permutations(Tasks \ Evals)

------------------------------------------------------------------------------
ApiInit == part \in Parts /\ Init /\ Stream!Init

ApiNext ==
  \/ part = "lifecycle" /\ Next /\ UNCHANGED <<part, streamVars>>
  \/ part = "stream" /\ Stream!Next /\ UNCHANGED <<part, vars>>

ApiSpec == ApiInit /\ [][ApiNext]_<<part, vars, streamVars>>

===============================================================================
