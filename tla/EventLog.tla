------------------------------ MODULE EventLog ------------------------------
(***************************************************************************)
(* What the event bus promises: a log of numbered entries that only grows, *)
(* at its end, and any number of readers that each move along it, one      *)
(* entry at a time and skipping none, from where they joined and across    *)
(* any number of disconnects.  A reader who stays is shown everything.     *)
(***************************************************************************)
EXTENDS Naturals

CONSTANTS Entry, Reader

VARIABLES
  log,    \* the entries so far; their field seq is their number
  cursor, \* reader -> the number of the entry it was last shown
  open    \* readers connected now

vars == <<log, cursor, open>>

Unread(r) == {e \in log : e.seq > cursor[r]}

Init ==
  /\ log = {}
  /\ cursor = [r \in Reader |-> 0]
  /\ open = {}

Record ==
  /\ \E e \in Entry : /\ \A d \in log : d.seq < e.seq
                      /\ log' = log \cup {e}
  /\ UNCHANGED <<cursor, open>>

\* A reader who is not interested in the past starts at the end.
SkipToEnd(r) ==
  /\ r \notin open
  /\ \E e \in Unread(r) : /\ \A d \in log : d.seq <= e.seq
                          /\ cursor' = [cursor EXCEPT ![r] = e.seq]
  /\ UNCHANGED <<log, open>>

Enter(r) ==
  /\ open' = open \cup {r}
  /\ UNCHANGED <<log, cursor>>

Leave ==
  /\ open' \in SUBSET open
  /\ UNCHANGED <<log, cursor>>

Show(r) ==
  /\ r \in open
  /\ \E e \in Unread(r) : /\ \A d \in Unread(r) : e.seq <= d.seq
                          /\ cursor' = [cursor EXCEPT ![r] = e.seq]
  /\ UNCHANGED <<log, open>>

Next == Record \/ Leave \/ \E r \in Reader : SkipToEnd(r) \/ Enter(r) \/ Show(r)

Spec == Init /\ [][Next]_vars
FairSpec == Spec /\ \A r \in Reader : WF_vars(Show(r))

=============================================================================
