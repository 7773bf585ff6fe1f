----------------------------- MODULE MCEventBus -----------------------------
(* Small instances of EventBus. *)
EXTENDS EventBus, TLC

CONSTANTS t1, t2, c1, c2

TwoTasks == {t1, t2}
OneTask == {t1}
TwoClients == {c1, c2}
OneClient == {c1}
Nobody == {}

BusSymmetry == Permutations(TwoTasks) \cup Permutations(TwoClients)

=============================================================================
