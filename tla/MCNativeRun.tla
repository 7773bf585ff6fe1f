---------------------------- MODULE MCNativeRun ----------------------------
(* Small instances of NativeRun. *)
EXTENDS NativeRun, TLC

CONSTANTS t1, t2, r1, r2, w1, w2

OneTask == {t1}
TwoTasks == {t1, t2}
Reads == {r1, r2}
TwoReadsOneWrite == {r1, r2, w1}
TwoReadsTwoWrites == {r1, r2, w1, w2}
ReadAndWrite == {r1, w1}
OneRead == {r1}

Writes == {w1, w2}
ReadSymmetry == Permutations(Reads)
CallSymmetry == Permutations(Reads) \cup Permutations(Writes)

============================================================================
