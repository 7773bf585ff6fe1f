----------------------------- MODULE MCGraphRun -----------------------------
(* Small instances of GraphRun. *)
EXTENDS GraphRun

CONSTANTS look, write, wipe

LookAndWrite == {look, write}
WriteAndWipe == {write, wipe}
OnlyWrite == {write}
OnlyWipe == {wipe}
Nothing == {}
Asked == {"human"}
NotAsked == {"off", "deny"}
AllGates == {"human", "off", "deny"}

\* Two instances in one run: two tasks and one resume, from the latest checkpoint and
\* under every gate; or one task that people are asked about, two resumes and the
\* checkpoints that are kept.
VARIABLE rewinds

BoundedInit == Init /\ rewinds \in BOOLEAN /\ (rewinds => gate = "human")

BoundedNext ==
  \/ rewinds /\ Next /\ turns' <= 1 /\ gate' = "human" /\ UNCHANGED rewinds
  \/ ~rewinds /\ Next /\ resumes' <= 1 /\ kept' = {} /\ UNCHANGED rewinds

BoundedSpec == BoundedInit /\ [][BoundedNext]_<<vars, rewinds>>

=============================================================================
