------------------------------- MODULE MCParts --------------------------------
(***************************************************************************)
(* The smaller parts of the agent on small instances, one part at a time:  *)
(* "part" picks one, only its steps are taken and the other parts rest in  *)
(* their initial states.  The parts share no state in the code.            *)
(***************************************************************************)
EXTENDS SandboxPool, AgentParts, Integers, TLC

CONSTANT Parts   \* the parts to look at
VARIABLE part

------------------------------------------------------------------------------
(* Two commands of one session and one of another, which ToolManager runs. *)
CONSTANTS c1, c2, c3, k1, k2
Calls == {c1, c2, c3}
Keys == {k1, k2}
Keying == [c \in Calls |-> IF c = c3 THEN k2 ELSE k1]
ByManager == {c3}

(* Two runs on a chain of models. *)
CONSTANTS r1, r2
Runs == {r1, r2}

(* A write inside the folder and one that also leaves it, a write of another *)
(* session in plan mode, and a read outside the folder.                      *)
CONSTANTS a1, a2, a3, a4
Asks == {a1, a2, a3, a4}
Asking(tool, session, id, places, planning) ==
  [tool |-> tool, session |-> session, id |-> id, places |-> places, planning |-> planning]
Askings ==
  (a1 :> Asking("write", "s1", 1, {"in"}, FALSE)) @@
  (a2 :> Asking("write", "s1", 2, {"in", "out"}, FALSE)) @@
  (a3 :> Asking("write", "s2", 3, {"in"}, TRUE)) @@
  (a4 :> Asking("read", "s2", 4, {"out"}, FALSE))
OneRule == <<[tool |-> "write", verdict |-> "allow"]>>
TwoScopes == {Anywhere, {"in"}}

(* Messages of two sessions in two folders; two processes on another folder. *)
CONSTANTS s1, s2
Senders == {s1, s2}
OwnFolder == [s \in Senders |-> s]
Processes == {s1, s2}

------------------------------------------------------------------------------
(* Two sessions of the native agent, a run of the first, a note and a call. *)
CONSTANTS LateCalls, MaxWrites, MaxLostAnswers
VARIABLES nativeMem, nativeSql, deleted, drawn, writes, lostAnswers
nativeVars == <<nativeMem, nativeSql, deleted, drawn, writes, lostAnswers>>

Native == INSTANCE NativeStores
  WITH Session <- {1, 2}, Run <- {r1}, SessionOf <- (r1 :> 1), Note <- {"n1"}, Call <- {c1},
       Global <- 0, MaxLost <- MaxLostAnswers,
       mem <- nativeMem, sql <- nativeSql, lost <- lostAnswers

NativeStoresAgree == part = "native" => Native!NativeStoresAgree
\* Runs are answered once they have a receipt.  (get_run)  TLC refutes it.
OnlyReceipts == part = "native" => Native!OnlyReceipts

------------------------------------------------------------------------------
\* The instances are among those the theorems of PartsProofs speak of.
ASSUME PartsAssumption ==
  /\ Turn!Setting /\ Gate!Setting /\ Gate!OwnIds /\ Help!Setting /\ Mcp!Setting
  /\ Fold!Setting /\ Files!Setting

PartsInit ==
  /\ part \in Parts
  /\ Init /\ Turn!Init /\ Gate!Init /\ Help!Init /\ Mcp!Init
  /\ Native!Init /\ Fold!Init /\ Files!Init

\* Part p takes a step and the others none.
Only(p) ==
  /\ part = p /\ UNCHANGED part
  /\ IF p = "pool" THEN TRUE ELSE UNCHANGED poolVars
  /\ IF p = "turn" THEN TRUE ELSE UNCHANGED turnVars
  /\ IF p = "gate" THEN TRUE ELSE UNCHANGED permVars
  /\ IF p = "help" THEN TRUE ELSE UNCHANGED helperVars
  /\ IF p = "mcp" THEN TRUE ELSE UNCHANGED mcpVars
  /\ IF p = "native" THEN TRUE ELSE UNCHANGED nativeVars
  /\ IF p = "fold" THEN TRUE ELSE UNCHANGED foldVars
  /\ IF p = "checkpoints" THEN TRUE ELSE UNCHANGED checkpointVars

PartsNext ==
  \/ Only("pool") /\ Next
  \/ Only("turn") /\ Turn!Next
  \/ Only("gate") /\ Gate!Next
  \/ Only("help") /\ Help!Next
  \/ Only("mcp") /\ Mcp!Next
  \/ Only("native") /\ Native!Next
  \/ Only("fold") /\ Fold!Next
  \/ Only("checkpoints") /\ Files!Next

partsVars == <<part, poolVars, turnVars, permVars, helperVars, mcpVars, nativeVars,
               foldVars, checkpointVars>>

PartsSpec == PartsInit /\ [][PartsNext]_partsVars

===============================================================================
