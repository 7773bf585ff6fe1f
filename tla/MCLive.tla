------------------------------- MODULE MCLive -------------------------------
(***************************************************************************)
(* What must eventually happen, on a small instance of GraphRun and one of *)
(* NativeRun.  "part" says which of the two runs: the other rests in its   *)
(* initial state, where its scheduler has nothing to do.                   *)
(***************************************************************************)
EXTENDS GraphRun

CONSTANT Parts   \* the parts to look at
VARIABLE part

(* Two turns of a thread under every gate, with a tool that is blocked. *)
CONSTANTS write, wipe

Actions == {write, wipe}
Wiping == {wipe}
AllGates == {"human", "off", "deny"}

(* Requests to a native session, two turns each, one call at a time. *)
CONSTANTS t1, r1, r2, MaxTurns, MaxParallelTools, MaxRuns, MaxBatch, MaxRunFaults
VARIABLES messages, lastEvent, records, receipts, minted, pc, job, todo, runPhase,
          orphans, effects, lost, lateWrites, halted, outlived, runFaults
nativeVars == <<messages, lastEvent, records, receipts, minted, pc, job, todo, runPhase,
                orphans, effects, lost, lateWrites, halted, outlived, runFaults>>

Native == INSTANCE NativeRun
  WITH Task <- {t1}, Call <- {r1, r2}, ReadOnly <- {r1, r2}, Overlap <- FALSE,
       MaxFaults <- MaxRunFaults, phase <- runPhase, faults <- runFaults

RunSettles == Native!RunSettles

------------------------------------------------------------------------------
LiveInit ==
  /\ part \in Parts /\ Init /\ Native!Init
  /\ part = "native" => gate = "human"

LiveNext ==
  \/ part = "graph" /\ Next /\ UNCHANGED <<part, nativeVars>>
  \/ part = "native" /\ Native!Next /\ UNCHANGED <<part, vars>>

LiveSpec ==
  LiveInit /\ [][LiveNext]_<<part, vars, nativeVars>> /\ Fairness /\ Native!Fairness

=============================================================================
