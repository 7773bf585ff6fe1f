----------------------------- MODULE SandboxPool -----------------------------
(***************************************************************************)
(* The pool of docker containers that both engines run commands in: one    *)
(* container per session, created under the pool's lock, destroyed when a  *)
(* command times out, when its session is deleted and at shutdown.         *)
(*                                                                         *)
(* A key stands for a session with its workspace.  Every await on docker   *)
(* and on the lock is a step; a call that waits for the lock is still      *)
(* "idle".  docker starts no container that it was told to remove.         *)
(***************************************************************************)
EXTENDS Naturals

CONSTANTS Call, Key, KeyOf, \* commands, sessions, [Call -> Key]
          Managed,     \* calls through ToolManager, which has a timer of its own
          NoCall,
          MaxBoxes, MaxStopFaults \* bounds: containers made, docker rm that fail

ASSUME PoolAssumption ==
  /\ KeyOf \in [Call -> Key] /\ Managed \subseteq Call /\ NoCall \notin Call
  /\ MaxBoxes \in Nat /\ MaxStopFaults \in Nat

VARIABLES
  runner,   \* Key -> its registered container, 0 when there is none
  holder,   \* who holds the pool's lock across an await
  made,     \* containers docker was asked for
  running,  \* containers that run
  stopping, \* containers a docker rm is under way for
  at, box,  \* Call -> where it is, and its container
  work      \* <<call, container>>: commands running inside

\* What happened, for the properties.
VARIABLES
  lost,      \* containers whose docker rm failed or whose creator was cut off
  stopFaults

poolVars == <<runner, holder, made, running, stopping, at, box, work, lost, stopFaults>>

Box == 1 .. MaxBoxes
Free == holder = NoCall
Ends(c, outcome) == at' = [at EXCEPT ![c] = outcome]

Init ==
  /\ runner = [k \in Key |-> 0]
  /\ holder = NoCall
  /\ made = 0
  /\ running = {} /\ stopping = {} /\ lost = {} /\ work = {}
  /\ at = [c \in Call |-> "idle"]
  /\ box = [c \in Call |-> 0]
  /\ stopFaults = 0

------------------------------------------------------------------------------
(* get *)

\* The caller has a runner: it starts its command, or was the prewarm endpoint.
Use(c, b) ==
  \/ Ends(c, "exec") /\ work' = work \cup ({<<c, b>>} \cap (Call \X running))
  \/ Ends(c, "done") /\ UNCHANGED work

Reuse(c) ==
  /\ at[c] = "idle" /\ Free
  /\ runner[KeyOf[c]] # 0
  /\ box' = [box EXCEPT ![c] = runner[KeyOf[c]]]
  /\ Use(c, runner[KeyOf[c]])
  /\ UNCHANGED <<runner, holder, made, running, stopping, lost, stopFaults>>

\* docker run, under the lock, when probe() finds docker and the image.
Create(c) ==
  /\ at[c] = "idle" /\ Free
  /\ runner[KeyOf[c]] = 0
  /\ made < MaxBoxes
  /\ made' = made + 1
  /\ box' = [box EXCEPT ![c] = made + 1]
  /\ holder' = c
  /\ Ends(c, "creating")
  /\ UNCHANGED <<runner, running, stopping, work, lost, stopFaults>>

\* Docker starts the container, whether or not its id is read.
Launch(c) ==
  /\ at[c] = "creating" /\ box[c] \notin running
  /\ running' = running \cup {box[c]}
  /\ UNCHANGED <<runner, holder, made, stopping, at, box, work, lost, stopFaults>>

Created(c) ==
  /\ at[c] = "creating" /\ box[c] \in running
  /\ runner' = [runner EXCEPT ![KeyOf[c]] = box[c]]
  /\ holder' = NoCall
  /\ Use(c, box[c])
  /\ UNCHANGED <<made, running, stopping, box, lost, stopFaults>>

\* docker run says no, or probe() did.
NotCreated(c) ==
  /\ \/ at[c] = "creating" /\ box[c] \notin running
     \/ at[c] = "idle" /\ Free /\ runner[KeyOf[c]] = 0
  /\ holder' = NoCall
  /\ Ends(c, "failed")
  /\ UNCHANGED <<runner, made, running, stopping, box, work, lost, stopFaults>>

\* It times out, raises or prints no id: the container is removed by its name.
Unclear(c) ==
  /\ at[c] = "creating"
  /\ stopping' = stopping \cup {box[c]}
  /\ Ends(c, "undoing")
  /\ UNCHANGED <<runner, holder, made, running, box, work, lost, stopFaults>>

Undone(c) ==
  /\ at[c] = "undoing" /\ box[c] \notin stopping
  /\ holder' = NoCall
  /\ Ends(c, "failed")
  /\ UNCHANGED <<runner, made, running, stopping, box, work, lost, stopFaults>>

------------------------------------------------------------------------------
(* run *)

Finish(c) ==
  /\ at[c] = "exec"
  /\ work' = work \ ({c} \X Box)
  /\ Ends(c, "done")
  /\ UNCHANGED <<runner, holder, made, running, stopping, box, lost, stopFaults>>

\* Mutant of Expire: killing the docker exec client is taken to be enough.
ExpireClientOnly(c) ==
  /\ at[c] = "exec" /\ c \notin Managed
  /\ Ends(c, "timedout")
  /\ UNCHANGED <<runner, holder, made, running, stopping, box, work, lost, stopFaults>>

\* The runner's own timer.  ToolManager's timer has the same length and starts
\* earlier, so a managed call never gets here.
Expire(c) ==
  /\ at[c] = "exec" /\ c \notin Managed
  /\ Ends(c, "evicting")
  /\ UNCHANGED <<runner, holder, made, running, stopping, box, work, lost, stopFaults>>

\* Mutant of Evict: whatever container the session has now is taken off.
EvictAny(c) ==
  /\ at[c] = "evicting" /\ Free
  /\ runner' = [runner EXCEPT ![KeyOf[c]] = 0]
  /\ stopping' = stopping \cup {box[c]}
  /\ Ends(c, "tearing")
  /\ UNCHANGED <<holder, made, running, box, work, lost, stopFaults>>

\* _destroy_runner: only the container that timed out.
Evict(c) ==
  /\ at[c] = "evicting" /\ Free
  /\ IF runner[KeyOf[c]] = box[c]
       THEN /\ runner' = [runner EXCEPT ![KeyOf[c]] = 0]
            /\ stopping' = stopping \cup {box[c]}
            /\ Ends(c, "tearing")
       ELSE Ends(c, "timedout") /\ UNCHANGED <<runner, stopping>>
  /\ UNCHANGED <<holder, made, running, box, work, lost, stopFaults>>

TornDown(c) ==
  /\ at[c] = "tearing" /\ box[c] \notin stopping
  /\ Ends(c, "timedout")
  /\ UNCHANGED <<runner, holder, made, running, stopping, box, work, lost, stopFaults>>

\* The call is cancelled where it stands, a managed one by the wait_for around it:
\* the lock is given back, the docker processes it waited for go on by themselves.
Cut(c) ==
  /\ at[c] \in {"creating", "undoing", "exec", "evicting", "tearing"}
  /\ holder' = IF holder = c THEN NoCall ELSE holder
  /\ IF at[c] = "creating"
       THEN running' = running \cup {box[c]} /\ lost' = lost \cup {box[c]}
       ELSE UNCHANGED <<running, lost>>
  /\ Ends(c, IF c \in Managed THEN "timedout" ELSE "cancelled")
  /\ UNCHANGED <<runner, made, stopping, box, work, stopFaults>>

------------------------------------------------------------------------------
(* destroy_session, stop_all, and docker rm *)

Destroy(K) ==
  /\ Free
  /\ \E k \in K : runner[k] # 0
  /\ runner' = [k \in Key |-> IF k \in K THEN 0 ELSE runner[k]]
  /\ stopping' = stopping \cup ({runner[k] : k \in K} \ {0})
  /\ UNCHANGED <<holder, made, running, at, box, work, lost, stopFaults>>

\* Its process tree ends with the container.
Stopped(b) ==
  /\ b \in stopping
  /\ stopping' = stopping \ {b}
  /\ running' = running \ {b}
  /\ work' = work \ (Call \X {b})
  /\ UNCHANGED <<runner, holder, made, at, box, lost, stopFaults>>

\* Best effort: a docker rm that fails or takes too long is logged.
StopFails(b) ==
  /\ b \in stopping /\ stopFaults < MaxStopFaults
  /\ stopFaults' = stopFaults + 1
  /\ stopping' = stopping \ {b}
  /\ lost' = lost \cup {b}
  /\ UNCHANGED <<runner, holder, made, running, at, box, work>>

Get(c) == \/ Reuse(c) \/ Create(c) \/ Launch(c) \/ Created(c) \/ NotCreated(c)
          \/ Unclear(c) \/ Undone(c)
RunCommand(c) == Finish(c) \/ Expire(c) \/ Evict(c) \/ TornDown(c) \/ Cut(c)
DestroySession(k) == Destroy({k})
StopAll == Destroy(Key)

Next ==
  \/ \E c \in Call : Get(c) \/ RunCommand(c)
  \/ \E k \in Key : DestroySession(k)
  \/ StopAll
  \/ \E b \in Box : Stopped(b) \/ StopFails(b)

Spec == Init /\ [][Next]_poolVars

------------------------------------------------------------------------------
TypeOK ==
  /\ runner \in [Key -> Box \cup {0}]
  /\ holder \in Call \cup {NoCall}
  /\ made \in 0 .. MaxBoxes
  /\ running \subseteq Box /\ stopping \subseteq Box /\ lost \subseteq Box
  /\ at \in [Call -> {"idle", "creating", "undoing", "exec", "evicting", "tearing",
                      "timedout", "cancelled", "failed", "done"}]
  /\ box \in [Call -> Box \cup {0}]
  /\ work \subseteq Call \X Box
  /\ stopFaults \in 0 .. MaxStopFaults

\* A container that runs is registered, being created or being removed, unless docker
\* refused to remove it or its creator was cut off: a late timeout, the deletion of a
\* session and the shutdown, in any order, forget none.  (sandbox/__init__.py, all
\* writes to _runners)
Owned ==
  \A b \in running \ (stopping \cup lost) :
    \/ \E k \in Key : runner[k] = b
    \/ \E c \in Call : at[c] \in {"creating", "undoing"} /\ box[c] = b

\* A command whose timer in the runner fired is not left running: when its call has
\* its answer, its container is gone or on its way, even if another call or a deletion
\* took it off the pool first.  (ContainerRunner.run and _destroy_runner)
TimedOutIsTornDown ==
  \A c \in Call \ Managed : at[c] = "timedout" =>
    \A p \in work : p[1] = c => p[2] \in stopping \cup lost

\* Both, over every order of calls, timeouts, deletions and the shutdown.
ContainersAccounted == Owned /\ TimedOutIsTornDown

\* Expected to fail: the same of every call, as the comment in ContainerRunner.run has
\* it; a call cut off by ToolManager's timer leaves its command running.
NoWorkAfterTimeout ==
  \A c \in Call : at[c] = "timedout" =>
    \A p \in work : p[1] = c => p[2] \in stopping \cup lost

===============================================================================
