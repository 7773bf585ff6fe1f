----------------------------- MODULE PartsProofs -----------------------------
(***************************************************************************)
(* What the smaller parts of the agent guarantee, for all values of their  *)
(* constants.  The parts share no state, so each has its own invariant and *)
(* its own theorems, about the same instances that MCParts checks.          *)
(***************************************************************************)
EXTENDS SandboxPool, AgentParts, Integers, Sequences, FiniteSets, FiniteSetTheorems,
        WellFoundedInduction, TLAPS

------------------------------------------------------------------------------
(* The container pool: no container is forgotten and no command outlives   *)
(* its timeout.  Whoever creates a container holds the lock until it is     *)
(* registered, its number is nobody else's, and a registered container      *)
(* belongs to one session; so a call that finds another container than its  *)
(* own registered knows that its own is on its way out.                     *)

PoolStages == {"idle", "creating", "undoing", "exec", "evicting", "tearing",
           "timedout", "cancelled", "failed", "done"}
Making(c) == at[c] \in {"creating", "undoing"}

\* The creator holds the lock, for a container that nobody else knows.
Exclusive ==
  \A c \in Call : Making(c) =>
    /\ holder = c /\ runner[KeyOf[c]] = 0
    /\ made > 0 /\ box[c] = made
    /\ \A k \in Key : runner[k] # made
    /\ \A d \in Call : d # c => box[d] # made

\* Numbers in use were given out; a container is registered for one session, the one
\* of the calls that use it.
Numbered ==
  /\ \A c \in Call : box[c] <= made
  /\ \A k \in Key : runner[k] <= made
  /\ \A k, l \in Key : runner[k] # 0 /\ runner[k] = runner[l] => k = l
  /\ \A c \in Call, k \in Key :
       at[c] \in {"exec", "evicting", "tearing"} /\ runner[k] = box[c] => k = KeyOf[c]
  /\ \A c \in Call : at[c] \in {"exec", "evicting", "tearing"} => box[c] # 0

\* What is undone is on its way out before its creator gives the lock back.
Undoing ==
  \A c \in Call : at[c] = "undoing" => box[c] \in stopping \cup lost \/ box[c] \notin running

\* A command runs in the container of its call, and that one runs.
Working ==
  \A p \in work :
    /\ p[2] = box[p[1]] /\ p[2] \in running
    /\ at[p[1]] \notin {"idle", "creating", "undoing", "failed"}

\* So does TimedOutIsTornDown, already while the call waits for docker rm.
Torn ==
  \A c \in Call \ Managed : at[c] \in {"tearing", "timedout"} =>
    \A p \in work : p[1] = c => p[2] \in stopping \cup lost

Pool == Exclusive /\ Numbered /\ Undoing /\ Working
PoolInv == TypeOK /\ Pool /\ Owned /\ Torn

\* At the start there are no calls and no containers.
LEMMA PoolInit == Init => PoolInv
<1> USE PoolAssumption
<1>1. ASSUME Init PROVE TypeOK
  BY <1>1 DEF Init, TypeOK, Box
<1>2. ASSUME Init PROVE Pool /\ Owned /\ Torn
  BY <1>2 DEF Init, Pool, Exclusive, Making, Numbered, Undoing, Working, Owned, Torn
<1>3. QED
  BY <1>1, <1>2 DEF PoolInv

\* Whoever gets a runner, and whoever ends, stays typed.
LEMMA PoolUse ==
  ASSUME TypeOK, NEW c \in Call, NEW b \in Box, Use(c, b)
  PROVE  at' \in [Call -> PoolStages] /\ work' \subseteq Call \X Box
<1>1. at' \in [Call -> PoolStages]
  BY DEF Use, Ends, TypeOK, PoolStages
<1>2. work' = work \/ work' = work \cup ({<<c, b>>} \cap (Call \X running))
  BY DEF Use
<1>3. work \subseteq Call \X Box /\ <<c, b>> \in Call \X Box
  BY DEF TypeOK
<1>4. work' \subseteq Call \X Box
  BY <1>2, <1>3, Zenon
<1>5. QED
  BY <1>1, <1>4

\* TypeOK, one step for each action.
LEMMA TypeKept == PoolInv /\ [Next]_poolVars => TypeOK'
<1> USE PoolAssumption
<1> SUFFICES ASSUME PoolInv, [Next]_poolVars PROVE TypeOK'
  OBVIOUS
<1>0. /\ TypeOK
      /\ \A c \in Call : at[c] \in {"creating", "undoing", "exec", "evicting", "tearing"}
                         => box[c] \in Box
  BY DEF PoolInv, Pool, Exclusive, Making, Numbered, TypeOK, Box
<1>1. ASSUME NEW c \in Call, Get(c) PROVE TypeOK'
  <2>1. CASE Reuse(c)
    <3>1. runner[KeyOf[c]] \in Box
      BY <1>0, <2>1 DEF Reuse, TypeOK
    <3>2. at' \in [Call -> PoolStages] /\ work' \subseteq Call \X Box
      BY <1>0, <2>1, <3>1, PoolUse DEF Reuse
    <3>3. box' \in [Call -> Box \cup {0}]
      BY <1>0, <2>1, <3>1 DEF Reuse, TypeOK
    <3>4. QED
      BY <1>0, <2>1, <3>2, <3>3 DEF Reuse, TypeOK, PoolStages
  <2>2. CASE Create(c)
    BY <1>0, <2>2 DEF Create, Ends, TypeOK, Box
  <2>3. CASE Launch(c)
    BY <1>0, <2>3 DEF Launch, TypeOK
  <2>4. CASE Created(c)
    <3>1. box[c] \in Box
      BY <1>0, <2>4 DEF Created, TypeOK
    <3>2. at' \in [Call -> PoolStages] /\ work' \subseteq Call \X Box
      BY <1>0, <2>4, <3>1, PoolUse DEF Created
    <3>3. runner' \in [Key -> Box \cup {0}] /\ holder' \in Call \cup {NoCall}
      BY <1>0, <2>4, <3>1 DEF Created, TypeOK
    <3>4. QED
      BY <1>0, <2>4, <3>2, <3>3 DEF Created, TypeOK, PoolStages
  <2>5. CASE NotCreated(c) \/ Unclear(c) \/ Undone(c)
    <3>1. at' \in [Call -> PoolStages]
      BY <1>0, <2>5 DEF NotCreated, Unclear, Undone, Ends, TypeOK, PoolStages
    <3>2. stopping' \subseteq Box
      BY <1>0, <2>5 DEF NotCreated, Unclear, Undone, TypeOK
    <3>3. QED
      BY <1>0, <2>5, <3>1, <3>2 DEF NotCreated, Unclear, Undone, TypeOK, PoolStages
  <2>6. QED
    BY <1>1, <2>1, <2>2, <2>3, <2>4, <2>5 DEF Get
<1>2. ASSUME NEW c \in Call, RunCommand(c) PROVE TypeOK'
  <2>1. CASE Finish(c) \/ Expire(c) \/ TornDown(c)
    <3>1. work' \subseteq work
      BY <1>0, <2>1, Zenon DEF Finish, Expire, TornDown
    <3>2. at' \in [Call -> PoolStages]
      BY <1>0, <2>1 DEF Finish, Expire, TornDown, Ends, TypeOK, PoolStages
    <3>3. QED
      BY <1>0, <2>1, <3>1, <3>2 DEF Finish, Expire, TornDown, TypeOK, PoolStages
  <2>2. CASE Evict(c)
    <3>1. at' \in [Call -> PoolStages]
      BY <1>0, <2>2 DEF Evict, Ends, TypeOK, PoolStages
    <3>2. runner' \in [Key -> Box \cup {0}] /\ stopping' \subseteq Box
      <4>1. CASE runner[KeyOf[c]] = box[c]
        BY <1>0, <2>2, <4>1 DEF Evict, TypeOK
      <4>2. CASE runner[KeyOf[c]] # box[c]
        BY <1>0, <2>2, <4>2 DEF Evict, TypeOK
      <4>3. QED
        BY <4>1, <4>2
    <3>3. QED
      BY <1>0, <2>2, <3>1, <3>2 DEF Evict, TypeOK, PoolStages
  <2>3. CASE Cut(c)
    <3>1. at' \in [Call -> PoolStages]
      BY <1>0, <2>3 DEF Cut, Ends, TypeOK, PoolStages
    <3>2. running' \subseteq Box /\ lost' \subseteq Box
      BY <1>0, <2>3 DEF Cut, TypeOK
    <3>3. QED
      BY <1>0, <2>3, <3>1, <3>2 DEF Cut, TypeOK, PoolStages
  <2>4. QED
    BY <1>2, <2>1, <2>2, <2>3 DEF RunCommand
<1>3. ASSUME NEW K \in SUBSET Key, Destroy(K) PROVE TypeOK'
  BY <1>0, <1>3 DEF Destroy, TypeOK, Box
<1>4. ASSUME NEW b \in Box, Stopped(b) \/ StopFails(b) PROVE TypeOK'
  <2>1. work' \subseteq work
    BY <1>4, Zenon DEF Stopped, StopFails
  <2>2. stopFaults' \in 0 .. MaxStopFaults /\ running' \subseteq Box
        /\ stopping' \subseteq Box /\ lost' \subseteq Box
    BY <1>0, <1>4 DEF Stopped, StopFails, TypeOK
  <2>3. QED
    BY <1>0, <1>4, <2>1, <2>2 DEF Stopped, StopFails, TypeOK
<1>5. ASSUME UNCHANGED poolVars PROVE TypeOK'
  BY <1>0, <1>5 DEF poolVars, TypeOK
<1>6. QED
  BY <1>1, <1>2, <1>3, <1>4, <1>5 DEF Next, DestroySession, StopAll

\* The other conjuncts, one step for each action and one below it for each conjunct.
LEMMA PoolKept == PoolInv /\ TypeOK' /\ [Next]_poolVars => Pool' /\ Owned' /\ Torn'
<1> USE PoolAssumption
<1> SUFFICES ASSUME PoolInv, TypeOK', [Next]_poolVars PROVE Pool' /\ Owned' /\ Torn'
  OBVIOUS
<1> USE DEF PoolInv, Pool
<1>1. ASSUME NEW c \in Call, Reuse(c) PROVE Pool' /\ Owned' /\ Torn'
  <2>1. Exclusive'
    BY <1>1 DEF Reuse, Use, Ends, TypeOK, Box, Exclusive, Making, Numbered
  <2>2. Numbered'
    BY <1>1 DEF Reuse, Use, Ends, TypeOK, Box, Numbered, Exclusive, Making
  <2>3. Undoing'
    BY <1>1 DEF Reuse, Use, Ends, TypeOK, Box, Undoing, Exclusive, Making
  <2>4. Working'
    BY <1>1 DEF Reuse, Use, Ends, TypeOK, Box, Working, Exclusive, Making
  <2>5. Owned'
    BY <1>1 DEF Reuse, Use, Ends, TypeOK, Box, Owned, Undoing, Exclusive, Making
  <2>6. Torn'
    BY <1>1 DEF Reuse, Use, Ends, TypeOK, Box, Torn, Working, Owned, Numbered, Exclusive, Making
  <2>7. QED
    BY <2>1, <2>2, <2>3, <2>4, <2>5, <2>6
<1>2. ASSUME NEW c \in Call, Create(c) PROVE Pool' /\ Owned' /\ Torn'
  <2>1. Exclusive'
    <3>1. \A d \in Call : ~Making(d)
      BY <1>2 DEF Create, Free, Exclusive
    <3>2. \A d \in Call : Making(d)' => d = c
      BY <1>2, <3>1 DEF Create, Ends, TypeOK, Making
    <3>3. /\ made' = made + 1 /\ box'[c] = made + 1 /\ holder' = c
          /\ runner' = runner /\ runner[KeyOf[c]] = 0
          /\ \A d \in Call : d # c => box'[d] = box[d]
      BY <1>2 DEF Create, TypeOK
    <3>4. /\ \A k \in Key : runner[k] # made + 1
          /\ \A d \in Call : box[d] # made + 1
      BY DEF TypeOK, Box, Numbered
    <3>5. made + 1 > 0
      BY DEF TypeOK
    <3>6. QED
      BY <3>2, <3>3, <3>4, <3>5 DEF Exclusive
  <2>2. Numbered'
    BY <1>2 DEF Create, Ends, TypeOK, Box, Numbered, Exclusive, Making
  <2>3. Undoing'
    BY <1>2 DEF Create, Ends, TypeOK, Box, Undoing, Exclusive, Making
  <2>4. Working'
    BY <1>2 DEF Create, Ends, TypeOK, Box, Working, Exclusive, Making
  <2>5. Owned'
    BY <1>2 DEF Create, Ends, TypeOK, Box, Owned, Undoing, Exclusive, Making
  <2>6. Torn'
    BY <1>2 DEF Create, Ends, TypeOK, Box, Torn, Working, Owned, Numbered, Exclusive, Making
  <2>7. QED
    BY <2>1, <2>2, <2>3, <2>4, <2>5, <2>6
<1>3. ASSUME NEW c \in Call, Launch(c) PROVE Pool' /\ Owned' /\ Torn'
  <2>1. Exclusive'
    BY <1>3 DEF Launch, TypeOK, Box, Exclusive, Making, Numbered
  <2>2. Numbered'
    BY <1>3 DEF Launch, TypeOK, Box, Numbered, Exclusive, Making
  <2>3. Undoing'
    BY <1>3 DEF Launch, TypeOK, Box, Undoing, Exclusive, Making
  <2>4. Working'
    BY <1>3 DEF Launch, TypeOK, Box, Working, Exclusive, Making
  <2>5. Owned'
    BY <1>3 DEF Launch, TypeOK, Box, Owned, Undoing, Exclusive, Making
  <2>6. Torn'
    BY <1>3 DEF Launch, TypeOK, Box, Torn, Working, Owned, Numbered, Exclusive, Making
  <2>7. QED
    BY <2>1, <2>2, <2>3, <2>4, <2>5, <2>6
<1>4. ASSUME NEW c \in Call, Created(c) PROVE Pool' /\ Owned' /\ Torn'
  <2>1. Exclusive'
    BY <1>4 DEF Created, Use, Ends, TypeOK, Box, Exclusive, Making, Numbered
  <2>2. Numbered'
    BY <1>4 DEF Created, Use, Ends, TypeOK, Box, Numbered, Exclusive, Making
  <2>3. Undoing'
    BY <1>4 DEF Created, Use, Ends, TypeOK, Box, Undoing, Exclusive, Making
  <2>4. Working'
    BY <1>4 DEF Created, Use, Ends, TypeOK, Box, Working, Exclusive, Making
  <2>5. Owned'
    BY <1>4 DEF Created, Use, Ends, TypeOK, Box, Owned, Undoing, Exclusive, Making
  <2>6. Torn'
    BY <1>4 DEF Created, Use, Ends, TypeOK, Box, Torn, Working, Owned, Numbered, Exclusive, Making
  <2>7. QED
    BY <2>1, <2>2, <2>3, <2>4, <2>5, <2>6
<1>5. ASSUME NEW c \in Call, NotCreated(c) PROVE Pool' /\ Owned' /\ Torn'
  <2>1. Exclusive'
    BY <1>5 DEF NotCreated, Free, Ends, TypeOK, Box, Exclusive, Making, Numbered
  <2>2. Numbered'
    BY <1>5 DEF NotCreated, Free, Ends, TypeOK, Box, Numbered, Exclusive, Making
  <2>3. Undoing'
    BY <1>5 DEF NotCreated, Free, Ends, TypeOK, Box, Undoing, Exclusive, Making
  <2>4. Working'
    BY <1>5 DEF NotCreated, Free, Ends, TypeOK, Box, Working, Exclusive, Making
  <2>5. Owned'
    BY <1>5 DEF NotCreated, Free, Ends, TypeOK, Box, Owned, Undoing, Exclusive, Making
  <2>6. Torn'
    BY <1>5 DEF NotCreated, Free, Ends, TypeOK, Box, Torn, Working, Owned, Numbered, Exclusive, Making
  <2>7. QED
    BY <2>1, <2>2, <2>3, <2>4, <2>5, <2>6
<1>6. ASSUME NEW c \in Call, Unclear(c) PROVE Pool' /\ Owned' /\ Torn'
  <2>1. Exclusive'
    BY <1>6 DEF Unclear, Ends, TypeOK, Box, Exclusive, Making, Numbered
  <2>2. Numbered'
    BY <1>6 DEF Unclear, Ends, TypeOK, Box, Numbered, Exclusive, Making
  <2>3. Undoing'
    BY <1>6 DEF Unclear, Ends, TypeOK, Box, Undoing, Exclusive, Making
  <2>4. Working'
    BY <1>6 DEF Unclear, Ends, TypeOK, Box, Working, Exclusive, Making
  <2>5. Owned'
    BY <1>6 DEF Unclear, Ends, TypeOK, Box, Owned, Undoing, Exclusive, Making
  <2>6. Torn'
    BY <1>6 DEF Unclear, Ends, TypeOK, Box, Torn, Working, Owned, Numbered, Exclusive, Making
  <2>7. QED
    BY <2>1, <2>2, <2>3, <2>4, <2>5, <2>6
<1>7. ASSUME NEW c \in Call, Undone(c) PROVE Pool' /\ Owned' /\ Torn'
  <2>1. Exclusive'
    BY <1>7 DEF Undone, Ends, TypeOK, Box, Exclusive, Making, Numbered
  <2>2. Numbered'
    BY <1>7 DEF Undone, Ends, TypeOK, Box, Numbered, Exclusive, Making
  <2>3. Undoing'
    BY <1>7 DEF Undone, Ends, TypeOK, Box, Undoing, Exclusive, Making
  <2>4. Working'
    BY <1>7 DEF Undone, Ends, TypeOK, Box, Working, Exclusive, Making
  <2>5. Owned'
    BY <1>7 DEF Undone, Ends, TypeOK, Box, Owned, Undoing, Exclusive, Making
  <2>6. Torn'
    BY <1>7 DEF Undone, Ends, TypeOK, Box, Torn, Working, Owned, Numbered, Exclusive, Making
  <2>7. QED
    BY <2>1, <2>2, <2>3, <2>4, <2>5, <2>6
<1>8. ASSUME NEW c \in Call, Finish(c) PROVE Pool' /\ Owned' /\ Torn'
  <2>1. Exclusive'
    BY <1>8 DEF Finish, Ends, TypeOK, Box, Exclusive, Making, Numbered
  <2>2. Numbered'
    BY <1>8 DEF Finish, Ends, TypeOK, Box, Numbered, Exclusive, Making
  <2>3. Undoing'
    BY <1>8 DEF Finish, Ends, TypeOK, Box, Undoing, Exclusive, Making
  <2>4. Working'
    BY <1>8 DEF Finish, Ends, TypeOK, Box, Working, Exclusive, Making
  <2>5. Owned'
    BY <1>8 DEF Finish, Ends, TypeOK, Box, Owned, Undoing, Exclusive, Making
  <2>6. Torn'
    BY <1>8 DEF Finish, Ends, TypeOK, Box, Torn, Working, Owned, Numbered, Exclusive, Making
  <2>7. QED
    BY <2>1, <2>2, <2>3, <2>4, <2>5, <2>6
<1>9. ASSUME NEW c \in Call, Expire(c) PROVE Pool' /\ Owned' /\ Torn'
  <2>1. Exclusive'
    BY <1>9 DEF Expire, Ends, TypeOK, Box, Exclusive, Making, Numbered
  <2>2. Numbered'
    BY <1>9 DEF Expire, Ends, TypeOK, Box, Numbered, Exclusive, Making
  <2>3. Undoing'
    BY <1>9 DEF Expire, Ends, TypeOK, Box, Undoing, Exclusive, Making
  <2>4. Working'
    BY <1>9 DEF Expire, Ends, TypeOK, Box, Working, Exclusive, Making
  <2>5. Owned'
    BY <1>9 DEF Expire, Ends, TypeOK, Box, Owned, Undoing, Exclusive, Making
  <2>6. Torn'
    BY <1>9 DEF Expire, Ends, TypeOK, Box, Torn, Working, Owned, Numbered, Exclusive, Making
  <2>7. QED
    BY <2>1, <2>2, <2>3, <2>4, <2>5, <2>6
<1>10. ASSUME NEW c \in Call, Evict(c) PROVE Pool' /\ Owned' /\ Torn'
  <2>1. Exclusive'
    BY <1>10 DEF Evict, Free, Ends, TypeOK, Box, Exclusive, Making, Numbered
  <2>2. Numbered'
    BY <1>10 DEF Evict, Free, Ends, TypeOK, Box, Numbered, Exclusive, Making
  <2>3. Undoing'
    BY <1>10 DEF Evict, Free, Ends, TypeOK, Box, Undoing, Exclusive, Making
  <2>4. Working'
    BY <1>10 DEF Evict, Free, Ends, TypeOK, Box, Working, Exclusive, Making
  <2>5. Owned'
    BY <1>10 DEF Evict, Free, Ends, TypeOK, Box, Owned, Undoing, Exclusive, Making
  <2>6. Torn'
    BY <1>10 DEF Evict, Free, Ends, TypeOK, Box, Torn, Working, Owned, Numbered, Exclusive, Making
  <2>7. QED
    BY <2>1, <2>2, <2>3, <2>4, <2>5, <2>6
<1>11. ASSUME NEW c \in Call, TornDown(c) PROVE Pool' /\ Owned' /\ Torn'
  <2>1. Exclusive'
    BY <1>11 DEF TornDown, Ends, TypeOK, Box, Exclusive, Making, Numbered
  <2>2. Numbered'
    BY <1>11 DEF TornDown, Ends, TypeOK, Box, Numbered, Exclusive, Making
  <2>3. Undoing'
    BY <1>11 DEF TornDown, Ends, TypeOK, Box, Undoing, Exclusive, Making
  <2>4. Working'
    BY <1>11 DEF TornDown, Ends, TypeOK, Box, Working, Exclusive, Making
  <2>5. Owned'
    BY <1>11 DEF TornDown, Ends, TypeOK, Box, Owned, Undoing, Exclusive, Making
  <2>6. Torn'
    BY <1>11 DEF TornDown, Ends, TypeOK, Box, Torn, Working, Owned, Numbered, Exclusive, Making
  <2>7. QED
    BY <2>1, <2>2, <2>3, <2>4, <2>5, <2>6
<1>12. ASSUME NEW c \in Call, Cut(c) PROVE Pool' /\ Owned' /\ Torn'
  <2>1. Exclusive'
    BY <1>12 DEF Cut, Ends, TypeOK, Box, Exclusive, Making, Numbered
  <2>2. Numbered'
    BY <1>12 DEF Cut, Ends, TypeOK, Box, Numbered, Exclusive, Making
  <2>3. Undoing'
    BY <1>12 DEF Cut, Ends, TypeOK, Box, Undoing, Exclusive, Making
  <2>4. Working'
    BY <1>12 DEF Cut, Ends, TypeOK, Box, Working, Exclusive, Making
  <2>5. Owned'
    BY <1>12 DEF Cut, Ends, TypeOK, Box, Owned, Undoing, Exclusive, Making
  <2>6. Torn'
    BY <1>12 DEF Cut, Ends, TypeOK, Box, Torn, Working, Owned, Numbered, Exclusive, Making
  <2>7. QED
    BY <2>1, <2>2, <2>3, <2>4, <2>5, <2>6
<1>13. ASSUME NEW K \in SUBSET Key, Destroy(K) PROVE Pool' /\ Owned' /\ Torn'
  <2>1. Exclusive'
    BY <1>13 DEF Destroy, Free, TypeOK, Box, Exclusive, Making, Numbered
  <2>2. Numbered'
    BY <1>13 DEF Destroy, Free, TypeOK, Box, Numbered, Exclusive, Making
  <2>3. Undoing'
    BY <1>13 DEF Destroy, Free, TypeOK, Box, Undoing, Exclusive, Making
  <2>4. Working'
    BY <1>13 DEF Destroy, Free, TypeOK, Box, Working, Exclusive, Making
  <2>5. Owned'
    BY <1>13 DEF Destroy, Free, TypeOK, Box, Owned, Undoing, Exclusive, Making
  <2>6. Torn'
    BY <1>13 DEF Destroy, Free, TypeOK, Box, Torn, Working, Owned, Numbered, Exclusive, Making
  <2>7. QED
    BY <2>1, <2>2, <2>3, <2>4, <2>5, <2>6
<1>14. ASSUME NEW b \in Box, Stopped(b) PROVE Pool' /\ Owned' /\ Torn'
  <2>1. Exclusive'
    BY <1>14 DEF Stopped, TypeOK, Box, Exclusive, Making, Numbered
  <2>2. Numbered'
    BY <1>14 DEF Stopped, TypeOK, Box, Numbered, Exclusive, Making
  <2>3. Undoing'
    BY <1>14 DEF Stopped, TypeOK, Box, Undoing, Exclusive, Making
  <2>4. Working'
    BY <1>14 DEF Stopped, TypeOK, Box, Working, Exclusive, Making
  <2>5. Owned'
    BY <1>14 DEF Stopped, TypeOK, Box, Owned, Undoing, Exclusive, Making
  <2>6. Torn'
    BY <1>14 DEF Stopped, TypeOK, Box, Torn, Working, Owned, Numbered, Exclusive, Making
  <2>7. QED
    BY <2>1, <2>2, <2>3, <2>4, <2>5, <2>6
<1>15. ASSUME NEW b \in Box, StopFails(b) PROVE Pool' /\ Owned' /\ Torn'
  <2>1. Exclusive'
    BY <1>15 DEF StopFails, TypeOK, Box, Exclusive, Making, Numbered
  <2>2. Numbered'
    BY <1>15 DEF StopFails, TypeOK, Box, Numbered, Exclusive, Making
  <2>3. Undoing'
    BY <1>15 DEF StopFails, TypeOK, Box, Undoing, Exclusive, Making
  <2>4. Working'
    BY <1>15 DEF StopFails, TypeOK, Box, Working, Exclusive, Making
  <2>5. Owned'
    BY <1>15 DEF StopFails, TypeOK, Box, Owned, Undoing, Exclusive, Making
  <2>6. Torn'
    BY <1>15 DEF StopFails, TypeOK, Box, Torn, Working, Owned, Numbered, Exclusive, Making
  <2>7. QED
    BY <2>1, <2>2, <2>3, <2>4, <2>5, <2>6
<1>16. ASSUME UNCHANGED poolVars PROVE Pool' /\ Owned' /\ Torn'
  BY <1>16 DEF poolVars, Exclusive, Making, Numbered, Undoing, Working, Owned, Torn
<1>17. QED
  BY <1>1, <1>2, <1>3, <1>4, <1>5, <1>6, <1>7, <1>8, <1>9, <1>10, <1>11, <1>12, <1>13, <1>14,
     <1>15, <1>16
  DEF Next, Get, RunCommand, DestroySession, StopAll

\* What every step keeps.
LEMMA PoolInvariant == Spec => []PoolInv
<1>1. PoolInv /\ [Next]_poolVars => PoolInv'
  BY TypeKept, PoolKept DEF PoolInv
<1>2. QED
  BY PoolInit, <1>1, PTL DEF Spec

\* The variables keep their shapes: docker is never asked for more than MaxBoxes
\* containers, and what is registered, removed or lost is one of them.
THEOREM PoolTypeHolds == Spec => []TypeOK
<1>1. PoolInv => TypeOK
  BY DEF PoolInv
<1>2. QED
  BY PoolInvariant, <1>1, PTL

\* No order of calls, timeouts, deletions of sessions, cancellations and the shutdown
\* forgets a container or leaves the command of an expired call running.
THEOREM AccountedAlways == Spec => []ContainersAccounted
<1>1. PoolInv => ContainersAccounted
  BY DEF PoolInv, Torn, ContainersAccounted, Owned, TimedOutIsTornDown
<1>2. QED
  BY PoolInvariant, <1>1, PTL

------------------------------------------------------------------------------
(* The MCP connections.                                                     *)

\* A connect under way holds the lock of a provider that is not closed, and its client is
\* not yet listed.
Connecting ==
  \A s \in Sender :
    /\ attachAt[s] \in {"waiting", "listing"} => mine[s] # 0
    /\ attachAt[s] = "listing" =>
         /\ connector[mine[s]] = s /\ mine[s] \notin shut
         /\ dialled[s] # 0 /\ madeBy[dialled[s]] = mine[s]
         /\ clientOf[mine[s]][WorkspaceOf[s]] = 0

\* An open connection is listed by the provider that made it, or a connect that holds the
\* lock will list it, or it was cut off.
Accounted ==
  \A c \in open :
    /\ madeBy[c] # 0
    /\ \/ c \in cut
       \/ \E w \in Workspace : clientOf[madeBy[c]][w] = c
       \/ \E s \in Sender : attachAt[s] = "listing" /\ dialled[s] = c

McpInv == Mcp!TypeOK /\ Connecting /\ Accounted /\ Mcp!ClosedHoldsNothing

LEMMA McpInit == Mcp!Setting /\ Mcp!Init => McpInv
<1> SUFFICES ASSUME Mcp!Setting, Mcp!Init PROVE McpInv
  OBVIOUS
<1>1. Mcp!TypeOK
  BY DEF Mcp!Setting, Mcp!Init, Mcp!TypeOK, Mcp!Provider, Mcp!Client
<1>2. Connecting /\ Accounted /\ Mcp!ClosedHoldsNothing
  BY DEF Mcp!Init, Connecting, Accounted, Mcp!ClosedHoldsNothing
<1> QED BY <1>1, <1>2 DEF McpInv

LEMMA McpType == Mcp!Setting /\ McpInv /\ [Mcp!Next]_Mcp!mcpVars => Mcp!TypeOK'
<1> SUFFICES ASSUME Mcp!Setting, Mcp!TypeOK, Connecting, [Mcp!Next]_Mcp!mcpVars
             PROVE  Mcp!TypeOK'
  BY DEF McpInv
<1> USE DEF Mcp!Setting, Mcp!TypeOK, Mcp!Provider, Mcp!Client
<1>1. ASSUME NEW s \in Sender, Mcp!Attach(s) PROVE Mcp!TypeOK'
  <2>1. attaches' \in 0 .. MaxAttaches
    BY <1>1 DEF Mcp!Attach
  <2>2. mine' \in [Sender -> 0 .. MaxProviders] /\ providers' \in 0 .. MaxProviders
    <3>1. CASE provider # 0
      <4>1. mine' = [mine EXCEPT ![s] = provider] /\ providers' = providers
        BY <1>1, <3>1 DEF Mcp!Attach
      <4> QED BY <4>1
    <3>2. CASE provider = 0
      <4>1. providers' = providers + 1 /\ providers < MaxProviders
            /\ mine' = [mine EXCEPT ![s] = providers + 1]
        BY <1>1, <3>2 DEF Mcp!Attach
      <4>2. providers + 1 \in 0 .. MaxProviders
        BY <4>1
      <4> QED BY <4>1, <4>2
    <3> QED BY <3>1, <3>2
  <2>3. attachAt' = [attachAt EXCEPT ![s] = "waiting"]
    BY <1>1 DEF Mcp!Attach, Mcp!At
  <2> QED BY <1>1, <2>1, <2>2, <2>3 DEF Mcp!Attach
<1>2. ASSUME NEW s \in Sender, Mcp!Refused(s) \/ Mcp!ListFails(s) PROVE Mcp!TypeOK'
  <2>1. CASE Mcp!Refused(s)
    BY <2>1 DEF Mcp!Refused, Mcp!MayConnect, Mcp!At
  <2>2. CASE Mcp!ListFails(s)
    BY <2>2 DEF Mcp!ListFails, Mcp!Unlock, Mcp!At
  <2> QED BY <1>2, <2>1, <2>2
<1>3. ASSUME NEW s \in Sender, Mcp!Known(s) PROVE Mcp!TypeOK'
  <2>1. mine[s] \in Mcp!Provider
    BY <1>3 DEF Mcp!Known, Mcp!MayConnect, Connecting
  <2> QED BY <1>3, <2>1 DEF Mcp!Known, Mcp!At
<1>4. ASSUME NEW s \in Sender, Mcp!Enter(s) PROVE Mcp!TypeOK'
  <2>1. PICK c \in Mcp!Client : /\ madeBy' = [madeBy EXCEPT ![c] = mine[s]]
                                /\ dialled' = [dialled EXCEPT ![s] = c]
                                /\ open' = open \cup {c}
    BY <1>4 DEF Mcp!Enter
  <2>2. mine[s] \in Mcp!Provider
    BY <1>4 DEF Mcp!Enter, Mcp!MayConnect, Connecting
  <2>3. /\ madeBy' \in [Mcp!Client -> Mcp!Provider \cup {0}]
        /\ dialled' \in [Sender -> Mcp!Client \cup {0}]
        /\ open' \subseteq Mcp!Client
    BY <2>1, <2>2
  <2> QED BY <1>4, <2>2, <2>3 DEF Mcp!Enter, Mcp!At
<1>5. ASSUME NEW s \in Sender, Mcp!Listed(s) PROVE Mcp!TypeOK'
  <2>1. mine[s] \in Mcp!Provider /\ WorkspaceOf[s] \in Workspace
    BY <1>5 DEF Mcp!Listed, Connecting
  <2>2. clientOf' \in [Mcp!Provider -> [Workspace -> Mcp!Client \cup {0}]]
    BY <1>5, <2>1 DEF Mcp!Listed
  <2> QED BY <1>5, <2>1, <2>2 DEF Mcp!Listed, Mcp!Unlock, Mcp!At
<1>6. ASSUME NEW s \in Sender, Mcp!CutOff(s) PROVE Mcp!TypeOK'
  <2>1. CASE attachAt[s] = "listing"
    <3>1. dialled[s] \in Mcp!Client
      BY <2>1 DEF Connecting
    <3> QED BY <1>6, <2>1, <3>1 DEF Mcp!CutOff, Mcp!Unlock, Mcp!At
  <2>2. CASE attachAt[s] # "listing"
    BY <1>6, <2>2 DEF Mcp!CutOff, Mcp!At
  <2> QED BY <2>1, <2>2
<1>7. CASE Mcp!CloseProvider
  BY <1>7 DEF Mcp!CloseProvider
<1>8. CASE UNCHANGED Mcp!mcpVars
  BY <1>8 DEF Mcp!mcpVars
<1> QED BY <1>1, <1>2, <1>3, <1>4, <1>5, <1>6, <1>7, <1>8 DEF Mcp!Next

LEMMA McpStep == Mcp!Setting /\ McpInv /\ [Mcp!Next]_Mcp!mcpVars => McpInv'
<1> SUFFICES ASSUME Mcp!Setting, McpInv, [Mcp!Next]_Mcp!mcpVars
             PROVE  Connecting' /\ Accounted' /\ Mcp!ClosedHoldsNothing'
  BY McpType DEF McpInv
<1>0. /\ Mcp!TypeOK /\ Connecting /\ Accounted /\ Mcp!ClosedHoldsNothing
      /\ NoSender \notin Sender /\ \A s \in Sender : WorkspaceOf[s] \in Workspace
  BY DEF McpInv, Mcp!Setting
<1> USE DEF Mcp!TypeOK, Mcp!ClosedHoldsNothing
\* Steps of an attachment that is not connecting.
<1>1. ASSUME NEW s \in Sender, Mcp!Attach(s) \/ Mcp!Refused(s) \/ Mcp!Known(s)
      PROVE  Connecting' /\ Accounted' /\ Mcp!ClosedHoldsNothing'
  <2>1. /\ UNCHANGED <<clientOf, connector, shut, open, dialled, madeBy, cut>>
        /\ attachAt[s] # "listing" /\ attachAt'[s] # "listing"
        /\ \A t \in Sender \ {s} : attachAt'[t] = attachAt[t] /\ mine'[t] = mine[t]
    BY <1>0, <1>1 DEF Mcp!Attach, Mcp!Refused, Mcp!Known, Mcp!MayConnect, Mcp!At
  <2>2. attachAt'[s] = "waiting" => mine'[s] # 0
    <3>1. CASE Mcp!Attach(s)
      BY <1>0, <3>1 DEF Mcp!Attach, Mcp!At, Mcp!Provider
    <3>2. CASE Mcp!Refused(s) \/ Mcp!Known(s)
      BY <1>0, <3>2 DEF Mcp!Refused, Mcp!Known, Mcp!At
    <3> QED BY <1>1, <3>1, <3>2
  <2>3. Connecting'
    BY <1>0, <2>1, <2>2 DEF Connecting
  <2>4. \A t \in Sender : attachAt[t] = "listing" => attachAt'[t] = "listing"
    BY <2>1
  <2>5. Accounted'
    BY <1>0, <2>1, <2>4 DEF Accounted
  <2> QED BY <1>0, <2>1, <2>3, <2>5
<1>2. ASSUME NEW s \in Sender, Mcp!Enter(s)
      PROVE  Connecting' /\ Accounted' /\ Mcp!ClosedHoldsNothing'
  <2>1. PICK c \in Mcp!Client : /\ Mcp!Fresh(c)
                                /\ madeBy' = [madeBy EXCEPT ![c] = mine[s]]
                                /\ dialled' = [dialled EXCEPT ![s] = c]
                                /\ open' = open \cup {c}
    BY <1>2 DEF Mcp!Enter
  <2>2. madeBy[c] = 0 /\ c # 0
    BY <2>1 DEF Mcp!Fresh, Mcp!Client
  <2>3. /\ UNCHANGED <<clientOf, shut, mine, cut>>
        /\ connector[mine[s]] = NoSender /\ mine[s] \notin shut
        /\ connector' = [connector EXCEPT ![mine[s]] = s]
        /\ attachAt[s] = "waiting" /\ attachAt' = [attachAt EXCEPT ![s] = "listing"]
        /\ clientOf[mine[s]][WorkspaceOf[s]] = 0
    BY <1>2 DEF Mcp!Enter, Mcp!MayConnect, Mcp!At
  <2>4. mine[s] \in Mcp!Provider /\ mine[s] # 0
    BY <1>0, <2>3 DEF Connecting
  <2>5. c \notin open
    BY <1>0, <2>2 DEF Accounted
  <2>6. ASSUME NEW t \in Sender, attachAt'[t] \in {"waiting", "listing"}
        PROVE  /\ mine'[t] # 0
               /\ attachAt'[t] = "listing" =>
                    /\ connector'[mine'[t]] = t /\ mine'[t] \notin shut'
                    /\ dialled'[t] # 0 /\ madeBy'[dialled'[t]] = mine'[t]
                    /\ clientOf'[mine'[t]][WorkspaceOf[t]] = 0
    <3>1. CASE t = s
      BY <1>0, <2>1, <2>2, <2>3, <2>4, <3>1
    <3>2. CASE t # s
      <4>1. attachAt'[t] = attachAt[t] /\ dialled'[t] = dialled[t]
        BY <1>0, <2>1, <2>3, <3>2
      <4>2. mine[t] # 0
        BY <1>0, <2>6, <4>1 DEF Connecting
      <4>3. CASE attachAt[t] = "listing"
        <5>1. /\ connector[mine[t]] = t /\ mine[t] \notin shut
              /\ dialled[t] # 0 /\ madeBy[dialled[t]] = mine[t]
              /\ clientOf[mine[t]][WorkspaceOf[t]] = 0
          BY <1>0, <4>3 DEF Connecting
        <5>2. mine[t] # mine[s] /\ dialled[t] # c
          BY <1>0, <2>2, <2>3, <4>2, <5>1
        <5> QED BY <1>0, <2>1, <2>3, <4>1, <4>2, <5>1, <5>2
      <4> QED BY <2>3, <4>1, <4>2, <4>3
    <3> QED BY <3>1, <3>2
  <2>7. Connecting'
    BY <2>6 DEF Connecting
  <2>8. ASSUME NEW d \in open'
        PROVE  /\ madeBy'[d] # 0
               /\ \/ d \in cut'
                  \/ \E w \in Workspace : clientOf'[madeBy'[d]][w] = d
                  \/ \E t \in Sender : attachAt'[t] = "listing" /\ dialled'[t] = d
    <3>1. CASE d = c
      BY <1>0, <2>1, <2>3, <2>4, <3>1
    <3>2. CASE d # c
      <4>1. d \in open /\ madeBy'[d] = madeBy[d]
        BY <1>0, <2>1, <2>8, <3>2
      <4>2. \A t \in Sender : attachAt[t] = "listing" =>
              attachAt'[t] = "listing" /\ dialled'[t] = dialled[t]
        BY <1>0, <2>1, <2>3
      <4>3. /\ madeBy[d] # 0
            /\ \/ d \in cut
               \/ \E w \in Workspace : clientOf[madeBy[d]][w] = d
               \/ \E t \in Sender : attachAt[t] = "listing" /\ dialled[t] = d
        BY <1>0, <4>1 DEF Accounted
      <4> QED BY <2>3, <4>1, <4>2, <4>3
    <3> QED BY <3>1, <3>2
  <2>9. Mcp!ClosedHoldsNothing'
    BY <1>0, <2>1, <2>3
  <2> QED BY <2>7, <2>8, <2>9 DEF Accounted
<1>3. ASSUME NEW s \in Sender, Mcp!Listed(s)
      PROVE  Connecting' /\ Accounted' /\ Mcp!ClosedHoldsNothing'
  <2>1. /\ UNCHANGED <<shut, open, mine, dialled, madeBy, cut>>
        /\ attachAt[s] = "listing" /\ attachAt' = [attachAt EXCEPT ![s] = "attached"]
        /\ connector' = [connector EXCEPT ![mine[s]] = NoSender]
        /\ clientOf' = [clientOf EXCEPT ![mine[s]][WorkspaceOf[s]] = dialled[s]]
    BY <1>3 DEF Mcp!Listed, Mcp!Unlock, Mcp!At
  <2>2. /\ mine[s] \in Mcp!Provider /\ connector[mine[s]] = s
        /\ dialled[s] # 0 /\ madeBy[dialled[s]] = mine[s]
        /\ clientOf[mine[s]][WorkspaceOf[s]] = 0 /\ WorkspaceOf[s] \in Workspace
    BY <1>0, <2>1 DEF Connecting
  <2>3. \A p \in Mcp!Provider, w \in Workspace :
          clientOf'[p][w] = IF p = mine[s] /\ w = WorkspaceOf[s] THEN dialled[s]
                            ELSE clientOf[p][w]
    BY <1>0, <2>1, <2>2
  <2>4. ASSUME NEW t \in Sender, t # s
        PROVE  attachAt'[t] = attachAt[t] /\ (attachAt[t] = "listing" => mine[t] # mine[s])
    BY <1>0, <2>1, <2>2, <2>4 DEF Connecting
  <2>5. Connecting'
    <3>1. ASSUME NEW t \in Sender, attachAt'[t] \in {"waiting", "listing"}
          PROVE  /\ mine[t] # 0 /\ t # s
                 /\ attachAt[t] = "listing" =>
                      /\ connector'[mine[t]] = connector[mine[t]]
                      /\ clientOf'[mine[t]][WorkspaceOf[t]] = clientOf[mine[t]][WorkspaceOf[t]]
      <4>1. t # s
        BY <1>0, <2>1, <3>1
      <4>2. mine[t] # 0
        BY <1>0, <2>4, <3>1, <4>1 DEF Connecting
      <4> QED BY <1>0, <2>1, <2>3, <2>4, <4>1, <4>2
    <3> QED BY <1>0, <2>1, <2>4, <3>1 DEF Connecting
  <2>6. ASSUME NEW d \in open
        PROVE  /\ madeBy[d] # 0
               /\ \/ d \in cut
                  \/ \E w \in Workspace : clientOf'[madeBy[d]][w] = d
                  \/ \E t \in Sender : attachAt'[t] = "listing" /\ dialled[t] = d
    <3>1. madeBy[d] # 0 /\ madeBy[d] \in Mcp!Provider /\ d \in Mcp!Client
      BY <1>0 DEF Accounted
    <3>2. CASE d = dialled[s]
      BY <2>2, <2>3, <3>1, <3>2
    <3>3. ASSUME NEW w \in Workspace, clientOf[madeBy[d]][w] = d
          PROVE  clientOf'[madeBy[d]][w] = d
      <4>1. d # 0
        BY <3>1 DEF Mcp!Client
      <4> QED BY <2>2, <2>3, <3>1, <3>3, <4>1
    <3>4. \A t \in Sender : attachAt[t] = "listing" /\ dialled[t] = d =>
            t = s \/ attachAt'[t] = "listing"
      BY <2>4
    <3> QED BY <1>0, <3>1, <3>2, <3>3, <3>4 DEF Accounted
  <2> QED BY <1>0, <2>1, <2>5, <2>6 DEF Accounted
<1>4. ASSUME NEW s \in Sender, Mcp!ListFails(s) \/ Mcp!CutOff(s)
      PROVE  Connecting' /\ Accounted' /\ Mcp!ClosedHoldsNothing'
  <2>1. /\ UNCHANGED <<clientOf, shut, mine, dialled, madeBy>>
        /\ attachAt' = [attachAt EXCEPT ![s] = "failed"]
        /\ open' \subseteq open /\ cut \subseteq cut'
        /\ attachAt[s] = "listing" => /\ connector' = [connector EXCEPT ![mine[s]] = NoSender]
                                      /\ dialled[s] \in open' => dialled[s] \in cut'
        /\ attachAt[s] # "listing" => connector' = connector
    BY <1>4 DEF Mcp!ListFails, Mcp!CutOff, Mcp!Unlock, Mcp!At
  <2>2. ASSUME NEW t \in Sender, t # s
        PROVE  /\ attachAt'[t] = attachAt[t]
               /\ attachAt[t] = "listing" => connector'[mine[t]] = connector[mine[t]]
    <3>1. attachAt'[t] = attachAt[t]
      BY <1>0, <2>1, <2>2
    <3>2. CASE attachAt[t] = "listing" /\ attachAt[s] = "listing"
      <4>1. mine[t] # mine[s] /\ mine[t] \in Mcp!Provider /\ mine[s] \in Mcp!Provider
        BY <1>0, <2>2, <3>2 DEF Connecting
      <4> QED BY <1>0, <2>1, <3>1, <3>2, <4>1
    <3> QED BY <2>1, <3>1, <3>2
  <2>3. attachAt'[s] = "failed"
    BY <1>0, <2>1
  <2>4. Connecting'
    BY <1>0, <2>1, <2>2, <2>3 DEF Connecting
  <2>5. Accounted'
    BY <1>0, <2>1, <2>2 DEF Accounted
  <2> QED BY <1>0, <2>1, <2>4, <2>5
<1>5. CASE Mcp!CloseProvider
  <2>1. /\ connector[provider] = NoSender /\ provider \in Mcp!Provider
        /\ shut' = shut \cup {provider}
        /\ open' = open \ {clientOf[provider][w] : w \in Workspace}
        /\ clientOf' = [clientOf EXCEPT ![provider] = [w \in Workspace |-> 0]]
        /\ UNCHANGED <<connector, attachAt, mine, dialled, madeBy, cut>>
    BY <1>0, <1>5 DEF Mcp!CloseProvider
  <2>2. \A t \in Sender : attachAt[t] = "listing" => mine[t] # provider
    BY <1>0, <2>1 DEF Connecting
  <2>3. Connecting'
    BY <1>0, <2>1, <2>2 DEF Connecting
  <2>4. ASSUME NEW d \in open', d \notin cut PROVE madeBy[d] # provider
    <3>1. d \in open /\ \A w \in Workspace : clientOf[provider][w] # d
      BY <2>1, <2>4
    <3>2. \A t \in Sender : attachAt[t] = "listing" /\ dialled[t] = d => madeBy[d] # provider
      BY <1>0, <2>2 DEF Connecting
    <3> QED BY <1>0, <2>4, <3>1, <3>2 DEF Accounted
  <2>5. Accounted'
    <3>1. ASSUME NEW d \in open', d \notin cut, NEW w \in Workspace
          PROVE  clientOf'[madeBy[d]][w] = clientOf[madeBy[d]][w]
      BY <1>0, <2>1, <2>4, <3>1
    <3> QED BY <1>0, <2>1, <3>1 DEF Accounted
  <2> QED BY <1>0, <2>1, <2>3, <2>4, <2>5
<1>6. CASE UNCHANGED Mcp!mcpVars
  BY <1>0, <1>6 DEF Mcp!mcpVars, Connecting, Accounted
<1> QED BY <1>1, <1>2, <1>3, <1>4, <1>5, <1>6 DEF Mcp!Next

\* The connections are always well typed, and a provider that was closed holds no open
\* connection and gets none, whichever attachments overlap with the shutdown, for any
\* senders, workspaces and numbers of them.
THEOREM ClosedAlwaysHoldsNothing ==
  ASSUME Mcp!Setting PROVE Mcp!Spec => [](Mcp!TypeOK /\ ClosedHoldsNothing)
<1>1. McpInv => Mcp!TypeOK /\ ClosedHoldsNothing
  BY DEF McpInv, ClosedHoldsNothing
<1> QED BY <1>1, McpInit, McpStep, PTL DEF Mcp!Spec

------------------------------------------------------------------------------
(* Retries and failover.                                                    *)

Asks == {"ready", "pausing", "asleep"}   \* a request is to come

\* A request that is to come starts with nothing shown.
NothingShownYet ==
  \A r \in Run : ~streamed[r] \/ turnAt[r] \in Asks => shown[r] = <<>>

\* What was late is not followed by another request.
LateOnce ==
  \A r \in Run :
    /\ late[r] <= 1
    /\ late[r] # 0 => stopped[r] /\ turnAt[r] \notin Asks

\* Every model of every turn has had its share of requests, the present one so far one
\* more than it failed - unless the next is still to come.
Shares(r) == (turn[r] + active[r] - 2) * (1 + Turn!Retries)
Paid(r) ==
  requests[r] <= Shares(r) + attempt[r] + (IF turnAt[r] \in Asks THEN 0 ELSE 1)

TurnInv ==
  /\ Turn!TypeOK /\ NothingShownYet /\ LateOnce /\ Turn!OneRequestAnswers
  /\ \A r \in Run : Paid(r)

LEMMA RetriesType == Turn!Setting => Turn!Retries \in Nat
BY DEF Turn!Setting, Turn!Retries

LEMMA ShareType == ASSUME NEW k \in Nat, NEW n \in Nat PROVE k * n \in Nat
OBVIOUS

LEMMA OneMoreShare == ASSUME NEW k \in Nat, NEW n \in Nat PROVE (k + 1) * n = k * n + n
OBVIOUS

LEMMA MoreShares ==
  ASSUME NEW k \in Nat, NEW m \in Nat, k <= m, NEW n \in Nat PROVE k * n <= m * n
<1>1. PICK d \in Nat : m = k + d
  <2>1. m - k \in Nat /\ m = k + (m - k)
    OBVIOUS
  <2> QED BY <2>1
<1>2. m * n = k * n + d * n
  BY <1>1
<1>3. d * n \in Nat /\ k * n \in Nat
  OBVIOUS
<1> QED BY <1>2, <1>3

LEMMA SharesSame == ASSUME NEW r, UNCHANGED <<turn, active>> PROVE Shares(r)' = Shares(r)
BY DEF Shares, Turn!Retries

LEMMA TurnInit == Turn!Setting /\ Turn!Init => TurnInv
<1> SUFFICES ASSUME Turn!Setting, Turn!Init PROVE TurnInv
  OBVIOUS
<1>1. Turn!TypeOK
  BY RetriesType DEF Turn!Setting, Turn!Init, Turn!TypeOK
<1>2. NothingShownYet /\ LateOnce /\ Turn!OneRequestAnswers
  BY DEF Turn!Init, NothingShownYet, LateOnce, Turn!OneRequestAnswers
<1>3. \A r \in Run : Paid(r)
  <2> SUFFICES ASSUME NEW r \in Run PROVE Paid(r)
    OBVIOUS
  <2>1. Shares(r) = 0 * (1 + Turn!Retries)
    BY DEF Turn!Init, Shares
  <2>2. Shares(r) = 0
    BY <2>1, RetriesType
  <2> QED BY <2>2 DEF Turn!Init, Paid, Asks
<1> QED BY <1>1, <1>2, <1>3 DEF TurnInv

LEMMA TurnType == Turn!Setting /\ TurnInv /\ [Turn!Next]_Turn!turnVars => Turn!TypeOK'
<1> SUFFICES ASSUME Turn!Setting, Turn!TypeOK, [Turn!Next]_Turn!turnVars
             PROVE  Turn!TypeOK'
  BY DEF TurnInv
<1>0. Turn!Retries \in Nat /\ Models \in Nat /\ MaxTurns \in Nat
  BY RetriesType DEF Turn!Setting
<1> USE DEF Turn!TypeOK, Turn!Goto
<1>1. ASSUME NEW r \in Run, Turn!Ask(r) PROVE Turn!TypeOK'
  <2>1. late' \in [Run -> Nat]
    <3>1. CASE stopped[r]
      BY <1>1, <3>1 DEF Turn!Ask
    <3>2. CASE ~stopped[r]
      BY <1>1, <3>2 DEF Turn!Ask
    <3> QED BY <3>1, <3>2
  <2>2. /\ requests' = [requests EXCEPT ![r] = @ + 1] /\ calls' = [calls EXCEPT ![r] = {}]
        /\ turnAt' = [turnAt EXCEPT ![r] = "streaming"]
        /\ UNCHANGED <<active, attempt, streamed, stopped, sleeper, turn, shown>>
    BY <1>1 DEF Turn!Ask
  <2>3. requests' \in [Run -> Nat] /\ calls' \in [Run -> SUBSET Nat]
    BY <2>2
  <2> QED BY <2>1, <2>2, <2>3
<1>2. ASSUME NEW r \in Run, Turn!Chunk(r) PROVE Turn!TypeOK'
  <2>1. CASE stopped[r]
    BY <1>2, <2>1 DEF Turn!Chunk
  <2>2. CASE ~stopped[r] /\ calls' = calls
    <3>1. shown' = shown \/ shown' = [shown EXCEPT ![r] = Append(@, requests[r])]
      BY <1>2, <2>2 DEF Turn!Chunk
    <3>2. streamed' = streamed \/ streamed' = [streamed EXCEPT ![r] = TRUE]
      BY <1>2, <2>2 DEF Turn!Chunk
    <3>3. requests[r] \in Nat /\ shown[r] \in Seq(Nat)
      OBVIOUS
    <3>4. Append(shown[r], requests[r]) \in Seq(Nat)
      BY <3>3
    <3>5. shown' \in [Run -> Seq(Nat)] /\ streamed' \in [Run -> BOOLEAN]
      BY <3>1, <3>2, <3>4
    <3>6. UNCHANGED <<turnAt, active, attempt, stopped, sleeper, turn, requests, late>>
      BY <1>2, <2>2 DEF Turn!Chunk
    <3> QED BY <2>2, <3>5, <3>6
  <2>3. CASE ~stopped[r] /\ calls' # calls
    <3>1. calls' = [calls EXCEPT ![r] = @ \cup {requests[r]}]
      BY <1>2, <2>3 DEF Turn!Chunk
    <3>2. UNCHANGED <<turnAt, active, attempt, streamed, stopped, sleeper, turn, requests,
                      late, shown>>
      BY <1>2, <2>3 DEF Turn!Chunk
    <3>3. calls' \in [Run -> SUBSET Nat]
      BY <3>1
    <3> QED BY <3>2, <3>3
  <2> QED BY <2>1, <2>2, <2>3
<1>3. ASSUME NEW r \in Run, Turn!StreamEnds(r) PROVE Turn!TypeOK'
  BY <1>3 DEF Turn!StreamEnds
<1>4. ASSUME NEW r \in Run, Turn!Retry(r) PROVE Turn!TypeOK'
  <2>1. attempt' \in [Run -> 0 .. Turn!Retries]
    BY <1>0, <1>4 DEF Turn!Retry, Turn!MayRetry
  <2> QED BY <1>4, <2>1 DEF Turn!Retry
<1>5. ASSUME NEW r \in Run, Turn!FailOver(r) PROVE Turn!TypeOK'
  <2>1. active[r] < Models
    BY <1>5 DEF Turn!FailOver, Turn!MayFailOver
  <2>2. active[r] \in 1 .. Models
    OBVIOUS
  <2>3. active[r] + 1 \in 1 .. Models /\ 0 \in 0 .. Turn!Retries
    <3> HIDE DEF Turn!TypeOK
    <3> QED BY <1>0, <2>1, <2>2
  <2> QED BY <1>5, <2>3 DEF Turn!FailOver
<1>6. ASSUME NEW r \in Run, Turn!GiveUp(r) \/ Turn!Sleep(r) \/ Turn!Wake(r) PROVE Turn!TypeOK'
  <2>1. CASE Turn!GiveUp(r)
    BY <2>1 DEF Turn!GiveUp
  <2>2. CASE Turn!Sleep(r)
    BY <2>2 DEF Turn!Sleep
  <2>3. CASE Turn!Wake(r)
    BY <2>3 DEF Turn!Wake
  <2> QED BY <1>6, <2>1, <2>2, <2>3
<1>7. ASSUME NEW r \in Run, Turn!NextTurn(r) PROVE Turn!TypeOK'
  <2>1. turn' \in [Run -> 1 .. MaxTurns] /\ attempt' \in [Run -> 0 .. Turn!Retries]
    <3>1. turn[r] + 1 \in 1 .. MaxTurns
      BY <1>0, <1>7 DEF Turn!NextTurn
    <3>2. 0 \in 0 .. Turn!Retries
      BY <1>0
    <3>3. turn' = [turn EXCEPT ![r] = @ + 1] /\ attempt' = [attempt EXCEPT ![r] = 0]
      BY <1>7 DEF Turn!NextTurn
    <3> QED BY <3>1, <3>2, <3>3
  <2> QED BY <1>7, <2>1 DEF Turn!NextTurn
<1>8. ASSUME NEW r \in Run, Turn!Stop(r) PROVE Turn!TypeOK'
  BY <1>8 DEF Turn!Stop
<1>9. CASE UNCHANGED Turn!turnVars
  BY <1>9 DEF Turn!turnVars
<1> QED BY <1>1, <1>2, <1>3, <1>4, <1>5, <1>6, <1>7, <1>8, <1>9
        DEF Turn!Next, Turn!Stream, Turn!Fail

\* What each step does to the run that takes it.
LEMMA TurnOwn ==
  ASSUME Turn!Setting, TurnInv, NEW r \in Run,
         \/ Turn!Stream(r) \/ Turn!Fail(r) \/ Turn!Sleep(r) \/ Turn!Wake(r)
         \/ Turn!NextTurn(r) \/ Turn!Stop(r)
  PROVE  /\ ~streamed'[r] \/ turnAt'[r] \in Asks => shown'[r] = <<>>
         /\ late'[r] <= 1 /\ (late'[r] # 0 => stopped'[r] /\ turnAt'[r] \notin Asks)
         /\ \A i \in 1 .. Len(shown'[r]) : shown'[r][i] = requests'[r]
         /\ calls'[r] \subseteq {requests'[r]}
         /\ Paid(r)'
<1>0. /\ Turn!TypeOK
      /\ ~streamed[r] \/ turnAt[r] \in Asks => shown[r] = <<>>
      /\ late[r] <= 1 /\ (late[r] # 0 => stopped[r] /\ turnAt[r] \notin Asks)
      /\ \A i \in 1 .. Len(shown[r]) : shown[r][i] = requests[r]
      /\ calls[r] \subseteq {requests[r]}
      /\ Paid(r)
  BY DEF TurnInv, NothingShownYet, LateOnce, Turn!OneRequestAnswers
<1> DEFINE n == 1 + Turn!Retries
           k == turn[r] + active[r] - 2
<1>1. /\ requests[r] \in Nat /\ late[r] \in Nat /\ shown[r] \in Seq(Nat)
      /\ turn[r] \in Nat \ {0} /\ active[r] \in Nat \ {0}
      /\ attempt[r] \in 0 .. Turn!Retries /\ Turn!Retries \in Nat
      /\ streamed[r] \in BOOLEAN /\ stopped[r] \in BOOLEAN
  BY <1>0, RetriesType DEF Turn!TypeOK, Turn!Setting
<1>2. k \in Nat /\ n \in Nat /\ Shares(r) \in Nat
  <2>1. k \in Nat /\ n \in Nat
    BY <1>1
  <2> QED BY <2>1, ShareType DEF Shares
<1>3. requests[r] <= Shares(r) + attempt[r] + (IF turnAt[r] \in Asks THEN 0 ELSE 1)
  BY <1>0 DEF Paid
<1> HIDE DEF k, n
<1>4. CASE Turn!Ask(r)
  <2>1. /\ turnAt[r] = "ready" /\ turnAt'[r] = "streaming"
        /\ requests'[r] = requests[r] + 1
        /\ late'[r] = (IF stopped[r] THEN late[r] + 1 ELSE late[r])
        /\ calls'[r] = {}
        /\ UNCHANGED <<active, attempt, streamed, stopped, turn, shown>>
    BY <1>0, <1>4 DEF Turn!Ask, Turn!Goto, Turn!TypeOK
  <2>2. late[r] = 0 /\ shown[r] = <<>>
    BY <1>0, <2>1 DEF Asks
  <2>3. Paid(r)'
    BY <1>1, <1>2, <1>3, <2>1, SharesSame DEF Paid, Asks
  <2>4. late'[r] <= 1 /\ (late'[r] # 0 => stopped'[r])
    BY <2>1, <2>2
  <2> QED BY <2>1, <2>2, <2>3, <2>4 DEF Asks
<1>5. CASE Turn!Chunk(r)
  <2>1. /\ turnAt[r] = "streaming" /\ turnAt'[r] \in {"streaming", "done"}
        /\ calls'[r] \subseteq calls[r] \cup {requests[r]}
        /\ UNCHANGED <<active, attempt, stopped, turn, requests, late>>
        /\ \/ streamed'[r] = streamed[r] /\ shown'[r] = shown[r]
           \/ streamed'[r] = TRUE /\ shown'[r] = Append(shown[r], requests[r])
    <3>1. CASE stopped[r]
      BY <1>0, <1>5, <3>1 DEF Turn!Chunk, Turn!Goto, Turn!TypeOK
    <3>2. CASE ~stopped[r] /\ calls' = calls
      <4>1. /\ turnAt[r] = "streaming"
            /\ UNCHANGED <<turnAt, active, attempt, stopped, turn, requests, late>>
        BY <1>5, <3>2 DEF Turn!Chunk
      <4>2. \/ streamed' = streamed /\ shown' = shown
            \/ /\ streamed' = [streamed EXCEPT ![r] = TRUE]
               /\ shown' = [shown EXCEPT ![r] = Append(@, requests[r])]
        BY <1>5, <3>2 DEF Turn!Chunk
      <4> QED BY <1>0, <3>2, <4>1, <4>2 DEF Turn!TypeOK
    <3>3. CASE ~stopped[r] /\ calls' # calls
      <4>1. /\ turnAt[r] = "streaming" /\ calls' = [calls EXCEPT ![r] = @ \cup {requests[r]}]
            /\ UNCHANGED <<turnAt, active, attempt, streamed, stopped, turn, requests, late,
                           shown>>
        BY <1>5, <3>3 DEF Turn!Chunk
      <4> QED BY <1>0, <4>1 DEF Turn!TypeOK
    <3> QED BY <3>1, <3>2, <3>3
  <2>2. \A i \in 1 .. Len(shown'[r]) : shown'[r][i] = requests[r]
    <3>1. CASE shown'[r] = shown[r]
      BY <1>0, <3>1
    <3>2. CASE shown'[r] = Append(shown[r], requests[r])
      BY <1>0, <1>1, <3>2
    <3> QED BY <2>1, <3>1, <3>2
  <2>3. Paid(r)'
    BY <1>0, <2>1, SharesSame DEF Paid, Asks
  <2> QED BY <1>0, <2>1, <2>2, <2>3 DEF Asks
<1>6. CASE Turn!StreamEnds(r) \/ Turn!GiveUp(r)
  <2>1. /\ turnAt'[r] \in {"done", "error"}
        /\ UNCHANGED <<active, attempt, streamed, stopped, turn, requests, late, shown, calls>>
    BY <1>0, <1>6 DEF Turn!StreamEnds, Turn!GiveUp, Turn!Goto, Turn!TypeOK
  <2>2. Paid(r)'
    <3>1. requests[r] <= Shares(r) + attempt[r] + 1
      BY <1>1, <1>2, <1>3
    <3>2. Shares(r)' = Shares(r)
      BY <2>1, SharesSame
    <3>3. turnAt'[r] \notin Asks
      BY <2>1 DEF Asks
    <3> QED BY <2>1, <3>1, <3>2, <3>3 DEF Paid
  <2> QED BY <1>0, <2>1, <2>2 DEF Asks
<1>7. CASE Turn!Retry(r)
  <2>1. /\ turnAt[r] = "streaming" /\ turnAt'[r] = "pausing" /\ ~streamed[r] /\ ~stopped[r]
        /\ attempt'[r] = attempt[r] + 1
        /\ UNCHANGED <<active, streamed, stopped, turn, requests, late, shown, calls>>
    BY <1>0, <1>7 DEF Turn!Retry, Turn!MayRetry, Turn!MayAgain, Turn!Goto, Turn!TypeOK
  <2>2. requests[r] <= Shares(r) + attempt[r] + 1
    BY <1>3, <2>1 DEF Asks
  <2>3. Shares(r)' = Shares(r) /\ requests'[r] = requests[r]
    <3>1. UNCHANGED <<turn, active>> /\ requests'[r] = requests[r]
      BY <2>1
    <3> QED BY <3>1, SharesSame
  <2>4. requests'[r] <= Shares(r)' + attempt'[r] + 0
    BY <1>1, <1>2, <2>1, <2>2, <2>3
  <2>5. Paid(r)'
    BY <2>1, <2>4 DEF Paid, Asks
  <2> QED BY <1>0, <2>1, <2>5 DEF Asks
<1>8. CASE Turn!FailOver(r)
  <2>1. /\ turnAt[r] = "streaming" /\ turnAt'[r] = "ready" /\ ~streamed[r] /\ ~stopped[r]
        /\ attempt'[r] = 0 /\ active'[r] = active[r] + 1
        /\ UNCHANGED <<streamed, stopped, turn, requests, late, shown, calls>>
    BY <1>0, <1>8 DEF Turn!FailOver, Turn!MayFailOver, Turn!MayAgain, Turn!Goto, Turn!TypeOK
  <2>2. Shares(r)' = Shares(r) + 1 + Turn!Retries
    <3>1. turn'[r] + active'[r] - 2 = k + 1 /\ Turn!Retries' = Turn!Retries
      <4>1. turn'[r] = turn[r] /\ active'[r] = active[r] + 1
        BY <2>1
      <4>2. turn'[r] + active'[r] - 2 = k + 1
        BY <1>1, <4>1 DEF k
      <4> QED BY <4>2 DEF Turn!Retries
    <3>2. Shares(r)' = (k + 1) * n /\ Shares(r) = k * n
      BY <3>1 DEF Shares, k, n
    <3>3. (k + 1) * n = k * n + n
      BY <1>2, OneMoreShare
    <3> QED BY <1>1, <1>2, <3>2, <3>3 DEF n
  <2>3. requests[r] <= Shares(r)'
    <3>1. requests[r] <= Shares(r) + attempt[r] + 1
      BY <1>3, <2>1 DEF Asks
    <3> QED BY <1>1, <1>2, <2>2, <3>1
  <2>4. Paid(r)'
    BY <1>1, <1>2, <2>1, <2>2, <2>3 DEF Paid, Asks
  <2> QED BY <1>0, <2>1, <2>4 DEF Asks
<1>9. CASE Turn!NextTurn(r)
  <2>1. /\ turnAt[r] = "done" /\ turnAt'[r] = "ready" /\ ~stopped[r]
        /\ attempt'[r] = 0 /\ turn'[r] = turn[r] + 1 /\ shown'[r] = <<>>
        /\ UNCHANGED <<active, stopped, requests, late, calls>>
    BY <1>0, <1>9 DEF Turn!NextTurn, Turn!Goto, Turn!TypeOK
  <2>2. Shares(r)' = Shares(r) + 1 + Turn!Retries
    <3>1. turn'[r] + active'[r] - 2 = k + 1 /\ Turn!Retries' = Turn!Retries
      BY <1>1, <2>1 DEF Turn!Retries, k
    <3>2. Shares(r)' = (k + 1) * n /\ Shares(r) = k * n
      BY <3>1 DEF Shares, k, n
    <3>3. (k + 1) * n = k * n + n
      BY <1>2, OneMoreShare
    <3> QED BY <1>1, <1>2, <3>2, <3>3 DEF n
  <2>3. requests[r] <= Shares(r)'
    <3>1. requests[r] <= Shares(r) + attempt[r] + 1
      BY <1>3, <2>1 DEF Asks
    <3> QED BY <1>1, <1>2, <2>2, <3>1
  <2>4. Paid(r)'
    BY <1>1, <1>2, <2>1, <2>2, <2>3 DEF Paid, Asks
  <2> QED BY <1>0, <2>1, <2>4 DEF Asks
<1>10. CASE Turn!Sleep(r) \/ Turn!Wake(r)
  <2>1. /\ turnAt[r] \in Asks /\ turnAt'[r] \in Asks
        /\ UNCHANGED <<active, attempt, streamed, stopped, turn, requests, late, shown, calls>>
    BY <1>0, <1>10 DEF Turn!Sleep, Turn!Wake, Turn!Goto, Turn!TypeOK, Asks
  <2>2. Paid(r)'
    BY <1>0, <2>1, SharesSame DEF Paid
  <2> QED BY <1>0, <2>1, <2>2
<1>11. CASE Turn!Stop(r)
  <2>1. /\ ~stopped[r] /\ stopped'[r]
        /\ UNCHANGED <<turnAt, active, attempt, streamed, turn, requests, late, shown, calls>>
    BY <1>0, <1>11 DEF Turn!Stop, Turn!TypeOK
  <2>2. Paid(r)'
    BY <1>0, <2>1, SharesSame DEF Paid
  <2> QED BY <1>0, <2>1, <2>2
<1> QED BY <1>4, <1>5, <1>6, <1>7, <1>8, <1>9, <1>10, <1>11 DEF Turn!Stream, Turn!Fail

LEMMA TurnStep == Turn!Setting /\ TurnInv /\ [Turn!Next]_Turn!turnVars => TurnInv'
<1> SUFFICES ASSUME Turn!Setting, TurnInv, [Turn!Next]_Turn!turnVars, NEW q \in Run
             PROVE  /\ ~streamed'[q] \/ turnAt'[q] \in Asks => shown'[q] = <<>>
                    /\ late'[q] <= 1 /\ (late'[q] # 0 => stopped'[q] /\ turnAt'[q] \notin Asks)
                    /\ \A i \in 1 .. Len(shown'[q]) : shown'[q][i] = requests'[q]
                    /\ calls'[q] \subseteq {requests'[q]}
                    /\ Paid(q)'
  BY TurnType DEF TurnInv, NothingShownYet, LateOnce, Turn!OneRequestAnswers
<1>0. /\ Turn!TypeOK
      /\ ~streamed[q] \/ turnAt[q] \in Asks => shown[q] = <<>>
      /\ late[q] <= 1 /\ (late[q] # 0 => stopped[q] /\ turnAt[q] \notin Asks)
      /\ \A i \in 1 .. Len(shown[q]) : shown[q][i] = requests[q]
      /\ calls[q] \subseteq {requests[q]}
      /\ Paid(q)
  BY DEF TurnInv, NothingShownYet, LateOnce, Turn!OneRequestAnswers
<1> DEFINE Same == /\ turnAt'[q] = turnAt[q] /\ active'[q] = active[q]
                   /\ attempt'[q] = attempt[q] /\ streamed'[q] = streamed[q]
                   /\ stopped'[q] = stopped[q] /\ turn'[q] = turn[q]
                   /\ requests'[q] = requests[q] /\ late'[q] = late[q]
                   /\ shown'[q] = shown[q] /\ calls'[q] = calls[q]
<1>1. CASE Same
  <2>1. Paid(q)'
    BY <1>0, <1>1 DEF Paid, Shares, Turn!Retries
  <2> QED BY <1>0, <1>1, <2>1
<1>2. ASSUME NEW r \in Run, r # q,
             \/ Turn!Stream(r) \/ Turn!Fail(r) \/ Turn!Sleep(r) \/ Turn!Wake(r)
             \/ Turn!NextTurn(r) \/ Turn!Stop(r)
      PROVE  Same
  <2> USE DEF Turn!TypeOK, Turn!Goto
  <2>1. CASE Turn!Ask(r) \/ Turn!StreamEnds(r)
    BY <1>0, <1>2, <2>1 DEF Turn!Ask, Turn!StreamEnds
  <2>2. CASE Turn!Chunk(r)
    BY <1>0, <1>2, <2>2 DEF Turn!Chunk
  <2>3. CASE Turn!Fail(r)
    BY <1>0, <1>2, <2>3 DEF Turn!Fail, Turn!Retry, Turn!FailOver, Turn!GiveUp
  <2>4. CASE Turn!Sleep(r) \/ Turn!Wake(r) \/ Turn!Stop(r)
    BY <1>0, <1>2, <2>4 DEF Turn!Sleep, Turn!Wake, Turn!Stop
  <2>5. CASE Turn!NextTurn(r)
    BY <1>0, <1>2, <2>5 DEF Turn!NextTurn
  <2> QED BY <1>2, <2>1, <2>2, <2>3, <2>4, <2>5 DEF Turn!Stream
<1>3. CASE UNCHANGED Turn!turnVars
  BY <1>3, <1>1 DEF Turn!turnVars
<1> QED BY <1>1, <1>2, <1>3, TurnOwn DEF Turn!Next

\* What is shown in a turn comes from one request; a stopped run asks at most once more,
\* and a model it left is paid for once: for any chain, retries, turns and runs.
THEOREM RetriesAlwaysKeepToTheRules ==
  ASSUME Turn!Setting PROVE Turn!Spec => [](Turn!TypeOK /\ RetriesKeepToTheRules)
<1>1. TurnInv => Turn!TypeOK /\ RetriesKeepToTheRules
  <2> SUFFICES ASSUME TurnInv, NEW r \in Run
               PROVE  requests[r] <= (turn[r] + Models - 1) * (1 + Turn!Retries)
    BY DEF TurnInv, LateOnce, RetriesKeepToTheRules, Turn!RetriesKeepToTheRules, Turn!RequestsBounded
  <2> DEFINE n == 1 + Turn!Retries
             k == turn[r] + active[r] - 2
             m == turn[r] + Models - 1
  <2>1. /\ requests[r] \in Nat /\ turn[r] \in Nat \ {0}
        /\ active[r] \in Nat \ {0} /\ active[r] <= Models /\ Models \in Nat
        /\ attempt[r] \in 0 .. Turn!Retries /\ Turn!Retries \in Nat
    BY RetriesType DEF TurnInv, Turn!TypeOK, Turn!Setting
  <2>2. k \in Nat /\ k + 1 \in Nat /\ m \in Nat /\ n \in Nat /\ k + 1 <= m
    BY <2>1
  <2>3. requests[r] <= k * n + attempt[r] + 1
    <3>1. requests[r] <= Shares(r) + attempt[r] + (IF turnAt[r] \in Asks THEN 0 ELSE 1)
      BY DEF TurnInv, Paid
    <3>2. Shares(r) = k * n /\ Shares(r) \in Nat
      BY <2>2, ShareType DEF Shares
    <3> HIDE DEF k
    <3> QED BY <2>1, <3>1, <3>2
  <2>4. (k + 1) * n = k * n + n /\ (k + 1) * n <= m * n
    BY <2>2, OneMoreShare, MoreShares
  <2>5. k * n \in Nat /\ (k + 1) * n \in Nat /\ m * n \in Nat
    BY <2>2, ShareType
  <2> HIDE DEF k, m
  <2>6. requests[r] <= (k + 1) * n
    BY <2>1, <2>2, <2>3, <2>4, <2>5
  <2>7. requests[r] <= m * n
    BY <2>1, <2>4, <2>5, <2>6
  <2> QED BY <2>7 DEF m
<1> QED BY <1>1, TurnInit, TurnStep, PTL DEF Turn!Spec

------------------------------------------------------------------------------
(* Permissions.                                                             *)

\* Nothing the chain forbids is under way, and what runs may.
MayRun(a) ==
  \/ AskOf[a].tool \in Safe /\ AskOf[a].places \subseteq Inside
  \/ a \in excused
  \/ \A p \in Gate!Touched(a) : Gate!YesFor(a, p)
NotForbidden ==
  \A a \in ToolCall :
    askAt[a] \in {"asking", "announced", "waiting", "saving", "ran"} =>
      ~(AskOf[a].planning /\ AskOf[a].tool \notin ReadOnly)
RunsRightly == \A a \in ToolCall : askAt[a] = "ran" => MayRun(a)

\* An answer is one that was given to this very request.
AnswersTheirOwn ==
  /\ \A i \in Gate!Id : waiting[i] # NoAsk => AskOf[waiting[i]].id = i
  /\ \A a \in ToolCall :
       /\ answer[a] # Gate!NoAnswer => answer[a] \in said[a]
       /\ askAt[a] = "saving" => answer[a].yes /\ answer[a].duration # "once"

\* A stored grant is a yes that was to be remembered.
RememberedYes(g) ==
  \E b \in ToolCall : \E x \in said[b] :
    /\ x.yes /\ g.tool = AskOf[b].tool /\ g.scope = x.scope
    /\ \/ x.duration = "always" /\ g.session = ""
       \/ x.duration = "session" /\ g.session = AskOf[b].session
GrantsAreYeses == \A g \in grants : RememberedYes(g)

GateInv == Gate!TypeOK /\ NotForbidden /\ RunsRightly /\ AnswersTheirOwn /\ GrantsAreYeses

LEMMA Ranks == Gate!Rank("allow") = 0 /\ Gate!Rank("ask") = 1 /\ Gate!Rank("deny") = 2
BY DEF Gate!Rank

\* The strictest of some verdicts is one of them, and none is stricter.
LEMMA StrictestOf ==
  ASSUME NEW V, V \subseteq Gate!Verdicts, V # {}
  PROVE  /\ Gate!Strictest(V) \in V
         /\ \A w \in V : Gate!Rank(w) <= Gate!Rank(Gate!Strictest(V))
<1>1. \E v \in V : \A w \in V : Gate!Rank(w) <= Gate!Rank(v)
  <2>1. CASE "deny" \in V
    BY <2>1, Ranks DEF Gate!Verdicts
  <2>2. CASE "deny" \notin V /\ "ask" \in V
    BY <2>2, Ranks DEF Gate!Verdicts
  <2>3. CASE "deny" \notin V /\ "ask" \notin V
    <3>1. \A w \in V : w = "allow"
      BY <2>3 DEF Gate!Verdicts
    <3> QED BY <3>1, Ranks
  <2> QED BY <2>1, <2>2, <2>3
<1> QED BY <1>1 DEF Gate!Strictest

\* It is "allow" only when all allow, and "deny" when one denies.
LEMMA StrictestSays ==
  ASSUME NEW V, V \subseteq Gate!Verdicts, V # {}
  PROVE  /\ Gate!Strictest(V) = "allow" => \A w \in V : w = "allow"
         /\ Gate!Strictest(V) # "deny" => \A w \in V : w # "deny"
<1>1. /\ Gate!Strictest(V) \in Gate!Verdicts
      /\ \A w \in V : w \in Gate!Verdicts
      /\ \A w \in V : Gate!Rank(w) <= Gate!Rank(Gate!Strictest(V))
  BY StrictestOf
<1>2. ASSUME Gate!Strictest(V) = "allow", NEW w \in V PROVE w = "allow"
  <2>1. Gate!Rank(w) <= 0
    BY <1>1, <1>2, Ranks
  <2> QED BY <1>1, <2>1, Ranks DEF Gate!Verdicts
<1>3. ASSUME Gate!Strictest(V) # "deny", "deny" \in V PROVE FALSE
  <2>1. 2 <= Gate!Rank(Gate!Strictest(V))
    BY <1>1, <1>3, Ranks
  <2> QED BY <1>1, <1>3, <2>1, Ranks DEF Gate!Verdicts
<1> QED BY <1>2, <1>3

\* The first rule that matches has a verdict.
LEMMA FirstRuleVerdict ==
  ASSUME Gate!Setting, NEW a \in ToolCall, Gate!Matching(a) # {}
  PROVE  Gate!FirstRule(a).verdict \in Gate!Verdicts
<1> DEFINE M == Gate!Matching(a)
<1>1. M \subseteq Nat /\ M \subseteq DOMAIN Rules
  <2>1. DOMAIN Rules = 1 .. Len(Rules) /\ Len(Rules) \in Nat
    BY DEF Gate!Setting
  <2>2. DOMAIN Rules \subseteq Nat
    BY <2>1
  <2>3. M \subseteq DOMAIN Rules
    BY DEF Gate!Matching
  <2> HIDE DEF M
  <2> QED BY <2>2, <2>3
<1> DEFINE R == OpToRel(<, Nat)
<1>2. \A i, j \in Nat : <<j, i>> \in R <=> j < i
  BY DEF OpToRel
<1>3. IsWellFoundedOn(R, Nat)
  BY NatLessThanWellFounded
<1> HIDE DEF R, M
<1>4. M # {}
  BY DEF M
<1>5. PICK i \in M : \A j \in M : <<j, i>> \notin R
  BY <1>1, <1>3, <1>4, WFMin
<1>6. \A j \in M : i <= j
  <2> SUFFICES ASSUME NEW j \in M PROVE i <= j
    OBVIOUS
  <2>1. i \in Nat /\ j \in Nat
    BY <1>1
  <2>2. ~ (j < i)
    BY <1>2, <1>5, <2>1
  <2> QED BY <2>1, <2>2
<1>7. (CHOOSE k \in M : \A j \in M : k <= j) \in M
  BY <1>6
<1> QED BY <1>1, <1>7 DEF Gate!FirstRule, Gate!Setting, M

\* A rule never loosens what the tool's flags ask for.
LEMMA RulesOnlyTighten ==
  ASSUME Gate!Setting, NEW a \in ToolCall
  PROVE  /\ Gate!ByRules(a) \in Gate!Verdicts
         /\ Gate!ByRules(a) = "allow" => AskOf[a].tool \in Safe
<1>1. /\ Gate!Floor(a) \in Gate!Verdicts
      /\ Gate!Floor(a) = "allow" => AskOf[a].tool \in Safe
  BY DEF Gate!Floor, Gate!Verdicts
<1>2. CASE Gate!Matching(a) = {}
  BY <1>1, <1>2 DEF Gate!ByRules
<1>3. CASE Gate!Matching(a) # {}
  <2> DEFINE V == {Gate!Floor(a), Gate!FirstRule(a).verdict}
  <2>1. V \subseteq Gate!Verdicts /\ V # {}
    BY <1>1, <1>3, FirstRuleVerdict
  <2>2. Gate!ByRules(a) = Gate!Strictest(V)
    BY <1>3 DEF Gate!ByRules
  <2>3. /\ Gate!ByRules(a) \in V
        /\ Gate!ByRules(a) = "allow" => Gate!Floor(a) = "allow"
    BY <2>1, <2>2, StrictestOf, StrictestSays
  <2> QED BY <1>1, <2>1, <2>3
<1> QED BY <1>2, <1>3

\* What the chain lets through is harmless; what it does not deny is no write in plan mode.
LEMMA ChainVerdict ==
  ASSUME Gate!Setting, NEW a \in ToolCall
  PROVE  /\ Gate!Chain(a) \in Gate!Verdicts
         /\ Gate!Chain(a) = "allow" =>
              AskOf[a].tool \in Safe /\ AskOf[a].places \subseteq Inside
         /\ Gate!Chain(a) # "deny" => ~(AskOf[a].planning /\ AskOf[a].tool \notin ReadOnly)
<1> DEFINE V == {Gate!ByRules(a), Gate!ByWorkspace(a), Gate!ByPlanMode(a)}
<1>1. V \subseteq Gate!Verdicts /\ V # {}
  BY RulesOnlyTighten DEF Gate!ByWorkspace, Gate!ByPlanMode, Gate!Verdicts
<1>2. Gate!Chain(a) = Gate!Strictest(V)
  BY DEF Gate!Chain
<1> HIDE DEF V
<1>3. /\ Gate!Chain(a) \in V
      /\ Gate!Chain(a) = "allow" => \A w \in V : w = "allow"
  BY <1>1, <1>2, StrictestOf, StrictestSays
<1>4. Gate!Chain(a) # "deny" => \A w \in V : w # "deny"
  BY <1>1, <1>2, StrictestSays
<1>5. Gate!Chain(a) = "allow" => Gate!ByRules(a) = "allow" /\ Gate!ByWorkspace(a) = "allow"
  BY <1>3 DEF V
<1>6. Gate!Chain(a) # "deny" => Gate!ByPlanMode(a) # "deny"
  BY <1>4 DEF V
<1> QED BY <1>1, <1>3, <1>5, <1>6, RulesOnlyTighten DEF Gate!ByWorkspace, Gate!ByPlanMode

LEMMA GateInit == Gate!Setting /\ Gate!Init => GateInv
<1> SUFFICES ASSUME Gate!Setting, Gate!Init PROVE GateInv
  OBVIOUS
<1>1. Gate!TypeOK
  <2>1. /\ askAt \in [ToolCall -> {"new", "asking", "announced", "waiting", "saving", "ran",
                             "refused", "gone"}]
        /\ auto \in BOOLEAN /\ excused \subseteq ToolCall /\ toggles \in 0 .. 2
    <3>1. askAt = [a \in ToolCall |-> "new"] /\ auto = FALSE /\ excused = {} /\ toggles = 0
      BY DEF Gate!Init
    <3>2. auto \in BOOLEAN
      BY <3>1, Zenon
    <3>3. /\ askAt \in [ToolCall -> {"new", "asking", "announced", "waiting", "saving", "ran",
                                "refused", "gone"}]
          /\ excused \subseteq ToolCall
      BY <3>1
    <3>4. toggles \in 0 .. 2
      BY <3>1
    <3> QED BY <3>2, <3>3, <3>4
  <2>2. said \in [ToolCall -> SUBSET Gate!Answers]
    BY DEF Gate!Init
  <2>3. /\ waiting \in [Gate!Id -> ToolCall \cup {NoAsk}]
        /\ answer \in [ToolCall -> Gate!Answers \cup {Gate!NoAnswer}]
    <3>1. waiting = [i \in Gate!Id |-> NoAsk] /\ answer = [a \in ToolCall |-> Gate!NoAnswer]
      BY DEF Gate!Init
    <3>2. waiting \in [Gate!Id -> ToolCall \cup {NoAsk}]
      BY <3>1
    <3>3. answer \in [ToolCall -> Gate!Answers \cup {Gate!NoAnswer}]
      BY <3>1
    <3> QED BY <3>2, <3>3
  <2> QED BY <2>1, <2>2, <2>3 DEF Gate!TypeOK
<1>2. NotForbidden /\ RunsRightly /\ AnswersTheirOwn /\ GrantsAreYeses
  BY DEF Gate!Init, NotForbidden, RunsRightly, AnswersTheirOwn, GrantsAreYeses, RememberedYes
<1> QED BY <1>1, <1>2 DEF GateInv

LEMMA GateType ==
  ASSUME Gate!Setting, Gate!TypeOK, [Gate!Next]_Gate!permVars
  PROVE  Gate!TypeOK'
<1> USE DEF Gate!TypeOK, Gate!Becomes
<1>1. ASSUME NEW a \in ToolCall, Gate!Authorize(a) PROVE Gate!TypeOK'
  <2>1. askAt' \in [ToolCall -> {"new", "asking", "announced", "waiting", "saving", "ran",
                            "refused", "gone"}]
    BY <1>1 DEF Gate!Authorize
  <2>2. excused' \subseteq ToolCall
    BY <1>1 DEF Gate!Authorize
  <2> QED BY <1>1, <2>1, <2>2 DEF Gate!Authorize
<1>2. ASSUME NEW a \in ToolCall, Gate!LookUp(a) PROVE Gate!TypeOK'
  BY <1>2 DEF Gate!LookUp
<1>3. ASSUME NEW a \in ToolCall, Gate!Park(a) PROVE Gate!TypeOK'
  BY <1>3 DEF Gate!Park
<1>4. ASSUME NEW a \in ToolCall, NEW x \in Gate!Answers, Gate!Deliver(a, x) PROVE Gate!TypeOK'
  <2> DEFINE b == waiting[AskOf[a].id]
  <2>1. answer' \in [ToolCall -> Gate!Answers \cup {Gate!NoAnswer}]
    <3>1. CASE answer' = answer
      BY <3>1
    <3>2. CASE answer' # answer
      <4>1. answer' = [answer EXCEPT ![b] = x]
        BY <1>4, <3>2 DEF Gate!Deliver
      <4> QED BY <4>1
    <3> QED BY <3>1, <3>2
  <2>2. said' \in [ToolCall -> SUBSET Gate!Answers]
    BY <1>4 DEF Gate!Deliver
  <2> QED BY <1>4, <2>1, <2>2 DEF Gate!Deliver
<1>5. ASSUME NEW a \in ToolCall, Gate!Answered(a) PROVE Gate!TypeOK'
  BY <1>5 DEF Gate!Answered, Gate!Unlist
<1>6. ASSUME NEW a \in ToolCall, Gate!SaveGrant(a) PROVE Gate!TypeOK'
  BY <1>6 DEF Gate!SaveGrant
<1>7. ASSUME NEW a \in ToolCall, Gate!Drop(a) PROVE Gate!TypeOK'
  BY <1>7 DEF Gate!Drop, Gate!Unlist
<1>8. CASE Gate!SetAutoApproveAll
  BY <1>8 DEF Gate!SetAutoApproveAll
<1>9. CASE UNCHANGED Gate!permVars
  BY <1>9 DEF Gate!permVars
<1> QED BY <1>1, <1>2, <1>3, <1>4, <1>5, <1>6, <1>7, <1>8, <1>9 DEF Gate!Next

\* What people said and what was excused stays, so what may run goes on to.
LEMMA MayRunStays ==
  ASSUME Gate!Setting, \A b \in ToolCall : said[b] \subseteq said'[b], excused \subseteq excused',
         NEW a \in ToolCall, MayRun(a)
  PROVE  MayRun(a)'
<1>1. ASSUME NEW p, Gate!YesFor(a, p) PROVE Gate!YesFor(a, p)'
  BY <1>1 DEF Gate!YesFor
<1>2. Gate!Touched(a)' = Gate!Touched(a)
  BY DEF Gate!Touched
<1> QED BY <1>1, <1>2 DEF MayRun

\* ... and a remembered yes stays one.
LEMMA YesStays ==
  ASSUME \A b \in ToolCall : said[b] \subseteq said'[b], NEW g, RememberedYes(g)
  PROVE  RememberedYes(g)'
<1>1. ASSUME NEW b \in ToolCall, NEW x \in said[b] PROVE x \in said'[b]
  OBVIOUS
<1> QED BY <1>1 DEF RememberedYes

\* A grant that covers a call is a yes to every place the call touches.
LEMMA CoveredIsSaid ==
  ASSUME Gate!Setting, GrantsAreYeses, NEW a \in ToolCall, NEW g \in grants, Gate!Covers(g, a)
  PROVE  MayRun(a)
<1>1. PICK b \in ToolCall : \E x \in said[b] :
               /\ x.yes /\ g.tool = AskOf[b].tool /\ g.scope = x.scope
               /\ \/ x.duration = "always" /\ g.session = ""
                  \/ x.duration = "session" /\ g.session = AskOf[b].session
  BY DEF GrantsAreYeses, RememberedYes
<1>2. PICK x \in said[b] :
               /\ x.yes /\ g.tool = AskOf[b].tool /\ g.scope = x.scope
               /\ \/ x.duration = "always" /\ g.session = ""
                  \/ x.duration = "session" /\ g.session = AskOf[b].session
  BY <1>1
<1>3. /\ AskOf[b].tool = AskOf[a].tool /\ x.duration # "once"
      /\ x.duration = "always" \/ AskOf[b].session = AskOf[a].session
  BY <1>2 DEF Gate!Covers, Gate!Setting
<1>4. ASSUME NEW p \in Gate!Touched(a) PROVE x.scope = Anywhere \/ p \in x.scope
  BY <1>2, <1>4 DEF Gate!Covers, Gate!CoversPlaces, Gate!Touched
<1> QED BY <1>2, <1>3, <1>4 DEF MayRun, Gate!YesFor

\* A remembered answer is a yes for the session or for always.
LEMMA AnswerParts ==
  ASSUME NEW x \in Gate!Answers
  PROVE  /\ x # Gate!NoAnswer
         /\ x.yes => x.duration \in {"once", "session", "always"}
<1>1. CASE x = [yes |-> FALSE, duration |-> "once", scope |-> Anywhere]
  <2>1. ~x.yes /\ x.duration = "once"
    BY <1>1
  <2>2. x.duration # Gate!NoAnswer.duration
    BY <2>1 DEF Gate!NoAnswer
  <2> QED BY <2>1, <2>2
<1>2. CASE x \in [yes : {TRUE}, duration : {"once", "session", "always"}, scope : Scopes]
  <2>1. x.duration \in {"once", "session", "always"}
    BY <1>2
  <2>2. x.duration # Gate!NoAnswer.duration
    BY <2>1 DEF Gate!NoAnswer
  <2> QED BY <2>1, <2>2
<1> QED BY <1>1, <1>2 DEF Gate!Answers

LEMMA GateStep ==
  Gate!Setting /\ Gate!OwnIds /\ GateInv /\ [Gate!Next]_Gate!permVars => GateInv'
<1> SUFFICES ASSUME Gate!Setting, Gate!OwnIds, GateInv, [Gate!Next]_Gate!permVars
             PROVE  NotForbidden' /\ RunsRightly' /\ AnswersTheirOwn' /\ GrantsAreYeses'
  BY GateType DEF GateInv
<1>0. /\ Gate!TypeOK /\ NotForbidden /\ RunsRightly /\ AnswersTheirOwn /\ GrantsAreYeses
  BY DEF GateInv
<1>1. askAt \in [ToolCall -> {"new", "asking", "announced", "waiting", "saving", "ran",
                        "refused", "gone"}]
  BY <1>0 DEF Gate!TypeOK
\* A step that moves one call on and leaves what was said alone.
<1>2. ASSUME NEW a \in ToolCall, NEW stage, askAt' = [askAt EXCEPT ![a] = stage],
             stage \in {"asking", "announced", "waiting", "saving", "ran"} =>
               ~(AskOf[a].planning /\ AskOf[a].tool \notin ReadOnly),
             stage = "ran" => MayRun(a)',
             excused \subseteq excused', said' = said
      PROVE  NotForbidden' /\ RunsRightly'
  <2>1. \A b \in ToolCall : askAt'[b] = IF b = a THEN stage ELSE askAt[b]
    BY <1>1, <1>2
  <2>2. NotForbidden'
    BY <1>0, <1>2, <2>1 DEF NotForbidden
  <2>3. RunsRightly'
    BY <1>0, <1>2, <2>1, MayRunStays DEF RunsRightly
  <2> QED BY <2>2, <2>3
<1>3. ASSUME NEW a \in ToolCall, Gate!Authorize(a)
      PROVE  NotForbidden' /\ RunsRightly' /\ AnswersTheirOwn' /\ GrantsAreYeses'
  <2>1. /\ excused \subseteq excused' /\ UNCHANGED <<waiting, answer, grants, said>>
    BY <1>3 DEF Gate!Authorize
  <2>2. PICK stage \in {"ran", "asking", "refused"} :
           /\ askAt' = [askAt EXCEPT ![a] = stage]
           /\ stage = "ran" => Gate!Verdict(a) = "allow"
           /\ stage = "asking" => Gate!Verdict(a) = "ask"
    BY <1>3 DEF Gate!Authorize, Gate!Becomes
  <2>3. stage \in {"ran", "asking"} =>
          ~(AskOf[a].planning /\ AskOf[a].tool \notin ReadOnly)
    BY <2>2, ChainVerdict DEF Gate!Verdict
  <2>4. stage = "ran" => MayRun(a)'
    <3>1. CASE auto /\ Gate!Chain(a) = "ask"
      BY <1>3, <3>1 DEF Gate!Authorize, MayRun
    <3>2. CASE ~(auto /\ Gate!Chain(a) = "ask")
      BY <2>2, <3>2, ChainVerdict DEF Gate!Verdict, MayRun
    <3> QED BY <3>1, <3>2
  <2>5. NotForbidden' /\ RunsRightly'
    BY <1>2, <2>1, <2>2, <2>3, <2>4
  <2>6. \A b \in ToolCall : askAt'[b] = "saving" => askAt[b] = "saving"
    BY <1>1, <2>2
  <2>7. AnswersTheirOwn' /\ GrantsAreYeses'
    BY <1>0, <2>1, <2>6 DEF AnswersTheirOwn, GrantsAreYeses, RememberedYes
  <2> QED BY <2>5, <2>7
<1>4. ASSUME NEW a \in ToolCall, Gate!LookUp(a)
      PROVE  NotForbidden' /\ RunsRightly' /\ AnswersTheirOwn' /\ GrantsAreYeses'
  <2>1. askAt[a] = "asking" /\ UNCHANGED <<waiting, answer, grants, said, excused>>
    BY <1>4 DEF Gate!LookUp
  <2>2. PICK stage \in {"ran", "announced"} :
           /\ askAt' = [askAt EXCEPT ![a] = stage]
           /\ stage = "ran" => \E g \in grants : Gate!Covers(g, a)
    BY <1>4 DEF Gate!LookUp, Gate!Becomes
  <2>3. stage = "ran" => MayRun(a)'
    BY <1>0, <2>1, <2>2, CoveredIsSaid, MayRunStays
  <2>4. NotForbidden' /\ RunsRightly'
    BY <1>0, <1>2, <2>1, <2>2, <2>3 DEF NotForbidden
  <2>5. \A b \in ToolCall : askAt'[b] = "saving" => askAt[b] = "saving"
    BY <1>1, <2>2
  <2>6. AnswersTheirOwn' /\ GrantsAreYeses'
    BY <1>0, <2>1, <2>5 DEF AnswersTheirOwn, GrantsAreYeses, RememberedYes
  <2> QED BY <2>4, <2>6
<1>5. ASSUME NEW a \in ToolCall, Gate!Park(a)
      PROVE  NotForbidden' /\ RunsRightly' /\ AnswersTheirOwn' /\ GrantsAreYeses'
  <2>1. /\ askAt[a] = "announced" /\ askAt' = [askAt EXCEPT ![a] = "waiting"]
        /\ waiting' = [waiting EXCEPT ![AskOf[a].id] = a]
        /\ UNCHANGED <<answer, grants, said, excused>>
    BY <1>5 DEF Gate!Park, Gate!Becomes
  <2>2. NotForbidden' /\ RunsRightly'
    BY <1>0, <1>2, <2>1 DEF NotForbidden
  <2>3. \A i \in Gate!Id : waiting'[i] # NoAsk => AskOf[waiting'[i]].id = i
    BY <1>0, <2>1 DEF AnswersTheirOwn, Gate!TypeOK
  <2>4. \A b \in ToolCall : askAt'[b] = "saving" => askAt[b] = "saving"
    BY <1>1, <2>1
  <2>5. AnswersTheirOwn' /\ GrantsAreYeses'
    BY <1>0, <2>1, <2>3, <2>4 DEF AnswersTheirOwn, GrantsAreYeses, RememberedYes
  <2> QED BY <2>2, <2>5
<1>6. ASSUME NEW a \in ToolCall, NEW x \in Gate!Answers, Gate!Deliver(a, x)
      PROVE  NotForbidden' /\ RunsRightly' /\ AnswersTheirOwn' /\ GrantsAreYeses'
  <2> DEFINE b == waiting[AskOf[a].id]
  <2>1. /\ said[a] = {} /\ askAt[a] = "waiting" /\ said' = [said EXCEPT ![a] = {x}]
        /\ UNCHANGED <<askAt, waiting, grants, excused>>
        /\ answer' = IF b = NoAsk \/ answer[b] # Gate!NoAnswer THEN answer
                     ELSE [answer EXCEPT ![b] = x]
    BY <1>6 DEF Gate!Deliver
  <2>2. said'[a] = {x} /\ \A c \in ToolCall : c # a => said'[c] = said[c]
    BY <1>0, <2>1 DEF Gate!TypeOK
  <2>3. \A c \in ToolCall : said[c] \subseteq said'[c]
    BY <2>1, <2>2
  <2>4. NotForbidden' /\ RunsRightly'
    BY <1>0, <2>1, <2>3, MayRunStays DEF NotForbidden, RunsRightly
  <2>5. b = NoAsk \/ b = a
    <3>1. AskOf[a].id \in Gate!Id
      BY DEF Gate!Id
    <3>2. b # NoAsk => AskOf[b].id = AskOf[a].id /\ b \in ToolCall
      BY <1>0, <3>1 DEF AnswersTheirOwn, Gate!TypeOK
    <3> QED BY <3>2 DEF Gate!OwnIds
  <2>6. ASSUME NEW c \in ToolCall PROVE answer'[c] = answer[c] \/ (c = a /\ answer'[c] = x)
    <3>1. CASE answer' = answer
      BY <3>1
    <3>2. CASE answer' = [answer EXCEPT ![a] = x] /\ c # a
      BY <3>2
    <3>3. CASE answer' = [answer EXCEPT ![a] = x] /\ c = a
      BY <1>0, <3>3 DEF Gate!TypeOK
    <3> QED BY <2>1, <2>5, <3>1, <3>2, <3>3
  <2>7. ASSUME NEW c \in ToolCall
        PROVE  /\ answer'[c] # Gate!NoAnswer => answer'[c] \in said'[c]
               /\ askAt'[c] = "saving" => answer'[c].yes /\ answer'[c].duration # "once"
    <3>1. CASE answer'[c] = answer[c]
      BY <1>0, <2>1, <2>3, <3>1 DEF AnswersTheirOwn
    <3>2. CASE c = a /\ answer'[c] = x
      BY <2>1, <2>2, <3>2
    <3> QED BY <2>6, <3>1, <3>2
  <2>8. AnswersTheirOwn'
    BY <1>0, <2>1, <2>7 DEF AnswersTheirOwn
  <2>9. GrantsAreYeses'
    <3>1. ASSUME NEW g \in grants PROVE RememberedYes(g)'
      <4>1. RememberedYes(g)
        BY <1>0 DEF GrantsAreYeses
      <4> QED BY <2>3, <4>1, YesStays
    <3> QED BY <2>1, <3>1 DEF GrantsAreYeses
  <2> QED BY <2>4, <2>8, <2>9
<1>7. ASSUME NEW a \in ToolCall, Gate!Answered(a)
      PROVE  NotForbidden' /\ RunsRightly' /\ AnswersTheirOwn' /\ GrantsAreYeses'
  <2>1. /\ askAt[a] = "waiting" /\ answer[a] # Gate!NoAnswer
        /\ waiting' = [waiting EXCEPT ![AskOf[a].id] = NoAsk]
        /\ UNCHANGED <<answer, grants, said, excused>>
    BY <1>7 DEF Gate!Answered, Gate!Unlist
  <2>2. PICK stage \in {"refused", "ran", "saving"} :
           /\ askAt' = [askAt EXCEPT ![a] = stage]
           /\ stage # "refused" => answer[a].yes
           /\ stage = "saving" => answer[a].duration # "once"
    BY <1>7 DEF Gate!Answered, Gate!Becomes
  <2>3. answer[a] \in said[a]
    BY <1>0, <2>1 DEF AnswersTheirOwn
  <2>4. stage = "ran" => MayRun(a)'
    BY <2>1, <2>2, <2>3 DEF MayRun, Gate!YesFor
  <2>5. NotForbidden' /\ RunsRightly'
    BY <1>0, <1>2, <2>1, <2>2, <2>4 DEF NotForbidden
  <2>6. \A i \in Gate!Id : waiting'[i] # NoAsk => AskOf[waiting'[i]].id = i
    BY <1>0, <2>1 DEF AnswersTheirOwn, Gate!TypeOK
  <2>7. \A c \in ToolCall : askAt'[c] = "saving" => askAt[c] = "saving" \/ (c = a /\ stage = "saving")
    BY <1>1, <2>2
  <2>8. AnswersTheirOwn'
    BY <1>0, <2>1, <2>2, <2>6, <2>7 DEF AnswersTheirOwn
  <2>9. GrantsAreYeses'
    BY <1>0, <2>1 DEF GrantsAreYeses, RememberedYes
  <2> QED BY <2>5, <2>8, <2>9
<1>8. ASSUME NEW a \in ToolCall, Gate!SaveGrant(a)
      PROVE  NotForbidden' /\ RunsRightly' /\ AnswersTheirOwn' /\ GrantsAreYeses'
  <2> DEFINE g == [tool |-> AskOf[a].tool,
                   session |-> IF answer[a].duration = "session" THEN AskOf[a].session ELSE "",
                   scope |-> answer[a].scope]
  <2>1. /\ askAt[a] = "saving" /\ askAt' = [askAt EXCEPT ![a] = "ran"]
        /\ grants' = grants \cup {g} /\ UNCHANGED <<waiting, answer, said, excused>>
    BY <1>8 DEF Gate!SaveGrant, Gate!Becomes
  <2>2. /\ answer[a].yes /\ answer[a].duration # "once"
        /\ answer[a] \in Gate!Answers \cup {Gate!NoAnswer}
    BY <1>0, <2>1 DEF AnswersTheirOwn, Gate!TypeOK
  <2>3. answer[a] # Gate!NoAnswer
    BY <2>2 DEF Gate!NoAnswer
  <2>4. answer[a] \in said[a] /\ answer[a].duration \in {"session", "always"}
    <3>1. answer[a] \in said[a]
      BY <1>0, <2>3 DEF AnswersTheirOwn
    <3> QED BY <2>2, <2>3, <3>1, AnswerParts
  <2>5. MayRun(a)'
    BY <2>1, <2>2, <2>4 DEF MayRun, Gate!YesFor
  <2>6. NotForbidden' /\ RunsRightly'
    BY <1>0, <1>2, <2>1, <2>5 DEF NotForbidden
  <2>7. \A b \in ToolCall : askAt'[b] = "saving" => askAt[b] = "saving"
    BY <1>1, <2>1
  <2>8. AnswersTheirOwn'
    BY <1>0, <2>1, <2>7 DEF AnswersTheirOwn
  <2>9. RememberedYes(g)
    BY <2>2, <2>4 DEF RememberedYes
  <2> HIDE DEF g
  <2>10. GrantsAreYeses'
    <3>1. ASSUME NEW h \in grants \cup {g} PROVE RememberedYes(h)'
      <4>1. RememberedYes(h)
        BY <1>0, <2>9 DEF GrantsAreYeses
      <4> QED BY <2>1, <4>1, YesStays
    <3> QED BY <2>1, <3>1 DEF GrantsAreYeses
  <2> QED BY <2>6, <2>8, <2>10
<1>9. ASSUME NEW a \in ToolCall, Gate!Drop(a)
      PROVE  NotForbidden' /\ RunsRightly' /\ AnswersTheirOwn' /\ GrantsAreYeses'
  <2>1. /\ askAt' = [askAt EXCEPT ![a] = "gone"]
        /\ waiting' = waiting \/ waiting' = [waiting EXCEPT ![AskOf[a].id] = NoAsk]
        /\ UNCHANGED <<answer, grants, said, excused>>
    BY <1>9 DEF Gate!Drop, Gate!Becomes, Gate!Unlist
  <2>2. NotForbidden' /\ RunsRightly'
    BY <1>2, <2>1
  <2>3. \A i \in Gate!Id : waiting'[i] # NoAsk => AskOf[waiting'[i]].id = i
    BY <1>0, <2>1 DEF AnswersTheirOwn, Gate!TypeOK
  <2>4. \A b \in ToolCall : askAt'[b] = "saving" => askAt[b] = "saving"
    BY <1>1, <2>1
  <2>5. AnswersTheirOwn' /\ GrantsAreYeses'
    BY <1>0, <2>1, <2>3, <2>4 DEF AnswersTheirOwn, GrantsAreYeses, RememberedYes
  <2> QED BY <2>2, <2>5
<1>10. CASE Gate!SetAutoApproveAll \/ UNCHANGED Gate!permVars
  <2>1. UNCHANGED <<askAt, waiting, answer, grants, said, excused>>
    BY <1>10 DEF Gate!SetAutoApproveAll, Gate!permVars
  <2>2. RunsRightly'
    BY <1>0, <2>1, MayRunStays DEF RunsRightly
  <2> QED BY <1>0, <2>1, <2>2 DEF NotForbidden, AnswersTheirOwn, GrantsAreYeses, RememberedYes
<1> QED BY <1>3, <1>4, <1>5, <1>6, <1>7, <1>8, <1>9, <1>10 DEF Gate!Next

\* While calls have ids of their own, none runs that plan mode forbids, and none without
\* being harmless, excused by allow-all or covered by a person's yes: for any calls,
\* rules, folders, answers and changes of allow-all.
THEOREM NothingEverRunsUnasked ==
  ASSUME Gate!Setting, Gate!OwnIds
  PROVE  Gate!Spec => [](Gate!TypeOK /\ NothingRunsUnasked)
<1>1. GateInv => Gate!TypeOK /\ NothingRunsUnasked
  BY DEF GateInv, NotForbidden, RunsRightly, MayRun, NothingRunsUnasked,
         Gate!NothingRunsUnasked
<1> QED BY <1>1, GateInit, GateStep, PTL DEF Gate!Spec

------------------------------------------------------------------------------
(* Subagents.                                                               *)

\* Helpers are open only under a call that waits for them, and no more run than tools may.
Contained ==
  /\ \A i \in Help!Index : child[i] \in {"queued", "running"} => callAt = "running"
  /\ callAt = "running" => callNo >= 1
  /\ Cardinality(Help!Busy) <= Help!Slots

HelpInv == Help!TypeOK /\ Contained

Stage == {"none", "queued", "running", "finished", "limit", "cancelled", "error", "crashed",
          "cut"}

\* The instance counts as this module does.
LEMMA SameCount == ASSUME NEW S PROVE Help!Cardinality(S) = Cardinality(S)
BY DEF Cardinality, Help!Cardinality

LEMMA SlotsPositive == Help!Setting => Help!Slots \in Nat /\ Help!Slots >= 1
BY DEF Help!Setting, Help!Slots

LEMMA BusyIsFinite ==
  ASSUME Help!Setting
  PROVE  /\ IsFiniteSet(Help!Index)
         /\ IsFiniteSet(Help!Busy) /\ Cardinality(Help!Busy) \in Nat
         /\ IsFiniteSet(Help!Busy')
<1>1. IsFiniteSet(Help!Index)
  BY FS_Interval DEF Help!Index, Help!Setting
<1>2. Help!Busy \subseteq Help!Index /\ Help!Busy' \subseteq Help!Index
  BY DEF Help!Busy, Help!Index
<1> QED BY <1>1, <1>2, FS_Subset, FS_CardinalityType

\* Helpers that stop make room.
LEMMA FewerBusy ==
  ASSUME Help!Setting, Contained, Help!Busy' \subseteq Help!Busy
  PROVE  Cardinality(Help!Busy)' <= Help!Slots
<1>1. Cardinality(Help!Busy') <= Cardinality(Help!Busy) /\ Cardinality(Help!Busy') \in Nat
  BY BusyIsFinite, FS_Subset, FS_CardinalityType
<1> QED BY <1>1, BusyIsFinite, SlotsPositive DEF Contained

LEMMA HelpInit == Help!Setting /\ Help!Init => HelpInv
<1> SUFFICES ASSUME Help!Setting, Help!Init PROVE HelpInv
  OBVIOUS
<1>1. /\ callAt = "none" /\ fan = FALSE /\ haltFlag = FALSE /\ callNo = 0 /\ receipted = {}
      /\ child = [i \in Help!Index |-> "none"] /\ turnsOf = [i \in Help!Index |-> 0]
      /\ receipts = [id \in Help!Index \cup {0} |-> <<0, 0>>]
  BY DEF Help!Init
<1>2. Help!TypeOK
  <2>1. fan \in BOOLEAN /\ haltFlag \in BOOLEAN
    BY <1>1, Zenon
  <2>2. child \in [Help!Index -> Stage] /\ turnsOf \in [Help!Index -> 0 .. TurnCap]
    BY <1>1 DEF Stage, Help!Setting
  <2>3. callNo \in 0 .. MaxCalls
    BY <1>1 DEF Help!Setting
  <2>4. receipts \in [Help!Index \cup {0} -> receipted \cup {<<0, 0>>}]
    BY <1>1
  <2> QED BY <1>1, <2>1, <2>2, <2>3, <2>4 DEF Help!TypeOK, Stage
<1>3. Help!Busy = {}
  BY <1>1 DEF Help!Busy
<1>4. Contained
  BY <1>1, <1>3, FS_EmptySet, SlotsPositive DEF Contained
<1> QED BY <1>2, <1>4 DEF HelpInv

LEMMA HelpStep == Help!Setting /\ HelpInv /\ [Help!Next]_Help!helperVars => HelpInv'
<1> SUFFICES ASSUME Help!Setting, HelpInv, [Help!Next]_Help!helperVars PROVE HelpInv'
  OBVIOUS
<1>0. /\ Help!TypeOK /\ Contained
      /\ child \in [Help!Index -> Stage]
  BY DEF HelpInv, Help!TypeOK, Stage
<1>1. CASE Help!Delegate \/ Help!FanOut
  <2>1. PICK width \in Nat :
           /\ callAt # "running" /\ callNo < MaxCalls /\ callNo' = callNo + 1
           /\ callAt' = "running"
           /\ child' = [i \in Help!Index |-> IF i <= width THEN "queued" ELSE "none"]
           /\ turnsOf' = [i \in Help!Index |-> 0]
           /\ UNCHANGED <<haltFlag, receipts, receipted>>
    BY <1>1 DEF Help!Delegate, Help!FanOut, Help!Opens, Help!Index
  <2>2. fan' \in BOOLEAN
    BY <1>1, Zenon DEF Help!Delegate, Help!FanOut
  <2>3. child' \in [Help!Index -> Stage]
    BY <2>1 DEF Stage
  <2>4. turnsOf' \in [Help!Index -> 0 .. TurnCap]
    BY <2>1 DEF Help!Setting
  <2>5. callNo' \in 0 .. MaxCalls /\ callNo' >= 1
    BY <1>0, <2>1 DEF Help!Setting, Help!TypeOK
  <2>6. Help!TypeOK'
    BY <1>0, <2>1, <2>2, <2>3, <2>4, <2>5 DEF Help!TypeOK, Stage, Help!Index
  <2>7. Help!Busy' = {}
    BY <2>1 DEF Help!Busy, Help!Index
  <2>8. Cardinality(Help!Busy)' <= Help!Slots
    BY <2>7, FS_EmptySet, SlotsPositive
  <2> QED BY <2>1, <2>5, <2>6, <2>8 DEF HelpInv, Contained, Help!Slots
<1>2. CASE Help!Malformed \/ Help!Answer
  <2>1. /\ callAt' = "answered"
        /\ callNo' \in 0 .. MaxCalls
        /\ UNCHANGED <<fan, child, turnsOf, haltFlag, receipts, receipted>>
    BY <1>0, <1>2 DEF Help!Malformed, Help!Answer, Help!TypeOK, Help!Setting
  <2>2. \A i \in Help!Index : child[i] \notin {"queued", "running"}
    BY <1>0, <1>2 DEF Help!Malformed, Help!Answer, Contained, Help!Open
  <2>3. Help!Busy' = Help!Busy
    BY <2>1 DEF Help!Busy, Help!Index
  <2>4. Help!TypeOK'
    BY <1>0, <2>1 DEF Help!TypeOK, Help!Index
  <2> QED BY <2>1, <2>2, <2>3, <2>4, <1>0, FewerBusy DEF HelpInv, Contained, Help!Slots, Help!Index
<1>3. CASE Help!TimesOut
  <2>1. /\ callAt' = "answered"
        /\ child' = [i \in Help!Index |-> IF i \in Help!Open THEN "cut" ELSE child[i]]
        /\ UNCHANGED <<fan, turnsOf, haltFlag, receipts, callNo, receipted>>
    BY <1>3 DEF Help!TimesOut
  <2>2. child' \in [Help!Index -> Stage]
    BY <1>0, <2>1 DEF Stage
  <2>3. \A i \in Help!Index : child'[i] \notin {"queued", "running"}
    BY <2>1 DEF Help!Open
  <2>4. Help!TypeOK'
    BY <1>0, <2>1, <2>2 DEF Help!TypeOK, Stage, Help!Index
  <2>5. Help!Busy' = {}
    BY <2>3 DEF Help!Busy, Help!Index
  <2>6. Cardinality(Help!Busy)' <= Help!Slots
    BY <2>5, FS_EmptySet, SlotsPositive
  <2> QED BY <2>1, <2>3, <2>4, <2>6 DEF HelpInv, Contained, Help!Slots, Help!Index
<1>4. ASSUME UNCHANGED child, UNCHANGED <<callAt, callNo>>, Help!TypeOK' PROVE HelpInv'
  <2>1. Help!Busy' = Help!Busy
    BY <1>4 DEF Help!Busy, Help!Index
  <2> QED BY <1>0, <1>4, <2>1, FewerBusy DEF HelpInv, Contained, Help!Index, Help!Slots
<1>5. CASE Help!StopParent
  <2>1. UNCHANGED <<callAt, fan, child, turnsOf, receipts, callNo, receipted>>
    BY <1>5 DEF Help!StopParent
  <2>2. haltFlag' \in BOOLEAN
    BY <1>5, Zenon DEF Help!StopParent
  <2>3. Help!TypeOK'
    BY <1>0, <2>1, <2>2 DEF Help!TypeOK, Help!Index
  <2> QED BY <1>4, <2>1, <2>3
<1>6. ASSUME NEW i \in Help!Index, Help!HelperTurn(i) PROVE HelpInv'
  <2>1. /\ turnsOf[i] < TurnCap /\ turnsOf' = [turnsOf EXCEPT ![i] = turnsOf[i] + 1]
        /\ UNCHANGED <<callAt, fan, child, haltFlag, receipts, callNo, receipted>>
    BY <1>6 DEF Help!HelperTurn
  <2>2. turnsOf' \in [Help!Index -> 0 .. TurnCap]
    <3>1. turnsOf \in [Help!Index -> 0 .. TurnCap] /\ turnsOf[i] + 1 \in 0 .. TurnCap
      BY <1>0, <2>1 DEF Help!TypeOK, Help!Setting
    <3> QED BY <2>1, <3>1
  <2>3. Help!TypeOK'
    BY <1>0, <2>1, <2>2 DEF Help!TypeOK, Help!Index
  <2> QED BY <1>4, <2>1, <2>3
<1>7. ASSUME NEW i \in Help!Index, child[i] \in {"queued", "running"}
      PROVE  callAt = "running" /\ callNo \in 1 .. MaxCalls
  BY <1>0, <1>7 DEF Contained, Help!TypeOK, Help!Setting
<1>8. ASSUME NEW i \in Help!Index, Help!Begin(i) PROVE HelpInv'
  <2>1. /\ child[i] = "queued" /\ Cardinality(Help!Busy) < Help!Slots
        /\ child' = [child EXCEPT ![i] = "running"]
        /\ UNCHANGED <<callAt, fan, turnsOf, haltFlag, receipts, callNo, receipted>>
    BY <1>8, SameCount DEF Help!Begin, Help!Ends
  <2>2. child' \in [Help!Index -> Stage]
    BY <1>0, <2>1 DEF Stage
  <2>3. Help!TypeOK'
    BY <1>0, <2>1, <2>2 DEF Help!TypeOK, Stage, Help!Index
  <2>4. Help!Busy' = Help!Busy \cup {i} /\ i \notin Help!Busy
    BY <1>0, <2>1 DEF Help!Busy, Help!Index
  <2>5. Cardinality(Help!Busy') = Cardinality(Help!Busy) + 1
    BY <2>4, BusyIsFinite, FS_AddElement
  <2>6. Cardinality(Help!Busy') <= Help!Slots
    BY <2>1, <2>5, BusyIsFinite, SlotsPositive
  <2>7. \A j \in Help!Index : child'[j] \in {"queued", "running"} => callAt' = "running"
    BY <1>0, <1>7, <2>1 DEF Contained
  <2> QED BY <1>0, <2>1, <2>3, <2>6, <2>7 DEF HelpInv, Contained, Help!Index, Help!Slots
<1>9. ASSUME NEW i \in Help!Index, NEW outcome, child[i] = "running",
             outcome \in {"finished", "limit", "cancelled", "error", "crashed"},
             child' = [child EXCEPT ![i] = outcome], UNCHANGED <<callAt, callNo>>
      PROVE  child' \in [Help!Index -> Stage] /\ Contained'
  <2>1. child' \in [Help!Index -> Stage]
    BY <1>0, <1>9 DEF Stage
  <2>2. \A j \in Help!Index : child'[j] \in {"queued", "running"} =>
                                child'[j] = child[j]
    BY <1>0, <1>9
  <2>3. Help!Busy' \subseteq Help!Busy
    BY <2>2 DEF Help!Busy, Help!Index
  <2>4. Cardinality(Help!Busy)' <= Help!Slots
    BY <1>0, <2>3, FewerBusy
  <2> QED BY <1>0, <1>9, <2>1, <2>2, <2>4 DEF Contained, Help!Index, Help!Slots
<1>10. ASSUME NEW i \in Help!Index, Help!HelperEnds(i) PROVE HelpInv'
  <2>1. /\ child[i] = "running"
        /\ receipts' = [receipts EXCEPT ![Help!RunId(i)] = <<callNo, i>>]
        /\ receipted' = receipted \cup {<<callNo, i>>}
        /\ UNCHANGED <<callAt, fan, turnsOf, haltFlag, callNo>>
    BY <1>10 DEF Help!HelperEnds
  <2>2. PICK outcome \in {"finished", "limit", "cancelled", "error"} :
           child' = [child EXCEPT ![i] = outcome]
    BY <1>10 DEF Help!HelperEnds, Help!Ends
  <2>3. child' \in [Help!Index -> Stage] /\ Contained'
    BY <1>9, <2>1, <2>2
  <2>4. callNo \in 1 .. MaxCalls
    BY <1>7, <2>1
  <2>5. receipted' \subseteq (1 .. MaxCalls) \X Help!Index
    BY <1>0, <2>1, <2>4 DEF Help!TypeOK
  <2>6. receipts' \in [Help!Index \cup {0} -> receipted' \cup {<<0, 0>>}]
    <3>1. receipts \in [Help!Index \cup {0} -> receipted' \cup {<<0, 0>>}]
      BY <1>0, <2>1 DEF Help!TypeOK
    <3>2. <<callNo, i>> \in receipted'
      BY <2>1
    <3> QED BY <2>1, <3>1, <3>2
  <2>7. Help!TypeOK'
    BY <1>0, <2>1, <2>3, <2>5, <2>6 DEF Help!TypeOK, Stage, Help!Index
  <2> QED BY <2>3, <2>7 DEF HelpInv
<1>11. ASSUME NEW i \in Help!Index, Help!HelperCrashes(i) PROVE HelpInv'
  <2>1. /\ child[i] = "running" /\ child' = [child EXCEPT ![i] = "crashed"]
        /\ UNCHANGED <<callAt, fan, turnsOf, haltFlag, receipts, callNo, receipted>>
    BY <1>11 DEF Help!HelperCrashes, Help!Ends
  <2>2. child' \in [Help!Index -> Stage] /\ Contained'
    BY <1>9, <2>1
  <2>3. Help!TypeOK'
    BY <1>0, <2>1, <2>2 DEF Help!TypeOK, Stage, Help!Index
  <2> QED BY <2>2, <2>3 DEF HelpInv
<1>12. CASE UNCHANGED Help!helperVars
  <2>1. UNCHANGED <<callAt, fan, child, turnsOf, haltFlag, receipts, callNo, receipted>>
    BY <1>12 DEF Help!helperVars
  <2>2. Help!TypeOK'
    BY <1>0, <2>1 DEF Help!TypeOK, Help!Index
  <2> QED BY <1>4, <2>1, <2>2
<1> QED BY <1>1, <1>2, <1>3, <1>5, <1>6, <1>8, <1>10, <1>11, <1>12 DEF Help!Next

\* When the parent has its answer no helper of the call goes on, and until then no more
\* of them run than tools may: for any limit on tools, zero or below too, any width of a
\* fan-out and any turn cap, through crashes, stops and timeouts.
THEOREM HelpersAreAlwaysContained ==
  ASSUME Help!Setting
  PROVE  Help!Spec => [](Help!TypeOK /\ HelpersContained)
<1>1. HelpInv => Help!TypeOK /\ HelpersContained
  BY SameCount DEF HelpInv, Contained, HelpersContained, Help!HelpersContained, Help!Open
<1>2. Help!Init => HelpInv
  BY HelpInit
<1>3. HelpInv /\ [Help!Next]_Help!helperVars => HelpInv'
  BY HelpStep
<1> QED BY <1>1, <1>2, <1>3, PTL DEF Help!Spec

------------------------------------------------------------------------------
(* Snapshots of the working folder.                                         *)

Held == SUBSET (Run \cup {NoRun})

FilesTypes ==
  /\ folder \in [Path -> Held] /\ copy \in [Run -> [Path -> Held]]
  /\ snapAt \in [Run -> {"idle", "copying", "saving", "free", "dead"}]
  /\ host \in [Run -> Process \cup {NoRun}]
  /\ left \in [Run -> SUBSET Path]
  /\ known \in [Process -> Seq(Run)] /\ payload \in [Run -> Seq(Run)] /\ listed \in Seq(Run)
  /\ \A r \in Run : snapAt[r] \in {"copying", "saving"} => host[r] \in Process

\* The snapshot of r has every file it will ever have.
Whole(r) == left[r] = {} /\ snapAt[r] \in {"saving", "free", "dead"}

\* Whatever lists a snapshot, in memory, on its way to the index or in it, lists a whole one.
ListsWholes ==
  /\ \A h \in Process : \A r \in Files!ToSet(known[h]) : Whole(r)
  /\ \A q \in Run : \A r \in Files!ToSet(payload[q]) : Whole(r)
  /\ \A r \in Files!ToSet(listed) : Whole(r)

\* An edit is of a run whose snapshot is behind it, wherever a copy has carried the edit,
\* and so it is in no snapshot of that run.
EditsComeAfter ==
  \A r \in Run, p \in Path :
    /\ r \in folder[p] => snapAt[r] \in {"free", "dead"}
    /\ \A q \in Run : r \in copy[q][p] => snapAt[r] \in {"free", "dead"}
    /\ r \notin copy[r][p]

\* What a restore has been through is as in its snapshot, unless somebody edits.
Restores ==
  /\ target # NoRun => target \in Run /\ Whole(target)
  /\ rewound # NoRun => rewound \in Run /\ Whole(rewound)
  /\ (target # NoRun /\ rewound # NoRun) =>
       rewound = target /\ \A p \in Path \ unmirrored : folder[p] = copy[target][p]
  /\ (target = NoRun /\ rewound # NoRun) => folder = copy[rewound]

FilesInv == FilesTypes /\ ListsWholes /\ EditsComeAfter /\ Restores

LEMMA ToSetAppend ==
  ASSUME NEW s \in Seq(Run), NEW r \in Run
  PROVE  Files!ToSet(Append(s, r)) = Files!ToSet(s) \cup {r}
<1> DEFINE t == Append(s, r)
<1>1. /\ DOMAIN s = 1 .. Len(s) /\ Len(s) \in Nat
      /\ DOMAIN t = 1 .. Len(s) + 1
      /\ \A i \in 1 .. Len(s) : t[i] = s[i]
      /\ t[Len(s) + 1] = r
  OBVIOUS
<1> HIDE DEF t
<1>2. ASSUME NEW x PROVE x \in Files!ToSet(t) <=> x \in Files!ToSet(s) \cup {r}
  <2>1. ASSUME x \in Files!ToSet(t) PROVE x \in Files!ToSet(s) \cup {r}
    <3>1. PICK i \in 1 .. Len(s) + 1 : x = t[i]
      BY <1>1, <2>1 DEF Files!ToSet
    <3>2. CASE i \in 1 .. Len(s)
      BY <1>1, <3>1, <3>2 DEF Files!ToSet
    <3>3. CASE i = Len(s) + 1
      BY <1>1, <3>1, <3>3
    <3> QED BY <1>1, <3>1, <3>2, <3>3
  <2>2. ASSUME x \in Files!ToSet(s) PROVE x \in Files!ToSet(t)
    <3>1. PICK i \in 1 .. Len(s) : x = s[i]
      BY <1>1, <2>2 DEF Files!ToSet
    <3>2. i \in 1 .. Len(s) + 1 /\ x = t[i]
      BY <1>1, <3>1
    <3> QED BY <1>1, <3>2 DEF Files!ToSet
  <2>3. r \in Files!ToSet(t)
    <3>1. Len(s) + 1 \in 1 .. Len(s) + 1 /\ t[Len(s) + 1] = r
      BY <1>1
    <3> QED BY <1>1, <3>1 DEF Files!ToSet
  <2> QED BY <2>1, <2>2, <2>3
<1> QED BY <1>2 DEF t

LEMMA ToSetIsRuns == ASSUME NEW s \in Seq(Run) PROVE Files!ToSet(s) \subseteq Run
BY DEF Files!ToSet

LEMMA FilesInit == Files!Setting /\ Files!Init => FilesInv
<1> SUFFICES ASSUME Files!Setting, Files!Init PROVE FilesInv
  OBVIOUS
<1>1. /\ folder = [p \in Path |-> IF p \in Original THEN {} ELSE {NoRun}]
      /\ host = [r \in Run |-> NoRun]
      /\ snapAt = [r \in Run |-> "idle"] /\ left = [r \in Run |-> {}]
      /\ copy = [r \in Run |-> [p \in Path |-> {NoRun}]]
      /\ known = [h \in Process |-> <<>>] /\ payload = [r \in Run |-> <<>>]
      /\ listed = <<>> /\ target = NoRun /\ rewound = NoRun
  BY DEF Files!Init, Files!Absent, Files!Nowhere
<1>2. folder \in [Path -> Held] /\ copy \in [Run -> [Path -> Held]]
  BY <1>1 DEF Held
<1>3. FilesTypes
  <2>1. /\ snapAt \in [Run -> {"idle", "copying", "saving", "free", "dead"}]
        /\ host \in [Run -> Process \cup {NoRun}] /\ left \in [Run -> SUBSET Path]
        /\ \A r \in Run : snapAt[r] \notin {"copying", "saving"}
    BY <1>1
  <2>2. <<>> \in Seq(Run)
    OBVIOUS
  <2>3. /\ known \in [Process -> Seq(Run)] /\ payload \in [Run -> Seq(Run)]
        /\ listed \in Seq(Run)
    BY <1>1, <2>2
  <2> QED BY <1>2, <2>1, <2>3 DEF FilesTypes
<1>4. Files!ToSet(<<>>) = {}
  BY DEF Files!ToSet
<1>5. ListsWholes
  BY <1>1, <1>4 DEF ListsWholes
<1>6. EditsComeAfter
  BY <1>1 DEF EditsComeAfter, Files!Setting
<1> QED BY <1>1, <1>3, <1>5, <1>6 DEF FilesInv, Restores

\* A whole snapshot stays whole while runs only move on.
\* A step that adds to no list and keeps what is whole.
LEMMA ListsStay ==
  ASSUME FilesTypes, ListsWholes,
         \A r \in Run : Whole(r) => Whole(r)',
         \A h \in Process : known'[h] = known[h] \/ known'[h] = <<>>,
         \A q \in Run : payload'[q] = payload[q],
         listed' = listed
  PROVE  ListsWholes'
<1>1. Files!ToSet(<<>>) = {}
  BY DEF Files!ToSet
<1>2. ASSUME NEW h \in Process, NEW r \in Files!ToSet(known'[h]) PROVE Whole(r)'
  <2>1. r \in Files!ToSet(known[h])
    BY <1>1, <1>2
  <2>2. r \in Run
    BY <2>1, ToSetIsRuns DEF FilesTypes
  <2> QED BY <2>1, <2>2 DEF ListsWholes
<1>3. ASSUME NEW q \in Run, NEW r \in Files!ToSet(payload'[q]) PROVE Whole(r)'
  <2>1. r \in Run /\ r \in Files!ToSet(payload[q])
    BY <1>3, ToSetIsRuns DEF FilesTypes
  <2> QED BY <2>1 DEF ListsWholes
<1>4. ASSUME NEW r \in Files!ToSet(listed') PROVE Whole(r)'
  <2>1. r \in Run /\ r \in Files!ToSet(listed)
    BY <1>4, ToSetIsRuns DEF FilesTypes
  <2> QED BY <2>1 DEF ListsWholes
<1> QED BY <1>2, <1>3, <1>4 DEF ListsWholes, Files!ToSet

LEMMA FilesStep == Files!Setting /\ FilesInv /\ [Files!Next]_Files!vars => FilesInv'
<1> SUFFICES ASSUME Files!Setting, FilesInv, [Files!Next]_Files!vars PROVE FilesInv'
  OBVIOUS
<1>0. FilesTypes /\ ListsWholes /\ EditsComeAfter /\ Restores /\ NoRun \notin Run
  BY DEF FilesInv, Files!Setting
<1>1. ASSUME NEW r \in Run, Files!FirstEdit(r) PROVE FilesInv'
  <2>1. PICK h \in Process :
           /\ snapAt[r] = "idle" /\ snapAt' = [snapAt EXCEPT ![r] = "copying"]
           /\ host' = [host EXCEPT ![r] = h]
           /\ left' = [left EXCEPT ![r] = Files!Kept]
           /\ UNCHANGED <<folder, copy, known, payload, listed, target, unmirrored, rewound>>
    BY <1>1 DEF Files!FirstEdit, Files!history
  <2>2. FilesTypes'
    <3>1. left' \in [Run -> SUBSET Path]
      BY <1>0, <2>1 DEF FilesTypes, Files!Kept
    <3>2. /\ snapAt' \in [Run -> {"idle", "copying", "saving", "free", "dead"}]
          /\ host' \in [Run -> Process \cup {NoRun}]
          /\ \A q \in Run : snapAt'[q] \in {"copying", "saving"} => host'[q] \in Process
      BY <1>0, <2>1 DEF FilesTypes
    <3> QED BY <1>0, <2>1, <3>1, <3>2 DEF FilesTypes, Held
  <2>3. \A q \in Run : Whole(q) => q # r /\ Whole(q)'
    BY <1>0, <2>1 DEF FilesTypes, Whole
  <2>4. ListsWholes'
    BY <1>0, <2>1, <2>3, ListsStay
  <2>5. EditsComeAfter'
    BY <1>0, <2>1 DEF EditsComeAfter, FilesTypes
  <2>6. Restores'
    BY <1>0, <2>1, <2>3 DEF Restores
  <2> QED BY <2>2, <2>4, <2>5, <2>6 DEF FilesInv
<1>2. ASSUME NEW r \in Run, NEW p \in Path, Files!CopyFile(r, p) PROVE FilesInv'
  <2>1. /\ snapAt[r] = "copying" /\ p \in left[r]
        /\ copy' = [copy EXCEPT ![r] = [copy[r] EXCEPT ![p] = folder[p]]]
        /\ left' = [left EXCEPT ![r] = left[r] \ {p}]
        /\ UNCHANGED <<folder, host, snapAt, known, payload, listed, target, unmirrored, rewound>>
    BY <1>2 DEF Files!CopyFile, Files!history
  <2>2. FilesTypes'
    <3>1. left' \in [Run -> SUBSET Path]
      BY <1>0, <2>1 DEF FilesTypes
    <3>2. [copy[r] EXCEPT ![p] = folder[p]] \in [Path -> Held]
      BY <1>0 DEF FilesTypes
    <3>3. copy' \in [Run -> [Path -> Held]]
      BY <1>0, <2>1, <3>2 DEF FilesTypes
    <3> QED BY <1>0, <2>1, <3>1, <3>3 DEF FilesTypes, Held
  <2>3. \A q \in Run : Whole(q) => q # r /\ Whole(q)'
    BY <1>0, <2>1 DEF FilesTypes, Whole
  <2>4. ListsWholes'
    BY <1>0, <2>1, <2>3, ListsStay
  <2>5. \A q \in Run, f \in Path : copy'[q][f] = IF q = r /\ f = p THEN folder[p] ELSE copy[q][f]
    BY <1>0, <2>1 DEF FilesTypes
  <2>6. EditsComeAfter'
    <3>1. ASSUME NEW q \in Run, NEW f \in Path PROVE q \notin copy'[q][f]
      BY <1>0, <2>1, <2>5 DEF EditsComeAfter
    <3>2. ASSUME NEW e \in Run, NEW q \in Run, NEW f \in Path, e \in copy'[q][f]
          PROVE  snapAt'[e] \in {"free", "dead"}
      BY <1>0, <2>1, <2>5, <3>2 DEF EditsComeAfter
    <3> QED BY <1>0, <2>1, <3>1, <3>2 DEF EditsComeAfter
  <2>7. \A q \in Run : Whole(q) => copy'[q] = copy[q]
    BY <1>0, <2>1, <2>3 DEF FilesTypes
  <2>8. Restores'
    BY <1>0, <2>1, <2>3, <2>7 DEF Restores
  <2> QED BY <2>2, <2>4, <2>6, <2>8 DEF FilesInv
<1>3. ASSUME NEW r \in Run, Files!Add(r) PROVE FilesInv'
  <2>1. /\ snapAt[r] = "copying" /\ left[r] = {} /\ snapAt' = [snapAt EXCEPT ![r] = "saving"]
        /\ known' = [known EXCEPT ![host[r]] = Append(known[host[r]], r)]
        /\ payload' = [payload EXCEPT ![r] = known'[host[r]]]
        /\ UNCHANGED <<folder, host, left, copy, listed, target, unmirrored, rewound>>
    BY <1>3 DEF Files!Add, Files!history
  <2>2. host[r] \in Process
    BY <1>0, <2>1 DEF FilesTypes
  <2> DEFINE more == Append(known[host[r]], r)
  <2>3. more \in Seq(Run) /\ Files!ToSet(more) = Files!ToSet(known[host[r]]) \cup {r}
    <3>1. known[host[r]] \in Seq(Run)
      BY <1>0, <2>2 DEF FilesTypes
    <3> QED BY <3>1, ToSetAppend
  <2> HIDE DEF more
  <2>4. known' = [known EXCEPT ![host[r]] = more] /\ payload' = [payload EXCEPT ![r] = more]
    BY <1>0, <2>1, <2>2 DEF more, FilesTypes
  <2>5. FilesTypes'
    <3>1. /\ known' \in [Process -> Seq(Run)] /\ payload' \in [Run -> Seq(Run)]
          /\ snapAt' \in [Run -> {"idle", "copying", "saving", "free", "dead"}]
      BY <1>0, <2>1, <2>3, <2>4 DEF FilesTypes
    <3>2. \A q \in Run : snapAt'[q] \in {"copying", "saving"} => host'[q] \in Process
      BY <1>0, <2>1, <2>2 DEF FilesTypes
    <3> QED BY <1>0, <2>1, <3>1, <3>2 DEF FilesTypes, Held
  <2>6. Whole(r)' /\ \A q \in Run : Whole(q) => Whole(q)'
    BY <1>0, <2>1 DEF Whole, FilesTypes
  <2>7. ListsWholes'
    <3>1. ASSUME NEW q \in Files!ToSet(more) PROVE Whole(q)'
      <4>1. q \in Files!ToSet(known[host[r]]) => q \in Run /\ Whole(q)
        BY <1>0, <2>2, ToSetIsRuns DEF ListsWholes, FilesTypes
      <4> QED BY <2>3, <2>6, <4>1
    <3>2. ASSUME NEW h \in Process, NEW q \in Files!ToSet(known'[h]) PROVE Whole(q)'
      <4>1. CASE h = host[r]
        BY <1>0, <2>4, <3>1, <3>2, <4>1 DEF FilesTypes
      <4>2. CASE h # host[r]
        <5>1. q \in Files!ToSet(known[h]) /\ known[h] \in Seq(Run)
          BY <1>0, <2>4, <3>2, <4>2 DEF FilesTypes
        <5> QED BY <1>0, <2>6, <5>1, ToSetIsRuns DEF ListsWholes
      <4> QED BY <4>1, <4>2
    <3>3. ASSUME NEW s \in Run, NEW q \in Files!ToSet(payload'[s]) PROVE Whole(q)'
      <4>1. CASE s = r
        BY <1>0, <2>4, <3>1, <3>3, <4>1 DEF FilesTypes
      <4>2. CASE s # r
        <5>1. q \in Files!ToSet(payload[s]) /\ payload[s] \in Seq(Run)
          BY <1>0, <2>4, <3>3, <4>2 DEF FilesTypes
        <5> QED BY <1>0, <2>6, <5>1, ToSetIsRuns DEF ListsWholes
      <4> QED BY <4>1, <4>2
    <3>4. ASSUME NEW q \in Files!ToSet(listed') PROVE Whole(q)'
      <4>1. q \in Files!ToSet(listed) /\ q \in Run
        BY <1>0, <2>1, <3>4, ToSetIsRuns DEF FilesTypes
      <4> QED BY <1>0, <2>6, <4>1 DEF ListsWholes
    <3> QED BY <3>2, <3>3, <3>4 DEF ListsWholes, Files!ToSet
  <2>8. EditsComeAfter'
    BY <1>0, <2>1 DEF EditsComeAfter, FilesTypes
  <2>9. Restores'
    BY <1>0, <2>1, <2>6 DEF Restores
  <2> QED BY <2>5, <2>7, <2>8, <2>9 DEF FilesInv
<1>4. ASSUME NEW r \in Run, Files!SaveIndex(r) PROVE FilesInv'
  <2>1. /\ snapAt[r] = "saving" /\ snapAt' = [snapAt EXCEPT ![r] = "free"] /\ listed' = payload[r]
        /\ UNCHANGED <<folder, host, left, copy, known, payload, target, unmirrored, rewound>>
    BY <1>4 DEF Files!SaveIndex, Files!history
  <2>2. FilesTypes'
    BY <1>0, <2>1 DEF FilesTypes, Held
  <2>3. \A q \in Run : Whole(q) => Whole(q)'
    BY <1>0, <2>1 DEF Whole, FilesTypes
  <2>4. ListsWholes'
    <3>1. ASSUME NEW h \in Process, NEW q \in Files!ToSet(known'[h]) PROVE Whole(q)'
      <4>1. q \in Files!ToSet(known[h]) /\ q \in Run
        BY <1>0, <2>1, <3>1, ToSetIsRuns DEF FilesTypes
      <4> QED BY <1>0, <2>3, <4>1 DEF ListsWholes
    <3>2. ASSUME NEW s \in Run, NEW q \in Files!ToSet(payload[s]) PROVE Whole(q)'
      <4>1. q \in Run
        BY <1>0, <3>2, ToSetIsRuns DEF FilesTypes
      <4> QED BY <1>0, <2>3, <3>2, <4>1 DEF ListsWholes
    <3> QED BY <2>1, <3>1, <3>2 DEF ListsWholes, Files!ToSet
  <2>5. EditsComeAfter'
    BY <1>0, <2>1 DEF EditsComeAfter, FilesTypes
  <2>6. Restores'
    BY <1>0, <2>1, <2>3 DEF Restores
  <2> QED BY <2>2, <2>4, <2>5, <2>6 DEF FilesInv
<1>5. ASSUME NEW r \in Run, Files!SnapshotFails(r) PROVE FilesInv'
  <2>1. /\ snapAt[r] \in {"copying", "saving"} /\ snapAt' = [snapAt EXCEPT ![r] = "free"]
        /\ UNCHANGED <<folder, host, left, copy, known, payload, listed, target, unmirrored,
                       rewound>>
    BY <1>5 DEF Files!SnapshotFails
  <2>2. FilesTypes'
    BY <1>0, <2>1 DEF FilesTypes, Held
  <2>3. \A q \in Run : Whole(q) => Whole(q)'
    BY <1>0, <2>1 DEF Whole, FilesTypes
  <2>4. ListsWholes'
    BY <1>0, <2>1, <2>3, ListsStay
  <2>5. EditsComeAfter'
    BY <1>0, <2>1 DEF EditsComeAfter, FilesTypes
  <2>6. Restores'
    BY <1>0, <2>1, <2>3 DEF Restores
  <2> QED BY <2>2, <2>4, <2>5, <2>6 DEF FilesInv
<1>6. ASSUME NEW r \in Run, Files!Rewind(r) PROVE FilesInv'
  <2>1. /\ target = NoRun /\ r \in Files!ToSet(listed)
        /\ target' = r /\ unmirrored' = Path /\ rewound' = r
        /\ UNCHANGED <<folder, host, snapAt, left, copy, known, payload, listed>>
    BY <1>6 DEF Files!Rewind, Files!snapshots
  <2>2. FilesTypes'
    BY <1>0, <2>1 DEF FilesTypes, Held
  <2>3. \A q \in Run : Whole(q) => Whole(q)'
    BY <2>1 DEF Whole
  <2>4. ListsWholes'
    BY <1>0, <2>1, <2>3, ListsStay
  <2>5. EditsComeAfter'
    BY <1>0, <2>1 DEF EditsComeAfter
  <2>6. Restores'
    BY <1>0, <2>1, <2>3 DEF Restores, ListsWholes
  <2> QED BY <2>2, <2>4, <2>5, <2>6 DEF FilesInv
<1>7. ASSUME NEW r \in Run, NEW p \in Path, Files!Edit(r, p) PROVE FilesInv'
  <2>1. /\ snapAt[r] = "free" /\ rewound' = NoRun
        /\ UNCHANGED <<host, snapAt, left, copy, known, payload, listed, target, unmirrored>>
    BY <1>7 DEF Files!Edit, Files!MayEdit, Files!snapshots
  <2>2. PICK new \in Held : folder' = [folder EXCEPT ![p] = new] /\ new \subseteq folder[p] \cup {r, NoRun}
    <3>1. folder[p] \in Held
      BY <1>0 DEF FilesTypes
    <3>2. CASE folder' = [folder EXCEPT ![p] = (folder[p] \ {NoRun}) \cup {r}]
      <4>1. (folder[p] \ {NoRun}) \cup {r} \in Held
        BY <3>1 DEF Held
      <4> QED BY <3>2, <4>1
    <3>3. CASE folder' = [folder EXCEPT ![p] = {NoRun}]
      <4>1. {NoRun} \in Held
        BY DEF Held
      <4> QED BY <3>3, <4>1
    <3> QED BY <1>7, <3>2, <3>3 DEF Files!Edit, Files!Absent
  <2>3. FilesTypes'
    BY <1>0, <2>1, <2>2 DEF FilesTypes
  <2>4. \A q \in Run : Whole(q) => Whole(q)'
    BY <2>1 DEF Whole
  <2>5. ListsWholes'
    BY <1>0, <2>1, <2>4, ListsStay
  <2>6. \A q \in Run, f \in Path : q \in folder'[f] => q \in folder[f] \/ q = r
    BY <1>0, <2>2 DEF FilesTypes
  <2>7. EditsComeAfter'
    BY <1>0, <2>1, <2>6 DEF EditsComeAfter
  <2>8. Restores'
    BY <1>0, <2>1, <2>4 DEF Restores
  <2> QED BY <2>3, <2>5, <2>7, <2>8 DEF FilesInv
<1>8. ASSUME NEW h \in Process, Files!ProcessEnds(h) PROVE FilesInv'
  <2>1. /\ snapAt' = [r \in Run |-> IF host[r] = h THEN "dead" ELSE snapAt[r]]
        /\ known' = [known EXCEPT ![h] = <<>>]
        /\ UNCHANGED <<folder, host, left, copy, payload, listed, target, unmirrored, rewound>>
    BY <1>8 DEF Files!ProcessEnds
  <2>2. \A r \in Run : snapAt'[r] = snapAt[r] \/ snapAt'[r] = "dead"
    BY <2>1
  <2>3. FilesTypes'
    <3>1. snapAt' \in [Run -> {"idle", "copying", "saving", "free", "dead"}]
      BY <1>0, <2>1 DEF FilesTypes
    <3>2. known' \in [Process -> Seq(Run)]
      BY <1>0, <2>1 DEF FilesTypes
    <3> QED BY <1>0, <2>1, <2>2, <3>1, <3>2 DEF FilesTypes, Held
  <2>4. \A q \in Run : Whole(q) => Whole(q)'
    BY <2>1, <2>2 DEF Whole
  <2>5. ListsWholes'
    <3>1. \A g \in Process : known'[g] = known[g] \/ known'[g] = <<>>
      BY <1>0, <2>1 DEF FilesTypes
    <3> QED BY <1>0, <2>1, <2>4, <3>1, ListsStay
  <2>6. EditsComeAfter'
    BY <1>0, <2>1, <2>2 DEF EditsComeAfter
  <2>7. Restores'
    BY <1>0, <2>1, <2>4 DEF Restores
  <2> QED BY <2>3, <2>5, <2>6, <2>7 DEF FilesInv
<1>9. ASSUME NEW p \in Path, Files!MirrorFile(p) PROVE FilesInv'
  <2>1. /\ target # NoRun /\ folder' = [folder EXCEPT ![p] = copy[target][p]]
        /\ unmirrored' = unmirrored \ {p}
        /\ UNCHANGED <<host, snapAt, left, copy, known, payload, listed, target, rewound>>
    BY <1>9 DEF Files!MirrorFile, Files!snapshots, Files!history
  <2>2. target \in Run
    BY <1>0, <2>1 DEF Restores
  <2>3. copy[target][p] \in Held
    BY <1>0, <2>2 DEF FilesTypes
  <2>4. FilesTypes'
    BY <1>0, <2>1, <2>3 DEF FilesTypes
  <2>5. \A q \in Run : Whole(q) => Whole(q)'
    BY <2>1 DEF Whole
  <2>6. ListsWholes'
    BY <1>0, <2>1, <2>5, ListsStay
  <2>7. \A f \in Path : folder'[f] = IF f = p THEN copy[target][p] ELSE folder[f]
    BY <1>0, <2>1 DEF FilesTypes
  <2>8. EditsComeAfter'
    BY <1>0, <2>1, <2>2, <2>7 DEF EditsComeAfter
  <2>9. Restores'
    BY <1>0, <2>1, <2>5, <2>7 DEF Restores
  <2> QED BY <2>4, <2>6, <2>8, <2>9 DEF FilesInv
<1>10. CASE Files!Restored \/ Files!CutShort
  <2>1. UNCHANGED <<folder, host, snapAt, left, copy, known, payload, listed, unmirrored>>
    BY <1>10 DEF Files!Restored, Files!CutShort, Files!snapshots
  <2>2. FilesTypes'
    BY <1>0, <2>1 DEF FilesTypes, Held
  <2>3. \A q \in Run : Whole(q) => Whole(q)'
    BY <2>1 DEF Whole
  <2>4. ListsWholes'
    BY <1>0, <2>1, <2>3, ListsStay
  <2>5. EditsComeAfter'
    BY <1>0, <2>1 DEF EditsComeAfter
  <2>6. Restores'
    <3>1. CASE Files!CutShort
      BY <3>1 DEF Files!CutShort, Restores
    <3>2. CASE Files!Restored
      <4>1. target # NoRun /\ unmirrored = {} /\ target' = NoRun /\ rewound' = rewound
        BY <3>2 DEF Files!Restored, Files!history
      <4>2. ASSUME rewound # NoRun PROVE folder = copy[rewound]
        <5>1. rewound \in Run /\ \A p \in Path : folder[p] = copy[rewound][p]
          BY <1>0, <4>1, <4>2 DEF Restores
        <5>2. folder \in [Path -> Held] /\ copy[rewound] \in [Path -> Held]
          BY <1>0, <5>1 DEF FilesTypes
        <5> QED BY <5>1, <5>2
      <4> QED BY <1>0, <2>1, <2>3, <4>1, <4>2 DEF Restores
    <3> QED BY <1>10, <3>1, <3>2
  <2> QED BY <2>2, <2>4, <2>5, <2>6 DEF FilesInv
<1>11. CASE UNCHANGED Files!vars
  <2>1. UNCHANGED <<folder, host, snapAt, left, copy, known, payload, listed, target, unmirrored,
                    rewound>>
    BY <1>11 DEF Files!vars, Files!snapshots, Files!history
  <2>2. FilesTypes'
    BY <1>0, <2>1 DEF FilesTypes, Held
  <2>3. \A q \in Run : Whole(q) => Whole(q)'
    BY <2>1 DEF Whole
  <2>4. ListsWholes'
    BY <1>0, <2>1, <2>3, ListsStay
  <2>5. EditsComeAfter'
    BY <1>0, <2>1 DEF EditsComeAfter
  <2>6. Restores'
    BY <1>0, <2>1, <2>3 DEF Restores
  <2> QED BY <2>2, <2>4, <2>5, <2>6 DEF FilesInv
<1> QED BY <1>1, <1>2, <1>3, <1>4, <1>5, <1>6, <1>7, <1>8, <1>9, <1>10, <1>11 DEF Files!Next

\* A listed snapshot is whole and has no edit of its run, and a restore that ran to its
\* end with nobody editing leaves exactly the snapshot: for any number of runs,
\* processes, files, failed snapshots, ended processes and restores cut short.
THEOREM RewindsAlwaysUndo ==
  ASSUME Files!Setting
  PROVE  Files!Spec => []RewindUndoesTheRun
<1>1. FilesInv => RewindUndoesTheRun
  <2> SUFFICES ASSUME FilesInv PROVE RewindUndoesTheRun
    OBVIOUS
  <2>1. FilesTypes /\ ListsWholes /\ EditsComeAfter /\ Restores
    BY DEF FilesInv
  <2>2. ASSUME NEW r \in Files!ToSet(listed)
        PROVE  left[r] = {} /\ \A p \in Path : r \notin copy[r][p]
    <3>1. r \in Run
      BY <2>1, ToSetIsRuns DEF FilesTypes
    <3> QED BY <2>1, <3>1 DEF ListsWholes, EditsComeAfter, Whole
  <2> QED BY <2>1, <2>2 DEF RewindUndoesTheRun, Files!RewindUndoesTheRun, Restores
<1>2. Files!Init => FilesInv
  BY FilesInit
<1>3. FilesInv /\ [Files!Next]_Files!vars => FilesInv'
  BY FilesStep
<1> QED BY <1>1, <1>2, <1>3, PTL DEF Files!Spec

------------------------------------------------------------------------------
(* Compaction.                                                              *)

Msg == [id : Nat, role : {"system", "user", "assistant", "tool"},
        calls : Seq(Nat \X Nat), folds : SUBSET Nat]
IdsOf(ms) == {ms[i].id : i \in DOMAIN ms}
FoldsOf(ms) == UNION {ms[i].folds : i \in DOMAIN ms}

\* The call c is of the last reply, all behind which are results.
Awaited(S, c) ==
  /\ c[1] \in DOMAIN S /\ Fold!Calls(S[c[1]]) /\ c \in Fold!ToSet(S[c[1]].calls)
  /\ \A j \in DOMAIN S : j > c[1] => S[j].role = "tool"

\* The message i is a result: its call's message is before it, and only results between.
Answers(S, i) ==
  /\ Len(S[i].calls) = 1 /\ S[i].calls[1][1] \in 1 .. i - 1
  /\ Fold!Calls(S[S[i].calls[1][1]])
  /\ \A j \in S[i].calls[1][1] + 1 .. i - 1 : S[j].role = "tool"

\* The stored conversation: the calls without an answer can only be those of its end.
Placed(S, i) == S[i].id = i /\ S[i].folds = {}
Stored(S) ==
  /\ S \in Seq(Msg) /\ Len(S) >= 1
  /\ \A i \in DOMAIN S : Placed(S, i)
  /\ \A i \in DOMAIN S : S[i].role = "assistant" =>
       \A c \in Fold!ToSet(S[i].calls) : c[1] = i
  /\ \A i \in DOMAIN S : S[i].role = "tool" => Answers(S, i)
  /\ \A c \in Fold!Open(S) : Awaited(S, c)

\* What is shown of it: its messages word for word, or summaries, which only the system's
\* messages precede.
IsSummary(m) == m.id = 0 /\ m.role = "system" /\ m.calls = <<>>
Worded(W, S, p) ==
  IF W[p].id = 0 THEN IsSummary(W[p]) /\ \A q \in 1 .. p : W[q].role = "system"
  ELSE W[p].id \in DOMAIN S /\ W[p] = S[W[p].id]
Shown(W, S) ==
  /\ W \in Seq(Msg)
  /\ \A p \in DOMAIN W : Worded(W, S, p)
  /\ FoldsOf(W) \cap IdsOf(W) = {} /\ 0 \notin FoldsOf(W)
  /\ FoldsOf(W) \cup IdsOf(W) \cup {0} = 0 .. Len(S)
  /\ \A i, j \in DOMAIN W : i < j /\ W[j].id # 0 => W[i].id < W[j].id
  /\ \A i, j \in DOMAIN W : i # j => W[i].folds \cap W[j].folds = {}
  /\ \A i \in DOMAIN S : S[i].role = "tool" =>
       (i \in IdsOf(W) <=> S[i].calls[1][1] \in IdsOf(W))

FoldInv ==
  /\ Stored(savedMessages) /\ foldAt \in {"idle", "head", "tools"}
  /\ foldAt # "idle" => Shown(window, savedMessages)
  /\ foldAt = "head" => Fold!Open(savedMessages) = {}
  /\ foldAt = "tools" =>
       /\ Fold!Open(savedMessages) \subseteq Fold!Open(window)
       /\ \A c \in Fold!Open(window) : Awaited(savedMessages, c)

LEMMA LeastOf ==
  ASSUME NEW M, M \subseteq Nat, M # {} PROVE \E i \in M : \A j \in M : i <= j
<1> DEFINE R == OpToRel(<, Nat)
<1>1. \A i, j \in Nat : <<j, i>> \in R <=> j < i
  BY DEF OpToRel
<1>2. IsWellFoundedOn(R, Nat)
  BY NatLessThanWellFounded
<1> HIDE DEF R
<1>3. PICK i \in M : \A j \in M : <<j, i>> \notin R
  BY <1>2, WFMin
<1>4. ASSUME NEW j \in M PROVE i <= j
  <2>1. i \in Nat /\ j \in Nat /\ ~ (j < i)
    BY <1>1, <1>3
  <2> QED BY <2>1
<1> QED BY <1>4

LEMMA GreatestOf ==
  ASSUME NEW n \in Nat, NEW M, M \subseteq 0 .. n, M # {}
  PROVE  \E i \in M : \A j \in M : j <= i
<1> DEFINE D == {n - i : i \in M}
<1>1. \A i \in M : i \in Nat /\ n - i \in Nat
  OBVIOUS
<1>2. D \subseteq Nat /\ D # {}
  BY <1>1
<1>3. PICK d \in D : \A e \in D : d <= e
  BY <1>2, LeastOf
<1>4. PICK i \in M : d = n - i
  OBVIOUS
<1>5. ASSUME NEW j \in M PROVE j <= i
  <2>1. n - i <= n - j
    BY <1>3, <1>4
  <2> QED BY <1>1, <2>1
<1> QED BY <1>5

\* The leading messages are those before the first that is none of the system's.
LEMMA Leading ==
  ASSUME NEW ms \in Seq(Msg)
  PROVE  LET F == Fold!LeadingSystemCount(ms)
         IN  /\ F \in 0 .. Len(ms) /\ \A i \in 1 .. F : ms[i].role = "system"
             /\ F < Len(ms) => ms[F + 1].role # "system"
<1> DEFINE others == {i \in DOMAIN ms : ms[i].role # "system"}
           F == Fold!LeadingSystemCount(ms)
<1>1. DOMAIN ms = 1 .. Len(ms) /\ Len(ms) \in Nat
  OBVIOUS
<1>2. CASE others = {}
  <2>1. F = Len(ms)
    BY <1>2 DEF Fold!LeadingSystemCount
  <2> QED BY <1>1, <1>2, <2>1
<1>3. CASE others # {}
  <2>1. others \subseteq Nat
    BY <1>1
  <2>2. \E i \in others : \A j \in others : i <= j
    BY <1>3, <2>1, LeastOf
  <2> DEFINE f == CHOOSE i \in others : \A j \in others : i <= j
  <2>3. f \in others /\ \A j \in others : f <= j
    BY <2>2
  <2>4. F = f - 1
    BY <1>3 DEF Fold!LeadingSystemCount
  <2> HIDE DEF f, F
  <2>5. f \in DOMAIN ms /\ ms[f].role # "system" /\ f \in 1 .. Len(ms)
    BY <1>1, <2>3
  <2>6. \A i \in 1 .. f - 1 : ms[i].role = "system"
    <3> SUFFICES ASSUME NEW i \in 1 .. f - 1, ms[i].role # "system" PROVE FALSE
      OBVIOUS
    <3>1. i \in others
      BY <1>1, <2>5
    <3> QED BY <2>3, <2>5, <3>1
  <2> QED BY <1>1, <2>4, <2>5, <2>6 DEF F
<1> QED BY <1>2, <1>3

\* The cut parts nothing, unless there is nothing to fold.
LEMMA CutPlace ==
  ASSUME RecentWindow \in Nat, NEW ms \in Seq(Msg)
  PROVE  LET F == Fold!LeadingSystemCount(ms)
             P == Fold!ProtectRecentMessages(ms)
         IN  P \in F .. Len(ms) /\ (P > F => ~Fold!Splits(ms, P))
<1> DEFINE F == Fold!LeadingSystemCount(ms)
           W == Fold!WindowStart(ms)
           good == {F} \cup {i \in F + 1 .. W : ~Fold!Splits(ms, i)}
           P == CHOOSE i \in good : \A j \in good : j <= i
<1>1. F \in 0 .. Len(ms) /\ Len(ms) \in Nat
  BY Leading
<1>2. W \in F .. Len(ms)
  <2>1. W = IF F + RecentWindow < Len(ms) THEN Len(ms) - RecentWindow ELSE F
    BY DEF Fold!WindowStart
  <2> HIDE DEF W, F
  <2> QED BY <1>1, <2>1
<1>3. Fold!ProtectRecentMessages(ms) = P
  BY DEF Fold!ProtectRecentMessages
<1> HIDE DEF W, F
<1>4. good \subseteq 0 .. Len(ms) /\ good # {}
  BY <1>1, <1>2
<1>5. \E i \in good : \A j \in good : j <= i
  BY <1>1, <1>4, GreatestOf
<1>6. P \in good
  BY <1>5
<1> HIDE DEF P
<1>7. P \in F .. Len(ms) /\ (P > F => ~Fold!Splits(ms, P))
  BY <1>1, <1>2, <1>6
<1> QED BY <1>3, <1>7 DEF F

\* Two conversations, one after the other.
LEMMA Joined ==
  ASSUME NEW T, NEW s \in Seq(T), NEW t \in Seq(T)
  PROVE  /\ s \o t \in Seq(T) /\ Len(s \o t) = Len(s) + Len(t)
         /\ \A i \in 1 .. Len(s) + Len(t) :
              (s \o t)[i] = IF i <= Len(s) THEN s[i] ELSE t[i - Len(s)]
OBVIOUS

\* What is made of a conversation that is folded: the leading messages, a summary of those
\* before the cut, and those behind it.
LEMMA Compacted ==
  ASSUME RecentWindow \in Nat, NEW ms \in Seq(Msg), Fold!Compact(ms) # ms
  PROVE  LET F == Fold!LeadingSystemCount(ms)
             P == Fold!ProtectRecentMessages(ms)
             new == Fold!Compact(ms)
         IN  /\ F \in 0 .. Len(ms) /\ P \in F + 1 .. Len(ms)
             /\ new \in Seq(Msg) /\ Len(new) = F + 1 + (Len(ms) - P)
             /\ \A i \in 1 .. F : new[i] = ms[i]
             /\ new[F + 1] = [id |-> 0, role |-> "system", calls |-> <<>>,
                              folds |-> {ms[i].id : i \in F + 1 .. P}]
             /\ \A i \in F + 2 .. Len(new) : new[i] = ms[i + P - F - 1]
<1> DEFINE F == Fold!LeadingSystemCount(ms)
           P == Fold!ProtectRecentMessages(ms)
           old == Fold!Older(ms)
           sum == Fold!Summary(old)
           a == SubSeq(ms, 1, F)
           z == SubSeq(ms, P + 1, Len(ms))
<1>1. F \in 0 .. Len(ms) /\ P \in F .. Len(ms) /\ Len(ms) \in Nat
  BY Leading, CutPlace
<1>2. old = SubSeq(ms, F + 1, P) /\ old # <<>> /\ Fold!Compact(ms) = (a \o <<sum>>) \o z
  BY DEF Fold!Older, Fold!Compact
<1>3. sum = [id |-> 0, role |-> "system", calls |-> <<>>,
             folds |-> {m.id : m \in Fold!ToSet(old)}]
  BY DEF Fold!Summary
<1> HIDE DEF F, P, old, sum
<1>4. old \in Seq(Msg) /\ Len(old) = P - F /\ \A i \in 1 .. P - F : old[i] = ms[F + i]
  BY <1>1, <1>2
<1>5. P > F
  BY <1>1, <1>2, <1>4
<1>6. {m.id : m \in Fold!ToSet(old)} = {ms[i].id : i \in F + 1 .. P}
  <2>1. Fold!ToSet(old) = {old[i] : i \in DOMAIN old} /\ DOMAIN old = 1 .. P - F
    BY <1>1, <1>4, <1>5 DEF Fold!ToSet
  <2>2. ASSUME NEW i \in F + 1 .. P PROVE i - F \in 1 .. P - F /\ ms[i] = old[i - F]
    BY <1>1, <1>4
  <2>3. ASSUME NEW i \in 1 .. P - F PROVE F + i \in F + 1 .. P /\ old[i] = ms[F + i]
    BY <1>1, <1>4
  <2>4. Fold!ToSet(old) = {ms[i] : i \in F + 1 .. P}
    BY <2>1, <2>2, <2>3
  <2> QED BY <2>4
<1>7. \A i \in F + 1 .. P : ms[i].id \in Nat
  <2> SUFFICES ASSUME NEW i \in F + 1 .. P PROVE ms[i].id \in Nat
    OBVIOUS
  <2>1. ms[i] \in Msg
    BY <1>1
  <2> QED BY <2>1 DEF Msg
<1>8. sum \in Msg
  <2>1. {ms[i].id : i \in F + 1 .. P} \in SUBSET Nat
    BY <1>7
  <2>2. <<>> \in Seq(Nat \X Nat)
    OBVIOUS
  <2> QED BY <1>3, <1>6, <2>1, <2>2 DEF Msg
<1>9. /\ a \in Seq(Msg) /\ Len(a) = F /\ \A i \in 1 .. F : a[i] = ms[i]
      /\ z \in Seq(Msg) /\ Len(z) = Len(ms) - P
      /\ \A i \in 1 .. Len(ms) - P : z[i] = ms[P + i]
  BY <1>1
<1> HIDE DEF a, z
<1> DEFINE b == a \o <<sum>>
           new == b \o z
<1>10. /\ b \in Seq(Msg) /\ Len(b) = F + 1 /\ b[F + 1] = sum
       /\ \A i \in 1 .. F : b[i] = ms[i]
  <2> DEFINE o == <<sum>>
  <2>1. o \in Seq(Msg) /\ Len(o) = 1 /\ o[1] = sum
    BY <1>8
  <2>2. b = a \o o
    OBVIOUS
  <2> HIDE DEF o, b
  <2>3. /\ b \in Seq(Msg) /\ Len(b) = Len(a) + Len(o)
        /\ \A i \in 1 .. Len(a) + Len(o) :
             b[i] = IF i <= Len(a) THEN a[i] ELSE o[i - Len(a)]
    BY <1>9, <2>1, <2>2, Joined
  <2>4. Len(a) + Len(o) = F + 1 /\ F + 1 \in 1 .. F + 1 /\ ~ (F + 1 <= Len(a))
        /\ (F + 1) - Len(a) = 1 /\ \A i \in 1 .. F : i \in 1 .. F + 1 /\ i <= Len(a)
    BY <1>1, <1>9, <2>1
  <2>5. b[F + 1] = sum
    BY <2>1, <2>3, <2>4
  <2> QED BY <1>9, <2>3, <2>4, <2>5
<1> HIDE DEF b
<1>11. /\ new \in Seq(Msg) /\ Len(new) = Len(b) + Len(z)
       /\ \A i \in 1 .. Len(b) + Len(z) :
            new[i] = IF i <= Len(b) THEN b[i] ELSE z[i - Len(b)]
  BY <1>9, <1>10, Joined
<1> HIDE DEF new
<1>12. Len(new) = F + 1 + (Len(ms) - P) /\ Len(b) = F + 1 /\ Len(z) = Len(ms) - P
  BY <1>1, <1>9, <1>10, <1>11
<1>13. \A i \in F + 2 .. Len(new) : new[i] = ms[i + P - F - 1]
  <2> SUFFICES ASSUME NEW i \in F + 2 .. Len(new) PROVE new[i] = ms[i + P - F - 1]
    OBVIOUS
  <2>1. /\ i - (F + 1) \in 1 .. Len(ms) - P /\ P + (i - (F + 1)) = i + P - F - 1
        /\ i \in 1 .. Len(b) + Len(z) /\ ~ (i <= Len(b))
    BY <1>1, <1>12
  <2>2. new[i] = z[i - (F + 1)]
    BY <1>11, <1>12, <2>1
  <2> QED BY <1>9, <2>1, <2>2
<1>14. (\A i \in 1 .. F : new[i] = ms[i]) /\ new[F + 1] = sum
  <2>1. ASSUME NEW i \in 1 .. F + 1 PROVE new[i] = b[i]
    <3>1. i \in 1 .. Len(b) + Len(z) /\ i <= Len(b)
      BY <1>1, <1>12
    <3> QED BY <1>11, <3>1
  <2>2. F + 1 \in 1 .. F + 1 /\ \A i \in 1 .. F : i \in 1 .. F + 1
    BY <1>1
  <2> QED BY <1>10, <2>1, <2>2
<1>15. new = Fold!Compact(ms)
  BY <1>2 DEF new, b
<1>16. P \in F + 1 .. Len(ms) /\ F \in 0 .. Len(ms)
  BY <1>1, <1>5
<1>17. sum = [id |-> 0, role |-> "system", calls |-> <<>>,
              folds |-> {ms[i].id : i \in F + 1 .. P}]
  BY <1>3, <1>6
<1>18. Fold!Compact(ms) \in Seq(Msg)
  BY <1>11, <1>15
<1> QED BY <1>12, <1>13, <1>14, <1>15, <1>16, <1>17, <1>18 DEF F, P

LEMMA Appended ==
  ASSUME NEW T, NEW s \in Seq(T), NEW m \in T
  PROVE  /\ Append(s, m) \in Seq(T) /\ Len(s) \in Nat /\ Len(Append(s, m)) = Len(s) + 1
         /\ DOMAIN s = 1 .. Len(s) /\ DOMAIN Append(s, m) = 1 .. Len(s) + 1
         /\ \A i \in 1 .. Len(s) : Append(s, m)[i] = s[i]
         /\ Append(s, m)[Len(s) + 1] = m
OBVIOUS

\* A call is open when the last reply makes it and no message answers it.
LEMMA ResultsSay ==
  ASSUME NEW ms \in Seq(Msg), NEW c
  PROVE  c \in Fold!Results(ms) <=>
           \E i \in DOMAIN ms : ms[i].role = "tool" /\ c \in Fold!ToSet(ms[i].calls)
<1>1. Fold!ToSet(ms) = {ms[i] : i \in DOMAIN ms}
  BY DEF Fold!ToSet
<1>2. c \in Fold!Results(ms) <=>
        \E x \in Fold!ToSet(ms) : x.role = "tool" /\ c \in Fold!ToSet(x.calls)
  BY DEF Fold!Results
<1> QED BY <1>1, <1>2

LEMMA OpenSays ==
  ASSUME NEW ms \in Seq(Msg), NEW c
  PROVE  c \in Fold!Open(ms) <=>
           /\ \E i \in Fold!Due(ms) : c \in Fold!ToSet(ms[i].calls)
           /\ c \notin Fold!Results(ms)
BY DEF Fold!Open

\* Which replies a message leaves waiting.
LEMMA DueAfter ==
  ASSUME NEW ms \in Seq(Msg), NEW m \in Msg
  PROVE  LET new == Append(ms, m)
         IN  /\ m.role = "user" => Fold!Due(new) = {}
             /\ Fold!Calls(m) => Fold!Due(new) = {Len(ms) + 1}
             /\ ~Fold!Calls(m) /\ m.role # "user" => Fold!Due(new) = Fold!Due(ms)
<1> DEFINE new == Append(ms, m)
           n == Len(ms)
<1>1. /\ n \in Nat /\ DOMAIN ms = 1 .. n /\ DOMAIN new = 1 .. n + 1
      /\ \A i \in 1 .. n : new[i] = ms[i]
      /\ new[n + 1] = m
  BY Appended
<1>2. /\ \A i : i \in Fold!Due(new) <=>
             /\ i \in 1 .. n + 1 /\ Fold!Calls(new[i])
             /\ \A j \in 1 .. n + 1 : j > i => ~Fold!Calls(new[j]) /\ new[j].role # "user"
      /\ \A i : i \in Fold!Due(ms) <=>
             /\ i \in 1 .. n /\ Fold!Calls(ms[i])
             /\ \A j \in 1 .. n : j > i => ~Fold!Calls(ms[j]) /\ ms[j].role # "user"
  BY <1>1 DEF Fold!Due
<1> HIDE DEF new, n
<1>3. n + 1 \in 1 .. n + 1 /\ (\A i \in 1 .. n : i \in 1 .. n + 1 /\ n + 1 > i)
      /\ (\A i \in 1 .. n + 1 : i # n + 1 => i \in 1 .. n)
      /\ ~ \E j \in 1 .. n + 1 : j > n + 1
  BY <1>1
<1>4. Fold!Calls(m) => m.role # "user"
  BY DEF Fold!Calls
<1>5. m.role = "user" => Fold!Due(new) = {}
  BY <1>1, <1>2, <1>3, <1>4
<1>6. Fold!Calls(m) => Fold!Due(new) = {n + 1}
  <2> SUFFICES ASSUME Fold!Calls(m), NEW i PROVE i \in Fold!Due(new) <=> i = n + 1
    OBVIOUS
  <2>1. n + 1 \in Fold!Due(new)
    BY <1>1, <1>2, <1>3
  <2> QED BY <1>1, <1>2, <1>3, <2>1
<1>7. ~Fold!Calls(m) /\ m.role # "user" => Fold!Due(new) = Fold!Due(ms)
  <2> SUFFICES ASSUME ~Fold!Calls(m), m.role # "user", NEW i
               PROVE  i \in Fold!Due(new) <=> i \in Fold!Due(ms)
    OBVIOUS
  <2>1. ASSUME i \in Fold!Due(new) PROVE i \in Fold!Due(ms)
    <3>1. i \in 1 .. n
      BY <1>1, <1>2, <1>3, <2>1
    <3>2. \A j \in 1 .. n : j > i => ~Fold!Calls(ms[j]) /\ ms[j].role # "user"
      BY <1>1, <1>2, <1>3, <2>1
    <3>3. Fold!Calls(ms[i])
      BY <1>1, <1>2, <2>1, <3>1
    <3> QED BY <1>2, <3>1, <3>2, <3>3
  <2>2. ASSUME i \in Fold!Due(ms) PROVE i \in Fold!Due(new)
    <3>1. i \in 1 .. n + 1 /\ i \in 1 .. n
      BY <1>2, <1>3, <2>2
    <3>2. ASSUME NEW j \in 1 .. n + 1, j > i
          PROVE  ~Fold!Calls(new[j]) /\ new[j].role # "user"
      <4>1. CASE j = n + 1 BY <1>1, <4>1
      <4>2. CASE j # n + 1 BY <1>1, <1>2, <1>3, <2>2, <3>2, <4>2
      <4> QED BY <4>1, <4>2
    <3>3. Fold!Calls(new[i])
      BY <1>1, <1>2, <2>2, <3>1
    <3> QED BY <1>2, <3>1, <3>2, <3>3
  <2> QED BY <2>1, <2>2
<1> QED BY <1>5, <1>6, <1>7 DEF new, n

\* Which calls a message leaves open: none behind a user's, those of a reply that has some,
\* one less behind a result.
LEMMA OpenAfter ==
  ASSUME NEW ms \in Seq(Msg), NEW m \in Msg
  PROVE  LET new == Append(ms, m)
         IN  /\ m.role = "user" => Fold!Open(new) = {}
             /\ Fold!Calls(m) =>
                  Fold!Open(new) = Fold!ToSet(m.calls) \ Fold!Results(ms)
             /\ m.role = "tool" => Fold!Open(new) = Fold!Open(ms) \ Fold!ToSet(m.calls)
             /\ m.role = "assistant" /\ m.calls = <<>> => Fold!Open(new) = Fold!Open(ms)
<1> DEFINE new == Append(ms, m)
           n == Len(ms)
<1>1. /\ n \in Nat /\ DOMAIN ms = 1 .. n /\ DOMAIN new = 1 .. n + 1 /\ new \in Seq(Msg)
      /\ \A i \in 1 .. n : new[i] = ms[i]
      /\ new[n + 1] = m
  BY Appended
<1>2. /\ m.role = "user" => Fold!Due(new) = {}
      /\ Fold!Calls(m) => Fold!Due(new) = {n + 1}
      /\ ~Fold!Calls(m) /\ m.role # "user" => Fold!Due(new) = Fold!Due(ms)
  BY DueAfter
<1>3. \A i : i \in Fold!Due(ms) => i \in 1 .. n
  BY <1>1 DEF Fold!Due
<1>4. /\ \A c : c \in Fold!Open(new) <=>
             /\ \E i \in Fold!Due(new) : c \in Fold!ToSet(new[i].calls)
             /\ c \notin Fold!Results(new)
      /\ \A c : c \in Fold!Open(ms) <=>
             /\ \E i \in Fold!Due(ms) : c \in Fold!ToSet(ms[i].calls)
             /\ c \notin Fold!Results(ms)
  BY <1>1, OpenSays
<1>5. /\ \A c : c \in Fold!Results(ms) <=>
             \E i \in 1 .. n : ms[i].role = "tool" /\ c \in Fold!ToSet(ms[i].calls)
      /\ \A c : c \in Fold!Results(new) <=>
             \E i \in 1 .. n + 1 : new[i].role = "tool" /\ c \in Fold!ToSet(new[i].calls)
  BY <1>1, ResultsSay
<1> HIDE DEF new, n
<1>6. n + 1 \in 1 .. n + 1 /\ (\A i \in 1 .. n : i \in 1 .. n + 1)
      /\ (\A i \in 1 .. n + 1 : i # n + 1 => i \in 1 .. n)
  BY <1>1
<1>7. \A c : c \in Fold!Results(new) <=>
        c \in Fold!Results(ms) \/ (m.role = "tool" /\ c \in Fold!ToSet(m.calls))
  <2> SUFFICES ASSUME NEW c
               PROVE  c \in Fold!Results(new) <=>
                        c \in Fold!Results(ms) \/ (m.role = "tool" /\ c \in Fold!ToSet(m.calls))
    OBVIOUS
  <2>1. ASSUME c \in Fold!Results(new)
        PROVE  c \in Fold!Results(ms) \/ (m.role = "tool" /\ c \in Fold!ToSet(m.calls))
    BY <1>1, <1>5, <1>6, <2>1
  <2>2. ASSUME c \in Fold!Results(ms) PROVE c \in Fold!Results(new)
    BY <1>1, <1>5, <1>6, <2>2
  <2>3. ASSUME m.role = "tool" /\ c \in Fold!ToSet(m.calls) PROVE c \in Fold!Results(new)
    BY <1>1, <1>5, <1>6, <2>3
  <2> QED BY <2>1, <2>2, <2>3
<1>8. Fold!Calls(m) => m.role # "user" /\ m.role # "tool" /\ m.role = "assistant" /\ m.calls # <<>>
  BY DEF Fold!Calls
<1>9. m.role = "user" => Fold!Open(new) = {}
  BY <1>2, <1>4
<1>10. Fold!Calls(m) => Fold!Open(new) = Fold!ToSet(m.calls) \ Fold!Results(ms)
  BY <1>1, <1>2, <1>4, <1>7, <1>8
<1>11. ASSUME m.role = "tool" \/ (m.role = "assistant" /\ m.calls = <<>>)
       PROVE  /\ \A i \in Fold!Due(ms) : new[i].calls = ms[i].calls
              /\ Fold!Due(new) = Fold!Due(ms)
  <2>1. ~Fold!Calls(m) /\ m.role # "user"
    BY <1>8, <1>11
  <2> QED BY <1>1, <1>2, <1>3, <2>1
<1>12. m.role = "tool" => Fold!Open(new) = Fold!Open(ms) \ Fold!ToSet(m.calls)
  <2> SUFFICES ASSUME m.role = "tool", NEW c
               PROVE  c \in Fold!Open(new) <=> c \in Fold!Open(ms) /\ c \notin Fold!ToSet(m.calls)
    OBVIOUS
  <2>1. (\E i \in Fold!Due(new) : c \in Fold!ToSet(new[i].calls))
        <=> (\E i \in Fold!Due(ms) : c \in Fold!ToSet(ms[i].calls))
    BY <1>11
  <2> QED BY <1>4, <1>7, <2>1
<1>13. m.role = "assistant" /\ m.calls = <<>> => Fold!Open(new) = Fold!Open(ms)
  <2> SUFFICES ASSUME m.role = "assistant", m.calls = <<>>, NEW c
               PROVE  c \in Fold!Open(new) <=> c \in Fold!Open(ms)
    OBVIOUS
  <2>1. (\E i \in Fold!Due(new) : c \in Fold!ToSet(new[i].calls))
        <=> (\E i \in Fold!Due(ms) : c \in Fold!ToSet(ms[i].calls))
    BY <1>11
  <2> QED BY <1>4, <1>7, <2>1
<1> QED BY <1>9, <1>10, <1>12, <1>13 DEF new

\* A message more in the store.
LEMMA StoredAfter ==
  ASSUME NEW S, Stored(S), NEW m \in Msg, m.id = Len(S) + 1, m.folds = {},
         m.role = "assistant" => \A c \in Fold!ToSet(m.calls) : c[1] = Len(S) + 1,
         m.role = "tool" => Answers(Append(S, m), Len(S) + 1),
         \A c \in Fold!Open(Append(S, m)) : Awaited(Append(S, m), c)
  PROVE  Stored(Append(S, m))
<1> DEFINE new == Append(S, m)
           n == Len(S)
<1>1. /\ n \in Nat /\ DOMAIN S = 1 .. n /\ DOMAIN new = 1 .. n + 1
      /\ new \in Seq(Msg) /\ Len(new) = n + 1
      /\ \A i \in 1 .. n : new[i] = S[i]
      /\ new[n + 1] = m
  BY Appended DEF Stored
<1>2. m.id = n + 1 /\ (m.role = "assistant" => \A c \in Fold!ToSet(m.calls) : c[1] = n + 1)
      /\ (m.role = "tool" => Answers(new, n + 1))
      /\ \A c \in Fold!Open(new) : Awaited(new, c)
  OBVIOUS
<1>3. /\ \A i \in 1 .. n : Placed(S, i)
      /\ \A i \in 1 .. n : S[i].role = "assistant" =>
           \A c \in Fold!ToSet(S[i].calls) : c[1] = i
      /\ \A i \in 1 .. n : S[i].role = "tool" => Answers(S, i)
  BY <1>1 DEF Stored
<1> HIDE DEF new, n
<1>4. \A i \in 1 .. n + 1 : i # n + 1 => i \in 1 .. n
  BY <1>1
<1>5. \A i \in 1 .. n + 1 : Placed(new, i)
  BY <1>1, <1>2, <1>3, <1>4 DEF Placed
<1>6. \A i \in 1 .. n + 1 : new[i].role = "assistant" =>
           \A c \in Fold!ToSet(new[i].calls) : c[1] = i
  BY <1>1, <1>2, <1>3, <1>4
<1>7. \A i \in 1 .. n + 1 : new[i].role = "tool" => Answers(new, i)
  <2> SUFFICES ASSUME NEW i \in 1 .. n, S[i].role = "tool" PROVE Answers(new, i)
    BY <1>1, <1>2, <1>4
  <2> DEFINE k == S[i].calls[1][1]
  <2>1. /\ Len(S[i].calls) = 1 /\ k \in 1 .. i - 1 /\ Fold!Calls(S[k])
        /\ \A j \in k + 1 .. i - 1 : S[j].role = "tool"
    BY <1>3 DEF Answers
  <2>2. new[i] = S[i]
    BY <1>1
  <2> HIDE DEF k
  <2>3. k \in 1 .. n /\ \A j \in k + 1 .. i - 1 : j \in 1 .. n
    BY <1>1, <2>1
  <2>4. new[k] = S[k] /\ \A j \in k + 1 .. i - 1 : new[j] = S[j]
    BY <1>1, <2>3
  <2>5. new[i].calls[1][1] = k
    BY <2>2 DEF k
  <2> QED BY <2>1, <2>2, <2>4, <2>5 DEF Answers
<1> QED BY <1>1, <1>2, <1>5, <1>6, <1>7 DEF Stored, new

\* What waits still waits behind a further result.
LEMMA AwaitedAfter ==
  ASSUME NEW S \in Seq(Msg), NEW m \in Msg, m.role = "tool", NEW c, Awaited(S, c)
  PROVE  Awaited(Append(S, m), c)
<1> DEFINE new == Append(S, m)
           n == Len(S)
<1>1. /\ n \in Nat /\ DOMAIN S = 1 .. n /\ DOMAIN new = 1 .. n + 1
      /\ \A i \in 1 .. n : new[i] = S[i]
      /\ new[n + 1] = m
  BY Appended
<1> HIDE DEF new, n
<1>2. /\ c[1] \in 1 .. n /\ Fold!Calls(S[c[1]]) /\ c \in Fold!ToSet(S[c[1]].calls)
      /\ \A j \in 1 .. n : j > c[1] => S[j].role = "tool"
  BY <1>1 DEF Awaited
<1>3. \A i \in 1 .. n + 1 : i # n + 1 => i \in 1 .. n
  BY <1>1
<1>4. c[1] \in 1 .. n + 1
  BY <1>1, <1>2
<1>5. new[c[1]] = S[c[1]]
  BY <1>1, <1>2
<1>6. \A j \in 1 .. n + 1 : j > c[1] => new[j].role = "tool"
  BY <1>1, <1>2, <1>3
<1> QED BY <1>1, <1>2, <1>4, <1>5, <1>6 DEF Awaited, new

\* What is stored can be shown.
LEMMA ShownAll == ASSUME NEW S, Stored(S) PROVE Shown(S, S)
<1>1. /\ S \in Seq(Msg) /\ Len(S) \in Nat /\ DOMAIN S = 1 .. Len(S)
      /\ \A i \in DOMAIN S : S[i].id = i /\ S[i].folds = {}
  BY DEF Stored, Placed
<1>2. \A p \in DOMAIN S : Worded(S, S, p)
  BY <1>1 DEF Worded
<1>3. FoldsOf(S) = {}
  BY <1>1 DEF FoldsOf
<1>4. IdsOf(S) = DOMAIN S
  BY <1>1 DEF IdsOf
<1>5. FoldsOf(S) \cup IdsOf(S) \cup {0} = 0 .. Len(S)
  BY <1>1, <1>3, <1>4
<1>6. \A i \in DOMAIN S : S[i].role = "tool" => S[i].calls[1][1] \in DOMAIN S
  <2> SUFFICES ASSUME NEW i \in DOMAIN S, S[i].role = "tool"
               PROVE  S[i].calls[1][1] \in DOMAIN S
    OBVIOUS
  <2>1. S[i].calls[1][1] \in 1 .. i - 1
    BY DEF Stored, Answers
  <2> QED BY <1>1, <2>1
<1>7. \A i, j \in DOMAIN S : i < j /\ S[j].id # 0 => S[i].id < S[j].id
  BY <1>1
<1>8. \A i, j \in DOMAIN S : i # j => S[i].folds \cap S[j].folds = {}
  BY <1>1
<1> QED BY <1>1, <1>2, <1>3, <1>4, <1>5, <1>6, <1>7, <1>8 DEF Shown

\* A message more, stored and shown; a result only when its call is shown.
LEMMA ShownAfter ==
  ASSUME NEW S, Stored(S), NEW W, Shown(W, S), NEW m \in Msg,
         m.id = Len(S) + 1, m.folds = {},
         m.role = "tool" => m.calls[1][1] \in IdsOf(W)
  PROVE  Shown(Append(W, m), Append(S, m))
<1> DEFINE T == Append(S, m)
           V == Append(W, m)
           n == Len(S)
           w == Len(W)
<1>1. /\ n \in Nat /\ DOMAIN S = 1 .. n /\ DOMAIN T = 1 .. n + 1
      /\ Len(T) = n + 1 /\ \A i \in 1 .. n : T[i] = S[i]
      /\ T[n + 1] = m
  BY Appended DEF Stored
<1>2. /\ w \in Nat /\ DOMAIN W = 1 .. w /\ DOMAIN V = 1 .. w + 1
      /\ V \in Seq(Msg) /\ \A i \in 1 .. w : V[i] = W[i]
      /\ V[w + 1] = m
  BY Appended DEF Shown
<1>3. m.id = n + 1 /\ m.folds = {} /\ (m.role = "tool" => m.calls[1][1] \in IdsOf(W))
  OBVIOUS
<1>4. /\ \A p \in 1 .. w : Worded(W, S, p)
      /\ FoldsOf(W) \cap IdsOf(W) = {} /\ 0 \notin FoldsOf(W)
      /\ FoldsOf(W) \cup IdsOf(W) \cup {0} = 0 .. n
      /\ \A i, j \in 1 .. w : i < j /\ W[j].id # 0 => W[i].id < W[j].id
      /\ \A i, j \in 1 .. w : i # j => W[i].folds \cap W[j].folds = {}
      /\ \A i \in 1 .. n : S[i].role = "tool" =>
           (i \in IdsOf(W) <=> S[i].calls[1][1] \in IdsOf(W))
  BY <1>1, <1>2 DEF Shown
<1>5. \A i \in 1 .. n : S[i].role = "tool" => S[i].calls[1][1] \in 1 .. i - 1
  BY <1>1 DEF Stored, Answers
<1> HIDE DEF T, V, n, w
<1>6. (\A i \in 1 .. w + 1 : i # w + 1 => i \in 1 .. w) /\ w + 1 \in 1 .. w + 1
      /\ (\A i \in 1 .. n + 1 : i # n + 1 => i \in 1 .. n)
      /\ (\A i \in 1 .. n : i \in 1 .. n + 1 /\ i # n + 1)
      /\ (\A i \in 1 .. w : i \in 1 .. w + 1 /\ i # w + 1)
      /\ n + 1 # 0 /\ n + 1 \in 1 .. n + 1
  BY <1>1, <1>2
<1>7. IdsOf(V) = IdsOf(W) \cup {n + 1}
  BY <1>2, <1>3, <1>6 DEF IdsOf
<1>8. FoldsOf(V) = FoldsOf(W)
  <2> SUFFICES ASSUME NEW x PROVE x \in FoldsOf(V) <=> x \in FoldsOf(W)
    OBVIOUS
  <2>1. (x \in FoldsOf(V) <=> \E p \in 1 .. w + 1 : x \in V[p].folds)
        /\ (x \in FoldsOf(W) <=> \E p \in 1 .. w : x \in W[p].folds)
    BY <1>2 DEF FoldsOf
  <2> QED BY <1>2, <1>3, <1>6, <2>1
<1>9. \A p \in DOMAIN V : Worded(V, T, p)
  <2> SUFFICES ASSUME NEW p \in 1 .. w + 1 PROVE Worded(V, T, p)
    BY <1>2
  <2>1. CASE p = w + 1
    <3>1. V[p].id # 0 /\ V[p].id \in DOMAIN T /\ V[p] = T[V[p].id]
      BY <1>1, <1>2, <1>3, <1>6, <2>1
    <3> QED BY <3>1 DEF Worded
  <2>2. CASE p # w + 1
    <3>1. p \in 1 .. w /\ Worded(W, S, p) /\ V[p] = W[p]
      BY <1>2, <1>4, <1>6, <2>2
    <3>2. CASE W[p].id = 0
      <4>1. \A q \in 1 .. p : q \in 1 .. w
        BY <1>2, <3>1
      <4>2. \A q \in 1 .. p : V[q] = W[q]
        BY <1>2, <4>1
      <4> QED BY <3>1, <3>2, <4>2 DEF Worded
    <3>3. CASE W[p].id # 0
      <4>1. W[p].id \in 1 .. n /\ W[p] = S[W[p].id]
        BY <1>1, <3>1, <3>3 DEF Worded
      <4> QED BY <1>1, <1>6, <3>1, <3>3, <4>1 DEF Worded
    <3> QED BY <3>2, <3>3
  <2> QED BY <2>1, <2>2
<1>10. n + 1 \notin FoldsOf(W) /\ n + 1 \notin IdsOf(W) /\ \A x \in IdsOf(W) : x \in 0 .. n
  BY <1>1, <1>4
<1>11. FoldsOf(V) \cap IdsOf(V) = {} /\ 0 \notin FoldsOf(V)
  BY <1>4, <1>7, <1>8, <1>10
<1>12. FoldsOf(V) \cup IdsOf(V) \cup {0} = 0 .. Len(T)
  <2>1. 0 .. n + 1 = (0 .. n) \cup {n + 1}
    BY <1>1
  <2> QED BY <1>1, <1>4, <1>7, <1>8, <2>1
<1>13. ASSUME NEW i \in DOMAIN V, NEW j \in DOMAIN V, i < j, V[j].id # 0
       PROVE  V[i].id < V[j].id
  <2>1. i \in 1 .. w
    BY <1>2, <1>13
  <2>2. CASE j = w + 1
    <3>1. V[i].id \in 0 .. n
      BY <1>2, <1>10, <2>1 DEF IdsOf
    <3> QED BY <1>1, <1>2, <1>3, <2>2, <3>1
  <2>3. CASE j # w + 1
    BY <1>2, <1>4, <1>6, <1>13, <2>1, <2>3
  <2> QED BY <2>2, <2>3
<1>14. \A i, j \in DOMAIN V : i # j => V[i].folds \cap V[j].folds = {}
  BY <1>2, <1>3, <1>4, <1>6
<1>15. ASSUME NEW i \in DOMAIN T, T[i].role = "tool"
       PROVE  i \in IdsOf(V) <=> T[i].calls[1][1] \in IdsOf(V)
  <2>1. CASE i = n + 1
    BY <1>1, <1>3, <1>7, <1>15, <2>1
  <2>2. CASE i # n + 1
    <3>1. i \in 1 .. n /\ T[i] = S[i] /\ S[i].role = "tool"
      BY <1>1, <1>6, <1>15, <2>2
    <3>2. S[i].calls[1][1] \in 1 .. i - 1
      BY <1>5, <3>1
    <3>3. S[i].calls[1][1] # n + 1
      BY <1>1, <3>1, <3>2
    <3> QED BY <1>4, <1>7, <2>2, <3>1, <3>3
  <2> QED BY <2>1, <2>2
<1> QED BY <1>2, <1>9, <1>11, <1>12, <1>13, <1>14, <1>15 DEF Shown, T, V

\* A fold moves the messages between the leading ones and the cut into the summary, and
\* with each of them all it is paired with.
LEMMA ShownFolded ==
  ASSUME RecentWindow \in Nat, NEW S, Stored(S), NEW W, Shown(W, S), Fold!Compact(W) # W
  PROVE  Shown(Fold!Compact(W), S)
<1> DEFINE F == Fold!LeadingSystemCount(W)
           P == Fold!ProtectRecentMessages(W)
           V == Fold!Compact(W)
           w == Len(W)
           n == Len(S)
           O == {W[i].id : i \in F + 1 .. P}
           From(i) == IF i <= F THEN i ELSE i + P - F - 1
<1>1. W \in Seq(Msg) /\ w \in Nat /\ DOMAIN W = 1 .. w /\ n \in Nat /\ DOMAIN S = 1 .. n
  BY DEF Shown, Stored
<1>2. /\ F \in 0 .. w /\ P \in F + 1 .. w /\ V \in Seq(Msg) /\ Len(V) = F + 1 + (w - P)
      /\ \A i \in 1 .. F : V[i] = W[i]
      /\ V[F + 1] = [id |-> 0, role |-> "system", calls |-> <<>>, folds |-> O]
      /\ \A i \in F + 2 .. Len(V) : V[i] = W[i + P - F - 1]
  BY <1>1, Compacted
<1>3. (\A i \in 1 .. F : W[i].role = "system") /\ (F < w => W[F + 1].role # "system")
  BY <1>1, Leading
<1>4. ~Fold!Splits(W, P)
  BY <1>1, <1>2, CutPlace
<1>5. /\ \A p \in 1 .. w : Worded(W, S, p)
      /\ FoldsOf(W) \cap IdsOf(W) = {} /\ 0 \notin FoldsOf(W)
      /\ FoldsOf(W) \cup IdsOf(W) \cup {0} = 0 .. n
      /\ \A i, j \in 1 .. w : i < j /\ W[j].id # 0 => W[i].id < W[j].id
      /\ \A i, j \in 1 .. w : i # j => W[i].folds \cap W[j].folds = {}
      /\ \A i \in 1 .. n : S[i].role = "tool" =>
           (i \in IdsOf(W) <=> S[i].calls[1][1] \in IdsOf(W))
  BY <1>1 DEF Shown
<1>6. /\ \A i \in 1 .. n : S[i].id = i /\ S[i].folds = {}
      /\ \A i \in 1 .. n : S[i].role = "tool" => Answers(S, i)
  BY <1>1 DEF Stored, Placed
<1> HIDE DEF F, P, V, w, n, O
<1>7. F \in Nat /\ P \in Nat /\ F + 1 <= P /\ P <= w
  BY <1>1, <1>2
\* Behind the leading messages there is no summary.
<1>8. ASSUME NEW p \in F + 1 .. w
      PROVE  p \in 1 .. w /\ W[p].id \in 1 .. n /\ W[p] = S[W[p].id] /\ W[p].folds = {}
  <2>1. p \in 1 .. w /\ F + 1 \in 1 .. p /\ F < w
    BY <1>1, <1>7
  <2>2. W[p].id # 0
    <3> SUFFICES ASSUME W[p].id = 0 PROVE FALSE
      OBVIOUS
    <3>1. Worded(W, S, p)
      BY <1>5, <2>1
    <3>2. W[F + 1].role = "system"
      BY <2>1, <3>1 DEF Worded
    <3> QED BY <1>3, <2>1, <3>2
  <2>3. W[p].id \in 1 .. n /\ W[p] = S[W[p].id]
    BY <1>1, <1>5, <2>1, <2>2 DEF Worded
  <2>4. S[W[p].id].folds = {}
    BY <1>6, <2>3
  <2> QED BY <2>1, <2>3, <2>4
<1>9. (\A i \in F + 1 .. P : i \in F + 1 .. w) /\ 0 \notin O /\ O \subseteq IdsOf(W)
  <2>1. \A i \in F + 1 .. P : i \in F + 1 .. w
    BY <1>1, <1>7
  <2>2. \A i \in F + 1 .. P : W[i].id # 0 /\ W[i].id \in IdsOf(W)
    BY <1>1, <1>8, <2>1 DEF IdsOf
  <2> QED BY <2>1, <2>2 DEF O
\* Where the messages that stay come from.
<1>10. DOMAIN V = 1 .. F + 1 + (w - P)
  BY <1>2
<1>11. ASSUME NEW i \in DOMAIN V, i # F + 1
       PROVE  /\ From(i) \in 1 .. w /\ From(i) \notin F + 1 .. P /\ V[i] = W[From(i)]
              /\ i < F + 1 => From(i) = i
              /\ i > F + 1 => From(i) > P
  <2>1. CASE i <= F
    <3>1. i \in 1 .. F /\ i \in 1 .. w /\ i \notin F + 1 .. P
      BY <1>1, <1>7, <1>10, <2>1
    <3> QED BY <1>2, <1>7, <2>1, <3>1
  <2>2. CASE ~ (i <= F)
    <3>1. i \in F + 2 .. Len(V) /\ i + P - F - 1 \in P + 1 .. w
      BY <1>1, <1>2, <1>7, <1>10, <1>11, <2>2
    <3>2. i + P - F - 1 \in 1 .. w /\ i + P - F - 1 \notin F + 1 .. P /\ i + P - F - 1 > P
      BY <1>1, <1>7, <3>1
    <3>3. V[i] = W[i + P - F - 1] /\ ~ (i < F + 1)
      BY <1>2, <1>7, <2>2, <3>1
    <3> QED BY <2>2, <3>2, <3>3
  <2> QED BY <2>1, <2>2
<1>12. ASSUME NEW p \in 1 .. w, p \notin F + 1 .. P
       PROVE  \E i \in DOMAIN V : i # F + 1 /\ V[i] = W[p]
  <2>1. CASE p <= F
    <3>1. p \in 1 .. F /\ p \in DOMAIN V /\ p # F + 1
      BY <1>1, <1>7, <1>10, <2>1
    <3> QED BY <1>2, <3>1
  <2>2. CASE ~ (p <= F)
    <3> DEFINE i == p - P + F + 1
    <3>1. i \in F + 2 .. Len(V) /\ i \in DOMAIN V /\ i # F + 1 /\ i + P - F - 1 = p
      BY <1>1, <1>2, <1>7, <1>10, <1>12, <2>2
    <3> QED BY <1>2, <3>1
  <2> QED BY <2>1, <2>2
<1>13. F + 1 \in DOMAIN V /\ V[F + 1].id = 0 /\ V[F + 1].role = "system"
       /\ V[F + 1].calls = <<>> /\ V[F + 1].folds = O
  BY <1>1, <1>2, <1>7, <1>10
\* The identities that are left.
<1>14. IdsOf(V) = (IdsOf(W) \ O) \cup {0}
  <2> SUFFICES ASSUME NEW x
               PROVE  x \in IdsOf(V) <=> (x \in IdsOf(W) /\ x \notin O) \/ x = 0
    OBVIOUS
  <2>1. ASSUME x \in IdsOf(V) PROVE (x \in IdsOf(W) /\ x \notin O) \/ x = 0
    <3>1. PICK i \in DOMAIN V : x = V[i].id
      BY <2>1 DEF IdsOf
    <3>2. CASE i = F + 1
      BY <1>13, <3>1, <3>2
    <3>3. CASE i # F + 1
      <4> DEFINE p == From(i)
      <4>1. p \in 1 .. w /\ p \notin F + 1 .. P /\ x = W[p].id
        BY <1>11, <3>1, <3>3
      <4> HIDE DEF p
      <4>2. x \in IdsOf(W)
        BY <1>1, <4>1 DEF IdsOf
      <4>3. x \notin O \/ x = 0
        <5> SUFFICES ASSUME NEW q \in F + 1 .. P, x = W[q].id, x # 0 PROVE FALSE
          BY DEF O
        <5>1. q \in 1 .. w /\ p # q
          BY <1>1, <1>7, <4>1
        <5>2. x \in 1 .. n
          BY <1>8, <1>9
        <5>3. p < q \/ q < p
          BY <1>1, <4>1, <5>1
        <5>4. W[p].id < W[q].id \/ W[q].id < W[p].id
          BY <1>5, <4>1, <5>1, <5>3
        <5> QED BY <4>1, <5>2, <5>4
      <4> QED BY <4>2, <4>3
    <3> QED BY <3>2, <3>3
  <2>2. ASSUME x \in IdsOf(W), x \notin O PROVE x \in IdsOf(V)
    <3>1. PICK p \in 1 .. w : x = W[p].id
      BY <1>1, <2>2 DEF IdsOf
    <3>2. p \notin F + 1 .. P
      BY <2>2, <3>1 DEF O
    <3>3. PICK i \in DOMAIN V : V[i] = W[p]
      BY <1>12, <3>2
    <3> QED BY <3>1, <3>3 DEF IdsOf
  <2>3. 0 \in IdsOf(V)
    BY <1>13 DEF IdsOf
  <2> QED BY <2>1, <2>2, <2>3
<1>15. FoldsOf(V) = FoldsOf(W) \cup O
  <2> SUFFICES ASSUME NEW x PROVE x \in FoldsOf(V) <=> x \in FoldsOf(W) \/ x \in O
    OBVIOUS
  <2>1. (x \in FoldsOf(V) <=> \E i \in DOMAIN V : x \in V[i].folds)
        /\ (x \in FoldsOf(W) <=> \E p \in 1 .. w : x \in W[p].folds)
    BY <1>1 DEF FoldsOf
  <2>2. ASSUME x \in FoldsOf(V) PROVE x \in FoldsOf(W) \/ x \in O
    BY <1>11, <1>13, <2>1, <2>2
  <2>3. ASSUME NEW p \in 1 .. w, x \in W[p].folds PROVE x \in FoldsOf(V)
    <3>1. p \notin F + 1 .. P
      BY <1>8, <1>9, <2>3
    <3> QED BY <1>12, <2>1, <2>3, <3>1
  <2>4. ASSUME x \in O PROVE x \in FoldsOf(V)
    BY <1>13, <2>1, <2>4
  <2> QED BY <2>1, <2>2, <2>3, <2>4
<1>16. \A i \in DOMAIN V : Worded(V, S, i)
  <2> SUFFICES ASSUME NEW i \in DOMAIN V PROVE Worded(V, S, i)
    OBVIOUS
  <2>1. \A q \in 1 .. F + 1 : V[q].role = "system"
    <3>1. \A q \in 1 .. F + 1 : q = F + 1 \/ q \in 1 .. F
      BY <1>7
    <3> QED BY <1>2, <1>3, <1>13, <3>1
  <2>2. CASE i = F + 1
    BY <1>13, <2>1, <2>2 DEF Worded, IsSummary
  <2>3. CASE i # F + 1
    <3> DEFINE p == From(i)
    <3>1. p \in 1 .. w /\ V[i] = W[p] /\ (i < F + 1 => p = i) /\ (i > F + 1 => p > P)
      BY <1>11, <2>3
    <3> HIDE DEF p
    <3>2. CASE W[p].id # 0
      BY <1>5, <3>1, <3>2 DEF Worded
    <3>3. CASE W[p].id = 0
      <4>1. p \notin F + 1 .. w
        <5>1. 0 \notin 1 .. n
          BY <1>1
        <5> QED BY <1>8, <3>3, <5>1
      <4>2. i < F + 1 /\ \A q \in 1 .. i : q \in 1 .. F + 1
        BY <1>1, <1>7, <1>10, <2>3, <3>1, <4>1
      <4>3. IsSummary(W[p])
        BY <1>5, <3>1, <3>3 DEF Worded
      <4> QED BY <2>1, <3>1, <3>3, <4>2, <4>3 DEF Worded
    <3> QED BY <3>2, <3>3
  <2> QED BY <2>2, <2>3
<1>17. FoldsOf(V) \cap IdsOf(V) = {} /\ 0 \notin FoldsOf(V)
  BY <1>5, <1>9, <1>14, <1>15
<1>18. FoldsOf(V) \cup IdsOf(V) \cup {0} = 0 .. n
  BY <1>5, <1>9, <1>14, <1>15
<1>19. ASSUME NEW i \in DOMAIN V, NEW j \in DOMAIN V, i < j, V[j].id # 0
       PROVE  V[i].id < V[j].id
  <2>1. j # F + 1
    BY <1>13, <1>19
  <2> DEFINE q == From(j)
  <2>2. q \in 1 .. w /\ V[j] = W[q] /\ (j < F + 1 => q = j) /\ (j > F + 1 => q > P)
    BY <1>11, <2>1
  <2>3. CASE i = F + 1
    <3>1. V[j].id \in Nat
      <4>1. V[j] \in Msg
        BY <1>2
      <4> QED BY <4>1 DEF Msg
    <3> QED BY <1>13, <1>19, <2>3, <3>1
  <2>4. CASE i # F + 1
    <3> DEFINE p == From(i)
    <3>1. p \in 1 .. w /\ V[i] = W[p] /\ p < q
      <4>1. p \in 1 .. w /\ V[i] = W[p]
        BY <1>11, <2>4
      <4>2. p < q
        BY <1>7, <1>10, <1>19
      <4> QED BY <4>1, <4>2
    <3> HIDE DEF p, q
    <3> QED BY <1>5, <1>19, <2>2, <3>1
  <2> QED BY <2>3, <2>4
<1>20. ASSUME NEW i \in DOMAIN V, NEW j \in DOMAIN V, i # j
       PROVE  V[i].folds \cap V[j].folds = {}
  <2>1. ASSUME NEW k \in DOMAIN V, k # F + 1 PROVE V[k].folds \cap O = {}
    <3>1. V[k].folds \subseteq FoldsOf(W)
      BY <1>1, <1>11, <2>1 DEF FoldsOf
    <3> QED BY <1>5, <1>9, <3>1
  <2>2. CASE i # F + 1 /\ j # F + 1
    <3>1. From(i) # From(j)
      BY <1>7, <1>10, <1>20, <2>2
    <3>2. From(i) \in 1 .. w /\ From(j) \in 1 .. w
          /\ V[i] = W[From(i)] /\ V[j] = W[From(j)]
      BY <1>11, <2>2
    <3> HIDE DEF From
    <3> QED BY <1>5, <3>1, <3>2
  <2> QED BY <1>13, <1>20, <2>1, <2>2
\* A call and its result stay or go together.
<1>21. ASSUME NEW i \in DOMAIN S, S[i].role = "tool"
       PROVE  i \in IdsOf(V) <=> S[i].calls[1][1] \in IdsOf(V)
  <2> DEFINE k == S[i].calls[1][1]
  <2>1. /\ i \in 1 .. n /\ k \in 1 .. i - 1 /\ Fold!Calls(S[k])
        /\ \A j \in k + 1 .. i - 1 : S[j].role = "tool"
        /\ (i \in IdsOf(W) <=> k \in IdsOf(W))
    BY <1>1, <1>5, <1>6, <1>21 DEF Answers
  <2> HIDE DEF k
  <2>2. k \in 1 .. n /\ i # 0 /\ k # 0 /\ k < i
    BY <1>1, <2>1
  <2>3. ASSUME i \in IdsOf(W), k \in IdsOf(W) PROVE i \in O <=> k \in O
    <3>1. PICK p \in 1 .. w : W[p].id = i
      BY <1>1, <2>3 DEF IdsOf
    <3>2. PICK q \in 1 .. w : W[q].id = k
      BY <1>1, <2>3 DEF IdsOf
    <3>3. q < p
      <4>1. q = p \/ p < q \/ q < p
        BY <1>1
      <4>2. p < q => W[p].id < W[q].id
        BY <1>5, <2>2, <3>2
      <4> QED BY <1>1, <2>1, <2>2, <3>1, <3>2, <4>1, <4>2
    <3>4. W[q] = S[k]
      BY <1>5, <2>2, <3>2 DEF Worded
    <3>5. q \notin 1 .. F
      BY <1>3, <2>1, <3>4 DEF Fold!Calls
    <3>6. i \in O <=> p \in F + 1 .. P
      <4>1. ASSUME i \in O PROVE p \in F + 1 .. P
        <5>1. PICK r \in F + 1 .. P : W[r].id = i
          BY <4>1 DEF O
        <5>2. r \in 1 .. w /\ (r = p \/ r < p \/ p < r)
          BY <1>1, <1>7
        <5>3. (r < p => W[r].id < W[p].id) /\ (p < r => W[p].id < W[r].id)
          BY <1>5, <2>2, <3>1, <5>1, <5>2
        <5> QED BY <1>1, <2>1, <3>1, <5>1, <5>2, <5>3
      <4> QED BY <3>1, <4>1 DEF O
    <3>7. k \in O <=> q \in F + 1 .. P
      <4>1. ASSUME k \in O PROVE q \in F + 1 .. P
        <5>1. PICK r \in F + 1 .. P : W[r].id = k
          BY <4>1 DEF O
        <5>2. r \in 1 .. w /\ (r = q \/ r < q \/ q < r)
          BY <1>1, <1>7
        <5>3. (r < q => W[r].id < W[q].id) /\ (q < r => W[q].id < W[r].id)
          BY <1>5, <2>2, <3>2, <5>1, <5>2
        <5> QED BY <1>1, <2>2, <3>2, <5>1, <5>2, <5>3
      <4> QED BY <3>2, <4>1 DEF O
    <3>8. ASSUME q <= P, ~ (p <= P) PROVE FALSE
      <4>1. P + 1 \in F + 1 .. w /\ P + 1 \in 1 .. w /\ q < P + 1 /\ (P + 1 = p \/ P + 1 < p)
        BY <1>1, <1>7, <3>3, <3>8
      <4> DEFINE j == W[P + 1].id
      <4>2. j \in 1 .. n /\ W[P + 1] = S[j]
        BY <1>8, <4>1
      <4>3. k < j
        BY <1>5, <3>2, <4>1, <4>2
      <4>4. j = i \/ j < i
        BY <1>5, <2>2, <3>1, <4>1
      <4> HIDE DEF j
      <4>5. S[j].role = "tool"
        <5>1. CASE j = i BY <1>21, <5>1
        <5>2. CASE j < i
          <6>1. j \in k + 1 .. i - 1
            BY <1>1, <2>1, <2>2, <4>2, <4>3, <5>2
          <6> QED BY <2>1, <6>1
        <5> QED BY <4>4, <5>1, <5>2
      <4>6. P < w
        BY <1>1, <1>7, <4>1
      <4> QED BY <1>4, <4>2, <4>5, <4>6 DEF Fold!Splits, w
    <3> QED BY <1>1, <1>7, <3>3, <3>5, <3>6, <3>7, <3>8
  <2>4. i \in IdsOf(V) <=> k \in IdsOf(V)
    BY <1>14, <2>1, <2>2, <2>3
  <2> QED BY <2>4 DEF k
<1> QED BY <1>2, <1>16, <1>17, <1>18, <1>19, <1>20, <1>21 DEF Shown, V, n

LEMMA FoldInit == Fold!Setting /\ Fold!Init => FoldInv
<1> SUFFICES ASSUME Fold!Init PROVE FoldInv
  OBVIOUS
<1> DEFINE m == [id |-> 1, role |-> "system", calls |-> <<>>, folds |-> {}]
<1>1. savedMessages = <<m>> /\ foldAt = "idle"
  BY DEF Fold!Init
<1>2. m \in Msg /\ m.id = 1 /\ m.role = "system" /\ m.folds = {}
  <2>1. <<>> \in Seq(Nat \X Nat)
    OBVIOUS
  <2> QED BY <2>1 DEF Msg
<1> HIDE DEF m
<1>3. savedMessages \in Seq(Msg) /\ Len(savedMessages) = 1 /\ DOMAIN savedMessages = {1}
      /\ savedMessages[1] = m
  BY <1>1, <1>2
<1>4. Fold!Open(savedMessages) = {}
  <2>1. Fold!Due(savedMessages) = {}
    BY <1>2, <1>3 DEF Fold!Due, Fold!Calls
  <2> QED BY <1>3, <2>1, OpenSays
<1>5. Stored(savedMessages)
  BY <1>2, <1>3, <1>4 DEF Stored, Placed
<1> QED BY <1>1, <1>5 DEF FoldInv

\* Everything shown as a result is stored as one.
LEMMA ResultsAreStored ==
  ASSUME NEW S, Stored(S), NEW W, Shown(W, S)
  PROVE  Fold!Results(W) \subseteq Fold!Results(S)
<1> SUFFICES ASSUME NEW c, c \in Fold!Results(W) PROVE c \in Fold!Results(S)
  OBVIOUS
<1>1. S \in Seq(Msg) /\ W \in Seq(Msg)
  BY DEF Stored, Shown
<1>2. PICK p \in DOMAIN W : W[p].role = "tool" /\ c \in Fold!ToSet(W[p].calls)
  BY <1>1, ResultsSay
<1>3. W[p].id \in DOMAIN S /\ W[p] = S[W[p].id]
  BY <1>2 DEF Shown, Worded, IsSummary
<1> QED BY <1>1, <1>2, <1>3, ResultsSay

\* An open call of what is shown is a call of a stored message that is shown too.
LEMMA OpenIsShown ==
  ASSUME NEW S, Stored(S), NEW W, Shown(W, S), NEW c \in Fold!Open(W)
  PROVE  /\ c \in Nat \X Nat /\ c[1] \in IdsOf(W)
<1>1. S \in Seq(Msg) /\ W \in Seq(Msg)
  BY DEF Stored, Shown
<1>2. PICK p \in Fold!Due(W) : c \in Fold!ToSet(W[p].calls)
  BY <1>1, OpenSays
<1>3. p \in DOMAIN W /\ W[p].role = "assistant" /\ W[p].calls # <<>> /\ W[p] \in Msg
  BY <1>1, <1>2 DEF Fold!Due, Fold!Calls
<1>4. W[p].id \in DOMAIN S /\ W[p] = S[W[p].id]
  BY <1>3 DEF Shown, Worded, IsSummary
<1>5. c[1] = W[p].id
  BY <1>2, <1>3, <1>4 DEF Stored, Placed
<1>6. W[p].calls \in Seq(Nat \X Nat)
  BY <1>3 DEF Msg
<1>7. c \in Nat \X Nat
  BY <1>2, <1>6 DEF Fold!ToSet
<1> QED BY <1>3, <1>5, <1>7 DEF IdsOf

\* The two loads of the store.
LEMMA SendKeeps == Fold!Setting /\ FoldInv /\ Fold!SendMessage => FoldInv'
<1> SUFFICES ASSUME FoldInv, Fold!SendMessage PROVE FoldInv'
  OBVIOUS
<1> DEFINE S == savedMessages
           m == Fold!Message("user", <<>>)
           new == Append(S, m)
<1>1. savedMessages' = new /\ window' = savedMessages' /\ foldAt' = "head"
  BY DEF Fold!SendMessage
<1>2. m = [id |-> Len(S) + 1, role |-> "user", calls |-> <<>>, folds |-> {}]
  BY DEF Fold!Message
<1>3. Stored(S) /\ S \in Seq(Msg) /\ Len(S) \in Nat
  BY DEF FoldInv, Stored
<1> HIDE DEF m, S
<1>4. m \in Msg /\ m.id = Len(S) + 1 /\ m.role = "user" /\ m.folds = {}
  <2>1. <<>> \in Seq(Nat \X Nat)
    OBVIOUS
  <2> QED BY <1>2, <1>3, <2>1 DEF Msg
<1>5. Fold!Open(new) = {}
  BY <1>3, <1>4, OpenAfter
<1>6. Stored(new)
  BY <1>3, <1>4, <1>5, StoredAfter
<1>7. Shown(new, new)
  BY <1>6, ShownAll
<1> HIDE DEF new
<1> QED BY <1>1, <1>5, <1>6, <1>7 DEF FoldInv

LEMMA ResumeKeeps == Fold!Setting /\ FoldInv /\ Fold!Resume => FoldInv'
<1> SUFFICES ASSUME FoldInv, Fold!Resume PROVE FoldInv'
  OBVIOUS
<1>1. /\ window' = savedMessages /\ savedMessages' = savedMessages
      /\ foldAt' = IF Fold!Open(savedMessages) = {} THEN "head" ELSE "tools"
  BY DEF Fold!Resume
<1>2. Stored(savedMessages) /\ Shown(savedMessages, savedMessages)
  BY ShownAll DEF FoldInv
<1>3. \A c \in Fold!Open(savedMessages) : Awaited(savedMessages, c)
  BY <1>2 DEF Stored
<1>4. CASE Fold!Open(savedMessages) = {}
  BY <1>1, <1>2, <1>4 DEF FoldInv
<1>5. CASE Fold!Open(savedMessages) # {}
  BY <1>1, <1>2, <1>3, <1>5 DEF FoldInv
<1> QED BY <1>4, <1>5

LEMMA FoldKeeps == Fold!Setting /\ FoldInv /\ Fold!NeedsCompaction => FoldInv'
<1> SUFFICES ASSUME Fold!Setting, FoldInv, Fold!NeedsCompaction PROVE FoldInv'
  OBVIOUS
<1>1. /\ foldAt = "head" /\ Fold!Compact(window) # window /\ RecentWindow \in Nat
      /\ window' = Fold!Compact(window) /\ savedMessages' = savedMessages /\ foldAt' = foldAt
  BY DEF Fold!NeedsCompaction, Fold!Setting
<1>2. Stored(savedMessages) /\ Shown(window, savedMessages) /\ Fold!Open(savedMessages) = {}
  BY <1>1 DEF FoldInv
<1>3. Shown(Fold!Compact(window), savedMessages)
  BY <1>1, <1>2, ShownFolded
<1> QED BY <1>1, <1>2, <1>3 DEF FoldInv

\* A reply, with calls or without.
LEMMA TurnKeeps == Fold!Setting /\ FoldInv /\ Fold!Turn => FoldInv'
<1> SUFFICES ASSUME Fold!Setting, FoldInv, Fold!Turn PROVE FoldInv'
  OBVIOUS
<1>1. PICK n \in 0 .. MaxBatch :
        Fold!Add(Fold!Reply(n)) /\ foldAt' = IF n = 0 THEN "idle" ELSE "tools"
  BY DEF Fold!Turn
<1>2. foldAt = "head" /\ n \in Nat
  BY <1>1 DEF Fold!Turn, Fold!Setting
<1> DEFINE S == savedMessages
           W == window
           asked == [i \in 1 .. n |-> <<Len(S) + 1, i>>]
           m == Fold!Reply(n)
           T == Append(S, m)
           V == Append(W, m)
<1>3. savedMessages' = T /\ window' = V
  BY <1>1 DEF Fold!Add
<1>4. Stored(S) /\ Shown(W, S) /\ S \in Seq(Msg) /\ W \in Seq(Msg) /\ Len(S) \in Nat
      /\ Fold!Open(S) = {}
  BY <1>2 DEF FoldInv, Stored, Shown
<1>5. m = [id |-> Len(S) + 1, role |-> "assistant", calls |-> asked, folds |-> {}]
  BY DEF Fold!Reply, Fold!Message
<1> HIDE DEF m, S, W
<1>6. /\ asked \in Seq(Nat \X Nat) /\ DOMAIN asked = 1 .. n /\ (n # 0 => asked # <<>>)
      /\ (n = 0 => asked = <<>>) /\ \A i \in 1 .. n : asked[i] = <<Len(S) + 1, i>>
  <2>1. \A i \in 1 .. n : <<Len(S) + 1, i>> \in Nat \X Nat
    BY <1>2, <1>4
  <2> QED BY <1>2, <2>1
<1> HIDE DEF asked
<1>7. m \in Msg /\ m.id = Len(S) + 1 /\ m.role = "assistant" /\ m.calls = asked /\ m.folds = {}
  BY <1>4, <1>5, <1>6 DEF Msg
<1>8. \A c \in Fold!ToSet(asked) : c[1] = Len(S) + 1
  BY <1>6 DEF Fold!ToSet
<1>9. /\ DOMAIN T = 1 .. Len(S) + 1 /\ T[Len(S) + 1] = m
  BY <1>4, <1>7, Appended
<1>10. CASE n = 0
  <2>1. Fold!Open(T) = {}
    BY <1>4, <1>6, <1>7, <1>10, OpenAfter
  <2>2. Stored(T)
    BY <1>4, <1>7, <1>8, <2>1, StoredAfter
  <2> HIDE DEF T, V
  <2> QED BY <1>1, <1>3, <1>10, <2>2 DEF FoldInv
<1>11. CASE n # 0
  <2>1. Fold!Calls(m)
    BY <1>6, <1>7, <1>11 DEF Fold!Calls
  <2>2. Fold!Open(T) = Fold!ToSet(asked) \ Fold!Results(S)
        /\ Fold!Open(V) = Fold!ToSet(asked) \ Fold!Results(W)
    BY <1>4, <1>7, <2>1, OpenAfter
  <2>3. Fold!Open(T) \subseteq Fold!Open(V)
    BY <1>4, <2>2, ResultsAreStored
  <2>4. \A c \in Fold!ToSet(asked) : Awaited(T, c)
    <3> SUFFICES ASSUME NEW c \in Fold!ToSet(asked) PROVE Awaited(T, c)
      OBVIOUS
    <3>1. c[1] = Len(S) + 1 /\ Len(S) + 1 \in 1 .. Len(S) + 1
          /\ ~ \E j \in 1 .. Len(S) + 1 : j > Len(S) + 1
      BY <1>4, <1>8
    <3> HIDE DEF T
    <3> QED BY <1>7, <1>9, <2>1, <3>1 DEF Awaited
  <2>5. \A c \in Fold!Open(T) : Awaited(T, c)
    BY <2>2, <2>4
  <2>6. Stored(T)
    BY <1>4, <1>7, <1>8, <2>5, StoredAfter
  <2>7. Shown(V, T)
    BY <1>4, <1>7, ShownAfter
  <2>8. \A c \in Fold!Open(V) : Awaited(T, c)
    BY <2>2, <2>4
  <2> HIDE DEF T, V
  <2> QED BY <1>1, <1>3, <1>11, <2>3, <2>6, <2>7, <2>8 DEF FoldInv
<1> QED BY <1>10, <1>11

\* A result, of an open call.
LEMMA ResultKeeps == Fold!Setting /\ FoldInv /\ Fold!ToolResult => FoldInv'
<1> SUFFICES ASSUME FoldInv, Fold!ToolResult PROVE FoldInv'
  OBVIOUS
<1>1. PICK c \in Fold!Open(window) :
        /\ Fold!Add(Fold!Message("tool", <<c>>))
        /\ foldAt' = IF Fold!Open(window) = {c} THEN "head" ELSE "tools"
  BY DEF Fold!ToolResult
<1> DEFINE S == savedMessages
           W == window
           asked == <<c>>
           m == Fold!Message("tool", asked)
           T == Append(S, m)
           V == Append(W, m)
<1>2. savedMessages' = T /\ window' = V /\ foldAt = "tools"
  BY <1>1 DEF Fold!Add, Fold!ToolResult
<1>3. /\ Stored(S) /\ Shown(W, S) /\ S \in Seq(Msg) /\ W \in Seq(Msg) /\ Len(S) \in Nat
      /\ Fold!Open(S) \subseteq Fold!Open(W) /\ \A d \in Fold!Open(W) : Awaited(S, d)
  BY <1>2 DEF FoldInv, Stored, Shown
<1>4. m = [id |-> Len(S) + 1, role |-> "tool", calls |-> asked, folds |-> {}]
  BY DEF Fold!Message
<1>5. c \in Nat \X Nat /\ c[1] \in IdsOf(W) /\ Awaited(S, c) /\ c \in Fold!Open(W)
      /\ (foldAt' = IF Fold!Open(W) = {c} THEN "head" ELSE "tools")
  BY <1>1, <1>3, OpenIsShown
<1> HIDE DEF m, S, W
<1>6. asked \in Seq(Nat \X Nat) /\ Len(asked) = 1 /\ asked[1] = c /\ Fold!ToSet(asked) = {c}
  <2>1. asked \in Seq(Nat \X Nat) /\ Len(asked) = 1 /\ asked[1] = c /\ DOMAIN asked = {1}
    BY <1>5
  <2> HIDE DEF asked
  <2> QED BY <2>1 DEF Fold!ToSet
<1> HIDE DEF asked
<1>7. m \in Msg /\ m.id = Len(S) + 1 /\ m.role = "tool" /\ m.calls = asked /\ m.folds = {}
  BY <1>3, <1>4, <1>6 DEF Msg
<1>8. Fold!Open(T) = Fold!Open(S) \ {c} /\ Fold!Open(V) = Fold!Open(W) \ {c}
  BY <1>3, <1>6, <1>7, OpenAfter
<1>9. \A d \in Fold!Open(W) : Awaited(T, d)
  BY <1>3, <1>7, AwaitedAfter
<1>10. Answers(T, Len(S) + 1)
  <2>1. /\ Len(S) \in Nat /\ DOMAIN S = 1 .. Len(S) /\ T[Len(S) + 1] = m
        /\ \A i \in 1 .. Len(S) : T[i] = S[i]
    BY <1>3, <1>7, Appended
  <2>2. c[1] \in 1 .. Len(S) /\ Fold!Calls(S[c[1]])
        /\ \A j \in 1 .. Len(S) : j > c[1] => S[j].role = "tool"
    BY <1>5, <2>1 DEF Awaited
  <2> HIDE DEF T
  <2>3. c[1] \in 1 .. (Len(S) + 1) - 1 /\ T[c[1]] = S[c[1]]
    BY <2>1, <2>2
  <2>4. \A j \in c[1] + 1 .. (Len(S) + 1) - 1 : T[j].role = "tool"
    <3> SUFFICES ASSUME NEW j \in c[1] + 1 .. (Len(S) + 1) - 1 PROVE T[j].role = "tool"
      OBVIOUS
    <3>1. j \in 1 .. Len(S) /\ j > c[1]
      BY <2>1, <2>2
    <3> QED BY <2>1, <2>2, <3>1
  <2> QED BY <1>6, <1>7, <2>1, <2>2, <2>3, <2>4 DEF Answers
<1>11. Stored(T)
  <2>1. \A d \in Fold!Open(T) : Awaited(T, d)
    BY <1>3, <1>8, <1>9
  <2> HIDE DEF T
  <2>2. m.role # "assistant"
    BY <1>7
  <2> QED BY <1>3, <1>7, <1>10, <2>1, <2>2, StoredAfter DEF T
<1>12. Shown(V, T)
  BY <1>3, <1>5, <1>6, <1>7, ShownAfter
<1>13. Fold!Open(T) \subseteq Fold!Open(V) /\ \A d \in Fold!Open(V) : Awaited(T, d)
  BY <1>3, <1>8, <1>9
<1>14. Fold!Open(W) = {c} => Fold!Open(T) = {}
  BY <1>3, <1>8
<1> HIDE DEF T, V
<1> QED BY <1>2, <1>5, <1>11, <1>12, <1>13, <1>14 DEF FoldInv

LEMMA FoldStep == Fold!Setting /\ FoldInv /\ [Fold!Next]_Fold!vars => FoldInv'
<1> SUFFICES ASSUME Fold!Setting, FoldInv, [Fold!Next]_Fold!vars PROVE FoldInv'
  OBVIOUS
<1>1. CASE Fold!Cut
  BY <1>1 DEF Fold!Cut, FoldInv
<1>2. CASE UNCHANGED Fold!vars
  BY <1>2 DEF Fold!vars, FoldInv
<1> QED
  BY <1>1, <1>2, SendKeeps, ResumeKeeps, FoldKeeps, TurnKeeps, ResultKeeps DEF Fold!Next

\* FoldsWholePairs: nothing stored is lost from what the model is shown, nothing is shown
\* twice or out of its place, and a call is never parted from its result, for every size of
\* the window and every number of folds (context.py 4-8 and compaction's cut).
THEOREM FoldsAlwaysKeepPairs ==
  ASSUME Fold!Setting
  PROVE  Fold!Spec => []FoldsWholePairs
<1>1. FoldInv => FoldsWholePairs
  <2> SUFFICES ASSUME FoldInv, foldAt # "idle" PROVE FoldsWholePairs
    BY DEF FoldsWholePairs, Fold!FoldsWholePairs
  <2>1. Stored(savedMessages) /\ Shown(window, savedMessages)
    BY DEF FoldInv
  <2>2. Fold!Ids(window) = IdsOf(window)
    BY DEF Fold!Ids, IdsOf, Fold!ToSet
  <2>3. Fold!Folded = FoldsOf(window)
    BY DEF Fold!Folded, FoldsOf, Fold!ToSet
  <2>4. Fold!Ids(savedMessages) \cup {0} = 0 .. Len(savedMessages)
    <3>1. /\ Len(savedMessages) \in Nat /\ DOMAIN savedMessages = 1 .. Len(savedMessages)
          /\ \A i \in DOMAIN savedMessages : savedMessages[i].id = i
      BY <2>1 DEF Stored, Placed
    <3>2. Fold!Ids(savedMessages) = {savedMessages[i].id : i \in DOMAIN savedMessages}
      <4>1. Fold!ToSet(savedMessages) = {savedMessages[i] : i \in DOMAIN savedMessages}
        BY DEF Fold!ToSet
      <4> QED BY <4>1 DEF Fold!Ids
    <3>3. Fold!Ids(savedMessages) = 1 .. Len(savedMessages)
      BY <3>1, <3>2
    <3> QED BY <3>1, <3>3
  <2>5. ASSUME NEW m \in Fold!ToSet(savedMessages), m.role = "tool"
        PROVE  m.id \in IdsOf(window) <=> m.calls[1][1] \in IdsOf(window)
    <3>1. PICK i \in DOMAIN savedMessages : m = savedMessages[i]
      BY DEF Fold!ToSet
    <3>2. m.id = i
      BY <2>1, <3>1 DEF Stored, Placed
    <3> QED BY <2>1, <2>5, <3>1, <3>2 DEF Shown
  <2>6. /\ FoldsOf(window) \cap IdsOf(window) = {}
        /\ FoldsOf(window) \cup IdsOf(window) \cup {0} = 0 .. Len(savedMessages)
        /\ \A i, j \in DOMAIN window : i < j /\ window[j].id # 0 => window[i].id < window[j].id
        /\ \A i, j \in DOMAIN window : i # j => window[i].folds \cap window[j].folds = {}
    BY <2>1 DEF Shown
  <2> QED BY <2>2, <2>3, <2>4, <2>5, <2>6 DEF FoldsWholePairs, Fold!FoldsWholePairs
<1>2. Fold!Init => FoldInv
  BY FoldInit
<1>3. FoldInv /\ [Fold!Next]_Fold!vars => FoldInv'
  BY FoldStep
<1> QED BY <1>1, <1>2, <1>3, PTL DEF Fold!Spec

================================================================================
