------------------------------ MODULE Compaction ------------------------------
(***************************************************************************)
(* What the model is shown of a long conversation: before a turn the loop  *)
(* may fold the older messages of its copy of the conversation into one    *)
(* summary.  The stored conversation is never folded: a run that starts or *)
(* resumes loads all of it.                                                *)
(*                                                                         *)
(* Who writes the summary, the model or the template, decides its text     *)
(* alone, and how large a conversation is, is left open: any turn may find *)
(* it too large.                                                           *)
(***************************************************************************)
EXTENDS Naturals, FiniteSets, SequencesExt

CONSTANTS RecentWindow,           \* recent_window, at least 0
          MaxSaved, MaxBatch, MaxCuts  \* bounds: messages stored, calls of a reply, interruptions

\* What the constants are.
Setting == RecentWindow \in Nat /\ MaxBatch \in Nat

VARIABLES saved,  \* the stored conversation
          shown,  \* the loop's copy of it
          at,     \* "idle", "head" of a turn, "tools": calls to answer
          cuts

vars == <<saved, shown, at, cuts>>

\* A message is known by its place in the stored conversation; a call by that of its
\* message and its own.  A summary lists the messages it stands for.
Message(role, calls) ==
  [id |-> Len(saved) + 1, role |-> role, calls |-> calls, folds |-> {}]
Summary(older) == [id |-> 0, role |-> "system", calls |-> <<>>,
                   folds |-> {m.id : m \in ToSet(older)}]
Reply(n) == Message("assistant", [i \in 1 .. n |-> <<Len(saved) + 1, i>>])

Calls(m) == m.role = "assistant" /\ m.calls # <<>>

------------------------------------------------------------------------------
(* The split and the fold.                                                  *)
LeadingSystemCount(ms) ==
  LET others == {i \in DOMAIN ms : ms[i].role # "system"}
  IN  IF others = {} THEN Len(ms) ELSE (CHOOSE i \in others : \A j \in others : i <= j) - 1

\* A cut after the first i messages would part a call from its results.
Splits(ms, i) ==
  \/ i < Len(ms) /\ ms[i + 1].role = "tool"
  \/ Calls(ms[i])

WindowStart(ms) ==
  LET first == LeadingSystemCount(ms)
      start == Len(ms) - RecentWindow
  IN  IF first + RecentWindow < Len(ms) THEN start ELSE first

\* Mutant of ProtectRecentMessages: the window begins where its size says.
ProtectNothing(ms) == WindowStart(ms)
\* The last place at or before the window's start that parts nothing.
ProtectRecentMessages(ms) ==
  LET first == LeadingSystemCount(ms)
      good == {first} \cup {i \in first + 1 .. WindowStart(ms) : ~Splits(ms, i)}
  IN  CHOOSE i \in good : \A j \in good : j <= i

Older(ms) == SubSeq(ms, LeadingSystemCount(ms) + 1, ProtectRecentMessages(ms))

Compact(ms) ==
  IF Older(ms) = <<>> THEN ms
  ELSE SubSeq(ms, 1, LeadingSystemCount(ms)) \o <<Summary(Older(ms))>>
         \o SubSeq(ms, ProtectRecentMessages(ms) + 1, Len(ms))

------------------------------------------------------------------------------
(* The loop, as far as it makes and folds messages (NativeRun has the rest). *)
Init ==
  /\ saved = <<[id |-> 1, role |-> "system", calls |-> <<>>, folds |-> {}]>>
  /\ shown = saved /\ at = "idle" /\ cuts = 0

Add(m) == saved' = Append(saved, m) /\ shown' = Append(shown, m)

\* The calls of the last reply that has some and whose user has not spoken since, without
\* those that have a result.
Due(ms) ==
  {i \in DOMAIN ms :
     /\ Calls(ms[i])
     /\ \A j \in DOMAIN ms : j > i => ~Calls(ms[j]) /\ ms[j].role # "user"}
Results(ms) == UNION {ToSet(m.calls) : m \in {x \in ToSet(ms) : x.role = "tool"}}
Open(ms) == (UNION {ToSet(ms[i].calls) : i \in Due(ms)}) \ Results(ms)

\* send_message stores the user's words and loads the whole conversation.
SendMessage ==
  /\ at = "idle" /\ Len(saved) < MaxSaved
  /\ saved' = Append(saved, Message("user", <<>>)) /\ shown' = saved'
  /\ at' = "head" /\ UNCHANGED cuts

\* resume_run: first the calls without an answer.
Resume ==
  /\ at = "idle" /\ shown' = saved
  /\ at' = IF Open(saved) = {} THEN "head" ELSE "tools"
  /\ saved[Len(saved)].role \in {"system", "user", "tool"} \/ Open(saved) # {}
  /\ UNCHANGED <<saved, cuts>>

\* A turn whose conversation is near the window's end folds it first ...
NeedsCompaction ==
  /\ at = "head" /\ Compact(shown) # shown
  /\ shown' = Compact(shown) /\ UNCHANGED <<saved, at, cuts>>
\* ... and then asks the model, which answers or calls tools.
Turn ==
  /\ at = "head" /\ Len(saved) < MaxSaved
  /\ \E n \in 0 .. MaxBatch :
       Add(Reply(n)) /\ at' = IF n = 0 THEN "idle" ELSE "tools"
  /\ UNCHANGED cuts

\* Results are kept in the order of their calls.
ToolResult ==
  /\ at = "tools" /\ Len(saved) < MaxSaved + MaxBatch
  /\ \E c \in Open(shown) :
       /\ \A d \in Open(shown) : c[2] <= d[2]
       /\ Add(Message("tool", <<c>>))
       /\ at' = IF Open(shown) = {c} THEN "head" ELSE "tools"
  /\ UNCHANGED cuts

\* A stop, an error or a crash between two steps.
Cut ==
  /\ at # "idle" /\ cuts < MaxCuts
  /\ cuts' = cuts + 1 /\ at' = "idle" /\ UNCHANGED <<saved, shown>>

Next == SendMessage \/ Resume \/ NeedsCompaction \/ Turn \/ ToolResult \/ Cut
Spec == Init /\ [][Next]_vars

------------------------------------------------------------------------------
Ids(ms) == {m.id : m \in ToSet(ms)}
Folded == UNION {m.folds : m \in ToSet(shown)}

\* Every stored message is shown word for word or stands in one summary, in the order of
\* the conversation; and a result is shown exactly when its call is (context.py 4-8: "a
\* tool call and its result are a pair, and a pair is never split across the summary
\* boundary").
FoldsWholePairs ==
  at # "idle" =>
    /\ Folded \cap Ids(shown) = {}
    /\ Folded \cup Ids(shown) \cup {0} = Ids(saved) \cup {0}
    /\ \A i, j \in DOMAIN shown : i < j /\ shown[j].id # 0 => shown[i].id < shown[j].id
    /\ \A a, b \in DOMAIN shown : a # b => shown[a].folds \cap shown[b].folds = {}
    /\ \A m \in ToSet(saved) : m.role = "tool" =>
         (m.id \in Ids(shown) <=> m.calls[1][1] \in Ids(shown))

\* A conversation is folded into one summary.  TLC refutes it: the summary is a system
\* message, and the next fold counts it among the leading ones.
OneSummary == Cardinality({i \in DOMAIN shown : shown[i].id = 0}) <= 1

===============================================================================
