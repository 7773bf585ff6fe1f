---------------------------- MODULE PermissionGate ----------------------------
(***************************************************************************)
(* Whether a native tool call may run: the chain of policies, the grants   *)
(* people left behind, and the prompts that wait for an answer under the   *)
(* call's id.  Calls of several runs are in flight at once.                *)
(*                                                                         *)
(* A tool is what its flags say, a path argument is a place, a grant's     *)
(* pattern is the set of places it names.  SessionPolicy asks about some   *)
(* of the network calls RulePolicy's floor asks about anyway and changes   *)
(* no verdict.                                                             *)
(***************************************************************************)
EXTENDS Naturals, Sequences

CONSTANTS Ask,            \* tool calls: [tool, session, id, places, planning]
          AskOf,          \* [Ask -> that record]
          ReadOnly,       \* tools that say they only read
          Safe,           \* ... and neither destroy nor reach the network
          Rules,          \* sequence of [tool, verdict]
          Inside,         \* places in the workspace folder
          Anywhere, Scopes, \* what a person may narrow a yes to
          NoAsk

Verdicts == {"allow", "ask", "deny"}

\* What the constants are.
Setting ==
  /\ NoAsk \notin Ask
  /\ DOMAIN Rules = 1 .. Len(Rules) /\ Len(Rules) \in Nat
  /\ \A i \in DOMAIN Rules : Rules[i].verdict \in Verdicts
  /\ \A a \in Ask : AskOf[a].session # "" /\ AskOf[a].planning \in BOOLEAN

\* Every call has an id of its own, as the providers' calls have.
OwnIds == \A a, b \in Ask : AskOf[a].id = AskOf[b].id => a = b

VARIABLES
  askAt,   \* Ask -> "new", "asking", "announced", "waiting", "saving", "ran", "refused", "gone"
  auto,    \* allow-all is on
  waiting, \* id -> the call whose future is listed under it
  answer,  \* Ask -> the result set in its future
  grants   \* stored grants: [tool, session, scope]

\* What happened, for the properties.
VARIABLES
  said,    \* Ask -> the answers people gave after seeing this very request
  excused, \* calls whose question was skipped because allow-all was on
  toggles  \* changes of allow-all

permVars == <<askAt, auto, waiting, answer, grants, said, excused, toggles>>

NoAnswer == [yes |-> FALSE, duration |-> "none", scope |-> Anywhere]
Answers == {[yes |-> FALSE, duration |-> "once", scope |-> Anywhere]} \cup
           [yes : {TRUE}, duration : {"once", "session", "always"}, scope : Scopes]
Id == {AskOf[a].id : a \in Ask}

------------------------------------------------------------------------------
(* The verdict on a call. *)

Rank(v) == CASE v = "allow" -> 0 [] v = "ask" -> 1 [] v = "deny" -> 2
Strictest(V) == CHOOSE v \in V : \A w \in V : Rank(w) <= Rank(v)

Floor(a) == IF AskOf[a].tool \in Safe THEN "allow" ELSE "ask"
Matching(a) == {i \in DOMAIN Rules : Rules[i].tool = AskOf[a].tool}
FirstRule(a) == Rules[CHOOSE i \in Matching(a) : \A j \in Matching(a) : i <= j]

\* Mutant of ByRules: the first rule that matches decides alone.
ByRulesAlone(a) == IF Matching(a) = {} THEN Floor(a) ELSE FirstRule(a).verdict

\* The first rule that matches may only tighten the floor.
ByRules(a) ==
  IF Matching(a) = {} THEN Floor(a) ELSE Strictest({Floor(a), FirstRule(a).verdict})

ByWorkspace(a) == IF AskOf[a].places \subseteq Inside THEN "allow" ELSE "ask"
ByPlanMode(a) ==
  IF AskOf[a].planning /\ AskOf[a].tool \notin ReadOnly THEN "deny" ELSE "allow"

Chain(a) == Strictest({ByRules(a), ByWorkspace(a), ByPlanMode(a)})
Verdict(a) == IF auto /\ Chain(a) = "ask" THEN "allow" ELSE Chain(a)

\* Mutant of CoversPlaces: one place inside the pattern is enough.
CoversPlacesAny(scope, places) == scope \cap places # {}

\* _covers_paths: every path, and at least one.
CoversPlaces(scope, places) == places # {} /\ places \subseteq scope

Covers(g, a) ==
  /\ g.tool = AskOf[a].tool
  /\ g.session \in {"", AskOf[a].session}
  /\ g.scope = Anywhere \/ CoversPlaces(g.scope, AskOf[a].places)

------------------------------------------------------------------------------
Init ==
  /\ askAt = [a \in Ask |-> "new"]
  /\ auto = FALSE
  /\ waiting = [i \in Id |-> NoAsk]
  /\ answer = [a \in Ask |-> NoAnswer]
  /\ grants = {}
  /\ said = [a \in Ask |-> {}]
  /\ excused = {}
  /\ toggles = 0

Becomes(a, stage) == askAt' = [askAt EXCEPT ![a] = stage]

\* authorize: the policy decides, or has the store and the user decide; a policy that
\* raises denies.
Authorize(a) ==
  /\ askAt[a] = "new"
  /\ \/ Verdict(a) = "allow" /\ Becomes(a, "ran")
     \/ Verdict(a) = "ask" /\ Becomes(a, "asking")
     \/ Becomes(a, "refused")
  /\ excused' = IF auto /\ Chain(a) = "ask" THEN excused \cup {a} ELSE excused
  /\ UNCHANGED <<auto, waiting, answer, grants, said, toggles>>

\* ask: a stored grant, or the announcement of the request ...
LookUp(a) ==
  /\ askAt[a] = "asking"
  /\ Becomes(a, IF \E g \in grants : Covers(g, a) THEN "ran" ELSE "announced")
  /\ UNCHANGED <<auto, waiting, answer, grants, said, excused, toggles>>

\* ... then respond: the future takes the place under the id.
Park(a) ==
  /\ askAt[a] = "announced"
  /\ waiting' = [waiting EXCEPT ![AskOf[a].id] = a]
  /\ Becomes(a, "waiting")
  /\ UNCHANGED <<auto, answer, grants, said, excused, toggles>>

\* A person who saw request a answers: deliver finds the future by the id.
Deliver(a, x) ==
  LET b == waiting[AskOf[a].id] IN
  /\ askAt[a] = "waiting" /\ said[a] = {}
  /\ said' = [said EXCEPT ![a] = {x}]
  /\ answer' = IF b = NoAsk \/ answer[b] # NoAnswer THEN answer ELSE [answer EXCEPT ![b] = x]
  /\ UNCHANGED <<askAt, auto, waiting, grants, excused, toggles>>

Unlist(a) == waiting' = [waiting EXCEPT ![AskOf[a].id] = NoAsk]

Answered(a) ==
  /\ askAt[a] = "waiting" /\ answer[a] # NoAnswer
  /\ Unlist(a)
  /\ Becomes(a, IF ~answer[a].yes THEN "refused"
                ELSE IF answer[a].duration = "once" THEN "ran" ELSE "saving")
  /\ UNCHANGED <<auto, answer, grants, said, excused, toggles>>

\* A remembered yes is for this tool, in this session or everywhere.
SaveGrant(a) ==
  /\ askAt[a] = "saving"
  /\ grants' = grants \cup
       {[tool |-> AskOf[a].tool,
         session |-> IF answer[a].duration = "session" THEN AskOf[a].session ELSE "",
         scope |-> answer[a].scope]}
  /\ Becomes(a, "ran")
  /\ UNCHANGED <<auto, waiting, answer, said, excused, toggles>>

\* The run is cancelled while it asks; finally takes the entry under its id away.
Drop(a) ==
  /\ askAt[a] \in {"asking", "announced", "waiting", "saving"}
  /\ IF askAt[a] = "waiting" THEN Unlist(a) ELSE UNCHANGED waiting
  /\ Becomes(a, "gone")
  /\ UNCHANGED <<auto, answer, grants, said, excused, toggles>>

SetAutoApproveAll ==
  /\ toggles < 2
  /\ toggles' = toggles + 1
  /\ auto' = ~auto
  /\ UNCHANGED <<askAt, waiting, answer, grants, said, excused>>

Next ==
  \/ \E a \in Ask : \/ Authorize(a) \/ LookUp(a) \/ Park(a) \/ Answered(a) \/ SaveGrant(a)
                    \/ Drop(a)
                    \/ \E x \in Answers : Deliver(a, x)
  \/ SetAutoApproveAll

Spec == Init /\ [][Next]_permVars

------------------------------------------------------------------------------
TypeOK ==
  /\ askAt \in [Ask -> {"new", "asking", "announced", "waiting", "saving", "ran",
                        "refused", "gone"}]
  /\ auto \in BOOLEAN
  /\ waiting \in [Id -> Ask \cup {NoAsk}]
  /\ answer \in [Ask -> Answers \cup {NoAnswer}]
  /\ said \in [Ask -> SUBSET Answers]
  /\ excused \subseteq Ask /\ toggles \in 0 .. 2

\* Whether some person's yes stands behind a being at this place: a yes to a itself, or
\* one to be remembered, given for the same tool, to this session or to all, of a scope
\* that holds the place.
YesFor(a, place) ==
  \/ \E x \in said[a] : x.yes
  \/ \E b \in Ask : \E x \in said[b] :
       /\ x.yes /\ x.duration # "once"
       /\ AskOf[b].tool = AskOf[a].tool
       /\ x.duration = "always" \/ AskOf[b].session = AskOf[a].session
       /\ x.scope = Anywhere \/ place \in x.scope

Touched(a) == IF AskOf[a].places = {} THEN {NoAsk} ELSE AskOf[a].places

\* A call runs where the chain has no objection, or where a person said yes to every
\* place it touches, or where allow-all was on; nothing runs that plan mode forbids.
\* Stray allow rules, yeses narrowed to a folder, sessions and answers in any order do
\* not change that.  (ToolManager.authorize, PermissionManager.ask)
NothingRunsUnasked ==
  \A a \in Ask : askAt[a] = "ran" =>
    /\ ~(AskOf[a].planning /\ AskOf[a].tool \notin ReadOnly)
    /\ \/ AskOf[a].tool \in Safe /\ AskOf[a].places \subseteq Inside
       \/ a \in excused
       \/ \A p \in Touched(a) : YesFor(a, p)

\* Expected to fail: a call that leaves the workspace folder has a person's yes.  It is
\* only asked about, and allow-all skips the question.
EscapesAreAsked ==
  \A a \in Ask : askAt[a] = "ran" => \A p \in AskOf[a].places \ Inside : YesFor(a, p)

\* Expected to fail when two calls have one id: who waits can be answered.
WaitersAreListed ==
  \A a \in Ask : askAt[a] = "waiting" => waiting[AskOf[a].id] = a

===============================================================================
