----------------------------- MODULE LiveSettings -----------------------------
(***************************************************************************)
(* The settings that can be changed while the API serves: the PATCH        *)
(* handlers of the native and the LangGraph track, which read the current  *)
(* settings, may wait for the Ollama server and apply what they decided,   *)
(* the judge's, and the runs that begin meanwhile.                         *)
(*                                                                         *)
(* A model, a key or a URL is the provider it was chosen, entered or set   *)
(* in the environment for; "local" is the local Ollama server's URL and    *)
(* "none" nothing.  Sampling parameters, tracing and the allow-all toggle  *)
(* are left out: each is a field of its own that no check looks at.        *)
(***************************************************************************)
EXTENDS Naturals

CONSTANTS Patch,    \* PATCH requests ...
          TrackOf,  \* ... [Patch -> {"native", "langgraph"}]
          Bodies,   \* the bodies they may have
          EnvKeys,  \* providers with a key in the process environment
          Builds    \* {TRUE}, or BOOLEAN when a model client may refuse its settings

\* What a body can have in its fields.
Fields == [provider : {"unset", "ollama", "groq", "openai"}, model : {"unset", "empty", "given"},
           key : {"unset", "empty", "given"}, url : {"unset", "empty", "local", "given"}]

\* What the constants are.
Setting == Bodies \subseteq Fields /\ TrackOf \in [Patch -> {"native", "langgraph"}]

VARIABLES
  graph,      \* LangGraphAgent.config.llm ...
  client,     \* ... and the settings _model_provider was built from
  compiled,   \* the graph is compiled ...
  compiling,  \* ... or a run is at it and holds _compile_lock
  clients,    \* native: [provider -> what is registered for it]
  owner,      \* native: [model -> the provider it is registered with]
  agentModel, \* native: the model of the agents
  judge,      \* [provider, model, and per provider a key and a url]
  patchAt,    \* [Patch -> "none", "asking", "applying", "done", "refused"]
  body,       \* [Patch -> its body]
  old,        \* [Patch -> the settings it read]
  wanted,     \* [Patch -> the settings it will apply]
  used        \* [track -> what its latest run uses]

patches == <<patchAt, body, old, wanted>>
langgraph == <<graph, client, compiled, compiling>>
native == <<clients, owner, agentModel>>
settingsVars == <<langgraph, native, judge, patches, used>>

Provider == {"ollama", "groq", "openai"}   \* anthropic is treated as openai
NativeProvider == {"ollama", "groq"}
Settings(p, m, k, u) == [provider |-> p, model |-> m, key |-> k, url |-> u]
First == Settings("ollama", "ollama", "none", "local")
Nothing == Settings("none", "none", "none", "none")
NoBody == [provider |-> "unset", model |-> "unset", key |-> "unset", url |-> "unset"]
EnvKey(p) == IF p \in EnvKeys THEN p ELSE "none"

Init ==
  /\ graph = First /\ client = First /\ compiled = FALSE /\ compiling = FALSE
  /\ clients = [p \in NativeProvider |-> IF p = "ollama" THEN First ELSE Nothing]
  /\ owner = [m \in Provider |-> IF m = "ollama" THEN "ollama" ELSE "none"]
  /\ agentModel = "ollama"
  /\ judge = [provider |-> "ollama", model |-> "none",
              keys |-> [p \in Provider |-> EnvKey(p)], urls |-> [p \in Provider |-> "none"]]
  /\ patchAt = [q \in Patch |-> "none"] /\ body = [q \in Patch |-> NoBody]
  /\ old = [q \in Patch |-> Nothing] /\ wanted = [q \in Patch |-> Nothing]
  /\ used = [t \in {"native", "langgraph", "judge"} |-> Nothing]

------------------------------------------------------------------------------
\* clean_base_url: a cloud provider is never sent to the local Ollama server.
CleanBaseUrl(p, url) == IF p # "ollama" /\ url = "local" THEN "none" ELSE url

\* resolve_model and default_model: what is asked for, or what the provider has.
ResolveModel(p, model) == IF model = "none" THEN p ELSE model

\* A field of the body over what there was; a model or a URL is sent for the provider.
Chosen(field, p, was) == CASE field = "unset" -> was [] field = "empty" -> "none"
                           [] field = "local" -> "local" [] field = "given" -> p
ProviderOf(b, was) == IF b.provider = "unset" THEN was ELSE b.provider

\* The key that goes with the provider: entered, from the environment, or kept.
\* Mutant of KeepsKey: another provider keeps it too.
KeepsKeyAnyway(b, p, was) == b.key = "unset" /\ was.key # "none"
KeepsKey(b, p, was) == b.key = "unset" /\ p = was.provider
Key(b, p, was) ==
  CASE b.key = "given" -> p
    [] KeepsKey(b, p, was) -> was.key
    [] OTHER -> EnvKey(p)

\* What body b asks for over the settings that were read and the model of the agents.
Target(b, was, model) ==
  LET p == ProviderOf(b, was.provider) IN
  Settings(p, ResolveModel(p, Chosen(b.model, p, model)), Key(b, p, was),
           CleanBaseUrl(p, Chosen(b.url, p, was.url)))

NativeNow == [clients[owner[agentModel]] EXCEPT !.model = agentModel]
Now(t) == IF t = "native" THEN NativeNow ELSE graph
Allowed(t) == IF t = "native" THEN NativeProvider ELSE Provider

\* An Ollama model must be one of its own, a cloud provider needs a key.
Refusable(s) == IF s.provider = "ollama" THEN s.model # "ollama" ELSE s.key = "none"

------------------------------------------------------------------------------
Move(q, stage) == patchAt' = [patchAt EXCEPT ![q] = stage]
Refuse(q) == Move(q, "refused") /\ UNCHANGED <<langgraph, native, wanted>>

\* The handler up to where it asks the Ollama server for its models.
Ask(q, b) ==
  /\ patchAt[q] = "none" /\ ProviderOf(b, Now(TrackOf[q]).provider) = "ollama"
  /\ Move(q, "asking")
  /\ body' = [body EXCEPT ![q] = b] /\ old' = [old EXCEPT ![q] = Now(TrackOf[q])]
  /\ UNCHANGED <<langgraph, native, judge, wanted, used>>

OllamaSilent(q) ==
  /\ patchAt[q] = "asking" /\ Refuse(q)
  /\ UNCHANGED <<body, old, judge, used>>

\* LangGraph: the settings are made and wait for the lock.
Decide(q, s) ==
  IF s.provider \notin Allowed("langgraph") \/ Refusable(s)
  THEN Refuse(q)
  ELSE /\ Move(q, "applying")
       /\ wanted' = [wanted EXCEPT ![q] = s]
       /\ UNCHANGED <<langgraph, native>>

\* Native: reconfigure_models replaces all at once.
Registered(s) ==
  [s EXCEPT !.model = "none", !.key = IF s.provider = "groq" THEN @ ELSE "none",
            !.url = IF s.provider = "ollama" /\ @ = "none" THEN "local" ELSE @]
Apply(q, s) ==
  IF s.provider \notin Allowed("native") \/ Refusable(s)
  THEN Refuse(q)
  ELSE /\ clients' = [clients EXCEPT ![s.provider] = Registered(s)]
       /\ owner' = [owner EXCEPT ![s.model] = s.provider]
       /\ agentModel' = s.model
       /\ Move(q, "done")
       /\ UNCHANGED <<langgraph, wanted>>

\* Without a wait, or when Ollama has answered: the provider, key and URL are of what was
\* read before; the native handler reads the agents' model only now.
Conclude(q, b, was) ==
  IF TrackOf[q] = "native" THEN Apply(q, Target(b, was, agentModel))
                           ELSE Decide(q, Target(b, was, was.model))
Answer(q, b) ==
  /\ patchAt[q] = "none" /\ ProviderOf(b, Now(TrackOf[q]).provider) # "ollama"
  /\ Conclude(q, b, Now(TrackOf[q]))
  /\ body' = [body EXCEPT ![q] = b] /\ old' = [old EXCEPT ![q] = Now(TrackOf[q])]
  /\ UNCHANGED <<judge, used>>
OllamaAnswers(q) ==
  /\ patchAt[q] = "asking" /\ Conclude(q, body[q], old[q])
  /\ UNCHANGED <<body, old, judge, used>>

------------------------------------------------------------------------------
(* LangGraph: the settings in force and the runs.                           *)
\* reconfigure: the config is replaced first, then the model client is built from it.
Reconfigure(q) ==
  /\ patchAt[q] = "applying" /\ ~compiling
  /\ graph' = wanted[q]
  /\ \E built \in Builds :
       /\ client' = IF built THEN wanted[q] ELSE client
       /\ Move(q, IF built THEN "done" ELSE "refused")
  /\ UNCHANGED <<compiled, compiling, native, judge, body, old, wanted, used>>

Using(t, config, key) == used' = [used EXCEPT ![t] = [config EXCEPT !.key = key]]
Compile ==
  /\ ~compiled /\ ~compiling /\ compiling' = TRUE
  /\ UNCHANGED <<graph, client, compiled, native, judge, patches, used>>
Compiled ==
  /\ compiling /\ compiling' = FALSE /\ compiled' \in BOOLEAN
  /\ UNCHANGED <<graph, client, native, judge, patches, used>>

\* A run captures config and client together; the client's key is what it will send.
GraphRun ==
  /\ compiled /\ ~compiling
  /\ Using("langgraph", graph, IF client.provider = graph.provider THEN client.key ELSE "none")
  /\ UNCHANGED <<langgraph, native, judge, patches>>

NativeRun ==
  /\ used' = [used EXCEPT !["native"] = NativeNow]
  /\ UNCHANGED <<langgraph, native, judge, patches>>

------------------------------------------------------------------------------
(* The judge.                                                               *)
PatchJudge(b) ==
  LET p == ProviderOf(b, judge.provider) IN
  /\ judge' = [judge EXCEPT
       !.provider = p,
       !.model = Chosen(b.model, p, @),
       !.keys[p] = Chosen(b.key, p, @),
       !.urls[p] = Chosen(b.url, p, @)]
  /\ UNCHANGED <<langgraph, native, patches, used>>

JudgeKey(p) == IF judge.keys[p] = "none" THEN EnvKey(p) ELSE judge.keys[p]

\* A judged evaluation names a provider, or takes the active one.
JudgeRun(p) ==
  /\ p = "ollama" \/ JudgeKey(p) # "none"
  /\ used' = [used EXCEPT !["judge"] = Settings(p, ResolveModel(p, judge.model), JudgeKey(p),
       CleanBaseUrl(p, judge.urls[p]))]
  /\ UNCHANGED <<langgraph, native, judge, patches>>

\* The tracks share nothing.
Patched(t) == {q \in Patch : TrackOf[q] = t}
Patching(t) == \E q \in Patched(t) : \/ OllamaSilent(q) \/ OllamaAnswers(q)
                                    \/ \E b \in Bodies : Ask(q, b) \/ Answer(q, b)
NextGraph == \/ Patching("langgraph") \/ \E q \in Patch : Reconfigure(q)
             \/ Compile \/ Compiled \/ GraphRun
NextNative == Patching("native") \/ NativeRun
NextJudge == (\E b \in Bodies : PatchJudge(b)) \/ \E p \in Provider : JudgeRun(p)
Next == NextGraph \/ NextNative \/ NextJudge

Spec == Init /\ [][Next]_settingsVars

------------------------------------------------------------------------------
\* Whatever PATCH requests overlap, a run of a cloud provider calls it with a key of its
\* own and never at the local Ollama server's address, and a LangGraph run's client is
\* the one its settings describe.
CallsGoHome ==
  /\ \A t \in DOMAIN used :
       used[t].provider \in Provider \ {"ollama"} =>
         used[t].key = used[t].provider /\ used[t].url # "local"
  /\ client = graph

\* "a 422 above must leave every setting untouched, not half-applied"
\* (langgraph_settings.py 222-224).  With Builds = BOOLEAN, TLC refutes it: the settings
\* are replaced before the client they describe is built.
RefusedChangesNothing ==
  [][\A q \in Patch : (patchAt[q] # "refused" /\ patchAt'[q] = "refused") =>
       UNCHANGED <<graph, client, native>>]_settingsVars

\* A model is used with the provider it is of.  TLC refutes it: a PATCH of the provider
\* alone keeps the model there was.
ModelOfItsProvider == \A t \in DOMAIN used : used[t].model \in {used[t].provider, "none"}

\* A URL entered for one provider is not used for another (settings.py 154-155: "Drop an
\* Ollama URL that was carried over to a cloud provider").  TLC refutes it: only the two
\* local addresses are dropped.
UrlOfItsProvider == \A t \in DOMAIN used : used[t].url \in {used[t].provider, "local", "none"}

\* What a finished PATCH set stays until another PATCH that sets it.  TLC refutes it: one
\* that began earlier and waited for Ollama puts back the settings it had read.
ProviderStays ==
  [][\A q \in Patch : (patchAt[q] # "done" /\ patchAt'[q] = "done"
                       /\ body[q].provider = "unset" /\ TrackOf[q] = "langgraph") =>
       graph'.provider = graph.provider]_settingsVars

===============================================================================
