------------------------------ MODULE McpBridge ------------------------------
(***************************************************************************)
(* The connections of the native engine to its MCP gateway: one client per *)
(* workspace inside a provider, attached when a message is sent, closed    *)
(* when the runtime stops.  The runtime learns of its provider only after  *)
(* the first connection stands.                                            *)
(***************************************************************************)
EXTENDS Naturals, FiniteSets

CONSTANTS Sender, Workspace, WorkspaceOf, \* [Sender -> Workspace]
          NoSender,
          MaxProviders, MaxClients, MaxAttaches \* bounds

\* What the constants are.
Setting ==
  /\ NoSender \notin Sender /\ WorkspaceOf \in [Sender -> Workspace]
  /\ MaxProviders \in Nat /\ MaxClients \in Nat /\ MaxAttaches \in Nat

VARIABLES
  provider,  \* runtime._mcp_provider, 0 before the first attachment
  tools,     \* the provider the registered tools resolve their client through
  clientOf,  \* provider -> workspace -> its client, 0 when there is none
  connector, \* provider -> who holds its connect lock
  shut,      \* providers that were closed
  open,      \* clients whose connection is open
  attachAt, mine, dialled \* Sender -> its attachment: stage, provider, client

\* What happened, for the properties.
VARIABLES
  madeBy,    \* client -> the provider that made it, 0 when it was not made yet
  cut,       \* clients whose connect was cancelled
  providers, attaches

mcpVars == <<provider, tools, clientOf, connector, shut, open, attachAt, mine, dialled,
             madeBy, cut, providers, attaches>>

Provider == 1 .. MaxProviders
Client == 1 .. MaxClients
Fresh(c) == madeBy[c] = 0 /\ \A d \in Client : d < c => madeBy[d] # 0
At(s, stage) == attachAt' = [attachAt EXCEPT ![s] = stage]
Unlock(p) == connector' = [connector EXCEPT ![p] = NoSender]

Init ==
  /\ provider = 0 /\ tools = 0
  /\ clientOf = [p \in Provider |-> [w \in Workspace |-> 0]]
  /\ connector = [p \in Provider |-> NoSender]
  /\ shut = {} /\ open = {} /\ cut = {}
  /\ attachAt = [s \in Sender |-> "away"]
  /\ mine = [s \in Sender |-> 0]
  /\ dialled = [s \in Sender |-> 0]
  /\ madeBy = [c \in Client |-> 0]
  /\ providers = 0 /\ attaches = 0

\* attach_mcp_tools: the runtime's provider, or a new one nobody else knows yet.
Attach(s) ==
  /\ attachAt[s] \notin {"waiting", "listing"}
  /\ attaches < MaxAttaches
  /\ attaches' = attaches + 1
  /\ IF provider # 0
       THEN mine' = [mine EXCEPT ![s] = provider] /\ UNCHANGED providers
       ELSE /\ providers < MaxProviders
            /\ providers' = providers + 1
            /\ mine' = [mine EXCEPT ![s] = providers + 1]
  /\ At(s, "waiting")
  /\ UNCHANGED <<provider, tools, clientOf, connector, shut, open, dialled, madeBy, cut>>

MayConnect(s) == attachAt[s] = "waiting" /\ connector[mine[s]] = NoSender

\* connect, under the provider's lock: closed for good ...
Refused(s) ==
  /\ MayConnect(s) /\ mine[s] \in shut
  /\ At(s, "failed")
  /\ UNCHANGED <<provider, tools, clientOf, connector, shut, open, mine, dialled,
                 madeBy, cut, providers, attaches>>

\* ... or connected to this workspace already, which gives no tools to register ...
Known(s) ==
  /\ MayConnect(s) /\ mine[s] \notin shut
  /\ clientOf[mine[s]][WorkspaceOf[s]] # 0
  /\ provider' = mine[s]
  /\ At(s, "attached")
  /\ UNCHANGED <<tools, clientOf, connector, shut, open, mine, dialled,
                 madeBy, cut, providers, attaches>>

\* Mutant of Enter: a provider that was closed opens connections again.
EnterClosed(s) ==
  /\ MayConnect(s)
  /\ clientOf[mine[s]][WorkspaceOf[s]] = 0
  /\ connector' = [connector EXCEPT ![mine[s]] = s]
  /\ \E c \in Client :
       /\ Fresh(c)
       /\ madeBy' = [madeBy EXCEPT ![c] = mine[s]]
       /\ dialled' = [dialled EXCEPT ![s] = c]
       /\ open' = open \cup {c}
  /\ At(s, "listing")
  /\ UNCHANGED <<provider, tools, clientOf, shut, mine, cut, providers, attaches>>

\* ... or a new client, which is asked for its tools.
Enter(s) ==
  /\ MayConnect(s) /\ mine[s] \notin shut
  /\ clientOf[mine[s]][WorkspaceOf[s]] = 0
  /\ connector' = [connector EXCEPT ![mine[s]] = s]
  /\ \E c \in Client :
       /\ Fresh(c)
       /\ madeBy' = [madeBy EXCEPT ![c] = mine[s]]
       /\ dialled' = [dialled EXCEPT ![s] = c]
       /\ open' = open \cup {c}
  /\ At(s, "listing")
  /\ UNCHANGED <<provider, tools, clientOf, shut, mine, cut, providers, attaches>>

\* The tools replace those of the same name; the provider becomes the runtime's.
Listed(s) ==
  /\ attachAt[s] = "listing"
  /\ clientOf' = [clientOf EXCEPT ![mine[s]][WorkspaceOf[s]] = dialled[s]]
  /\ Unlock(mine[s])
  /\ tools' = mine[s] /\ provider' = mine[s]
  /\ At(s, "attached")
  /\ UNCHANGED <<shut, open, mine, dialled, madeBy, cut, providers, attaches>>

ListFails(s) ==
  /\ attachAt[s] = "listing"
  /\ open' = open \ {dialled[s]}
  /\ Unlock(mine[s])
  /\ At(s, "failed")
  /\ UNCHANGED <<provider, tools, clientOf, shut, mine, dialled, madeBy, cut,
                 providers, attaches>>

\* Cancelled, for one by the orchestrator's timer: only an Exception is cleaned up after.
CutOff(s) ==
  /\ attachAt[s] \in {"waiting", "listing"}
  /\ IF attachAt[s] = "listing"
       THEN cut' = cut \cup {dialled[s]} /\ Unlock(mine[s])
       ELSE UNCHANGED <<cut, connector>>
  /\ At(s, "failed")
  /\ UNCHANGED <<provider, tools, clientOf, shut, open, mine, dialled, madeBy,
                 providers, attaches>>

\* Mutant of CloseProvider: it does not wait for the lock.
CloseProviderAtOnce ==
  /\ provider # 0 /\ provider \notin shut
  /\ shut' = shut \cup {provider}
  /\ open' = open \ {clientOf[provider][w] : w \in Workspace}
  /\ clientOf' = [clientOf EXCEPT ![provider] = [w \in Workspace |-> 0]]
  /\ UNCHANGED <<provider, tools, connector, attachAt, mine, dialled, madeBy, cut,
                 providers, attaches>>

\* close of the runtime's provider, the only one the shutdown knows.
CloseProvider ==
  /\ provider # 0 /\ provider \notin shut
  /\ connector[provider] = NoSender
  /\ shut' = shut \cup {provider}
  /\ open' = open \ {clientOf[provider][w] : w \in Workspace}
  /\ clientOf' = [clientOf EXCEPT ![provider] = [w \in Workspace |-> 0]]
  /\ UNCHANGED <<provider, tools, connector, attachAt, mine, dialled, madeBy, cut,
                 providers, attaches>>

Next ==
  \/ \E s \in Sender : \/ Attach(s) \/ Refused(s) \/ Known(s) \/ Enter(s)
                       \/ Listed(s) \/ ListFails(s) \/ CutOff(s)
  \/ CloseProvider

Spec == Init /\ [][Next]_mcpVars

------------------------------------------------------------------------------
TypeOK ==
  /\ provider \in Provider \cup {0} /\ tools \in Provider \cup {0}
  /\ clientOf \in [Provider -> [Workspace -> Client \cup {0}]]
  /\ connector \in [Provider -> Sender \cup {NoSender}]
  /\ shut \subseteq Provider /\ open \subseteq Client /\ cut \subseteq Client
  /\ attachAt \in [Sender -> {"away", "waiting", "listing", "attached", "failed"}]
  /\ mine \in [Sender -> Provider \cup {0}]
  /\ dialled \in [Sender -> Client \cup {0}]
  /\ madeBy \in [Client -> Provider \cup {0}]
  /\ providers \in 0 .. MaxProviders /\ attaches \in 0 .. MaxAttaches

\* A provider that was closed holds no connection and gets none, even from a connect
\* that was under way or waited for the lock; only a connect that was cancelled leaves
\* one behind.  (MCPToolProvider.connect, close)
ClosedHoldsNothing == \A c \in open \ cut : madeBy[c] \notin shut

\* A tool reaches the client of the session's own workspace or none.
\* (MCPToolProvider._client_for_context)
Resolves(s) == tools # 0 /\ clientOf[tools][WorkspaceOf[s]] # 0

\* Expected to fail: an attached session finds its tools until the runtime stops.  Of two
\* first attachments at once the later one's provider replaces the earlier one's.
AttachedHasTools ==
  shut = {} => \A s \in Sender : attachAt[s] = "attached" => Resolves(s)

\* Expected to fail for the same reason: the shutdown closes every connection.
ShutdownClosesAll == provider \in shut => open \subseteq cut \cup {dialled[s] : s \in Sender}

===============================================================================
