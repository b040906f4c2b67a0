----------------------------- MODULE HostLinks -----------------------------
(***************************************************************************)
(* Which hosts row an agent's connection stands for.  Dock knows the       *)
(* agent's token; hosts-svc looks for a row that leads from that token,    *)
(* from the agent's id or from its bot to a host, and repairs the row it   *)
(* found.  Rows come from registrations, from the migration of older       *)
(* databases, and go with the host that is deleted.  A look-up that fails  *)
(* counts as a miss, as it does in the code, so only the look-up that hits *)
(* is a step; the repair that follows it is another.                       *)
(***************************************************************************)
EXTENDS Tables

CONSTANTS Links,            \* agent processes
          Home,             \* the machine an agent runs on: hosts.id is its hash
          TokenOf,          \* the token id dock's verify returns for it
          AgentOf, BotOf,   \* ?agent_id=, ?bot_id= of its requests, or None
          Tokens, Agents, Bots, Hosts, Workspaces,
          Legacy,           \* tokens of dock whose id is also a local agent_tokens.id
          LocalOnly,        \* any id that mirrorDockAgentTokenForAgent generates
          ImportedHosts,    \* hosts and agents after the migration scripts
          ImportedAgents,
          None

HostRows  == [ws : Workspaces, token : Legacy \cup {None}]
AgentRows == [host : Hosts, bot : Bots \cup {None}, token : Legacy \cup {LocalOnly}]

ASSUME LinksAssumption ==
    /\ Home \in [Links -> Hosts]
    /\ TokenOf \in [Links -> Tokens]
    /\ AgentOf \in [Links -> Agents \cup {None}]
    /\ BotOf \in [Links -> Bots \cup {None}]
    /\ Legacy \subseteq Tokens
    /\ LocalOnly \notin Tokens
    /\ None \notin Tokens \cup Agents \cup Bots \cup Hosts
    /\ IsTable(ImportedHosts, Hosts, HostRows)
    /\ IsTable(ImportedAgents, Agents, AgentRows)
    /\ \A a \in DOMAIN ImportedAgents : ImportedAgents[a].host \in DOMAIN ImportedHosts

VARIABLES hosts,    \* hosts: workspace_id and the v3 column agent_token_id
          agents,   \* agents: host_id, bot_user_id, agent_token_id
          up,       \* links that are connected
          hostOf,   \* agentConn.hostID of a link's newest connection, or None
          healing,  \* the agent that resolving a link found and is about to repair
          foreign   \* history: hosts of other machines that were written under an
                    \* identity of the link

linkVars == <<hosts, agents, up, hostOf, healing, foreign>>

LinksTypeOK ==
    /\ IsTable(hosts, Hosts, HostRows)
    /\ IsTable(agents, Agents, AgentRows)
    /\ \A a \in DOMAIN agents : agents[a].host \in DOMAIN hosts
    /\ up \subseteq Links
    /\ hostOf \in [Links -> Hosts \cup {None}]
    /\ healing \in [Links -> Agents \cup {None}]
    /\ foreign \in [Links -> SUBSET Hosts]

\* An agent's row is one of link l or of a connection with the same token: it has
\* the token, the agent id or the bot, or is about to be repaired.
Identifies(l, a, row) ==
    \/ row.token = TokenOf[l]
    \/ \E m \in Links :
         /\ TokenOf[m] = TokenOf[l]
         /\ a \in {AgentOf[m], healing[m]} \/ (BotOf[m] # None /\ row.bot = BotOf[m])

LinksInit ==
    /\ hosts = ImportedHosts
    /\ agents = ImportedAgents
    /\ up = {}
    /\ hostOf = [l \in Links |-> None]
    /\ healing = [l \in Links |-> None]
    /\ foreign = [l \in Links |->
         ({h \in DOMAIN hosts : hosts[h].token = TokenOf[l]}
            \cup {agents[a].host : a \in {x \in DOMAIN agents : Identifies(l, x, agents[x])}}) \ {Home[l]}]

-----------------------------------------------------------------------------
(* registerAgent, for the machine the agent runs on.  A host keeps its     *)
(* workspace and its v3 token, an agent its token and, unless dock names   *)
(* one, its bot.                                                           *)

\* Mutant of InsertHost: the conflict clause takes the workspace over too.
InsertHostMoves(l, w) ==
    /\ hosts' = Upsert(hosts, Home[l], IF Home[l] \in DOMAIN hosts
                                      THEN [hosts[Home[l]] EXCEPT !.ws = w]
                                      ELSE [ws |-> w, token |-> None])
    /\ UNCHANGED <<agents, up, hostOf, healing, foreign>>

InsertHost(l, w) ==
    /\ hosts' = Upsert(hosts, Home[l], IF Home[l] \in DOMAIN hosts THEN hosts[Home[l]]
                                                                 ELSE [ws |-> w, token |-> None])
    /\ UNCHANGED <<agents, up, hostOf, healing, foreign>>

\* The caller names the bot, its own or another.
InsertAgent(l, b) ==
    LET a == AgentOf[l]
        known == a \in DOMAIN agents
        row == [host  |-> Home[l],
                bot   |-> IF b = None /\ known THEN agents[a].bot ELSE b,
                token |-> IF known THEN agents[a].token ELSE LocalOnly]
    IN  /\ a # None
        /\ Home[l] \in DOMAIN hosts
        /\ agents' = Upsert(agents, a, row)
        /\ foreign' = [m \in Links |->
             IF Identifies(m, a, row) THEN foreign[m] \cup ({Home[l]} \ {Home[m]}) ELSE foreign[m]]
        /\ UNCHANGED <<hosts, up, hostOf, healing>>

-----------------------------------------------------------------------------
(* resolveHostIDForAgentConn: the host h and the agent a to be repaired.   *)

\* The v4 chain, then the v3 column.
ByToken(l, h, a) ==
    /\ \/ \E x \in DOMAIN agents : agents[x].token = TokenOf[l] /\ agents[x].host = h
       \/ h \in DOMAIN hosts /\ hosts[h].token = TokenOf[l]
    /\ a = None

ByAgent(l, h, a) ==
    /\ a = AgentOf[l]
    /\ a \in DOMAIN agents
    /\ h = agents[a].host

\* Mutant of ByBot: a caller without a bot finds the agents without one.
ByBotUnnamed(l, h, a) ==
    /\ a \in DOMAIN agents
    /\ agents[a].bot = BotOf[l]
    /\ h = agents[a].host

\* The one of the bot's agents that said hello last.
ByBot(l, h, a) ==
    /\ a \in DOMAIN agents
    /\ BotOf[l] # None
    /\ agents[a].bot = BotOf[l]
    /\ h = agents[a].host

Resolve(l, h, a) ==
    \/ ByToken(l, h, a)
    \/ ByAgent(l, h, a)
    \/ ByBot(l, h, a)
    \/ h = None /\ a = None

\* The foreign key refuses a token that has no local row under dock's id: there
\* is no repair to wait for.
Found(l, h, a) ==
    /\ Resolve(l, h, a)
    /\ hostOf' = [hostOf EXCEPT ![l] = h]
    /\ healing' = [healing EXCEPT ![l] = IF TokenOf[l] \in Legacy THEN a ELSE None]

\* healAgentTokenLink.  The row may be gone, or its agent registered again, since
\* it was found.  The UPDATE may fail: the caller goes on.
Heal(l) ==
    /\ healing[l] # None
    /\ \/ agents' = agents
       \/ /\ healing[l] \in DOMAIN agents
          /\ agents' = [agents EXCEPT ![healing[l]].token = TokenOf[l]]
    /\ healing' = [healing EXCEPT ![l] = None]
    /\ UNCHANGED <<hosts, up, hostOf, foreign>>

\* handleAgentWS: the host is resolved for the new connection, which displaces
\* the link's previous one and does nothing before the repair is over.
Connect(l) ==
    /\ up' = up \cup {l}
    /\ \E h \in Hosts \cup {None}, a \in Agents \cup {None} : Found(l, h, a)
    /\ UNCHANGED <<hosts, agents, foreign>>

\* hello and skill.advertise try again as long as it is not known.
LazyResolve(l) ==
    /\ l \in up
    /\ hostOf[l] = None
    /\ \E h \in Hosts, a \in Agents \cup {None} : Found(l, h, a)
    /\ UNCHANGED <<hosts, agents, up, foreign>>

\* The socket breaks, or the connection is closed from outside.
Disconnect(l) ==
    /\ l \in up
    /\ healing[l] = None
    /\ up' = up \ {l}
    /\ hostOf' = [hostOf EXCEPT ![l] = None]
    /\ UNCHANGED <<hosts, agents, healing, foreign>>

-----------------------------------------------------------------------------
\* DELETE FROM hosts, by an operator or by the plugin that owns the machine.
\* Its agents go with it; a connection keeps the id it was given.
DropHost(h) ==
    /\ h \in DOMAIN hosts
    /\ hosts' = Without(hosts, {h})
    /\ agents' = Without(agents, {a \in DOMAIN agents : agents[a].host = h})
    /\ UNCHANGED <<up, hostOf, healing, foreign>>

-----------------------------------------------------------------------------
\* A connection is given the host its agent runs on or none, however many
\* registrations, repairs and deletions came before, unless another machine was
\* registered (or migrated) under the connection's own token, agent id or bot, or
\* as the agent it is being resolved by: then it may be that machine's host.  The
\* look-ups and repairs make no wrong guess of their own
\* (resolveHostIDForAgentConn, healAgentTokenLink).
OwnHost == \A l \in Links : hostOf[l] \in {None, Home[l]} \cup foreign[l]
=============================================================================
