------------------------- MODULE HostSkills_proofs --------------------------
(***************************************************************************)
(* Proofs about HostLinks and HostSkills, for any number of machines,      *)
(* tokens, skills, requests and layouts.                                   *)
(***************************************************************************)
EXTENDS HostSkills, TLAPS

\* A table of rows of one type stays one.
LEMMA UpsertType ==
    ASSUME NEW S, NEW T, NEW table, IsTable(table, S, T), NEW x \in S, NEW v \in T
    PROVE  IsTable(Upsert(table, x, v), S, T)
  <1> DEFINE new == Upsert(table, x, v)
  <1>1. table \in [DOMAIN table -> T] /\ DOMAIN table \subseteq S
    BY DEF IsTable
  <1>2. new \in [DOMAIN new -> T] /\ DOMAIN new \subseteq S
    BY <1>1 DEF Upsert
  <1> QED BY <1>2 DEF IsTable

\* So does a table some of whose rows are deleted.
LEMMA WithoutType ==
    ASSUME NEW S, NEW T, NEW table, IsTable(table, S, T), NEW X
    PROVE  IsTable(Without(table, X), S, T)
  <1>1. table \in [DOMAIN table -> T] /\ DOMAIN table \subseteq S
    BY DEF IsTable
  <1>2. /\ Without(table, X) \in [DOMAIN Without(table, X) -> T]
        /\ DOMAIN Without(table, X) \subseteq S
    BY <1>1 DEF Without
  <1> QED BY <1>2 DEF IsTable

\* The empty table.
LEMMA EmptyTable ==
    ASSUME NEW S, NEW T
    PROVE  IsTable(Empty, S, T) /\ DOMAIN Empty = {}
  BY DEF IsTable, Empty

\* One row of a table is replaced.
LEMMA ReplaceRow ==
    ASSUME NEW S, NEW T, NEW table, IsTable(table, S, T), NEW x \in DOMAIN table, NEW v \in T
    PROVE  IsTable([table EXCEPT ![x] = v], S, T)
  BY DEF IsTable

-----------------------------------------------------------------------------
(* The inductive invariant *)

\* The hosts that a link may be given.
Led(l) == {Home[l]} \cup foreign[l]

\* What OwnHost rests on: every row that a link could be resolved by leads to one
\* of them, and a repair under way is one that the foreign key lets through.
RowsLeadHome ==
    /\ \A l \in Links : \A h \in DOMAIN hosts : hosts[h].token = TokenOf[l] => h \in Led(l)
    /\ \A l \in Links : \A a \in DOMAIN agents : Identifies(l, a, agents[a]) => agents[a].host \in Led(l)
    /\ \A l \in Links : hostOf[l] \in {None} \cup Led(l)
    /\ \A l \in Links : healing[l] # None => TokenOf[l] \in Legacy

\* What GrantHolds rests on.  A request that was not ahead names an id that has been
\* handed out, and as long as the skill is on the host it checked, that host has
\* not moved.  A granted one was granted a skill of its host.
RequestsKnown ==
    \A q \in Requests :
        /\ rpc[q] # "idle" => rskill[q] \in SkillIds
        /\ rpc[q] # "idle" /\ q \notin ahead => rskill[q] < nextSkill
        /\ rpc[q] # "idle" /\ q \notin ahead
             /\ rskill[q] \in DOMAIN skills /\ skills[rskill[q]].host = rhost[q]
             => hosts[rhost[q]].ws = ActiveIn[q]
        /\ rpc[q] = "granted" => rskill[q] < nextSkill
        /\ rpc[q] = "granted" /\ rskill[q] \in DOMAIN skills => skills[rskill[q]].host = rhost[q]

\* The id in a pane is never handed out again.
PanesKnown ==
    \A y \in DOMAIN layouts :
        /\ layouts[y].skill < nextSkill
        /\ layouts[y].skill \in DOMAIN skills =>
             /\ skills[layouts[y].skill].host = layouts[y].host
             /\ skills[layouts[y].skill].kind = layouts[y].kind

\* A row of credentials is one of two kinds and holds what was put.
CredsExact ==
    \A c \in DOMAIN creds :
        \/ /\ creds[c].encrypted = FALSE
           /\ creds[c].plain = stored[c]
           /\ creds[c].cipher = None
        \/ /\ creds[c].encrypted = TRUE
           /\ creds[c].plain = None
           /\ creds[c].cipher \in Sealed
           /\ creds[c].cipher.value = stored[c]

IInv ==
    /\ TypeOK
    /\ RowsLeadHome
    /\ RequestsKnown
    /\ PanesKnown
    /\ CredsExact

\* Init establishes the invariant.
LEMMA InitIInv == Init => IInv
  <1> SUFFICES ASSUME Init PROVE IInv
    OBVIOUS
  <1> USE DEF Init, LinksInit
  <1>1. LinksTypeOK
    <2>1. IsTable(hosts, Hosts, HostRows) /\ IsTable(agents, Agents, AgentRows)
      BY LinksAssumption
    <2>2. DOMAIN hosts \subseteq Hosts /\ \A a \in DOMAIN agents : agents[a].host \in Hosts
      BY <2>1, LinksAssumption DEF IsTable
    <2>3. foreign \in [Links -> SUBSET Hosts]
      BY <2>2
    <2> QED BY <2>1, <2>3, LinksAssumption DEF LinksTypeOK
  <1>2. SkillsOK
    BY EmptyTable, SkillsAssumption DEF SkillsOK
  <1>3. CredsOK
    BY EmptyTable DEF CredsOK
  <1>4. RequestsOK
    BY DEF RequestsOK
  <1>5. IsTable(layouts, Layouts, Panes)
    BY EmptyTable
  <1>6. RowsLeadHome
    <2>1. \A l \in Links : foreign[l] =
            ({h \in DOMAIN hosts : hosts[h].token = TokenOf[l]}
               \cup {agents[a].host : a \in {x \in DOMAIN agents : Identifies(l, x, agents[x])}}) \ {Home[l]}
      OBVIOUS
    <2>2. \A l \in Links : \A h \in DOMAIN hosts : hosts[h].token = TokenOf[l] => h \in Led(l)
      BY <2>1 DEF Led
    <2>3. \A l \in Links : \A a \in DOMAIN agents : Identifies(l, a, agents[a]) => agents[a].host \in Led(l)
      BY <2>1 DEF Led
    <2> QED BY <2>2, <2>3 DEF RowsLeadHome
  <1>7. RequestsKnown /\ PanesKnown /\ CredsExact
    BY EmptyTable DEF RequestsKnown, PanesKnown, CredsExact
  <1> QED BY <1>1, <1>2, <1>3, <1>4, <1>5, <1>6, <1>7 DEF IInv, TypeOK

-----------------------------------------------------------------------------
(* Links *)

\* A row that could be linked to a machine before can be linked to it after: the
\* hosts of a link are never taken back.
LEMMA LedGrows ==
    ASSUME NEW l \in Links, foreign[l] \subseteq foreign'[l]
    PROVE  Led(l) \subseteq Led(l)'
  BY DEF Led

\* A look-up finds a host that the link may be given, and an agent with that host.
LEMMA Resolved ==
    ASSUME LinksTypeOK, RowsLeadHome, NEW l \in Links, NEW h, NEW a, Resolve(l, h, a)
    PROVE  /\ h \in {None} \cup Led(l)
           /\ a # None => /\ a \in DOMAIN agents
                          /\ \/ a = AgentOf[l]
                             \/ BotOf[l] # None /\ agents[a].bot = BotOf[l]
  <1>1. \A x \in DOMAIN agents : Identifies(l, x, agents[x]) => agents[x].host \in Led(l)
    BY DEF RowsLeadHome
  <1>2. CASE ByToken(l, h, a)
    <2>1. CASE \E x \in DOMAIN agents : agents[x].token = TokenOf[l] /\ agents[x].host = h
      BY <1>1, <1>2, <2>1 DEF ByToken, Identifies
    <2>2. CASE h \in DOMAIN hosts /\ hosts[h].token = TokenOf[l]
      BY <1>2, <2>2 DEF ByToken, RowsLeadHome
    <2> QED BY <1>2, <2>1, <2>2 DEF ByToken
  <1>3. CASE ByAgent(l, h, a)
    <2>1. a \in DOMAIN agents /\ h = agents[a].host /\ a = AgentOf[l]
      BY <1>3 DEF ByAgent
    <2>2. Identifies(l, a, agents[a])
      BY <2>1 DEF Identifies
    <2> QED BY <1>1, <2>1, <2>2
  <1>4. CASE ByBot(l, h, a)
    <2>1. a \in DOMAIN agents /\ h = agents[a].host /\ BotOf[l] # None /\ agents[a].bot = BotOf[l]
      BY <1>4 DEF ByBot
    <2>2. Identifies(l, a, agents[a])
      BY <2>1 DEF Identifies
    <2> QED BY <1>1, <2>1, <2>2
  <1>5. CASE h = None /\ a = None
    BY <1>5
  <1> QED BY <1>2, <1>3, <1>4, <1>5 DEF Resolve

\* To resolve a link keeps RowsLeadHome: the agent that is about to be repaired was
\* one of its own.
LEMMA FoundKeepsHome ==
    ASSUME LinksTypeOK, RowsLeadHome, NEW l \in Links, NEW h \in Hosts \cup {None}, NEW a \in Agents \cup {None},
           Found(l, h, a), UNCHANGED <<hosts, agents, foreign>>, up' \subseteq Links
    PROVE  LinksTypeOK' /\ RowsLeadHome'
  <1>1. /\ h \in {None} \cup Led(l)
        /\ a # None => /\ a \in DOMAIN agents
                       /\ \/ a = AgentOf[l]
                          \/ BotOf[l] # None /\ agents[a].bot = BotOf[l]
    BY Resolved DEF Found
  <1>2. /\ \A m \in Links : hostOf'[m] = IF m = l THEN h ELSE hostOf[m]
        /\ \A m \in Links : healing'[m] = IF m = l THEN IF TokenOf[l] \in Legacy THEN a ELSE None ELSE healing[m]
    BY DEF Found, LinksTypeOK
  <1>3. LinksTypeOK'
    BY DEF Found, LinksTypeOK
  <1>4. ASSUME NEW m \in Links, NEW x \in DOMAIN agents, Identifies(m, x, agents[x])'
        PROVE  Identifies(m, x, agents[x])
    <2>1. CASE agents[x].token = TokenOf[m]
      BY <2>1 DEF Identifies
    <2>2. CASE agents[x].token # TokenOf[m]
      <3>1. PICK k \in Links : /\ TokenOf[k] = TokenOf[m]
                               /\ x \in {AgentOf[k], healing'[k]} \/ (BotOf[k] # None /\ agents[x].bot = BotOf[k])
        BY <1>4, <2>2 DEF Identifies
      <3>2. x # None
        BY LinksAssumption DEF LinksTypeOK, IsTable
      <3>3. CASE k = l /\ x = healing'[k]
        BY <1>1, <1>2, <3>1, <3>2, <3>3 DEF Identifies
      <3>4. CASE ~(k = l /\ x = healing'[k])
        BY <1>2, <3>1, <3>4 DEF Identifies
      <3> QED BY <3>3, <3>4
    <2> QED BY <2>1, <2>2
  <1>5. \A m \in Links : Led(m)' = Led(m)
    BY DEF Led
  <1>6. \A m \in Links : \A g \in DOMAIN hosts' : hosts'[g].token = TokenOf[m] => g \in Led(m)'
    BY <1>5 DEF RowsLeadHome
  <1>7. \A m \in Links : \A x \in DOMAIN agents' : Identifies(m, x, agents[x])' => agents'[x].host \in Led(m)'
    BY <1>4, <1>5 DEF RowsLeadHome
  <1>8. \A m \in Links : hostOf'[m] \in {None} \cup Led(m)'
    BY <1>1, <1>2, <1>5 DEF RowsLeadHome
  <1>9. \A m \in Links : healing'[m] # None => TokenOf[m] \in Legacy
    BY <1>2 DEF RowsLeadHome
  <1> QED BY <1>3, <1>6, <1>7, <1>8, <1>9 DEF RowsLeadHome

\* A repair writes the link's token into the row that was found, which is one of
\* its own as long as the repair is under way, wherever it has been registered since.
LEMMA HealKeepsHome ==
    ASSUME LinksTypeOK, RowsLeadHome, NEW l \in Links, Heal(l)
    PROVE  LinksTypeOK' /\ RowsLeadHome'
  <1> DEFINE b == healing[l]
  <1>1. /\ b # None /\ TokenOf[l] \in Legacy
        /\ healing' = [healing EXCEPT ![l] = None]
        /\ UNCHANGED <<hosts, up, hostOf, foreign>>
    BY DEF Heal, RowsLeadHome
  <1>2. IsTable(agents, Agents, AgentRows)
    BY DEF LinksTypeOK
  <1>3. /\ IsTable(agents', Agents, AgentRows)
        /\ DOMAIN agents' = DOMAIN agents
        /\ \A x \in DOMAIN agents : agents'[x].host = agents[x].host /\ agents'[x].bot = agents[x].bot
        /\ \A x \in DOMAIN agents : \/ agents'[x].token = agents[x].token
                                    \/ x = b /\ agents'[x].token = TokenOf[l]
    <2>1. CASE agents' = agents
      BY <1>2, <2>1
    <2>2. CASE b \in DOMAIN agents /\ agents' = [agents EXCEPT ![b].token = TokenOf[l]]
      <3>1. agents[b] \in AgentRows
        BY <1>2, <2>2 DEF IsTable
      <3>2. [agents[b] EXCEPT !.token = TokenOf[l]] \in AgentRows
        BY <1>1, <3>1 DEF AgentRows
      <3>3. IsTable(agents', Agents, AgentRows)
        BY <1>2, <2>2, <3>2, ReplaceRow
      <3>4. DOMAIN agents' = DOMAIN agents
        BY <2>2
      <3>5. \A x \in DOMAIN agents : x # b => agents'[x] = agents[x]
        BY <1>2, <2>2 DEF IsTable
      <3>6. agents'[b] = [agents[b] EXCEPT !.token = TokenOf[l]]
        BY <1>2, <2>2 DEF IsTable
      <3>7. agents'[b].host = agents[b].host /\ agents'[b].bot = agents[b].bot /\ agents'[b].token = TokenOf[l]
        BY <3>1, <3>6 DEF AgentRows
      <3> QED BY <3>3, <3>4, <3>5, <3>7
    <2> QED BY <2>1, <2>2 DEF Heal
  <1>4. LinksTypeOK'
    BY <1>1, <1>3 DEF LinksTypeOK
  <1>5. \A m \in Links : healing'[m] = IF m = l THEN None ELSE healing[m]
    BY <1>1 DEF LinksTypeOK
  <1>6. ASSUME NEW m \in Links, NEW x \in DOMAIN agents, Identifies(m, x, agents[x])'
        PROVE  Identifies(m, x, agents[x])
    <2>1. agents'[x].bot = agents[x].bot /\ x # None
      BY <1>2, <1>3, LinksAssumption DEF IsTable
    <2>2. CASE agents'[x].token = TokenOf[m]
      <3>1. CASE agents'[x].token = agents[x].token
        BY <2>2, <3>1 DEF Identifies
      <3>2. CASE x = b /\ TokenOf[l] = TokenOf[m]
        BY <3>2 DEF Identifies
      <3> QED BY <1>3, <2>2, <3>1, <3>2
    <2>3. CASE agents'[x].token # TokenOf[m]
      <3>1. PICK k \in Links : /\ TokenOf[k] = TokenOf[m]
                               /\ x \in {AgentOf[k], healing'[k]} \/ (BotOf[k] # None /\ agents'[x].bot = BotOf[k])
        BY <1>6, <2>3 DEF Identifies
      <3>2. x \in {AgentOf[k], healing[k]} \/ (BotOf[k] # None /\ agents[x].bot = BotOf[k])
        BY <1>5, <2>1, <3>1
      <3> QED BY <3>1, <3>2 DEF Identifies
    <2> QED BY <2>2, <2>3
  <1>7. \A m \in Links : Led(m)' = Led(m)
    BY <1>1 DEF Led
  <1>8. \A m \in Links : \A g \in DOMAIN hosts' : hosts'[g].token = TokenOf[m] => g \in Led(m)'
    BY <1>1, <1>7 DEF RowsLeadHome
  <1>9. \A m \in Links : \A x \in DOMAIN agents' : Identifies(m, x, agents[x])' => agents'[x].host \in Led(m)'
    BY <1>3, <1>6, <1>7 DEF RowsLeadHome
  <1>10. \A m \in Links : hostOf'[m] \in {None} \cup Led(m)'
    BY <1>1, <1>7 DEF RowsLeadHome
  <1>11. \A m \in Links : healing'[m] # None => TokenOf[m] \in Legacy
    BY <1>5 DEF RowsLeadHome
  <1> QED BY <1>4, <1>8, <1>9, <1>10, <1>11 DEF RowsLeadHome

\* registerAgent's upsert of the host.
LEMMA InsertHostKeepsHome ==
    ASSUME LinksTypeOK, RowsLeadHome, NEW l \in Links, NEW w \in Workspaces, InsertHost(l, w)
    PROVE  /\ LinksTypeOK' /\ RowsLeadHome'
           /\ DOMAIN hosts \subseteq DOMAIN hosts'
           /\ \A h \in DOMAIN hosts : hosts'[h] = hosts[h]
  <1> DEFINE row == IF Home[l] \in DOMAIN hosts THEN hosts[Home[l]] ELSE [ws |-> w, token |-> None]
  <1>1. IsTable(hosts, Hosts, HostRows) /\ Home[l] \in Hosts
    BY LinksAssumption DEF LinksTypeOK
  <1>2. row \in HostRows
    BY <1>1 DEF IsTable, HostRows
  <1>3. /\ hosts' = Upsert(hosts, Home[l], row)
        /\ UNCHANGED <<agents, up, hostOf, healing, foreign>>
    BY DEF InsertHost
  <1> HIDE DEF row
  <1>4. /\ IsTable(hosts', Hosts, HostRows)
        /\ DOMAIN hosts' = DOMAIN hosts \cup {Home[l]}
        /\ hosts'[Home[l]] = row
        /\ \A y \in DOMAIN hosts : y # Home[l] => hosts'[y] = hosts[y]
    <2>1. IsTable(Upsert(hosts, Home[l], row), Hosts, HostRows)
      BY <1>1, <1>2, UpsertType
    <2>2. IsTable(hosts', Hosts, HostRows)
      BY <1>3, <2>1
    <2>3. /\ DOMAIN hosts' = DOMAIN hosts \cup {Home[l]}
          /\ hosts'[Home[l]] = row
          /\ \A y \in DOMAIN hosts : y # Home[l] => hosts'[y] = hosts[y]
      BY <1>3 DEF Upsert
    <2> QED BY <2>2, <2>3
  <1>5. \A h \in DOMAIN hosts : hosts'[h] = hosts[h]
    BY <1>4 DEF row
  <1>6. Home[l] \notin DOMAIN hosts => hosts'[Home[l]].token = None
    BY <1>4 DEF row
  <1>7. \A m \in Links : TokenOf[m] # None
    BY LinksAssumption
  <1>8. LinksTypeOK'
    BY <1>3, <1>4 DEF LinksTypeOK
  <1>9. RowsLeadHome'
    <2>1. \A m \in Links : Led(m)' = Led(m)
      BY <1>3 DEF Led
    <2>2. \A m \in Links : \A a \in DOMAIN agents : Identifies(m, a, agents[a])' <=> Identifies(m, a, agents[a])
      BY <1>3 DEF Identifies
    <2>3. \A m \in Links : \A h \in DOMAIN hosts' : hosts'[h].token = TokenOf[m] => h \in Led(m)'
      BY <1>4, <1>5, <1>6, <1>7, <2>1 DEF RowsLeadHome
    <2>4. \A m \in Links : \A a \in DOMAIN agents' : Identifies(m, a, agents[a])' => agents'[a].host \in Led(m)'
      BY <1>3, <2>1, <2>2 DEF RowsLeadHome
    <2>5. \A m \in Links : hostOf'[m] \in {None} \cup Led(m)'
      BY <1>3, <2>1 DEF RowsLeadHome
    <2>6. \A m \in Links : healing'[m] # None => TokenOf[m] \in Legacy
      BY <1>3 DEF RowsLeadHome
    <2> QED BY <2>3, <2>4, <2>5, <2>6 DEF RowsLeadHome
  <1> QED BY <1>4, <1>5, <1>8, <1>9

\* registerAgent's upsert of the agent.  Its host becomes one of those that the links
\* the row identifies may be given.
LEMMA InsertAgentKeepsHome ==
    ASSUME LinksTypeOK, RowsLeadHome, NEW l \in Links, NEW b \in Bots \cup {None}, InsertAgent(l, b)
    PROVE  LinksTypeOK' /\ RowsLeadHome' /\ hosts' = hosts
  <1> DEFINE a == AgentOf[l]
             bot == IF b = None /\ a \in DOMAIN agents THEN agents[a].bot ELSE b
             token == IF a \in DOMAIN agents THEN agents[a].token ELSE LocalOnly
             row == [host |-> Home[l], bot |-> bot, token |-> token]
  <1>1. IsTable(agents, Agents, AgentRows) /\ Home[l] \in Hosts
    BY LinksAssumption DEF LinksTypeOK
  <1>2. a # None /\ a \in Agents /\ Home[l] \in DOMAIN hosts
    BY LinksAssumption DEF InsertAgent
  <1>3. /\ agents' = Upsert(agents, a, row)
        /\ foreign' = [m \in Links |->
             IF Identifies(m, a, row) THEN foreign[m] \cup ({Home[l]} \ {Home[m]}) ELSE foreign[m]]
        /\ UNCHANGED <<hosts, up, hostOf, healing>>
    BY DEF InsertAgent
  <1>4. bot \in Bots \cup {None} /\ token \in Legacy \cup {LocalOnly}
    BY <1>1 DEF IsTable, AgentRows
  <1>5. row \in AgentRows /\ row.host = Home[l]
    BY <1>1, <1>4 DEF AgentRows
  <1> HIDE DEF row, bot, token
  <1>6. /\ IsTable(agents', Agents, AgentRows)
        /\ DOMAIN agents' = DOMAIN agents \cup {a}
        /\ agents'[a] = row
        /\ \A y \in DOMAIN agents : y # a => agents'[y] = agents[y]
    <2>1. IsTable(Upsert(agents, a, row), Agents, AgentRows)
      BY <1>1, <1>2, <1>5, UpsertType
    <2>2. IsTable(agents', Agents, AgentRows)
      BY <1>3, <2>1
    <2>3. /\ DOMAIN agents' = DOMAIN agents \cup {a}
          /\ agents'[a] = row
          /\ \A y \in DOMAIN agents : y # a => agents'[y] = agents[y]
      BY <1>3 DEF Upsert
    <2> QED BY <2>2, <2>3
  <1>7. foreign' \in [Links -> SUBSET Hosts]
    BY <1>1, <1>3 DEF LinksTypeOK
  <1>8. LinksTypeOK'
    BY <1>2, <1>3, <1>5, <1>6, <1>7 DEF LinksTypeOK
  <1>9. \A m \in Links : Led(m) \subseteq Led(m)'
    <2>1. \A m \in Links : foreign[m] \subseteq foreign'[m]
      BY <1>3
    <2> QED BY <2>1, LedGrows
  <1>10. \A m \in Links : Identifies(m, a, row) => Home[l] \in Led(m)'
    BY <1>3 DEF Led
  <1>11. ASSUME NEW m \in Links, NEW x \in DOMAIN agents', Identifies(m, x, agents[x])'
         PROVE  agents'[x].host \in Led(m)'
    <2>1. Identifies(m, x, agents'[x])
      BY <1>3, <1>11 DEF Identifies
    <2>2. CASE x = a
      BY <1>5, <1>6, <1>10, <2>1, <2>2
    <2>3. CASE x # a
      <3>1. x \in DOMAIN agents /\ agents'[x] = agents[x]
        BY <1>6, <2>3
      <3>2. agents[x].host \in Led(m)
        BY <2>1, <3>1 DEF RowsLeadHome
      <3> QED BY <1>9, <3>1, <3>2
    <2> QED BY <2>2, <2>3
  <1>12. \A m \in Links : \A h \in DOMAIN hosts' : hosts'[h].token = TokenOf[m] => h \in Led(m)'
    BY <1>3, <1>9 DEF RowsLeadHome
  <1>13. \A m \in Links : hostOf'[m] \in {None} \cup Led(m)'
    BY <1>3, <1>9 DEF RowsLeadHome
  <1>14. \A m \in Links : healing'[m] # None => TokenOf[m] \in Legacy
    BY <1>3 DEF RowsLeadHome
  <1>15. RowsLeadHome'
    BY <1>11, <1>12, <1>13, <1>14 DEF RowsLeadHome
  <1> QED BY <1>3, <1>8, <1>15

\* What a link's own steps keep: the hosts that are there and their workspaces,
\* and where the rows lead.
LEMMA LinkKeeps ==
    ASSUME LinksTypeOK, RowsLeadHome, NEW l \in Links, Link(l)
    PROVE  /\ LinksTypeOK' /\ RowsLeadHome'
           /\ DOMAIN hosts \subseteq DOMAIN hosts'
           /\ \A h \in DOMAIN hosts : hosts'[h] = hosts[h]
  <1>1. CASE \E w \in Workspaces : InsertHost(l, w)
    BY <1>1, InsertHostKeepsHome
  <1>2. CASE \E b \in Bots \cup {None} : InsertAgent(l, b)
    BY <1>2, InsertAgentKeepsHome
  <1>3. CASE Connect(l)
    <2>1. PICK h \in Hosts \cup {None}, a \in Agents \cup {None} : Found(l, h, a)
      BY <1>3 DEF Connect
    <2>2. UNCHANGED <<hosts, agents, foreign>> /\ up' \subseteq Links
      BY <1>3 DEF Connect, LinksTypeOK
    <2> QED BY <2>1, <2>2, FoundKeepsHome
  <1>4. CASE LazyResolve(l)
    <2>1. PICK h \in Hosts, a \in Agents \cup {None} : Found(l, h, a)
      BY <1>4 DEF LazyResolve
    <2>2. UNCHANGED <<hosts, agents, foreign>> /\ up' \subseteq Links
      BY <1>4 DEF LazyResolve, LinksTypeOK
    <2> QED BY <2>1, <2>2, FoundKeepsHome
  <1>5. CASE Heal(l)
    BY <1>5, HealKeepsHome DEF Heal
  <1>6. CASE Disconnect(l)
    <2>1. /\ hostOf' = [hostOf EXCEPT ![l] = None] /\ up' \subseteq Links
          /\ UNCHANGED <<hosts, agents, healing, foreign>>
      BY <1>6 DEF Disconnect, LinksTypeOK
    <2>2. LinksTypeOK'
      BY <2>1 DEF LinksTypeOK
    <2>3. \A m \in Links : hostOf'[m] \in {None, hostOf[m]}
      BY <2>1 DEF LinksTypeOK
    <2>4. RowsLeadHome'
      BY <2>1, <2>3 DEF RowsLeadHome, Led, Identifies
    <2> QED BY <2>1, <2>2, <2>4
  <1> QED BY <1>1, <1>2, <1>3, <1>4, <1>5, <1>6 DEF Link

\* A deletion takes rows away and adds none.
LEMMA DropKeepsHome ==
    ASSUME LinksTypeOK, RowsLeadHome, NEW h \in Hosts, DropHost(h)
    PROVE  /\ LinksTypeOK' /\ RowsLeadHome'
           /\ DOMAIN hosts' = DOMAIN hosts \ {h}
           /\ \A g \in DOMAIN hosts' : hosts'[g] = hosts[g]
  <1> DEFINE gone == {a \in DOMAIN agents : agents[a].host = h}
  <1>1. /\ hosts' = Without(hosts, {h})
        /\ agents' = Without(agents, gone)
        /\ UNCHANGED <<up, hostOf, healing, foreign>>
    BY DEF DropHost
  <1>2. IsTable(hosts, Hosts, HostRows) /\ IsTable(agents, Agents, AgentRows)
    BY DEF LinksTypeOK
  <1>3. /\ IsTable(hosts', Hosts, HostRows)
        /\ DOMAIN hosts' = DOMAIN hosts \ {h}
        /\ \A g \in DOMAIN hosts' : hosts'[g] = hosts[g]
    <2>1. IsTable(Without(hosts, {h}), Hosts, HostRows)
      BY <1>2, WithoutType
    <2>2. IsTable(hosts', Hosts, HostRows)
      BY <1>1, <2>1
    <2>3. /\ DOMAIN hosts' = DOMAIN hosts \ {h}
          /\ \A g \in DOMAIN hosts' : hosts'[g] = hosts[g]
      BY <1>1 DEF Without
    <2> QED BY <2>2, <2>3
  <1>4. /\ IsTable(agents', Agents, AgentRows)
        /\ DOMAIN agents' = DOMAIN agents \ gone
        /\ \A a \in DOMAIN agents' : agents'[a] = agents[a]
    <2> HIDE DEF gone
    <2>1. IsTable(Without(agents, gone), Agents, AgentRows)
      BY <1>2, WithoutType
    <2>2. IsTable(agents', Agents, AgentRows)
      BY <1>1, <2>1
    <2>3. /\ DOMAIN agents' = DOMAIN agents \ gone
          /\ \A a \in DOMAIN agents' : agents'[a] = agents[a]
      BY <1>1 DEF Without
    <2> QED BY <2>2, <2>3
  <1>5. LinksTypeOK'
    BY <1>1, <1>3, <1>4 DEF LinksTypeOK
  <1>6. RowsLeadHome'
    <2> HIDE DEF gone
    <2>1. \A l \in Links : Led(l)' = Led(l)
      BY <1>1 DEF Led
    <2>2. \A l \in Links : \A g \in DOMAIN hosts' : hosts'[g].token = TokenOf[l] => g \in Led(l)'
      BY <1>3, <2>1 DEF RowsLeadHome
    <2>3. ASSUME NEW l \in Links, NEW a \in DOMAIN agents', Identifies(l, a, agents[a])'
          PROVE  agents'[a].host \in Led(l)'
      <3>1. a \in DOMAIN agents /\ agents'[a] = agents[a]
        BY <1>4
      <3>2. Identifies(l, a, agents[a])
        BY <1>1, <2>3, <3>1 DEF Identifies
      <3> QED BY <2>1, <3>1, <3>2 DEF RowsLeadHome
    <2>4. \A l \in Links : hostOf'[l] \in {None} \cup Led(l)'
      BY <1>1, <2>1 DEF RowsLeadHome
    <2>5. \A l \in Links : healing'[l] # None => TokenOf[l] \in Legacy
      BY <1>1 DEF RowsLeadHome
    <2> QED BY <2>2, <2>3, <2>4, <2>5 DEF RowsLeadHome
  <1> QED BY <1>3, <1>5, <1>6

\* Nothing about links depends on the rest of the state.
LEMMA LinksUnchanged ==
    ASSUME LinksTypeOK, RowsLeadHome, UNCHANGED linkVars
    PROVE  LinksTypeOK' /\ RowsLeadHome'
  <1>1. UNCHANGED <<hosts, agents, up, hostOf, healing, foreign>>
    BY DEF linkVars
  <1>2. LinksTypeOK'
    BY <1>1 DEF LinksTypeOK
  <1>3. RowsLeadHome'
    BY <1>1 DEF RowsLeadHome, Led, Identifies
  <1> QED BY <1>2, <1>3

\* The steps of links do not disturb what hangs on the hosts.
LEMMA LinkKeepsIInv ==
    ASSUME IInv, NEW l \in Links, Link(l)
    PROVE  IInv'
  <1>1. /\ LinksTypeOK' /\ RowsLeadHome'
        /\ DOMAIN hosts \subseteq DOMAIN hosts'
        /\ \A h \in DOMAIN hosts : hosts'[h] = hosts[h]
    BY LinkKeeps DEF IInv, TypeOK
  <1>2. /\ UNCHANGED <<skills, nextSkill, creds, master, layouts, stored>>
        /\ UNCHANGED <<rpc, rhost, rskill, ahead>>
    BY DEF Link, skillVars, requestVars
  <1>3. SkillsOK'
    BY <1>1, <1>2 DEF IInv, TypeOK, SkillsOK
  <1>4. CredsOK' /\ RequestsOK' /\ IsTable(layouts', Layouts, Panes)
    BY <1>2 DEF IInv, TypeOK, CredsOK, RequestsOK
  <1>5. RequestsKnown'
    BY <1>1, <1>2 DEF IInv, TypeOK, SkillsOK, RequestsKnown
  <1>6. PanesKnown' /\ CredsExact'
    BY <1>2 DEF IInv, PanesKnown, CredsExact
  <1> QED BY <1>1, <1>3, <1>4, <1>5, <1>6 DEF IInv, TypeOK

-----------------------------------------------------------------------------
(* Skills *)

\* The next id of the sequence.
LEMMA NextId ==
    ASSUME NEW m \in Nat, NEW n \in 1 .. m + 1, n <= m
    PROVE  /\ n \in 1 .. m /\ n + 1 \in 1 .. m + 1 /\ n < n + 1
           /\ \A s \in 1 .. m : s < n => s < n + 1 /\ s # n
  OBVIOUS

\* What an advertised skill changes: there may be one row more, under a new id.
LEMMA EnsureRows ==
    ASSUME LinksTypeOK, SkillsOK, hosts' = hosts, NEW h \in Hosts, NEW k \in Kinds, EnsureSkill(h, k)
    PROVE  /\ SkillsOK'
           /\ DOMAIN skills \subseteq DOMAIN skills'
           /\ \A s \in DOMAIN skills : skills'[s] = skills[s]
           /\ \A s \in SkillIds : s < nextSkill => s < nextSkill'
           /\ \A s \in DOMAIN skills' : s < nextSkill => s \in DOMAIN skills
  <1> DEFINE row == [host |-> h, kind |-> k, name |-> k]
  <1>1. h \in DOMAIN hosts
    BY DEF EnsureSkill
  <1>2. /\ IsTable(skills, SkillIds, SkillRows) /\ nextSkill \in 1 .. MaxSkill + 1
        /\ \A s \in DOMAIN skills : s \in SkillIds
    BY DEF SkillsOK, IsTable
  <1>3. CASE skills' = skills /\ nextSkill' = nextSkill
    <2>1. SkillsOK'
      BY <1>3 DEF SkillsOK
    <2> QED BY <1>3, <2>1
  <1>4. CASE /\ NewSkill(h, k)
             /\ ~\E s \in DOMAIN skills : skills[s].host = h /\ skills[s].kind = k
    <2>1. /\ nextSkill <= MaxSkill
          /\ skills' = Upsert(skills, nextSkill, row)
          /\ nextSkill' = nextSkill + 1
      BY <1>4 DEF NewSkill
    <2>2. row \in SkillRows /\ row.host = h /\ row.kind = k
      BY SkillsAssumption DEF SkillRows
    <2> HIDE DEF row
    <2>3. /\ nextSkill \in SkillIds /\ nextSkill' \in 1 .. MaxSkill + 1 /\ nextSkill < nextSkill'
          /\ \A s \in SkillIds : s < nextSkill => s < nextSkill' /\ s # nextSkill
      BY <1>2, <2>1, NextId, SkillsAssumption DEF SkillIds
    <2>4. IsTable(Upsert(skills, nextSkill, row), SkillIds, SkillRows)
      BY <1>2, <2>2, <2>3, UpsertType
    <2>5. IsTable(skills', SkillIds, SkillRows)
      BY <2>1, <2>4
    <2>6. /\ DOMAIN skills' = DOMAIN skills \cup {nextSkill}
          /\ skills'[nextSkill] = row
          /\ \A s \in DOMAIN skills : s # nextSkill => skills'[s] = skills[s]
      BY <2>1 DEF Upsert
    <2>7. nextSkill \notin DOMAIN skills
      BY <1>2, <2>3 DEF SkillsOK
    <2>8. \A s \in DOMAIN skills : skills'[s] = skills[s]
      BY <2>6, <2>7
    <2>9. \A s \in DOMAIN skills' : s < nextSkill' /\ skills'[s].host \in DOMAIN hosts
      BY <1>1, <1>2, <2>2, <2>3, <2>6, <2>8 DEF SkillsOK
    <2>10. ASSUME NEW s \in DOMAIN skills', NEW t \in DOMAIN skills',
                  skills'[s].host = skills'[t].host, skills'[s].kind = skills'[t].kind
           PROVE  s = t
      BY <1>4, <2>2, <2>6, <2>8, <2>10 DEF SkillsOK
    <2>11. SkillsOK'
      BY <2>3, <2>5, <2>9, <2>10 DEF SkillsOK
    <2>12. \A s \in DOMAIN skills' : s < nextSkill => s \in DOMAIN skills
      BY <2>3, <2>6
    <2> QED BY <2>3, <2>6, <2>8, <2>11, <2>12
  <1> QED BY <1>3, <1>4 DEF EnsureSkill

\* An advertised skill leaves the rest of the invariant alone.
LEMMA EnsureKeepsIInv ==
    ASSUME IInv, NEW h \in Hosts, NEW k \in Kinds, EnsureSkill(h, k), UNCHANGED linkVars
    PROVE  IInv'
  <1>1. /\ hosts' = hosts /\ UNCHANGED linkVars
        /\ UNCHANGED <<creds, master, layouts, stored>>
        /\ UNCHANGED <<rpc, rhost, rskill, ahead>>
    BY DEF linkVars, EnsureSkill, requestVars
  <1>2. /\ SkillsOK'
        /\ DOMAIN skills \subseteq DOMAIN skills'
        /\ \A s \in DOMAIN skills : skills'[s] = skills[s]
        /\ \A s \in SkillIds : s < nextSkill => s < nextSkill'
        /\ \A s \in DOMAIN skills' : s < nextSkill => s \in DOMAIN skills
    BY <1>1, EnsureRows DEF IInv, TypeOK
  <1>3. LinksTypeOK' /\ RowsLeadHome'
    BY <1>1, LinksUnchanged DEF IInv, TypeOK
  <1>4. CredsOK' /\ RequestsOK' /\ IsTable(layouts', Layouts, Panes)
    BY <1>1, <1>2 DEF IInv, TypeOK, CredsOK, RequestsOK
  <1>5. RequestsKnown'
    BY <1>1, <1>2 DEF IInv, RequestsKnown
  <1>6. PanesKnown'
    <2>1. \A y \in DOMAIN layouts : layouts[y].skill \in SkillIds
      BY DEF IInv, TypeOK, IsTable, Panes
    <2> QED BY <1>1, <1>2, <2>1 DEF IInv, PanesKnown
  <1>7. CredsExact'
    BY <1>1 DEF IInv, CredsExact
  <1> QED BY <1>2, <1>3, <1>4, <1>5, <1>6, <1>7 DEF IInv, TypeOK

-----------------------------------------------------------------------------
(* Requests *)

\* What a request finds and leaves: the invariant's parts about requests, when
\* only requests change, or a name.
LEMMA OnlyRequests ==
    ASSUME IInv, UNCHANGED linkVars, UNCHANGED <<skills, nextSkill, creds, master, layouts, stored>>,
           RequestsOK', RequestsKnown'
    PROVE  IInv'
  <1>1. /\ UNCHANGED linkVars /\ hosts' = hosts
        /\ UNCHANGED <<skills, nextSkill, creds, master, layouts, stored>>
    BY DEF linkVars
  <1>2. LinksTypeOK' /\ RowsLeadHome'
    BY <1>1, LinksUnchanged DEF IInv, TypeOK
  <1>3. SkillsOK' /\ CredsOK' /\ IsTable(layouts', Layouts, Panes)
    BY <1>1 DEF IInv, TypeOK, SkillsOK, CredsOK
  <1>4. PanesKnown' /\ CredsExact'
    BY <1>1 DEF IInv, PanesKnown, CredsExact
  <1> QED BY <1>2, <1>3, <1>4 DEF IInv, TypeOK

\* A request that ends names nothing any more.
LEMMA ReplyRequests ==
    ASSUME IInv, NEW q \in Requests, Reply(q)
    PROVE  /\ RequestsOK'
           /\ rpc'[q] = "idle"
           /\ \A p \in Requests \ {q} :
                /\ rpc'[p] = rpc[p] /\ (p \in ahead' <=> p \in ahead)
                /\ rhost'[p] = rhost[p] /\ rskill'[p] = rskill[p]
  BY DEF Reply, IInv, TypeOK, RequestsOK

\* Requests that are checked, refused or given up.
LEMMA ChecksKeepIInv ==
    ASSUME IInv, NEW q \in Requests,
           \/ \E h \in Hosts, s \in SkillIds : CheckHost(q, h, s)
           \/ CheckSkill(q) \/ Refuse(q) \/ GiveUp(q)
    PROVE  IInv'
  <1>1. CASE \E h \in Hosts, s \in SkillIds : CheckHost(q, h, s)
    <2>1. PICK h \in Hosts, s \in SkillIds : CheckHost(q, h, s)
      BY <1>1
    <2>2. /\ h \in DOMAIN hosts /\ hosts[h].ws = ActiveIn[q]
          /\ rpc' = [rpc EXCEPT ![q] = "host"]
          /\ rhost' = [rhost EXCEPT ![q] = h] /\ rskill' = [rskill EXCEPT ![q] = s]
          /\ ahead' = IF s < nextSkill THEN ahead ELSE ahead \cup {q}
          /\ UNCHANGED linkVars /\ hosts' = hosts
          /\ UNCHANGED <<skills, nextSkill, creds, master, layouts, stored>>
      BY <2>1 DEF CheckHost, linkVars
    <2>3. RequestsOK'
      BY <2>2 DEF IInv, TypeOK, RequestsOK
    <2>4. RequestsKnown'
      BY <2>2 DEF IInv, TypeOK, RequestsOK, RequestsKnown
    <2> QED BY <2>2, <2>3, <2>4, OnlyRequests
  <1>2. CASE CheckSkill(q)
    <2>1. /\ rpc[q] = "host" /\ rskill[q] \in DOMAIN skills /\ skills[rskill[q]].host = rhost[q]
          /\ rpc' = [rpc EXCEPT ![q] = "granted"]
          /\ UNCHANGED linkVars /\ hosts' = hosts /\ UNCHANGED <<rhost, rskill, ahead>>
          /\ UNCHANGED <<skills, nextSkill, creds, master, layouts, stored>>
      BY <1>2 DEF CheckSkill, Owns, linkVars
    <2>2. RequestsOK'
      BY <2>1 DEF IInv, TypeOK, RequestsOK
    <2>3. rskill[q] < nextSkill
      BY <2>1 DEF IInv, TypeOK, SkillsOK
    <2>4. RequestsKnown'
      BY <2>1, <2>3 DEF IInv, TypeOK, RequestsOK, RequestsKnown
    <2> QED BY <2>1, <2>2, <2>4, OnlyRequests
  <1>3. CASE Refuse(q) \/ GiveUp(q)
    <2>1. /\ Reply(q) /\ UNCHANGED linkVars /\ hosts' = hosts
          /\ UNCHANGED <<skills, nextSkill, creds, master, layouts, stored>>
      BY <1>3 DEF Refuse, GiveUp, linkVars
    <2>2. RequestsKnown'
      BY <2>1, ReplyRequests DEF IInv, RequestsKnown
    <2> QED BY <2>1, <2>2, ReplyRequests, OnlyRequests
  <1> QED BY <1>1, <1>2, <1>3

\* A rename.
LEMMA RenameKeepsIInv ==
    ASSUME IInv, NEW q \in Requests, NEW n \in Names, Rename(q, n)
    PROVE  /\ IInv'
           /\ rpc[q] = "granted"
           /\ DOMAIN skills' = DOMAIN skills
           /\ \A s \in DOMAIN skills : s # rskill[q] => skills'[s] = skills[s]
  <1> DEFINE s == rskill[q]
             row == [skills[s] EXCEPT !.name = n]
  <1>1. /\ rpc[q] = "granted" /\ s \in DOMAIN skills
        /\ skills' = [skills EXCEPT ![s] = row]
        /\ Reply(q)
        /\ UNCHANGED linkVars /\ hosts' = hosts
        /\ UNCHANGED <<nextSkill, creds, master, layouts, stored>>
    BY DEF Rename, linkVars
  <1>2. IsTable(skills, SkillIds, SkillRows)
    BY DEF IInv, TypeOK, SkillsOK
  <1>3. skills[s] \in SkillRows
    BY <1>1, <1>2 DEF IsTable
  <1>4. row \in SkillRows /\ row.host = skills[s].host /\ row.kind = skills[s].kind
    BY <1>3 DEF SkillRows
  <1> HIDE DEF row, s
  <1>5. IsTable(skills', SkillIds, SkillRows)
    BY <1>1, <1>2, <1>4, ReplaceRow
  <1>6. /\ DOMAIN skills' = DOMAIN skills
        /\ skills'[s] = row
        /\ \A t \in DOMAIN skills : t # s => skills'[t] = skills[t]
    BY <1>1, <1>2 DEF IsTable
  <1>7. \A t \in DOMAIN skills : skills'[t].host = skills[t].host /\ skills'[t].kind = skills[t].kind
    BY <1>4, <1>6
  <1>8. SkillsOK'
    BY <1>1, <1>5, <1>6, <1>7 DEF IInv, TypeOK, SkillsOK
  <1>9. LinksTypeOK' /\ RowsLeadHome'
    BY <1>1, LinksUnchanged DEF IInv, TypeOK
  <1>10. CredsOK' /\ IsTable(layouts', Layouts, Panes)
    BY <1>1, <1>6 DEF IInv, TypeOK, CredsOK
  <1>11. RequestsOK' /\ RequestsKnown'
    BY <1>1, <1>6, <1>7, ReplyRequests DEF IInv, RequestsKnown
  <1>12. PanesKnown' /\ CredsExact'
    BY <1>1, <1>6, <1>7 DEF IInv, PanesKnown, CredsExact
  <1>13. IInv'
    BY <1>8, <1>9, <1>10, <1>11, <1>12 DEF IInv, TypeOK
  <1> QED BY <1>1, <1>6, <1>13 DEF s

-----------------------------------------------------------------------------
(* Credentials and layouts *)

\* What is written is a row of one of the two kinds.
LEMMA RowExact ==
    ASSUME master \in MasterKeys \cup {None}, NEW v \in Values
    PROVE  /\ Row(v) \in CredRows
           /\ \/ /\ Row(v).encrypted = FALSE
                 /\ Row(v).plain = v
                 /\ Row(v).cipher = None
              \/ /\ Row(v).encrypted = TRUE
                 /\ Row(v).plain = None
                 /\ Row(v).cipher \in Sealed
                 /\ Row(v).cipher.value = v
  <1>1. CASE master = None
    BY <1>1 DEF Row, CredRows
  <1>2. CASE master # None
    <2>1. [value |-> v, under |-> master] \in Sealed
      BY <1>2 DEF Sealed
    <2> QED BY <1>2, <2>1 DEF Row, CredRows
  <1> QED BY <1>1, <1>2

\* A statement on credentials: the rows keep their skills and hold what was put.
LEMMA CredStatement ==
    ASSUME IInv, NEW q \in Requests, Reply(q), UNCHANGED linkVars,
           UNCHANGED <<skills, nextSkill, master, layouts>>, CredsOK', CredsExact'
    PROVE  IInv'
  <1>1. /\ UNCHANGED linkVars /\ hosts' = hosts
        /\ UNCHANGED <<skills, nextSkill, master, layouts>>
    BY DEF linkVars
  <1>2. LinksTypeOK' /\ RowsLeadHome'
    BY <1>1, LinksUnchanged DEF IInv, TypeOK
  <1>3. SkillsOK' /\ IsTable(layouts', Layouts, Panes)
    BY <1>1 DEF IInv, TypeOK, SkillsOK
  <1>4. RequestsOK' /\ RequestsKnown'
    BY <1>1, ReplyRequests DEF IInv, RequestsKnown
  <1>5. PanesKnown'
    BY <1>1 DEF IInv, PanesKnown
  <1> QED BY <1>2, <1>3, <1>4, <1>5 DEF IInv, TypeOK

LEMMA PutKeepsIInv ==
    ASSUME IInv, NEW q \in Requests, NEW k \in Keys, NEW v \in Values, PutCredential(q, k, v)
    PROVE  IInv'
  <1> DEFINE c == <<rskill[q], k>>
             row == Row(v)
  <1>1. /\ rskill[q] \in DOMAIN skills
        /\ creds' = Upsert(creds, c, row)
        /\ stored' = Upsert(stored, c, v)
        /\ Reply(q) /\ UNCHANGED linkVars
        /\ UNCHANGED <<skills, nextSkill, master, layouts>>
    BY DEF PutCredential, Written
  <1>2. /\ IsTable(creds, SkillIds \X Keys, CredRows)
        /\ IsTable(stored, SkillIds \X Keys, Values)
        /\ DOMAIN creds = DOMAIN stored
        /\ master \in MasterKeys \cup {None}
    BY DEF IInv, TypeOK, CredsOK
  <1>3. c \in SkillIds \X Keys /\ c[1] = rskill[q]
    BY <1>1 DEF IInv, TypeOK, SkillsOK, IsTable
  <1>4. /\ row \in CredRows
        /\ \/ row.encrypted = FALSE /\ row.plain = v /\ row.cipher = None
           \/ /\ row.encrypted = TRUE /\ row.plain = None
              /\ row.cipher \in Sealed /\ row.cipher.value = v
    BY <1>2, RowExact
  <1> HIDE DEF c, row
  <1>5. IsTable(Upsert(creds, c, row), SkillIds \X Keys, CredRows)
    BY <1>2, <1>3, <1>4, UpsertType
  <1>6. IsTable(Upsert(stored, c, v), SkillIds \X Keys, Values)
    BY <1>2, <1>3, UpsertType
  <1>7. /\ DOMAIN creds' = DOMAIN creds \cup {c} /\ DOMAIN stored' = DOMAIN stored \cup {c}
        /\ creds'[c] = row /\ stored'[c] = v
        /\ \A d \in DOMAIN creds : d # c => creds'[d] = creds[d] /\ stored'[d] = stored[d]
    BY <1>1, <1>2 DEF Upsert
  <1>8. CredsOK'
    BY <1>1, <1>2, <1>3, <1>5, <1>6, <1>7 DEF IInv, TypeOK, CredsOK
  <1>9. CredsExact'
    BY <1>4, <1>7 DEF IInv, CredsExact
  <1> QED BY <1>1, <1>8, <1>9, CredStatement

LEMMA DeleteCredentialKeepsIInv ==
    ASSUME IInv, NEW q \in Requests, NEW k \in Keys, DeleteCredential(q, k)
    PROVE  IInv'
  <1> DEFINE c == <<rskill[q], k>>
  <1>1. /\ creds' = Without(creds, {c})
        /\ stored' = Without(stored, {c})
        /\ Reply(q) /\ UNCHANGED linkVars
        /\ UNCHANGED <<skills, nextSkill, master, layouts>>
    BY DEF DeleteCredential
  <1>2. /\ IsTable(creds, SkillIds \X Keys, CredRows)
        /\ IsTable(stored, SkillIds \X Keys, Values)
        /\ DOMAIN creds = DOMAIN stored
    BY DEF IInv, TypeOK, CredsOK
  <1> HIDE DEF c
  <1>3. IsTable(Without(creds, {c}), SkillIds \X Keys, CredRows)
    BY <1>2, WithoutType
  <1>4. IsTable(Without(stored, {c}), SkillIds \X Keys, Values)
    BY <1>2, WithoutType
  <1>5. /\ DOMAIN creds' = DOMAIN creds \ {c} /\ DOMAIN stored' = DOMAIN stored \ {c}
        /\ \A d \in DOMAIN creds' : creds'[d] = creds[d] /\ stored'[d] = stored[d]
    BY <1>1, <1>2 DEF Without
  <1>6. CredsOK'
    BY <1>1, <1>2, <1>3, <1>4, <1>5 DEF IInv, TypeOK, CredsOK
  <1>7. CredsExact'
    BY <1>5 DEF IInv, CredsExact
  <1> QED BY <1>1, <1>6, <1>7, CredStatement

\* The layouts: what a page saves is a skill that is there.
LEMMA LayoutsKeepIInv ==
    ASSUME IInv, NEW y \in Layouts,
           \/ \E s \in SkillIds : CreateLayout(y, s) \/ UpdateLayout(y, s)
           \/ DeleteLayout(y)
    PROVE  IInv'
  <1>1. /\ UNCHANGED linkVars /\ hosts' = hosts
        /\ UNCHANGED <<skills, nextSkill, creds, master, stored>>
        /\ UNCHANGED <<rpc, rhost, rskill, ahead>>
    BY DEF CreateLayout, UpdateLayout, DeleteLayout, linkVars, requestVars
  <1>2. LinksTypeOK' /\ RowsLeadHome'
    BY <1>1, LinksUnchanged DEF IInv, TypeOK
  <1>3. SkillsOK' /\ CredsOK' /\ RequestsOK'
    BY <1>1 DEF IInv, TypeOK, SkillsOK, CredsOK, RequestsOK
  <1>4. RequestsKnown' /\ CredsExact'
    BY <1>1 DEF IInv, RequestsKnown, CredsExact
  <1>5. IsTable(layouts, Layouts, Panes)
    BY DEF IInv, TypeOK
  <1>6. ASSUME NEW s \in DOMAIN skills
        PROVE  /\ PaneOf(s) \in Panes /\ PaneOf(s).skill = s
               /\ PaneOf(s).host = skills[s].host /\ PaneOf(s).kind = skills[s].kind
               /\ s < nextSkill
    <2>1. skills[s] \in SkillRows /\ s \in SkillIds /\ s < nextSkill
      BY DEF IInv, TypeOK, SkillsOK, IsTable
    <2> QED BY <2>1 DEF SkillRows, PaneOf, Panes
  <1>7. CASE \E s \in SkillIds : CreateLayout(y, s) \/ UpdateLayout(y, s)
    <2>1. PICK s \in DOMAIN skills : \/ layouts' = Upsert(layouts, y, PaneOf(s))
                                     \/ y \in DOMAIN layouts /\ layouts' = [layouts EXCEPT ![y] = PaneOf(s)]
      BY <1>7 DEF CreateLayout, UpdateLayout
    <2> DEFINE pane == PaneOf(s)
    <2>2. /\ pane \in Panes /\ pane.skill = s /\ s < nextSkill
          /\ pane.host = skills[s].host /\ pane.kind = skills[s].kind
      BY <1>6
    <2> HIDE DEF pane
    <2>3. IsTable(Upsert(layouts, y, pane), Layouts, Panes)
      BY <1>5, <2>2, UpsertType
    <2>4. y \in DOMAIN layouts => IsTable([layouts EXCEPT ![y] = pane], Layouts, Panes)
      BY <1>5, <2>2, ReplaceRow
    <2>5. IsTable(layouts', Layouts, Panes)
      BY <2>1, <2>3, <2>4 DEF pane
    <2>6. /\ DOMAIN layouts' = DOMAIN layouts \cup {y}
          /\ layouts'[y] = pane
          /\ \A z \in DOMAIN layouts : z # y => layouts'[z] = layouts[z]
      BY <1>5, <2>1 DEF Upsert, pane, IsTable
    <2>7. PanesKnown'
      BY <1>1, <2>2, <2>6 DEF IInv, PanesKnown
    <2> QED BY <1>2, <1>3, <1>4, <2>5, <2>7 DEF IInv, TypeOK
  <1>8. CASE DeleteLayout(y)
    <2>1. layouts' = Without(layouts, {y})
      BY <1>8 DEF DeleteLayout
    <2>2. IsTable(Without(layouts, {y}), Layouts, Panes)
      BY <1>5, WithoutType
    <2>3. IsTable(layouts', Layouts, Panes)
      BY <2>1, <2>2
    <2>4. /\ DOMAIN layouts' \subseteq DOMAIN layouts
          /\ \A z \in DOMAIN layouts' : layouts'[z] = layouts[z]
      BY <2>1 DEF Without
    <2>5. PanesKnown'
      BY <1>1, <2>4 DEF IInv, PanesKnown
    <2> QED BY <1>2, <1>3, <1>4, <2>3, <2>5 DEF IInv, TypeOK
  <1> QED BY <1>7, <1>8

-----------------------------------------------------------------------------
(* Deletion and restart *)

\* A deleted host takes its skills and their credentials along, and no others.
LEMMA DeleteKeepsIInv ==
    ASSUME IInv, NEW h \in Hosts, DeleteHost(h)
    PROVE  /\ IInv'
           /\ \A s \in DOMAIN skills' : s \in DOMAIN skills /\ skills'[s] = skills[s]
  <1> DEFINE gone == {s \in DOMAIN skills : skills[s].host = h}
             lost == {c \in DOMAIN creds : c[1] \in gone}
  <1>1. /\ DropHost(h)
        /\ skills' = Without(skills, gone)
        /\ creds' = Without(creds, lost)
        /\ stored' = Without(stored, lost)
        /\ UNCHANGED <<nextSkill, master, layouts>>
        /\ UNCHANGED <<rpc, rhost, rskill, ahead>>
    BY DEF DeleteHost, Cascade, requestVars
  <1>2. /\ LinksTypeOK' /\ RowsLeadHome'
        /\ DOMAIN hosts' = DOMAIN hosts \ {h}
        /\ \A g \in DOMAIN hosts' : hosts'[g] = hosts[g]
    BY <1>1, DropKeepsHome DEF IInv, TypeOK
  <1>3. /\ IsTable(skills, SkillIds, SkillRows)
        /\ IsTable(creds, SkillIds \X Keys, CredRows)
        /\ IsTable(stored, SkillIds \X Keys, Values)
        /\ DOMAIN creds = DOMAIN stored
    BY DEF IInv, TypeOK, SkillsOK, CredsOK
  <1>4. /\ \A s \in DOMAIN skills : s \notin gone => skills[s].host # h
        /\ \A c \in DOMAIN creds : c \notin lost => c[1] \notin gone
    OBVIOUS
  <1> HIDE DEF gone, lost
  <1>5. IsTable(Without(skills, gone), SkillIds, SkillRows)
    BY <1>3, WithoutType
  <1>6. IsTable(Without(creds, lost), SkillIds \X Keys, CredRows)
    BY <1>3, WithoutType
  <1>7. IsTable(Without(stored, lost), SkillIds \X Keys, Values)
    BY <1>3, WithoutType
  <1>8. /\ DOMAIN skills' = DOMAIN skills \ gone
        /\ \A s \in DOMAIN skills' : skills'[s] = skills[s]
    BY <1>1 DEF Without
  <1>9. /\ DOMAIN creds' = DOMAIN creds \ lost /\ DOMAIN stored' = DOMAIN stored \ lost
        /\ \A c \in DOMAIN creds' : creds'[c] = creds[c] /\ stored'[c] = stored[c]
    BY <1>1, <1>3 DEF Without
  <1>10. SkillsOK'
    <2>1. IsTable(skills', SkillIds, SkillRows) /\ nextSkill' \in 1 .. MaxSkill + 1
      BY <1>1, <1>5 DEF IInv, TypeOK, SkillsOK
    <2>2. \A s \in DOMAIN skills' : s < nextSkill' /\ skills'[s].host \in DOMAIN hosts'
      BY <1>1, <1>2, <1>4, <1>8 DEF IInv, TypeOK, SkillsOK
    <2>3. \A s, t \in DOMAIN skills' :
            skills'[s].host = skills'[t].host /\ skills'[s].kind = skills'[t].kind => s = t
      BY <1>8 DEF IInv, TypeOK, SkillsOK
    <2> QED BY <2>1, <2>2, <2>3 DEF SkillsOK
  <1>11. CredsOK'
    BY <1>1, <1>3, <1>4, <1>6, <1>7, <1>8, <1>9 DEF IInv, TypeOK, CredsOK
  <1>12. RequestsOK' /\ IsTable(layouts', Layouts, Panes)
    BY <1>1 DEF IInv, TypeOK, RequestsOK
  <1>13. RequestsKnown'
    <2>1. ASSUME NEW q \in Requests, rskill[q] \in DOMAIN skills', skills'[rskill[q]].host = rhost[q]
          PROVE  hosts'[rhost[q]] = hosts[rhost[q]]
      BY <1>2, <1>8, <1>10, <2>1 DEF SkillsOK
    <2> QED BY <1>1, <1>8, <2>1 DEF IInv, RequestsKnown
  <1>14. PanesKnown' /\ CredsExact'
    BY <1>1, <1>8, <1>9 DEF IInv, PanesKnown, CredsExact
  <1>15. IInv'
    BY <1>2, <1>10, <1>11, <1>12, <1>13, <1>14 DEF IInv, TypeOK
  <1> QED BY <1>8, <1>15

\* The process starts again: connections and requests are gone, the rows stay.
LEMMA RestartKeepsIInv ==
    ASSUME IInv, NEW m \in MasterKeys \cup {None}, Restart(m)
    PROVE  IInv'
  <1>1. /\ master' = m /\ up' = {} /\ hostOf' = [l \in Links |-> None]
        /\ healing' = [l \in Links |-> None] /\ ahead' = {}
        /\ rpc' = [q \in Requests |-> "idle"]
        /\ rhost' = [q \in Requests |-> None]
        /\ rskill' = [q \in Requests |-> 0]
        /\ UNCHANGED <<hosts, agents, foreign, skills, nextSkill, creds, layouts, stored>>
    BY DEF Restart
  <1>2. LinksTypeOK' /\ RowsLeadHome'
    <2>1. LinksTypeOK'
      BY <1>1 DEF IInv, TypeOK, LinksTypeOK
    <2>2. ASSUME NEW l \in Links, NEW a \in DOMAIN agents, Identifies(l, a, agents[a])'
          PROVE  Identifies(l, a, agents[a])
      <3>1. a # None
        BY LinksAssumption DEF IInv, TypeOK, LinksTypeOK, IsTable
      <3> QED BY <1>1, <2>2, <3>1 DEF Identifies
    <2>3. RowsLeadHome'
      BY <1>1, <2>2 DEF IInv, RowsLeadHome, Led
    <2> QED BY <2>1, <2>3
  <1>3. SkillsOK' /\ CredsOK' /\ RequestsOK' /\ IsTable(layouts', Layouts, Panes)
    BY <1>1 DEF IInv, TypeOK, SkillsOK, CredsOK, RequestsOK
  <1>4. RequestsKnown'
    BY <1>1 DEF RequestsKnown
  <1>5. PanesKnown' /\ CredsExact'
    BY <1>1 DEF IInv, PanesKnown, CredsExact
  <1> QED BY <1>2, <1>3, <1>4, <1>5 DEF IInv, TypeOK

\* A step without effect.
LEMMA StutterKeepsIInv ==
    ASSUME IInv, UNCHANGED vars
    PROVE  IInv'
  <1>1. /\ UNCHANGED linkVars
        /\ UNCHANGED <<skills, nextSkill, creds, master, layouts, stored>>
        /\ UNCHANGED <<rpc, rhost, rskill, ahead>>
    BY DEF vars, skillVars, requestVars
  <1>2. RequestsOK'
    BY <1>1 DEF IInv, TypeOK, RequestsOK
  <1>3. RequestsKnown'
    BY <1>1 DEF IInv, RequestsKnown, linkVars
  <1> QED BY <1>1, <1>2, <1>3, OnlyRequests

\* Every step keeps the invariant.
LEMMA NextIInv == IInv /\ [Next]_vars => IInv'
  <1> SUFFICES ASSUME IInv, [Next]_vars PROVE IInv'
    OBVIOUS
  <1>1. ASSUME NEW l \in Links, Link(l) PROVE IInv'
    BY <1>1, LinkKeepsIInv
  <1>2. ASSUME NEW l \in Links, NEW k \in Kinds, Advertise(l, k) PROVE IInv'
    <2>1. hostOf[l] \in Hosts
      BY <1>2 DEF Advertise, IInv, TypeOK, LinksTypeOK
    <2> QED BY <1>2, <2>1, EnsureKeepsIInv DEF Advertise
  <1>3. ASSUME NEW h \in Hosts, NEW k \in Kinds, Touch(h, k) PROVE IInv'
    BY <1>3, EnsureKeepsIInv DEF Touch
  <1>4. ASSUME NEW q \in Requests, Admin(q) PROVE IInv'
    BY <1>4, ChecksKeepIInv, RenameKeepsIInv, PutKeepsIInv, DeleteCredentialKeepsIInv DEF Admin
  <1>5. ASSUME NEW y \in Layouts,
               \/ \E s \in SkillIds : CreateLayout(y, s) \/ UpdateLayout(y, s)
               \/ DeleteLayout(y)
        PROVE  IInv'
    BY <1>5, LayoutsKeepIInv
  <1>6. ASSUME NEW h \in Hosts, DeleteHost(h) PROVE IInv'
    BY <1>6, DeleteKeepsIInv
  <1>7. ASSUME NEW m \in MasterKeys \cup {None}, Restart(m) PROVE IInv'
    BY <1>7, RestartKeepsIInv
  <1>8. ASSUME UNCHANGED vars PROVE IInv'
    BY <1>8, StutterKeepsIInv
  <1> QED BY <1>1, <1>2, <1>3, <1>4, <1>5, <1>6, <1>7, <1>8 DEF Next

LEMMA SpecIInv == Spec => []IInv
  BY InitIInv, NextIInv, PTL DEF Spec

-----------------------------------------------------------------------------
(* What follows *)

\* The tables keep their types, their foreign keys and UNIQUE (host_id, kind),
\* through registrations, cascades and every interleaving of requests.
THEOREM TypeCorrect == Spec => []TypeOK
  BY SpecIInv, PTL DEF IInv

\* resolveHostIDForAgentConn takes no machine for another unless the other was
\* registered under the same token, agent id or bot, for any number of agents that
\* share any identities, and any history of registrations, repairs and deletions.
THEOREM OwnHostAlways == Spec => []OwnHost
  <1>1. IInv => OwnHost
    BY DEF IInv, RowsLeadHome, OwnHost, Led
  <1> QED BY <1>1, SpecIInv, PTL

\* A granted request acts on a skill of the host it named or on nothing, although its
\* checks and its statement are not one transaction; and that host is in the workspace
\* it was granted for, unless the request named an id ahead of the sequence.
THEOREM GrantsHold == Spec => []GrantHolds
  <1>1. IInv => GrantHolds
    BY DEF IInv, RequestsKnown, GrantHolds
  <1> QED BY <1>1, SpecIInv, PTL

\* Panes dangle and never lead to another skill.
THEOREM PanesStay == Spec => []PaneNeverRetargets
  <1>1. IInv => PaneNeverRetargets
    BY DEF IInv, PanesKnown, PaneNeverRetargets
  <1> QED BY <1>1, SpecIInv, PTL

\* Credentials read back, under any sequence of keys.
THEOREM CredentialsReadBack == Spec => []CredentialReadsBack
  <1>1. ASSUME IInv PROVE CredentialReadsBack
    <2> SUFFICES ASSUME NEW c \in DOMAIN creds
                 PROVE  /\ Plaintext(c) # None => Plaintext(c) = stored[c]
                        /\ Plaintext(c) = None => creds[c].cipher # None /\ creds[c].cipher.under # master
                        /\ creds[c].encrypted => creds[c].plain = None
      BY DEF CredentialReadsBack
    <2>1. stored[c] \in Values /\ stored[c] # None
      BY <1>1, SkillsAssumption DEF IInv, TypeOK, CredsOK, IsTable
    <2>2. CASE /\ creds[c].encrypted = FALSE
               /\ creds[c].plain = stored[c]
               /\ creds[c].cipher = None
      BY <2>1, <2>2 DEF Plaintext
    <2>3. CASE /\ creds[c].encrypted = TRUE
               /\ creds[c].plain = None
               /\ creds[c].cipher \in Sealed
               /\ creds[c].cipher.value = stored[c]
      <3>1. creds[c].cipher.under \in MasterKeys /\ creds[c].cipher.under # None /\ creds[c].cipher # None
        BY <2>3, SkillsAssumption DEF Sealed
      <3> QED BY <2>1, <2>3, <3>1 DEF Plaintext
    <2> QED BY <1>1, <2>2, <2>3 DEF IInv, CredsExact
  <1> QED BY <1>1, SpecIInv, PTL

\* Nothing but a granted rename changes a name.
LEMMA NameSteps ==
    ASSUME IInv, [Next]_vars, NEW s \in DOMAIN skills, s \in DOMAIN skills', skills'[s].name # skills[s].name
    PROVE  \E q \in Requests : rpc[q] = "granted" /\ rskill[q] = s
  <1>1. ASSUME skills'[s] = skills[s] PROVE FALSE
    BY <1>1
  <1>2. ASSUME NEW l \in Links, Link(l) PROVE FALSE
    BY <1>1, <1>2 DEF Link, skillVars
  <1>3. ASSUME NEW h \in Hosts, NEW k \in Kinds, EnsureSkill(h, k), UNCHANGED linkVars PROVE FALSE
    BY <1>1, <1>3, EnsureRows DEF IInv, TypeOK, linkVars
  <1>4. ASSUME NEW l \in Links, NEW k \in Kinds, Advertise(l, k) PROVE FALSE
    <2>1. hostOf[l] \in Hosts
      BY <1>4 DEF Advertise, IInv, TypeOK, LinksTypeOK
    <2> QED BY <1>3, <1>4, <2>1 DEF Advertise
  <1>5. ASSUME NEW h \in Hosts, NEW k \in Kinds, Touch(h, k) PROVE FALSE
    BY <1>3, <1>5 DEF Touch
  <1>6. ASSUME NEW q \in Requests, Admin(q) PROVE rpc[q] = "granted" /\ rskill[q] = s
    <2>1. CASE \E n \in Names : Rename(q, n)
      BY <1>1, <2>1, RenameKeepsIInv
    <2>2. CASE skills' = skills
      BY <1>1, <2>2
    <2> QED BY <1>6, <2>1, <2>2 DEF Admin, CheckHost, CheckSkill, Refuse, GiveUp, PutCredential, DeleteCredential
  <1>7. ASSUME NEW h \in Hosts, DeleteHost(h) PROVE FALSE
    BY <1>1, <1>7, DeleteKeepsIInv
  <1>8. ASSUME skills' = skills PROVE FALSE
    BY <1>1, <1>8
  <1> QED BY <1>2, <1>4, <1>5, <1>6, <1>7, <1>8
          DEF Next, CreateLayout, UpdateLayout, DeleteLayout, Restart, vars, skillVars

\* No reconnect, advertisement or deletion undoes what an admin has named.
THEOREM NamesStick == Spec => RenameSticks
  <1>1. IInv /\ [Next]_vars =>
          [\A s \in DOMAIN skills \cap DOMAIN skills' :
             skills'[s].name # skills[s].name => \E q \in Requests : rpc[q] = "granted" /\ rskill[q] = s]_vars
    BY NameSteps
  <1> QED BY <1>1, SpecIInv, PTL DEF Spec, RenameSticks
=============================================================================
