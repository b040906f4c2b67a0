SPECIFICATION Spec
CONSTANTS
  l1 = l1
  l2 = l2
  t1 = t1
  t2 = t2
  a1 = a1
  a2 = a2
  b1 = b1
  h1 = h1
  h2 = h2
  w1 = w1
  w2 = w2
  k1 = k1
  n1 = n1
  v1 = v1
  v2 = v2
  m1 = m1
  e1 = e1
  q1 = q1
  y1 = y1
  None = None
  Local = Local
  Links = {l1, l2}
  Home <- OwnHomes
  TokenOf <- OwnTokens
  AgentOf <- OwnAgents
  BotOf <- OneBot
  Tokens = {t1, t2}
  Agents = {a1, a2}
  Bots = {b1}
  Hosts = {h1, h2}
  Workspaces = {w1, w2}
  Legacy = {t1}
  LocalOnly = Local
  ImportedHosts <- OldHosts
  ImportedAgents <- OldAgents
  Kinds = {k1}
  Names = {k1, n1}
  Keys = {e1}
  Values = {v1, v2}
  MasterKeys = {m1}
  MaxSkill = 2
  MaxRows = 1
  Requests = {q1}
  ActiveIn <- InTheFirst
  Layouts = {y1}
  RangeOf <- Ranges
  HubAddress = 1
  NoAddress = 0
  NoGateway = 0
  Fleets <- SmallFleets
INVARIANTS TypeOK OwnHost GrantHolds PaneNeverRetargets CredentialReadsBack TopologyIsExact
PROPERTIES RenameSticks
SYMMETRY ValueSymmetry
CHECK_DEADLOCK FALSE
