SPECIFICATION Spec
CONSTANTS
  c1 = c1
  c2 = c2
  c3 = c3
  t1 = t1
  t2 = t2
  b1 = b1
  b2 = b2
  a1 = a1
  a2 = a2
  h1 = h1
  k1 = k1
  k2 = k2
  Conns = {c1, c2, c3}
  Tokens = {t1, t2}
  Bots = {b1, b2}
  Agents = {a1, a2}
  Hosts = {h1}
  TokenOf <- MCTokenOf
  BotOf <- MCBotOf
  AgentOf <- MCAgentOf
  HostOf <- MCHostOf
  Kicks = {k1}
  None = None
INVARIANTS RegisteredIsServed
CHECK_DEADLOCK FALSE
