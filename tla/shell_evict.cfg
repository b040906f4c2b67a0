SPECIFICATION Spec
CONSTANTS
  r1 = r1
  r2 = r2
  r3 = r3
  b1 = b1
  b2 = b2
  c1 = c1
  c2 = c2
  h1 = h1
  t1 = t1
  k1 = k1
  Conns = {c1}
  Tokens = {t1}
  TokenOf <- OneToken
  Hosts = {h1}
  HostOf <- OneHost
  Runs = {r1}
  Bridges = {b1}
  Kickers = {}
  PerHostCap = 1
  GlobalCap = 2
  SendCap = 1
  EventCap = 1
  StdoutCap = 1
  SinkCap = 1
  FinalizeMayFail = FALSE
  None = None
INVARIANTS EndedRunEvictsBrowser
CHECK_DEADLOCK FALSE
