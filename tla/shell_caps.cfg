SPECIFICATION Spec
CONSTANTS
  r1 = r1
  r2 = r2
  r3 = r3
  b1 = b1
  b2 = b2
  c1 = c1
  c2 = c2
  h1 = h1
  t1 = t1
  k1 = k1
  Conns = {c1}
  Tokens = {t1}
  TokenOf <- OneToken
  Hosts = {h1}
  HostOf <- OneHost
  Runs = {r1, r2}
  Bridges = {}
  Kickers = {}
  PerHostCap = 1
  GlobalCap = 2
  SendCap = 2
  EventCap = 2
  StdoutCap = 1
  SinkCap = 1
  FinalizeMayFail = TRUE
  None = None
INVARIANTS TypeOK CapsHold SessionIsSupervised OutputHasChannel NothingLeftBehind
PROPERTIES FinalizedOnce ImplementsRuns
SYMMETRY RunSymmetry
CHECK_DEADLOCK FALSE
