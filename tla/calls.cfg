SPECIFICATION FairSpec
CONSTANTS
  c1 = c1
  t1 = t1
  x1 = x1
  x2 = x2
  i1 = i1
  i2 = i2
  Conns = {c1}
  Tokens = {t1}
  TokenOf <- OneToken
  Calls = {x1, x2}
  Ids = {i1, i2}
  SendCap = 1
  MaxAnswers = 2
  None = None
INVARIANTS TypeOK ReadPumpNeverBlocks WaiterIsReachable LeftoversExplained
PROPERTIES EveryCallReturns
CHECK_DEADLOCK FALSE
