SPECIFICATION Spec
CONSTANTS
  t1 = t1
  t2 = t2
  q1 = q1
  q2 = q2
  q3 = q3
  d1 = d1
  n1 = n1
  n2 = n2
  m1 = m1
  m2 = m2
  s1 = s1
  s2 = s2
  f1 = f1
  f2 = f2
  Tickets = {t1, t2}
  Registers = {q1, q2}
  Deletes = {d1}
  Names = {n1}
  Machines = {m1, m2}
  Slugs = {s1, s2, f1, f2}
  SlugTries = 2
  Candidate <- SharedCandidates
  Fallback <- OwnFallback
  None = None
INVARIANTS AgentHasItsToken
SYMMETRY TicketSymmetry
CHECK_DEADLOCK FALSE
