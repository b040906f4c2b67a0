---------------------------- MODULE MCEnrollment ----------------------------
EXTENDS Enrollment, TLC

CONSTANTS t1, t2, q1, q2, q3, d1, n1, n2, m1, m2, s1, s2, f1, f2

\* Both names sanitize to the same base, or one name: the slugs s1, s2 in turn.
SharedCandidates == [n \in Names |-> [i \in 1 .. SlugTries |-> IF i = 1 THEN s1 ELSE s2]]
OwnFallback == [m \in Machines |-> IF m = m1 THEN f1 ELSE f2]

TicketSymmetry == Permutations(Tickets) \cup Permutations(Registers)
=============================================================================
