---------------------------- MODULE MCAgentCalls ----------------------------
EXTENDS AgentCalls, TLC

CONSTANTS c1, t1, x1, x2, i1, i2

OneToken == [c \in Conns |-> t1]
=============================================================================
