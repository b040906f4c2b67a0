--------------------------- MODULE MCShellSessions ---------------------------
EXTENDS ShellSessions, TLC

CONSTANTS r1, r2, r3, b1, b2, c1, c2, h1, t1, k1

\* One host; its connections are one agent reconnecting, or one per agent.
OneHost == [c \in Conns |-> h1]
OneToken == [c \in Conns |-> t1]
OwnTokens == [c \in Conns |-> c]

\* Runs are interchangeable, and so are bridges.
RunSymmetry == Permutations(Runs)
BridgeSymmetry == Permutations(Bridges)
=============================================================================
