----------------------------- MODULE MCAgentHub -----------------------------
EXTENDS AgentHub, TLC

CONSTANTS c1, c2, c3, t1, t2, b1, b2, a1, a2, h1, k1, k2

\* c1 and c2 are one agent that reconnects, c3 is another agent of the same
\* bot on the same host.
MCTokenOf == c1 :> t1 @@ c2 :> t1 @@ c3 :> t2
MCBotOf == [c \in Conns |-> b1]
MCAgentOf == c1 :> a1 @@ c2 :> a1 @@ c3 :> a2
MCHostOf == [c \in Conns |-> h1]
\* All three are one agent that reconnects twice, the second time without bot.
SameToken == [c \in Conns |-> t1]
LastBotless == c1 :> b1 @@ c2 :> b2 @@ c3 :> None
=============================================================================
