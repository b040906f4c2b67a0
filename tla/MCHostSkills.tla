---------------------------- MODULE MCHostSkills ----------------------------
EXTENDS HostMap, TLC

CONSTANTS l1, l2, t1, t2, a1, a2, b1, h1, h2, w1, w2, k1, n1, v1, v2, m1, e1, q1, y1, Local

\* l1 is an agent from before the migration: its token is in the v3 column of
\* its host and of the agent that the v4 back-fill made for it, and in the local
\* agent_tokens; it names its bot, of which the back-fill knew nothing, and no
\* agent id.
\* l2 comes with a registration and names its agent id only.
OwnHomes  == [l \in Links |-> IF l = l1 THEN h1 ELSE h2]
OwnTokens == [l \in Links |-> IF l = l1 THEN t1 ELSE t2]
OwnAgents == [l \in Links |-> IF l = l1 THEN None ELSE a2]
OneBot    == [l \in Links |-> IF l = l1 THEN b1 ELSE None]
OldHosts  == [h \in {h1} |-> [ws |-> w1, token |-> t1]]
OldAgents == [a \in {a1} |-> [host |-> h1, bot |-> None, token |-> t1]]
InTheFirst == [q \in Requests |-> w1]

\* Addresses: 1 the hub, 2 another of the overlay, 3 of the mesh, 4 and 5
\* private, 6 public; 0 is none.
Ranges == <<"overlay", "overlay", "mesh", "private", "private", "public">>

Nics == [kind : {"", "wifi", "wg", "thunderbolt"}, ip : 0 .. 6, virtual : {FALSE}]
         \cup {[kind |-> k, ip |-> 4, virtual |-> TRUE] : k \in {"", "wifi"}}
SomeNics == {[kind |-> "wifi", ip |-> 4, virtual |-> FALSE], [kind |-> "", ip |-> 5, virtual |-> FALSE],
             [kind |-> "wg", ip |-> 1, virtual |-> FALSE], [kind |-> "thunderbolt", ip |-> 0, virtual |-> FALSE]}

Report(i, nics, gw, online) == [id |-> i, name |-> 4 - i, online |-> online, gw |-> gw, nics |-> nics]

\* Two hosts, the second with any two interfaces; two of one name; and three
\* hosts with a gateway each.
SmallFleets ==
    {<<Report(1, <<x>>, 1, TRUE), Report(2, <<y, z>>, 2, o)>> :
        x \in SomeNics, y \in Nics, z \in SomeNics, o \in BOOLEAN}
    \cup {<<Report(1, <<x>>, 1, o), [Report(2, <<y, z>>, 2, TRUE) EXCEPT !.name = 3]>> :
        x \in SomeNics, y \in SomeNics, z \in SomeNics, o \in BOOLEAN}
    \cup {<<Report(1, <<x>>, f, TRUE), Report(2, <<y>>, g, o), Report(3, <<x>>, h, ~o)>> :
        x \in SomeNics, y \in SomeNics, f, g, h \in 0 .. 2, o \in BOOLEAN}

\* Only equality is asked of credentials' values.
ValueSymmetry == Permutations(Values)
=============================================================================
