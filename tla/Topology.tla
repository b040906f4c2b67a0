------------------------------ MODULE Topology ------------------------------
(***************************************************************************)
(* buildTopology: the network map that is drawn from the reports of a      *)
(* workspace's hosts.  A pure function of the reports, as a recursion over *)
(* the hosts and their interfaces.  A fleet is a sequence of reports in    *)
(* the order the database returns the rows; a report's nics are its        *)
(* interfaces by name.  Ids, names, gateways and addresses are numbers,    *)
(* for their order as strings.                                             *)
(***************************************************************************)
EXTENDS Naturals, Tables, SequencesExt

CONSTANTS RangeOf,      \* the range of each address: overlay, mesh, private, public
          HubAddress,   \* 10.88.0.1
          NoAddress,
          NoGateway,    \* ""
          Fleets        \* those whose map is drawn

Interfaces == [kind : STRING, ip : Nat, virtual : BOOLEAN]
Reports    == [id : Nat, name : Nat, online : BOOLEAN, gw : Nat, nics : Seq(Interfaces)]

\* hosts.id is the primary key; names may coincide.
IsFleet(fleet) ==
    /\ fleet \in Seq(Reports)
    /\ \A i, j \in DOMAIN fleet : fleet[i].id = fleet[j].id => i = j

ASSUME TopologyAssumption ==
    /\ RangeOf \in [DOMAIN RangeOf -> {"overlay", "mesh", "private", "public"}]
    /\ HubAddress \in DOMAIN RangeOf /\ RangeOf[HubAddress] = "overlay"
    /\ NoAddress \notin DOMAIN RangeOf
    /\ \A fleet \in Fleets : IsFleet(fleet)

Tabs == {"tb", "lan", "wg"}

In(ip, range) == ip \in DOMAIN RangeOf /\ RangeOf[ip] = range

\* The tab of an interface, "" for none: ranges first, then the kind that the
\* agent reports; 10.88.0.0/24 is private too.
Classify(kind, ip) ==
    CASE In(ip, "overlay") -> "wg"
      [] In(ip, "mesh") -> ""
      [] OTHER -> CASE kind = "wg" -> "wg"
                    [] kind = "thunderbolt" -> "tb"
                    [] kind \in {"wifi", "ethernet", ""} /\ In(ip, "private") -> "lan"
                    [] OTHER -> ""

\* Only an agent too old to report kinds has its container bridges dropped.
TabOf(nic) == IF nic.kind = "" /\ nic.virtual THEN "" ELSE Classify(nic.kind, nic.ip)

\* Mutant of AppendUnique: a host's name is noted once per interface.
AppendAlways(s, x) == Append(s, x)

AppendUnique(s, x) == IF Contains(s, x) THEN s ELSE Append(s, x)

NoNodes == [order |-> <<>>, nodes |-> Empty, holders |-> Empty]

Node(bucket, h) ==
    IF h.id \in DOMAIN bucket.nodes THEN bucket.nodes[h.id]
    ELSE [id |-> h.id, name |-> h.name, online |-> h.online, hub |-> FALSE, ips |-> <<>>]

Holders(bucket, ip) == IF ip \in DOMAIN bucket.holders THEN bucket.holders[ip] ELSE <<>>

AddIface(node, ip) == [node EXCEPT !.ips = Append(@, ip), !.hub = @ \/ ip = HubAddress]

\* One interface, for tab t: its host's node is added and extended, and the host's
\* name noted under the address, by which conflicts are found later.
AddNic(bucket, h, nic, t) ==
    IF TabOf(nic) # t THEN bucket
    ELSE [order   |-> AppendUnique(bucket.order, h.id),
          nodes   |-> Upsert(bucket.nodes, h.id, AddIface(Node(bucket, h), nic.ip)),
          holders |-> IF t # "tb" /\ nic.ip # NoAddress
                      THEN Upsert(bucket.holders, nic.ip, AppendUnique(Holders(bucket, nic.ip), h.name))
                      ELSE bucket.holders]

\* The bucket after the first interfaces of h, and after all of them.
AfterNics(bucket, h, t) ==
    LET after[k \in 0 .. Len(h.nics)] == IF k = 0 THEN bucket ELSE AddNic(after[k - 1], h, h.nics[k], t)
    IN  after

AddHost(bucket, h, t) == AfterNics(bucket, h, t)[Len(h.nics)]

\* The bucket of tab t after the first hosts, and after all of them.
AfterHosts(fleet, t) ==
    LET after[n \in 0 .. Len(fleet)] == IF n = 0 THEN NoNodes ELSE AddHost(after[n - 1], fleet[n], t)
    IN  after

Build(fleet, t) == AfterHosts(fleet, t)[Len(fleet)]

\* flagConflicts: the anomalies, and the nodes marked with them.
Conflicts(bucket) == {ip \in DOMAIN bucket.holders : Len(bucket.holders[ip]) > 1}
Flagged(bucket)   == {id \in DOMAIN bucket.nodes : ToSet(bucket.nodes[id].ips) \cap Conflicts(bucket) # {}}

\* nodeBucket.sorted: the hub, then who is online, then by name.
Before(m, n) ==
    IF m.hub # n.hub THEN m.hub
    ELSE IF m.online # n.online THEN m.online
    ELSE m.name < n.name

\* sort.SliceStable: the nodes in the order of how many belong in front of each.
Ahead(s, i, j) == Before(s[i], s[j]) \/ (~ Before(s[j], s[i]) /\ i < j)
InFront(s, i)  == {j \in DOMAIN s : Ahead(s, j, i)}
StableSort(s)  == [k \in DOMAIN s |-> s[CHOOSE i \in DOMAIN s : Cardinality(InFront(s, i)) = k - 1]]

Nodes(bucket)  == [i \in DOMAIN bucket.order |-> bucket.nodes[bucket.order[i]]]
Spokes(bucket) == StableSort(Nodes(bucket))

\* How many hosts report a gateway.
Votes(fleet) ==
    [g \in {fleet[i].gw : i \in DOMAIN fleet} \ {NoGateway} |->
        Cardinality({i \in DOMAIN fleet : fleet[i].gw = g})]

\* topVote, over the map in the order the iteration takes.
NoVote == [gw |-> NoGateway, n |-> 0]
Better(votes, g, best) ==
    IF votes[g] > best.n \/ (votes[g] = best.n /\ g < best.gw) THEN [gw |-> g, n |-> votes[g]] ELSE best

AfterVotes(votes, iteration) ==
    LET best[k \in 0 .. Len(iteration)] ==
            IF k = 0 THEN NoVote ELSE Better(votes, iteration[k], best[k - 1])
    IN  best

TopVote(votes, iteration) == AfterVotes(votes, iteration)[Len(iteration)].gw

-----------------------------------------------------------------------------
(* What the map promises about a fleet.                                    *)

On(h, t)        == \E i \in DOMAIN h.nics : TabOf(h.nics[i]) = t
Addresses(h, t) == {h.nics[i].ip : i \in {j \in DOMAIN h.nics : TabOf(h.nics[j]) = t}} \ {NoAddress}

\* A host is on a tab once, if one of its interfaces is, and under its own name.
NodesExact(fleet, t) ==
    LET bucket == Build(fleet, t) IN
    /\ IsInjective(bucket.order)
    /\ ToSet(bucket.order) = DOMAIN bucket.nodes
    /\ DOMAIN bucket.nodes = {h.id : h \in {g \in ToSet(fleet) : On(g, t)}}
    /\ \A h \in ToSet(fleet) : On(h, t) =>
            bucket.nodes[h.id].name = h.name /\ bucket.nodes[h.id].online = h.online

\* A host is marked exactly if a host of another name has one of its addresses
\* on the tab; one that has an address twice is not in conflict with itself.
ConflictsExact(fleet, t) ==
    Flagged(Build(fleet, t)) =
        {h.id : h \in {g \in ToSet(fleet) : \E o \in ToSet(fleet) :
                            o.name # g.name /\ Addresses(o, t) \cap Addresses(g, t) # {}}}

\* Every node of the tab is drawn once, none after one it belongs in front of;
\* and hosts of different names are drawn alike in whatever order the rows come.
SpokesExact(fleet, t) ==
    LET there == Spokes(Build(fleet, t)) IN
    /\ IsInjective(there)
    /\ ToSet(there) = {Build(fleet, t).nodes[id] : id \in DOMAIN Build(fleet, t).nodes}
    /\ \A i, j \in DOMAIN there : i < j => ~ Before(there[j], there[i])
    /\ (\A g, h \in ToSet(fleet) : g.name = h.name => g = h) =>
           \A rows \in SetToSeqs(ToSet(fleet)) : Spokes(Build(rows, t)) = there

\* The gateway drawn has the most votes, in whatever order Go walks the map.
GatewayExact(fleet) ==
    LET votes == Votes(fleet)
        most  == {g \in DOMAIN votes : \A o \in DOMAIN votes :
                    votes[g] > votes[o] \/ (votes[g] = votes[o] /\ g <= o)}
    IN  \A iteration \in SetToSeqs(DOMAIN votes) :
            IF most = {} THEN TopVote(votes, iteration) = NoGateway
                         ELSE most = {TopVote(votes, iteration)}

Exact(fleet) ==
    /\ \A t \in Tabs : NodesExact(fleet, t) /\ SpokesExact(fleet, t)
    /\ \A t \in {"lan", "wg"} : ConflictsExact(fleet, t)
    /\ GatewayExact(fleet)
=============================================================================
