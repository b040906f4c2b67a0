-------------------------- MODULE Topology_proofs --------------------------
(***************************************************************************)
(* The map is exact for every fleet.  What buildTopology computes by loops *)
(* over interfaces, hosts and votes is a recursion here, and what it       *)
(* yields is shown by induction over how far the loop has come.            *)
(***************************************************************************)
EXTENDS HostMap, WellFoundedInduction, FiniteSetTheorems, SequenceTheorems, TLAPS

-----------------------------------------------------------------------------
(* Induction over the naturals, for a set instead of a predicate.          *)

LEMMA LeastElement ==
  ASSUME NEW T \in SUBSET Nat, T # {}
  PROVE  \E n \in T : \A m \in T : n <= m
  <1> DEFINE R == OpToRel(<, Nat)
  <1>1. IsWellFoundedOn(R, Nat)
    BY NatLessThanWellFounded
  <1>2. \A x, y \in Nat : y < x => <<y, x>> \in R
    BY DEF OpToRel
  <1> HIDE DEF R
  <1>3. PICK x \in T : \A y \in T : ~ (<<y, x>> \in R)
    BY <1>1, WFMin
  <1>4. \A y \in T : ~ (y < x)
    BY <1>2, <1>3
  <1> QED BY <1>4

LEMMA SetInduction ==
  ASSUME NEW S, 0 \in S, \A n \in Nat : n \in S => n + 1 \in S
  PROVE  Nat \subseteq S
  <1> DEFINE T == {n \in Nat : n \notin S}
  <1>1. SUFFICES ASSUME T # {} PROVE FALSE
    OBVIOUS
  <1>2. PICK n \in T : \A m \in T : n <= m
    BY <1>1, LeastElement
  <1>3. n \in Nat /\ n # 0 /\ n - 1 \in Nat /\ n - 1 \notin T
    BY <1>2
  <1>4. n - 1 \in S
    BY <1>3
  <1> QED BY <1>2, <1>3, <1>4

\* The same up to a bound: what holds at 0 and is passed on holds up to N.
LEMMA BoundedInduction ==
  ASSUME NEW S, NEW N \in Nat, 0 \in S, \A n \in 1 .. N : n - 1 \in S => n \in S
  PROVE  \A n \in 0 .. N : n \in S
  <1> DEFINE T == {n \in Nat : n <= N => n \in S}
  <1>1. 0 \in T
    OBVIOUS
  <1>2. \A n \in Nat : n \in T => n + 1 \in T
    OBVIOUS
  <1> HIDE DEF T
  <1>3. Nat \subseteq T
    BY <1>1, <1>2, SetInduction
  <1> QED BY <1>3 DEF T

-----------------------------------------------------------------------------
(* The three recursions have the values their equations say.               *)

\* AfterNics starts with the bucket and adds one interface at a time.
LEMMA NicsRecursion ==
  ASSUME NEW bucket, NEW h, NEW t, Len(h.nics) \in Nat
  PROVE  LET after == AfterNics(bucket, h, t) IN
         /\ after[0] = bucket
         /\ \A k \in 1 .. Len(h.nics) : after[k] = AddNic(after[k - 1], h, h.nics[k], t)
  <1> DEFINE N == Len(h.nics)
             Body(g, k) == IF k = 0 THEN bucket ELSE AddNic(g[k - 1], h, h.nics[k], t)
             S == {n \in Nat : \E g : g = [k \in 0 .. n |-> Body(g, k)]}
             P(f) == f = [k \in 0 .. N |-> Body(f, k)]
             after == AfterNics(bucket, h, t)
  <1> HIDE DEF N
  <1>1. 0 \in S
    <2>1. [k \in 0 .. 0 |-> bucket] = [k \in 0 .. 0 |-> Body([j \in 0 .. 0 |-> bucket], k)]
      OBVIOUS
    <2> QED BY <2>1
  <1>2. ASSUME NEW n \in Nat, n \in S PROVE n + 1 \in S
    <2>1. PICK g : g = [k \in 0 .. n |-> Body(g, k)]
      BY <1>2
    <2> DEFINE e == [k \in 0 .. n + 1 |-> IF k = n + 1 THEN AddNic(g[n], h, h.nics[n + 1], t) ELSE g[k]]
    <2>2. ASSUME NEW k \in 0 .. n + 1 PROVE e[k] = Body(e, k)
      <3>1. CASE k = n + 1
        BY <3>1
      <3>2. CASE k # n + 1
        <4>1. k \in 0 .. n /\ (k # 0 => k - 1 \in 0 .. n /\ k - 1 # n + 1)
          BY <3>2
        <4>2. g[k] = Body(g, k)
          BY <2>1, <4>1
        <4> QED BY <4>1, <4>2, <3>2
      <3> QED BY <3>1, <3>2
    <2>3. \E f : f = [k \in 0 .. n + 1 |-> Body(f, k)]
      <3>1. e = [k \in 0 .. n + 1 |-> Body(e, k)]
        BY <2>2
      <3> WITNESS e
      <3> QED BY <3>1
    <2> QED BY <2>3
  <1>3. N \in Nat
    BY DEF N
  <1>4. \E f : P(f)
    <2>1. N \in S
      <3> HIDE DEF S
      <3> QED BY <1>1, <1>2, <1>3, SetInduction
    <2> QED BY <2>1
  <1>5. after = CHOOSE f : P(f)
    BY DEF AfterNics, N
  <1>6. P(after)
    <2> HIDE DEF P, after
    <2> QED BY <1>4, <1>5
  <1>7. \A k \in 0 .. N : after[k] = Body(after, k)
    <2> HIDE DEF after
    <2> QED BY <1>6
  <1> HIDE DEF after
  <1>8. after[0] = bucket /\ \A k \in 1 .. N : after[k] = AddNic(after[k - 1], h, h.nics[k], t)
    BY <1>3, <1>7
  <1> QED BY <1>8 DEF N, after

\* AfterHosts starts with the empty bucket and adds one host at a time.
LEMMA HostsRecursion ==
  ASSUME NEW fleet, NEW t, Len(fleet) \in Nat
  PROVE  LET after == AfterHosts(fleet, t) IN
         /\ after[0] = NoNodes
         /\ \A k \in 1 .. Len(fleet) : after[k] = AddHost(after[k - 1], fleet[k], t)
  <1> DEFINE N == Len(fleet)
             Body(g, k) == IF k = 0 THEN NoNodes ELSE AddHost(g[k - 1], fleet[k], t)
             S == {n \in Nat : \E g : g = [k \in 0 .. n |-> Body(g, k)]}
             P(f) == f = [k \in 0 .. N |-> Body(f, k)]
             after == AfterHosts(fleet, t)
  <1> HIDE DEF N
  <1>1. 0 \in S
    <2>1. [k \in 0 .. 0 |-> NoNodes] = [k \in 0 .. 0 |-> Body([j \in 0 .. 0 |-> NoNodes], k)]
      OBVIOUS
    <2> QED BY <2>1
  <1>2. ASSUME NEW n \in Nat, n \in S PROVE n + 1 \in S
    <2>1. PICK g : g = [k \in 0 .. n |-> Body(g, k)]
      BY <1>2
    <2> DEFINE e == [k \in 0 .. n + 1 |-> IF k = n + 1 THEN AddHost(g[n], fleet[n + 1], t) ELSE g[k]]
    <2>2. ASSUME NEW k \in 0 .. n + 1 PROVE e[k] = Body(e, k)
      <3>1. CASE k = n + 1
        BY <3>1
      <3>2. CASE k # n + 1
        <4>1. k \in 0 .. n /\ (k # 0 => k - 1 \in 0 .. n /\ k - 1 # n + 1)
          BY <3>2
        <4>2. g[k] = Body(g, k)
          BY <2>1, <4>1
        <4> QED BY <4>1, <4>2, <3>2
      <3> QED BY <3>1, <3>2
    <2>3. \E f : f = [k \in 0 .. n + 1 |-> Body(f, k)]
      <3>1. e = [k \in 0 .. n + 1 |-> Body(e, k)]
        BY <2>2
      <3> WITNESS e
      <3> QED BY <3>1
    <2> QED BY <2>3
  <1>3. N \in Nat
    BY DEF N
  <1>4. \E f : P(f)
    <2>1. N \in S
      <3> HIDE DEF S
      <3> QED BY <1>1, <1>2, <1>3, SetInduction
    <2> QED BY <2>1
  <1>5. after = CHOOSE f : P(f)
    BY DEF AfterHosts, N
  <1>6. P(after)
    <2> HIDE DEF P, after
    <2> QED BY <1>4, <1>5
  <1>7. \A k \in 0 .. N : after[k] = Body(after, k)
    <2> HIDE DEF after
    <2> QED BY <1>6
  <1> HIDE DEF after
  <1>8. after[0] = NoNodes /\ \A k \in 1 .. N : after[k] = AddHost(after[k - 1], fleet[k], t)
    BY <1>3, <1>7
  <1> QED BY <1>8 DEF N, after

\* AfterVotes starts with no vote and compares with one candidate at a time.
LEMMA VotesRecursion ==
  ASSUME NEW votes, NEW iteration, Len(iteration) \in Nat
  PROVE  LET after == AfterVotes(votes, iteration) IN
         /\ after[0] = NoVote
         /\ \A k \in 1 .. Len(iteration) : after[k] = Better(votes, iteration[k], after[k - 1])
  <1> DEFINE N == Len(iteration)
             Body(g, k) == IF k = 0 THEN NoVote ELSE Better(votes, iteration[k], g[k - 1])
             S == {n \in Nat : \E g : g = [k \in 0 .. n |-> Body(g, k)]}
             P(f) == f = [k \in 0 .. N |-> Body(f, k)]
             after == AfterVotes(votes, iteration)
  <1> HIDE DEF N
  <1>1. 0 \in S
    <2>1. [k \in 0 .. 0 |-> NoVote] = [k \in 0 .. 0 |-> Body([j \in 0 .. 0 |-> NoVote], k)]
      OBVIOUS
    <2> QED BY <2>1
  <1>2. ASSUME NEW n \in Nat, n \in S PROVE n + 1 \in S
    <2>1. PICK g : g = [k \in 0 .. n |-> Body(g, k)]
      BY <1>2
    <2> DEFINE e == [k \in 0 .. n + 1 |-> IF k = n + 1 THEN Better(votes, iteration[n + 1], g[n]) ELSE g[k]]
    <2>2. ASSUME NEW k \in 0 .. n + 1 PROVE e[k] = Body(e, k)
      <3>1. CASE k = n + 1
        BY <3>1
      <3>2. CASE k # n + 1
        <4>1. k \in 0 .. n /\ (k # 0 => k - 1 \in 0 .. n /\ k - 1 # n + 1)
          BY <3>2
        <4>2. g[k] = Body(g, k)
          BY <2>1, <4>1
        <4> QED BY <4>1, <4>2, <3>2
      <3> QED BY <3>1, <3>2
    <2>3. \E f : f = [k \in 0 .. n + 1 |-> Body(f, k)]
      <3>1. e = [k \in 0 .. n + 1 |-> Body(e, k)]
        BY <2>2
      <3> WITNESS e
      <3> QED BY <3>1
    <2> QED BY <2>3
  <1>3. N \in Nat
    BY DEF N
  <1>4. \E f : P(f)
    <2>1. N \in S
      <3> HIDE DEF S
      <3> QED BY <1>1, <1>2, <1>3, SetInduction
    <2> QED BY <2>1
  <1>5. after = CHOOSE f : P(f)
    BY DEF AfterVotes, N
  <1>6. P(after)
    <2> HIDE DEF P, after
    <2> QED BY <1>4, <1>5
  <1>7. \A k \in 0 .. N : after[k] = Body(after, k)
    <2> HIDE DEF after
    <2> QED BY <1>6
  <1> HIDE DEF after
  <1>8. after[0] = NoVote /\ \A k \in 1 .. N : after[k] = Better(votes, iteration[k], after[k - 1])
    BY <1>3, <1>7
  <1> QED BY <1>8 DEF N, after

-----------------------------------------------------------------------------
(* Sequences that list a set, each element once.                           *)

Lists(s, X) == s \in Seq(X) /\ IsInjective(s) /\ ToSet(s) = X

LEMMA AppendUniqueLists ==
  ASSUME NEW X, NEW s, Lists(s, X), NEW x
  PROVE  /\ Lists(AppendUnique(s, x), X \cup {x})
         /\ x \in X => AppendUnique(s, x) = s
         /\ x \notin X => AppendUnique(s, x) = Append(s, x)
  <1>1. /\ s \in Seq(X) /\ s \in Seq(X \cup {x}) /\ Len(s) \in Nat /\ DOMAIN s = 1 .. Len(s)
        /\ \A y : y \in X <=> \E i \in 1 .. Len(s) : s[i] = y
        /\ \A i, j \in 1 .. Len(s) : s[i] = s[j] => i = j
    BY DEF Lists, IsInjective, ToSet
  <1>2. Contains(s, x) <=> x \in X
    BY <1>1 DEF Contains
  <1>3. CASE x \in X
    <2>1. X \cup {x} = X
      BY <1>3
    <2> QED BY <1>2, <1>3, <2>1 DEF AppendUnique
  <1>4. CASE x \notin X
    <2> DEFINE u == Append(s, x)
    <2>1. AppendUnique(s, x) = u
      BY <1>2, <1>4 DEF AppendUnique
    <2>2. /\ u \in Seq(X \cup {x}) /\ DOMAIN u = 1 .. Len(s) + 1
          /\ \A i \in 1 .. Len(s) : u[i] = s[i]
          /\ u[Len(s) + 1] = x
      BY <1>1
    <2> HIDE DEF u
    <2>3. IsInjective(u)
      <3>1. ASSUME NEW i \in 1 .. Len(s) + 1, NEW j \in 1 .. Len(s) + 1, u[i] = u[j] PROVE i = j
        <4>1. \A k \in 1 .. Len(s) + 1 : k \in 1 .. Len(s) \/ k = Len(s) + 1
          BY <1>1
        <4>2. \A k \in 1 .. Len(s) : u[k] \in X /\ u[k] # x
          BY <1>1, <1>4, <2>2
        <4> QED BY <1>1, <2>2, <3>1, <4>1, <4>2
      <3> QED BY <3>1, <2>2 DEF IsInjective
    <2>4. ToSet(u) = X \cup {x}
      <3>1. \A k \in 1 .. Len(s) + 1 : k \in 1 .. Len(s) \/ k = Len(s) + 1
        BY <1>1
      <3>2. 1 .. Len(s) \subseteq 1 .. Len(s) + 1 /\ Len(s) + 1 \in 1 .. Len(s) + 1
        BY <1>1
      <3>3. \A y : (\E k \in 1 .. Len(s) + 1 : u[k] = y) <=> (\E k \in 1 .. Len(s) : s[k] = y) \/ y = x
        BY <3>1, <3>2, <2>2
      <3>4. \A y : y \in ToSet(u) <=> \E k \in 1 .. Len(s) + 1 : u[k] = y
        BY <2>2 DEF ToSet
      <3> QED BY <1>1, <3>3, <3>4
    <2> QED BY <1>4, <2>1, <2>2, <2>3, <2>4 DEF Lists, u
  <1> QED BY <1>3, <1>4

LEMMA ListsMany ==
  ASSUME NEW X, NEW s, Lists(s, X)
  PROVE  Len(s) > 1 <=> \E x, y \in X : x # y
  <1>1. /\ Len(s) \in Nat /\ DOMAIN s = 1 .. Len(s)
        /\ \A y : y \in X <=> \E i \in 1 .. Len(s) : s[i] = y
        /\ \A i, j \in 1 .. Len(s) : s[i] = s[j] => i = j
    BY DEF Lists, IsInjective, ToSet
  <1>2. ASSUME Len(s) > 1 PROVE \E x, y \in X : x # y
    <2>1. 1 \in 1 .. Len(s) /\ 2 \in 1 .. Len(s) /\ 1 # 2
      BY <1>1, <1>2
    <2>2. s[1] \in X /\ s[2] \in X /\ s[1] # s[2]
      BY <1>1, <2>1
    <2> QED BY <2>2
  <1>3. ASSUME NEW x \in X, NEW y \in X, x # y PROVE Len(s) > 1
    <2>1. PICK i \in 1 .. Len(s), j \in 1 .. Len(s) : s[i] = x /\ s[j] = y
      BY <1>1
    <2> QED BY <1>1, <1>3, <2>1
  <1> QED BY <1>2, <1>3

LEMMA NothingListsNothing == Lists(<<>>, {})
  BY DEF Lists, IsInjective, ToSet

-----------------------------------------------------------------------------
(* What the interfaces of one host do to a bucket that does not have it.   *)

\* After the first k interfaces: whether one is on the tab, and their addresses.
OnBy(h, t, k)      == \E i \in 1 .. k : TabOf(h.nics[i]) = t
IpsBy(h, t, k)     == {h.nics[i].ip : i \in {j \in 1 .. k : TabOf(h.nics[j]) = t}}
Noted(h, t, k, ip) == t # "tb" /\ ip # NoAddress /\ ip \in IpsBy(h, t, k)

NodesOf(h) == [id : {h.id}, name : {h.name}, online : {h.online}, hub : BOOLEAN, ips : Seq(Nat)]

Ready(b, h) ==
    /\ h.id \notin DOMAIN b.nodes
    /\ \E X : Lists(b.order, X)
    /\ \A ip : \E X : Lists(Holders(b, ip), X)

\* The bucket is c after the first k interfaces of h where it was b before.
HostSoFar(b, h, t, k, c) ==
    /\ DOMAIN c.nodes = IF OnBy(h, t, k) THEN DOMAIN b.nodes \cup {h.id} ELSE DOMAIN b.nodes
    /\ \A id \in DOMAIN b.nodes : c.nodes[id] = b.nodes[id]
    /\ OnBy(h, t, k) => c.nodes[h.id] \in NodesOf(h) /\ ToSet(c.nodes[h.id].ips) = IpsBy(h, t, k)
    /\ c.order = IF OnBy(h, t, k) THEN AppendUnique(b.order, h.id) ELSE b.order
    /\ \A ip : Holders(c, ip) =
                  IF Noted(h, t, k, ip) THEN AppendUnique(Holders(b, ip), h.name) ELSE Holders(b, ip)

LEMMA NicType ==
  ASSUME NEW h \in Reports
  PROVE  /\ h.nics \in Seq(Interfaces) /\ Len(h.nics) \in Nat /\ DOMAIN h.nics = 1 .. Len(h.nics)
         /\ \A k \in 1 .. Len(h.nics) : h.nics[k] \in Interfaces /\ h.nics[k].ip \in Nat
         /\ h.id \in Nat /\ h.name \in Nat /\ h.online \in BOOLEAN /\ h.gw \in Nat
  <1>1. h.nics \in Seq(Interfaces) /\ h.id \in Nat /\ h.name \in Nat /\ h.online \in BOOLEAN /\ h.gw \in Nat
    BY DEF Reports
  <1>2. /\ Len(h.nics) \in Nat /\ DOMAIN h.nics = 1 .. Len(h.nics)
        /\ \A k \in 1 .. Len(h.nics) : h.nics[k] \in Interfaces
    BY <1>1
  <1>3. \A n \in Interfaces : n.ip \in Nat
    BY DEF Interfaces
  <1> QED BY <1>1, <1>2, <1>3

LEMMA OneMore ==
  ASSUME NEW h, NEW t, NEW k \in Nat \ {0}
  PROVE  /\ TabOf(h.nics[k]) # t => /\ OnBy(h, t, k) = OnBy(h, t, k - 1)
                                    /\ IpsBy(h, t, k) = IpsBy(h, t, k - 1)
         /\ TabOf(h.nics[k]) = t => /\ OnBy(h, t, k)
                                    /\ IpsBy(h, t, k) = IpsBy(h, t, k - 1) \cup {h.nics[k].ip}
         /\ ~ OnBy(h, t, k) => IpsBy(h, t, k) = {}
         /\ ~ OnBy(h, t, 0) /\ IpsBy(h, t, 0) = {}
         /\ ~ OnBy(h, t, k - 1) => IpsBy(h, t, k - 1) = {}
  <1>1. \A i : i \in 1 .. k <=> i \in 1 .. k - 1 \/ i = k
    OBVIOUS
  <1>2. \A y, n : y \in IpsBy(h, t, n) <=> \E i \in 1 .. n : TabOf(h.nics[i]) = t /\ h.nics[i].ip = y
    BY DEF IpsBy
  <1>3. \A n : ~ OnBy(h, t, n) => IpsBy(h, t, n) = {}
    BY DEF OnBy, IpsBy
  <1>4. TabOf(h.nics[k]) # t => IpsBy(h, t, k) = IpsBy(h, t, k - 1)
    <2>1. TabOf(h.nics[k]) # t => \A y : y \in IpsBy(h, t, k) <=> y \in IpsBy(h, t, k - 1)
      BY <1>1, <1>2
    <2> QED BY <2>1
  <1>5. TabOf(h.nics[k]) = t => IpsBy(h, t, k) = IpsBy(h, t, k - 1) \cup {h.nics[k].ip}
    BY <1>1, <1>2
  <1>6. /\ TabOf(h.nics[k]) # t => OnBy(h, t, k) = OnBy(h, t, k - 1)
        /\ TabOf(h.nics[k]) = t => OnBy(h, t, k)
        /\ ~ OnBy(h, t, 0)
    BY <1>1 DEF OnBy
  <1> QED BY <1>3, <1>4, <1>5, <1>6

LEMMA AppendUniqueTwice ==
  ASSUME NEW s, NEW X, Lists(s, X), NEW x
  PROVE  AppendUnique(AppendUnique(s, x), x) = AppendUnique(s, x)
  <1>1. Lists(AppendUnique(s, x), X \cup {x})
    BY AppendUniqueLists
  <1> QED BY <1>1, AppendUniqueLists

LEMMA AddIfaceType ==
  ASSUME NEW h, NEW n \in NodesOf(h), NEW ip \in Nat
  PROVE  AddIface(n, ip) \in NodesOf(h) /\ AddIface(n, ip).ips = Append(n.ips, ip)
  <1> DEFINE m == AddIface(n, ip)
             f == {"id", "name", "online", "hub", "ips"}
  <1>1. /\ n.id = h.id /\ n.name = h.name /\ n.online = h.online
        /\ n.hub \in BOOLEAN /\ n.ips \in Seq(Nat)
        /\ n = [x \in f |-> n[x]]
    BY DEF NodesOf
  <1>2. Append(n.ips, ip) \in Seq(Nat)
    BY <1>1
  <1>3. (n.hub \/ ip = HubAddress) \in BOOLEAN
    OBVIOUS
  <1>4. DOMAIN n = f
    BY <1>1
  <1> DEFINE ips == Append(n.ips, ip)
             hub == n.hub \/ ip = HubAddress
  <1>5. m = [[n EXCEPT !.ips = ips] EXCEPT !.hub = hub]
    BY DEF AddIface
  <1> HIDE DEF ips, hub
  <1>6. m = [x \in f |-> IF x = "ips" THEN ips ELSE IF x = "hub" THEN hub ELSE n[x]]
    BY <1>1, <1>4, <1>5
  <1>7. hub \in BOOLEAN /\ ips \in Seq(Nat)
    BY <1>2, <1>3 DEF hub, ips
  <1> HIDE DEF m
  <1>8. /\ m.id = h.id /\ m.name = h.name /\ m.online = h.online /\ m.hub = hub /\ m.ips = ips
        /\ DOMAIN m = f /\ m = [x \in f |-> m[x]]
    BY <1>1, <1>6
  <1>9. m \in NodesOf(h)
    BY <1>7, <1>8 DEF NodesOf
  <1> QED BY <1>8, <1>9 DEF m, ips

LEMMA OneNic ==
  ASSUME NEW h \in Reports, NEW t \in Tabs, NEW b, NEW c, NEW k \in 1 .. Len(h.nics),
         Ready(b, h), HostSoFar(b, h, t, k - 1, c)
  PROVE  HostSoFar(b, h, t, k, AddNic(c, h, h.nics[k], t))
  <1> DEFINE nic == h.nics[k]
             d == AddNic(c, h, nic, t)
             node == Node(c, h)
  <1>0. k \in Nat \ {0} /\ nic.ip \in Nat
    BY NicType
  <1>1. CASE TabOf(nic) # t
    <2>1. d = c
      BY <1>1 DEF AddNic
    <2>2. OnBy(h, t, k) = OnBy(h, t, k - 1) /\ IpsBy(h, t, k) = IpsBy(h, t, k - 1)
      BY <1>0, <1>1, OneMore
    <2> HIDE DEF d
    <2> QED BY <2>1, <2>2 DEF HostSoFar, Noted, d
  <1>2. CASE TabOf(nic) = t
    <2>1. /\ OnBy(h, t, k) /\ IpsBy(h, t, k) = IpsBy(h, t, k - 1) \cup {nic.ip}
          /\ ~ OnBy(h, t, k - 1) => IpsBy(h, t, k - 1) = {}
      BY <1>0, <1>2, OneMore
    <2> DEFINE new == AddIface(node, nic.ip)
    <2>2. /\ d.order = AppendUnique(c.order, h.id)
          /\ d.nodes = Upsert(c.nodes, h.id, new)
          /\ d.holders = IF t # "tb" /\ nic.ip # NoAddress
                         THEN Upsert(c.holders, nic.ip, AppendUnique(Holders(c, nic.ip), h.name))
                         ELSE c.holders
      BY <1>2 DEF AddNic
    <2> HIDE DEF d
    <2>3. node \in NodesOf(h) /\ ToSet(node.ips) = IpsBy(h, t, k - 1)
      <3>1. CASE OnBy(h, t, k - 1)
        BY <3>1 DEF Node, HostSoFar
      <3>2. CASE ~ OnBy(h, t, k - 1)
        <4>1. h.id \notin DOMAIN c.nodes
          BY <3>2 DEF HostSoFar, Ready
        <4>2. node = [id |-> h.id, name |-> h.name, online |-> h.online, hub |-> FALSE, ips |-> <<>>]
          BY <4>1 DEF Node
        <4>3. ToSet(<<>>) = {}
          BY DEF ToSet
        <4>4. node \in NodesOf(h)
          BY <4>2 DEF NodesOf
        <4> HIDE DEF node
        <4> QED BY <2>1, <3>2, <4>2, <4>3, <4>4
      <3> QED BY <3>1, <3>2
    <2>4. new \in NodesOf(h) /\ ToSet(new.ips) = IpsBy(h, t, k)
      <3> HIDE DEF node
      <3>1. node.ips \in Seq(Nat) /\ new.ips = Append(node.ips, nic.ip) /\ new \in NodesOf(h)
        <4>1. /\ AddIface(node, nic.ip) \in NodesOf(h)
              /\ AddIface(node, nic.ip).ips = Append(node.ips, nic.ip)
          <5> HIDE DEF nic
          <5> QED BY <1>0, <2>3, AddIfaceType
        <4>2. node.ips \in Seq(Nat)
          BY <2>3 DEF NodesOf
        <4> QED BY <4>1, <4>2
      <3>2. ASSUME NEW q \in Seq(Nat), NEW x \in Nat PROVE ToSet(Append(q, x)) = ToSet(q) \cup {x}
        <4>1. /\ DOMAIN Append(q, x) = 1 .. Len(q) + 1 /\ DOMAIN q = 1 .. Len(q) /\ Len(q) \in Nat
              /\ \A i \in 1 .. Len(q) : Append(q, x)[i] = q[i]
              /\ Append(q, x)[Len(q) + 1] = x
          OBVIOUS
        <4>2. \A i : i \in 1 .. Len(q) + 1 <=> i \in 1 .. Len(q) \/ i = Len(q) + 1
          BY <4>1
        <4> QED BY <4>1, <4>2 DEF ToSet
      <3>3. ToSet(new.ips) = ToSet(node.ips) \cup {nic.ip}
        BY <1>0, <3>1, <3>2
      <3> QED BY <2>1, <2>3, <3>1, <3>3
    <2> HIDE DEF new
    <2>5. /\ DOMAIN d.nodes = DOMAIN b.nodes \cup {h.id}
          /\ \A id \in DOMAIN b.nodes : d.nodes[id] = b.nodes[id]
          /\ d.nodes[h.id] = new
      <3>1. /\ DOMAIN d.nodes = DOMAIN c.nodes \cup {h.id} /\ d.nodes[h.id] = new
            /\ \A id \in DOMAIN c.nodes : id # h.id => d.nodes[id] = c.nodes[id]
        BY <2>2 DEF Upsert
      <3>2. /\ h.id \notin DOMAIN b.nodes /\ DOMAIN b.nodes \subseteq DOMAIN c.nodes
            /\ DOMAIN c.nodes \subseteq DOMAIN b.nodes \cup {h.id}
            /\ \A id \in DOMAIN b.nodes : c.nodes[id] = b.nodes[id]
        BY DEF HostSoFar, Ready
      <3> QED BY <3>1, <3>2
    <2>6. d.order = AppendUnique(b.order, h.id)
      <3>1. c.order = b.order \/ c.order = AppendUnique(b.order, h.id)
        BY DEF HostSoFar
      <3>2. PICK X : Lists(b.order, X)
        BY DEF Ready
      <3> QED BY <2>2, <3>1, <3>2, AppendUniqueTwice
    <2>7. ASSUME NEW ip
          PROVE  Holders(d, ip) = IF Noted(h, t, k, ip) THEN AppendUnique(Holders(b, ip), h.name)
                                  ELSE Holders(b, ip)
      <3>1. Holders(c, ip) = IF Noted(h, t, k - 1, ip) THEN AppendUnique(Holders(b, ip), h.name)
                             ELSE Holders(b, ip)
        BY DEF HostSoFar
      <3>2. PICK X : Lists(Holders(b, ip), X)
        BY DEF Ready
      <3>3. Noted(h, t, k, ip) <=> Noted(h, t, k - 1, ip) \/ (t # "tb" /\ nic.ip # NoAddress /\ ip = nic.ip)
        BY <2>1 DEF Noted
      <3>4. CASE t # "tb" /\ nic.ip # NoAddress
        <4>1. d.holders = Upsert(c.holders, nic.ip, AppendUnique(Holders(c, nic.ip), h.name))
          BY <2>2, <3>4
        <4>2. Holders(d, ip) = IF ip = nic.ip THEN AppendUnique(Holders(c, ip), h.name) ELSE Holders(c, ip)
          <5> DEFINE row == AppendUnique(Holders(c, nic.ip), h.name)
          <5>1. /\ DOMAIN d.holders = DOMAIN c.holders \cup {nic.ip} /\ d.holders[nic.ip] = row
                /\ \A x \in DOMAIN c.holders : x # nic.ip => d.holders[x] = c.holders[x]
            <6>1. d.holders = Upsert(c.holders, nic.ip, row)
              BY <4>1
            <6> HIDE DEF row, nic
            <6> QED BY <6>1 DEF Upsert
          <5>2. CASE ip = nic.ip
            BY <5>1, <5>2 DEF Holders
          <5>3. CASE ip # nic.ip
            BY <5>1, <5>3 DEF Holders
          <5> QED BY <5>2, <5>3
        <4> QED BY <3>1, <3>2, <3>3, <3>4, <4>2, AppendUniqueTwice
      <3>5. CASE ~ (t # "tb" /\ nic.ip # NoAddress)
        <4>1. Holders(d, ip) = Holders(c, ip)
          BY <2>2, <3>5 DEF Holders
        <4> QED BY <3>1, <3>3, <3>5, <4>1
      <3> QED BY <3>4, <3>5
    <2> QED BY <2>1, <2>4, <2>5, <2>6, <2>7 DEF HostSoFar, d
  <1> QED BY <1>1, <1>2

\* The bucket has the first k interfaces of h after k rounds of the loop.
LEMMA SomeNics ==
  ASSUME NEW h \in Reports, NEW t \in Tabs, NEW b, Ready(b, h)
  PROVE  \A k \in 0 .. Len(h.nics) : HostSoFar(b, h, t, k, AfterNics(b, h, t)[k])
  <1> DEFINE after == AfterNics(b, h, t)
             N == Len(h.nics)
             S == {k \in 0 .. N : HostSoFar(b, h, t, k, after[k])}
  <1>0. N \in Nat
    BY NicType
  <1>1. after[0] = b /\ \A k \in 1 .. N : after[k] = AddNic(after[k - 1], h, h.nics[k], t)
    BY <1>0, NicsRecursion
  <1> HIDE DEF after
  <1>2. 0 \in S
    <2>1. ~ OnBy(h, t, 0) /\ IpsBy(h, t, 0) = {}
      BY DEF OnBy, IpsBy
    <2>2. HostSoFar(b, h, t, 0, b)
      BY <2>1 DEF HostSoFar, Noted
    <2> QED BY <1>0, <1>1, <2>2
  <1>3. ASSUME NEW k \in 1 .. N, k - 1 \in S PROVE k \in S
    <2>1. HostSoFar(b, h, t, k - 1, after[k - 1])
      BY <1>3
    <2>2. HostSoFar(b, h, t, k, AddNic(after[k - 1], h, h.nics[k], t))
      BY <2>1, OneNic
    <2> QED BY <1>0, <1>1, <2>2
  <1> HIDE DEF S
  <1>4. \A k \in 0 .. N : k \in S
    BY <1>0, <1>2, <1>3, BoundedInduction
  <1> QED BY <1>4 DEF S, after

\* What a host's node is does not depend on the bucket it is added to.
LEMMA SameNode ==
  ASSUME NEW h \in Reports, NEW t \in Tabs, NEW a, NEW b, Ready(a, h), Ready(b, h)
  PROVE  \A k \in 0 .. Len(h.nics) :
            OnBy(h, t, k) => AfterNics(a, h, t)[k].nodes[h.id] = AfterNics(b, h, t)[k].nodes[h.id]
  <1> DEFINE A == AfterNics(a, h, t)
             B == AfterNics(b, h, t)
             N == Len(h.nics)
             S == {k \in 0 .. N : OnBy(h, t, k) => A[k].nodes[h.id] = B[k].nodes[h.id]}
  <1>0. N \in Nat
    BY NicType
  <1>1. /\ \A k \in 1 .. N : A[k] = AddNic(A[k - 1], h, h.nics[k], t)
        /\ \A k \in 1 .. N : B[k] = AddNic(B[k - 1], h, h.nics[k], t)
    BY <1>0, NicsRecursion
  <1>2. \A k \in 0 .. N : HostSoFar(a, h, t, k, A[k]) /\ HostSoFar(b, h, t, k, B[k])
    BY SomeNics
  <1> HIDE DEF A, B
  <1>3. 0 \in S
    <2>1. ~ OnBy(h, t, 0)
      BY DEF OnBy
    <2> QED BY <1>0, <2>1
  <1>4. ASSUME NEW k \in 1 .. N, k - 1 \in S PROVE k \in S
    <2> DEFINE nic == h.nics[k]
    <2>0. k \in Nat \ {0} /\ k - 1 \in 0 .. N /\ k \in 0 .. N
      BY <1>0
    <2>1. HostSoFar(a, h, t, k - 1, A[k - 1]) /\ HostSoFar(b, h, t, k - 1, B[k - 1])
      BY <1>2, <2>0
    <2>2. A[k] = AddNic(A[k - 1], h, nic, t) /\ B[k] = AddNic(B[k - 1], h, nic, t)
      BY <1>1
    <2>3. CASE TabOf(nic) # t
      <3>1. A[k] = A[k - 1] /\ B[k] = B[k - 1]
        BY <2>2, <2>3 DEF AddNic
      <3>2. OnBy(h, t, k) = OnBy(h, t, k - 1)
        BY <2>0, <2>3, OneMore
      <3> QED BY <1>4, <2>0, <3>1, <3>2
    <2>4. CASE TabOf(nic) = t
      <3>1. Node(A[k - 1], h) = Node(B[k - 1], h)
        <4>1. CASE OnBy(h, t, k - 1)
          BY <1>4, <2>1, <4>1 DEF Node, HostSoFar
        <4>2. CASE ~ OnBy(h, t, k - 1)
          BY <2>1, <4>2 DEF Node, HostSoFar, Ready
        <4> QED BY <4>1, <4>2
      <3>2. ASSUME NEW c PROVE AddNic(c, h, nic, t).nodes[h.id] = AddIface(Node(c, h), nic.ip)
        <4>1. AddNic(c, h, nic, t).nodes = Upsert(c.nodes, h.id, AddIface(Node(c, h), nic.ip))
          BY <2>4 DEF AddNic
        <4> QED BY <4>1 DEF Upsert
      <3>3. A[k].nodes[h.id] = B[k].nodes[h.id]
        BY <2>2, <3>1, <3>2
      <3> QED BY <2>0, <3>3
    <2> QED BY <2>3, <2>4
  <1> HIDE DEF S
  <1>5. \A k \in 0 .. N : k \in S
    BY <1>0, <1>3, <1>4, BoundedInduction
  <1> QED BY <1>5 DEF S, A, B

NodeOf(h, t) == AddHost(NoNodes, h, t).nodes[h.id]

LEMMA NoNodesReady ==
  ASSUME NEW h
  PROVE  Ready(NoNodes, h)
  <1>1. NoNodes.order = <<>> /\ DOMAIN NoNodes.nodes = {}
    BY DEF NoNodes, Empty
  <1>2. \A ip : Holders(NoNodes, ip) = <<>>
    BY DEF Holders, NoNodes, Empty
  <1> QED BY <1>1, <1>2, NothingListsNothing DEF Ready

LEMMA AllNics ==
  ASSUME NEW h \in Reports, NEW t
  PROVE  /\ OnBy(h, t, Len(h.nics)) <=> On(h, t)
         /\ IpsBy(h, t, Len(h.nics)) \ {NoAddress} = Addresses(h, t)
  BY NicType DEF OnBy, On, IpsBy, Addresses

\* The bucket is c after h where it was b before.
Added(b, h, t, c) ==
    /\ DOMAIN c.nodes = IF On(h, t) THEN DOMAIN b.nodes \cup {h.id} ELSE DOMAIN b.nodes
    /\ \A id \in DOMAIN b.nodes : c.nodes[id] = b.nodes[id]
    /\ On(h, t) => c.nodes[h.id] = NodeOf(h, t)
    /\ c.order = IF On(h, t) THEN AppendUnique(b.order, h.id) ELSE b.order
    /\ \A ip : Holders(c, ip) = IF t # "tb" /\ ip \in Addresses(h, t)
                                THEN AppendUnique(Holders(b, ip), h.name) ELSE Holders(b, ip)

LEMMA HostAdded ==
  ASSUME NEW h \in Reports, NEW t \in Tabs, NEW b, Ready(b, h)
  PROVE  Added(b, h, t, AddHost(b, h, t))
  <1> DEFINE N == Len(h.nics)
             c == AddHost(b, h, t)
  <1>1. N \in 0 .. N
    BY NicType
  <1>2. c = AfterNics(b, h, t)[N] /\ AddHost(NoNodes, h, t) = AfterNics(NoNodes, h, t)[N]
    BY DEF AddHost
  <1> HIDE DEF c
  <1>3. HostSoFar(b, h, t, N, c)
    BY <1>1, <1>2, SomeNics
  <1>4. On(h, t) => c.nodes[h.id] = NodeOf(h, t)
    BY <1>1, <1>2, AllNics, SameNode, NoNodesReady DEF NodeOf
  <1>5. \A ip : Noted(h, t, N, ip) <=> t # "tb" /\ ip \in Addresses(h, t)
    BY AllNics DEF Noted
  <1>6. OnBy(h, t, N) <=> On(h, t)
    BY AllNics
  <1> HIDE DEF N
  <1> QED BY <1>3, <1>4, <1>5, <1>6 DEF HostSoFar, Added, c

\* The node of a host, under its name and with its addresses.
LEMMA NodeOfHost ==
  ASSUME NEW h \in Reports, NEW t \in Tabs, On(h, t)
  PROVE  /\ NodeOf(h, t) \in NodesOf(h)
         /\ ToSet(NodeOf(h, t).ips) \ {NoAddress} = Addresses(h, t)
  <1> DEFINE N == Len(h.nics)
  <1>1. N \in 0 .. N
    BY NicType
  <1>2. HostSoFar(NoNodes, h, t, N, AddHost(NoNodes, h, t))
    BY <1>1, SomeNics, NoNodesReady DEF AddHost
  <1>3. OnBy(h, t, N)
    BY AllNics
  <1>4. NodeOf(h, t) \in NodesOf(h) /\ ToSet(NodeOf(h, t).ips) = IpsBy(h, t, N)
    BY <1>2, <1>3 DEF HostSoFar, NodeOf
  <1> QED BY <1>4, AllNics

-----------------------------------------------------------------------------
(* What the first n hosts of a fleet make of a bucket.                     *)

NamesAt(fleet, t, n, ip) ==
    {fleet[i].name : i \in {j \in 1 .. n : t # "tb" /\ ip \in Addresses(fleet[j], t)}}
IdsOn(fleet, t, n) == {fleet[i].id : i \in {j \in 1 .. n : On(fleet[j], t)}}

FleetSoFar(fleet, t, n, b) ==
    /\ DOMAIN b.nodes = IdsOn(fleet, t, n)
    /\ \A i \in 1 .. n : On(fleet[i], t) => b.nodes[fleet[i].id] = NodeOf(fleet[i], t)
    /\ Lists(b.order, IdsOn(fleet, t, n))
    /\ \A ip : Lists(Holders(b, ip), NamesAt(fleet, t, n, ip))

LEMMA FleetType ==
  ASSUME NEW fleet, IsFleet(fleet)
  PROVE  /\ Len(fleet) \in Nat /\ DOMAIN fleet = 1 .. Len(fleet)
         /\ \A n \in 1 .. Len(fleet) : fleet[n] \in Reports
         /\ \A i, j \in 1 .. Len(fleet) : fleet[i].id = fleet[j].id => i = j
  BY DEF IsFleet

LEMMA OneHost ==
  ASSUME NEW fleet, IsFleet(fleet), NEW t \in Tabs, NEW n \in 1 .. Len(fleet), NEW b,
         FleetSoFar(fleet, t, n - 1, b)
  PROVE  FleetSoFar(fleet, t, n, AddHost(b, fleet[n], t))
  <1> DEFINE h == fleet[n]
             c == AddHost(b, h, t)
  <1>1. /\ n \in Nat \ {0} /\ h \in Reports
        /\ \A i : i \in 1 .. n <=> i \in 1 .. n - 1 \/ i = n
        /\ \A i \in 1 .. n - 1 : fleet[i].id # h.id
    BY FleetType
  <1>2. /\ \A x, k : x \in IdsOn(fleet, t, k) <=> \E i \in 1 .. k : On(fleet[i], t) /\ fleet[i].id = x
        /\ \A x, k, ip : x \in NamesAt(fleet, t, k, ip) <=>
              \E i \in 1 .. k : t # "tb" /\ ip \in Addresses(fleet[i], t) /\ fleet[i].name = x
    BY DEF IdsOn, NamesAt
  <1>3. Ready(b, h)
    BY <1>1, <1>2 DEF FleetSoFar, Ready
  <1>4. Added(b, h, t, c)
    <2> HIDE DEF h
    <2> QED BY <1>1, <1>3, HostAdded
  <1> HIDE DEF c
  <1>5. IdsOn(fleet, t, n) = IF On(h, t) THEN IdsOn(fleet, t, n - 1) \cup {h.id} ELSE IdsOn(fleet, t, n - 1)
    <2>1. \A x : x \in IdsOn(fleet, t, n) <=> x \in IdsOn(fleet, t, n - 1) \/ (On(h, t) /\ x = h.id)
      BY <1>1, <1>2
    <2> QED BY <2>1
  <1>6. ASSUME NEW ip
        PROVE  NamesAt(fleet, t, n, ip) =
                  IF t # "tb" /\ ip \in Addresses(h, t)
                  THEN NamesAt(fleet, t, n - 1, ip) \cup {h.name} ELSE NamesAt(fleet, t, n - 1, ip)
    <2>1. \A x : x \in NamesAt(fleet, t, n, ip) <=>
             x \in NamesAt(fleet, t, n - 1, ip) \/ (t # "tb" /\ ip \in Addresses(h, t) /\ x = h.name)
      BY <1>1, <1>2
    <2> QED BY <2>1
  <1> HIDE DEF h
  <1>7. DOMAIN c.nodes = IdsOn(fleet, t, n)
    BY <1>4, <1>5 DEF FleetSoFar, Added
  <1>8. ASSUME NEW i \in 1 .. n, On(fleet[i], t)
        PROVE  c.nodes[fleet[i].id] = NodeOf(fleet[i], t)
    <2>1. CASE i = n
      BY <1>4, <1>8, <2>1 DEF h, Added
    <2>2. CASE i # n
      <3>1. i \in 1 .. n - 1 /\ fleet[i].id \in DOMAIN b.nodes
        BY <1>1, <1>2, <1>8, <2>2 DEF FleetSoFar
      <3> QED BY <1>4, <1>8, <3>1 DEF FleetSoFar, Added
    <2> QED BY <2>1, <2>2
  <1>9. Lists(c.order, IdsOn(fleet, t, n))
    <2>1. Lists(b.order, IdsOn(fleet, t, n - 1))
      BY DEF FleetSoFar
    <2> QED BY <1>4, <1>5, <2>1, AppendUniqueLists DEF Added
  <1>10. ASSUME NEW ip PROVE Lists(Holders(c, ip), NamesAt(fleet, t, n, ip))
    <2>1. Lists(Holders(b, ip), NamesAt(fleet, t, n - 1, ip))
      BY DEF FleetSoFar
    <2> QED BY <1>4, <1>6, <2>1, AppendUniqueLists DEF Added
  <1> QED BY <1>7, <1>8, <1>9, <1>10 DEF FleetSoFar, c, h

\* The bucket of a tab is what the whole fleet makes of it.
LEMMA WholeFleet ==
  ASSUME NEW fleet, IsFleet(fleet), NEW t \in Tabs
  PROVE  FleetSoFar(fleet, t, Len(fleet), Build(fleet, t))
  <1> DEFINE after == AfterHosts(fleet, t)
             N == Len(fleet)
             S == {n \in 0 .. N : FleetSoFar(fleet, t, n, after[n])}
  <1>0. N \in Nat
    BY FleetType
  <1>1. after[0] = NoNodes /\ \A n \in 1 .. N : after[n] = AddHost(after[n - 1], fleet[n], t)
    BY <1>0, HostsRecursion
  <1> HIDE DEF after
  <1>2. 0 \in S
    <2>1. IdsOn(fleet, t, 0) = {} /\ \A ip : NamesAt(fleet, t, 0, ip) = {}
      BY DEF IdsOn, NamesAt
    <2>2. NoNodes.order = <<>> /\ DOMAIN NoNodes.nodes = {} /\ \A ip : Holders(NoNodes, ip) = <<>>
      BY DEF NoNodes, Empty, Holders
    <2>3. FleetSoFar(fleet, t, 0, NoNodes)
      <3>1. \A i \in 1 .. 0 : FALSE
        OBVIOUS
      <3> HIDE DEF NoNodes
      <3>2. DOMAIN NoNodes.nodes = IdsOn(fleet, t, 0) /\ Lists(NoNodes.order, IdsOn(fleet, t, 0))
        BY <2>1, <2>2, NothingListsNothing
      <3>3. \A ip : Lists(Holders(NoNodes, ip), NamesAt(fleet, t, 0, ip))
        BY <2>1, <2>2, NothingListsNothing
      <3> QED BY <3>1, <3>2, <3>3 DEF FleetSoFar
    <2> QED BY <1>0, <1>1, <2>3
  <1>3. ASSUME NEW n \in 1 .. N, n - 1 \in S PROVE n \in S
    <2>1. FleetSoFar(fleet, t, n - 1, after[n - 1])
      BY <1>3
    <2>2. FleetSoFar(fleet, t, n, AddHost(after[n - 1], fleet[n], t))
      BY <2>1, OneHost
    <2> QED BY <1>0, <1>1, <2>2
  <1> HIDE DEF S
  <1>4. \A n \in 0 .. N : n \in S
    BY <1>0, <1>2, <1>3, BoundedInduction
  <1>5. N \in S
    BY <1>0, <1>4
  <1> QED BY <1>5 DEF S, after, Build

-----------------------------------------------------------------------------
(* The nodes and the conflicts.                                            *)

LEMMA NodesAreExact ==
  ASSUME NEW fleet, IsFleet(fleet), NEW t \in Tabs
  PROVE  NodesExact(fleet, t)
  <1> DEFINE b == Build(fleet, t)
             N == Len(fleet)
             ids == {h.id : h \in {g \in ToSet(fleet) : On(g, t)}}
  <1>1. FleetSoFar(fleet, t, N, b)
    BY WholeFleet
  <1> HIDE DEF b
  <1>2. \A h : h \in ToSet(fleet) <=> \E i \in 1 .. N : fleet[i] = h
    BY FleetType DEF ToSet
  <1>3. IdsOn(fleet, t, N) = ids
    <2>1. \A x : x \in IdsOn(fleet, t, N) <=> \E i \in 1 .. N : On(fleet[i], t) /\ fleet[i].id = x
      BY DEF IdsOn
    <2>2. \A x : x \in ids <=> \E h \in ToSet(fleet) : On(h, t) /\ h.id = x
      OBVIOUS
    <2>3. \A x : x \in IdsOn(fleet, t, N) <=> x \in ids
      BY <1>2, <2>1, <2>2
    <2> QED BY <2>3
  <1>4. IsInjective(b.order) /\ ToSet(b.order) = DOMAIN b.nodes /\ DOMAIN b.nodes = ids
    BY <1>1, <1>3 DEF FleetSoFar, Lists
  <1>5. ASSUME NEW h \in ToSet(fleet), On(h, t)
        PROVE  b.nodes[h.id].name = h.name /\ b.nodes[h.id].online = h.online
    <2>1. h \in Reports /\ b.nodes[h.id] = NodeOf(h, t)
      BY <1>1, <1>2, <1>5, FleetType DEF FleetSoFar
    <2>2. NodeOf(h, t) \in NodesOf(h)
      BY <1>5, <2>1, NodeOfHost
    <2> QED BY <2>1, <2>2 DEF NodesOf
  <1> QED BY <1>4, <1>5 DEF NodesExact, b

LEMMA ConflictsAreExact ==
  ASSUME NEW fleet, IsFleet(fleet), NEW t \in {"lan", "wg"}
  PROVE  ConflictsExact(fleet, t)
  <1> DEFINE b == Build(fleet, t)
             N == Len(fleet)
             marked == {h.id : h \in {g \in ToSet(fleet) : \E o \in ToSet(fleet) :
                            o.name # g.name /\ Addresses(o, t) \cap Addresses(g, t) # {}}}
  <1>0. t \in Tabs /\ t # "tb"
    BY DEF Tabs
  <1>1. FleetSoFar(fleet, t, N, b)
    BY <1>0, WholeFleet
  <1> HIDE DEF b
  <1>2. \A h : h \in ToSet(fleet) <=> \E i \in 1 .. N : fleet[i] = h
    BY FleetType DEF ToSet
  <1>3. \A ip, x : x \in NamesAt(fleet, t, N, ip) <=>
                      \E h \in ToSet(fleet) : ip \in Addresses(h, t) /\ h.name = x
    <2>1. \A ip, x : x \in NamesAt(fleet, t, N, ip) <=>
                        \E i \in 1 .. N : ip \in Addresses(fleet[i], t) /\ fleet[i].name = x
      BY <1>0 DEF NamesAt
    <2> QED BY <1>2, <2>1
  <1>4. ASSUME NEW ip
        PROVE  ip \in Conflicts(b) <=> \E g, o \in ToSet(fleet) :
                  g.name # o.name /\ ip \in Addresses(g, t) /\ ip \in Addresses(o, t)
    <2>1. Lists(Holders(b, ip), NamesAt(fleet, t, N, ip))
      BY <1>1 DEF FleetSoFar
    <2>2. ip \in Conflicts(b) <=> Len(Holders(b, ip)) > 1
      BY DEF Conflicts, Holders
    <2>3. Len(Holders(b, ip)) > 1 <=> \E x, y \in NamesAt(fleet, t, N, ip) : x # y
      BY <2>1, ListsMany
    <2>4. ASSUME NEW x \in NamesAt(fleet, t, N, ip), NEW y \in NamesAt(fleet, t, N, ip), x # y
          PROVE  \E g, o \in ToSet(fleet) :
                    g.name # o.name /\ ip \in Addresses(g, t) /\ ip \in Addresses(o, t)
      BY <1>3, <2>4
    <2>5. ASSUME NEW g \in ToSet(fleet), NEW o \in ToSet(fleet),
                 g.name # o.name, ip \in Addresses(g, t), ip \in Addresses(o, t)
          PROVE  \E x, y \in NamesAt(fleet, t, N, ip) : x # y
      BY <1>3, <2>5
    <2> QED BY <2>2, <2>3, <2>4, <2>5
  <1>5. ASSUME NEW h \in ToSet(fleet), On(h, t)
        PROVE  /\ h.id \in DOMAIN b.nodes
               /\ \A ip : ip \in ToSet(b.nodes[h.id].ips) /\ ip # NoAddress <=> ip \in Addresses(h, t)
    <2>1. PICK i \in 1 .. N : fleet[i] = h
      BY <1>2
    <2>2. h \in Reports /\ b.nodes[h.id] = NodeOf(h, t)
      BY <1>1, <1>5, <2>1, FleetType DEF FleetSoFar
    <2>3. h.id \in DOMAIN b.nodes
      BY <1>1, <1>5, <2>1 DEF FleetSoFar, IdsOn
    <2>4. ToSet(NodeOf(h, t).ips) \ {NoAddress} = Addresses(h, t)
      BY <1>0, <1>5, <2>2, NodeOfHost
    <2> QED BY <2>2, <2>3, <2>4
  <1>6. \A id \in DOMAIN b.nodes : \E h \in ToSet(fleet) : On(h, t) /\ h.id = id
    <2>1. DOMAIN b.nodes = IdsOn(fleet, t, N)
      BY <1>1 DEF FleetSoFar
    <2>2. \A id \in IdsOn(fleet, t, N) : \E i \in 1 .. N : On(fleet[i], t) /\ fleet[i].id = id
      BY DEF IdsOn
    <2> QED BY <1>2, <2>1, <2>2
  <1>7. \A h, ip : ip \in Addresses(h, t) => On(h, t) /\ ip # NoAddress
    BY DEF Addresses, On
  <1>8. \A id : id \in Flagged(b) <=>
           id \in DOMAIN b.nodes /\ \E ip : ip \in ToSet(b.nodes[id].ips) /\ ip \in Conflicts(b)
    BY DEF Flagged
  <1>9. \A id : id \in marked <=> \E g, o \in ToSet(fleet) : \E ip :
           g.id = id /\ o.name # g.name /\ ip \in Addresses(o, t) /\ ip \in Addresses(g, t)
    OBVIOUS
  <1> HIDE DEF marked
  <1>10. ASSUME NEW id \in Flagged(b) PROVE id \in marked
    <2>1. PICK h \in ToSet(fleet) : On(h, t) /\ h.id = id
      BY <1>6, <1>8
    <2>2. PICK ip : ip \in ToSet(b.nodes[id].ips) /\ ip \in Conflicts(b)
      BY <1>8
    <2>3. PICK g \in ToSet(fleet), o \in ToSet(fleet) :
             g.name # o.name /\ ip \in Addresses(g, t) /\ ip \in Addresses(o, t)
      BY <1>4, <2>2
    <2>4. ip \in Addresses(h, t)
      BY <1>5, <1>7, <2>1, <2>2, <2>3
    <2> QED BY <1>9, <2>1, <2>3, <2>4
  <1>11. ASSUME NEW id \in marked PROVE id \in Flagged(b)
    <2>0. PICK g \in ToSet(fleet), o \in ToSet(fleet) : \E ip :
             g.id = id /\ o.name # g.name /\ ip \in Addresses(o, t) /\ ip \in Addresses(g, t)
      BY <1>9
    <2>1. PICK ip : g.id = id /\ o.name # g.name /\ ip \in Addresses(o, t) /\ ip \in Addresses(g, t)
      BY <2>0
    <2>2. ip \in Conflicts(b)
      BY <1>4, <2>1
    <2>3. id \in DOMAIN b.nodes /\ ip \in ToSet(b.nodes[id].ips)
      BY <1>5, <1>7, <2>1
    <2> QED BY <1>8, <2>2, <2>3
  <1>12. Flagged(b) = marked
    BY <1>10, <1>11
  <1> QED BY <1>12 DEF ConflictsExact, marked, b

-----------------------------------------------------------------------------
(* The vote.                                                               *)

\* What SetToSeqs yields of a finite set lists it.
LEMMA SetToSeqsLists ==
  ASSUME NEW X, IsFiniteSet(X), NEW s \in SetToSeqs(X)
  PROVE  Lists(s, X)
  <1> DEFINE D == 1 .. Cardinality(X)
  <1>1. Cardinality(X) \in Nat
    BY FS_CardinalityType
  <1>2. s \in [D -> X] /\ \A i, j \in D : i # j => s[i] # s[j]
    BY DEF SetToSeqs
  <1>3. s \in Seq(X) /\ DOMAIN s = D
    BY <1>1, <1>2
  <1>4. IsInjective(s)
    BY <1>2 DEF IsInjective
  <1>5. IsFiniteSet(D) /\ Cardinality(D) = Cardinality(X)
    BY <1>1, FS_Interval
  <1>6. s \in Surjection(D, X)
    <2>1. s \in Injection(D, X)
      BY <1>2, <1>4 DEF Injection
    <2> HIDE DEF D
    <2> QED BY <1>5, <2>1, FS_Injection
  <1>7. ToSet(s) = X
    BY <1>2, <1>3, <1>6 DEF Surjection, ToSet
  <1> QED BY <1>3, <1>4, <1>7 DEF Lists

\* The best of the first k candidates.
BestSoFar(votes, iteration, k, best) ==
    /\ k = 0 => best = NoVote
    /\ k # 0 => /\ \E i \in 1 .. k : best = [gw |-> iteration[i], n |-> votes[iteration[i]]]
                /\ \A i \in 1 .. k : \/ votes[best.gw] > votes[iteration[i]]
                                     \/ votes[best.gw] = votes[iteration[i]] /\ best.gw <= iteration[i]

LEMMA OneVote ==
  ASSUME NEW X \in SUBSET Nat, NEW votes \in [X -> Nat \ {0}], NEW iteration \in Seq(X),
         NEW k \in 1 .. Len(iteration), NEW best, BestSoFar(votes, iteration, k - 1, best)
  PROVE  BestSoFar(votes, iteration, k, Better(votes, iteration[k], best))
  <1> DEFINE g == iteration[k]
             new == Better(votes, g, best)
  <1>1. /\ k \in Nat \ {0} /\ Len(iteration) \in Nat
        /\ \A i \in 1 .. Len(iteration) : iteration[i] \in X /\ votes[iteration[i]] \in Nat \ {0}
        /\ \A i : i \in 1 .. k <=> i \in 1 .. k - 1 \/ i = k
        /\ \A i \in 1 .. k : i \in 1 .. Len(iteration)
    <2>1. Len(iteration) \in Nat /\ k \in Nat \ {0} /\ k <= Len(iteration)
      OBVIOUS
    <2>2. \A i \in 1 .. Len(iteration) : iteration[i] \in X
      OBVIOUS
    <2>3. \A x \in X : votes[x] \in Nat \ {0}
      OBVIOUS
    <2>4. \A i : i \in 1 .. k <=> i \in 1 .. k - 1 \/ i = k
      BY <2>1
    <2>5. \A i \in 1 .. k : i \in 1 .. Len(iteration)
      BY <2>1
    <2> QED BY <2>1, <2>2, <2>3, <2>4, <2>5
  <1>2. g \in X /\ g \in Nat /\ votes[g] \in Nat \ {0}
    BY <1>1
  <1>3. CASE k = 1
    <2>1. best = NoVote
      BY <1>3 DEF BestSoFar
    <2>2. new = [gw |-> g, n |-> votes[g]]
      BY <1>2, <2>1 DEF Better, NoVote
    <2>3. \A i \in 1 .. k : iteration[i] = g
      BY <1>3
    <2> QED BY <1>2, <1>3, <2>2, <2>3 DEF BestSoFar
  <1>4. CASE k # 1
    <2>1. PICK m \in 1 .. k - 1 : best = [gw |-> iteration[m], n |-> votes[iteration[m]]]
      BY <1>1, <1>4 DEF BestSoFar
    <2>2. /\ best.gw \in X /\ best.gw \in Nat /\ best.n = votes[best.gw] /\ votes[best.gw] \in Nat
          /\ \A i \in 1 .. k - 1 : \/ votes[best.gw] > votes[iteration[i]]
                                   \/ votes[best.gw] = votes[iteration[i]] /\ best.gw <= iteration[i]
      <3>1. best.gw = iteration[m] /\ best.n = votes[best.gw] /\ m \in 1 .. Len(iteration)
        BY <1>1, <2>1
      <3>2. k - 1 # 0
        BY <1>1, <1>4
      <3>3. \A i \in 1 .. k - 1 : \/ votes[best.gw] > votes[iteration[i]]
                                  \/ votes[best.gw] = votes[iteration[i]] /\ best.gw <= iteration[i]
        BY <3>2 DEF BestSoFar
      <3>4. best.gw \in X /\ best.gw \in Nat /\ votes[best.gw] \in Nat
        BY <1>1, <3>1
      <3> QED BY <3>1, <3>3, <3>4
    <2>3. CASE votes[g] > best.n \/ (votes[g] = best.n /\ g < best.gw)
      <3>1. new = [gw |-> g, n |-> votes[g]] /\ new.gw = g
        BY <2>3 DEF Better
      <3> HIDE DEF new
      <3>2. ASSUME NEW i \in 1 .. k
            PROVE  votes[g] > votes[iteration[i]] \/ (votes[g] = votes[iteration[i]] /\ g <= iteration[i])
        <4>1. iteration[i] \in Nat /\ votes[iteration[i]] \in Nat
          BY <1>1
        <4>2. CASE i = k
          BY <1>2, <4>2
        <4>3. CASE i # k
          BY <1>1, <1>2, <2>2, <2>3, <4>1, <4>3
        <4> QED BY <4>2, <4>3
      <3> QED BY <1>1, <3>1, <3>2 DEF BestSoFar, new
    <2>4. CASE ~ (votes[g] > best.n \/ (votes[g] = best.n /\ g < best.gw))
      <3>1. new = best
        BY <2>4 DEF Better
      <3> HIDE DEF new
      <3>2. ASSUME NEW i \in 1 .. k
            PROVE  \/ votes[best.gw] > votes[iteration[i]]
                   \/ votes[best.gw] = votes[iteration[i]] /\ best.gw <= iteration[i]
        <4>1. CASE i = k
          BY <1>2, <2>2, <2>4, <4>1
        <4>2. CASE i # k
          BY <1>1, <2>2, <4>2
        <4> QED BY <4>1, <4>2
      <3>3. m \in 1 .. k
        BY <1>1
      <3> QED BY <1>1, <2>1, <3>1, <3>2, <3>3 DEF BestSoFar, new
    <2> QED BY <2>3, <2>4
  <1> QED BY <1>3, <1>4

LEMMA AllVotes ==
  ASSUME NEW X \in SUBSET Nat, NEW votes \in [X -> Nat \ {0}], NEW iteration \in Seq(X)
  PROVE  BestSoFar(votes, iteration, Len(iteration), AfterVotes(votes, iteration)[Len(iteration)])
  <1> DEFINE after == AfterVotes(votes, iteration)
             N == Len(iteration)
             S == {k \in 0 .. N : BestSoFar(votes, iteration, k, after[k])}
  <1>0. N \in Nat
    OBVIOUS
  <1>1. after[0] = NoVote /\ \A k \in 1 .. N : after[k] = Better(votes, iteration[k], after[k - 1])
    BY <1>0, VotesRecursion
  <1> HIDE DEF after
  <1>2. 0 \in S
    BY <1>0, <1>1 DEF BestSoFar
  <1>3. ASSUME NEW k \in 1 .. N, k - 1 \in S PROVE k \in S
    <2>1. BestSoFar(votes, iteration, k - 1, after[k - 1])
      BY <1>3
    <2>2. BestSoFar(votes, iteration, k, Better(votes, iteration[k], after[k - 1]))
      BY <2>1, OneVote
    <2> QED BY <1>0, <1>1, <2>2
  <1> HIDE DEF S
  <1>4. \A k \in 0 .. N : k \in S
    BY <1>0, <1>2, <1>3, BoundedInduction
  <1>5. N \in S
    BY <1>0, <1>4
  <1> QED BY <1>5 DEF S, after

LEMMA VotesType ==
  ASSUME NEW fleet, IsFleet(fleet)
  PROVE  /\ DOMAIN Votes(fleet) \in SUBSET Nat /\ IsFiniteSet(DOMAIN Votes(fleet))
         /\ Votes(fleet) \in [DOMAIN Votes(fleet) -> Nat \ {0}]
  <1> DEFINE N == Len(fleet)
             D == 1 .. N
             all == {fleet[i].gw : i \in D}
             f == [i \in D |-> fleet[i].gw]
  <1>1. N \in Nat /\ DOMAIN fleet = D /\ \A i \in D : fleet[i].gw \in Nat
    BY FleetType, NicType
  <1>2. IsFiniteSet(D)
    BY <1>1, FS_Interval
  <1>3. IsFiniteSet(all)
    <2>1. f \in Surjection(D, all)
      BY DEF Surjection
    <2> HIDE DEF D, f, all
    <2> QED BY <1>2, <2>1, FS_Surjection
  <1>4. DOMAIN Votes(fleet) = all \ {NoGateway}
    BY <1>1 DEF Votes
  <1>5. IsFiniteSet(DOMAIN Votes(fleet)) /\ DOMAIN Votes(fleet) \in SUBSET Nat
    <2>1. all \subseteq Nat
      BY <1>1
    <2> HIDE DEF all
    <2>2. all \ {NoGateway} \in SUBSET all
      OBVIOUS
    <2>3. IsFiniteSet(all \ {NoGateway})
      BY <1>3, <2>2, FS_Subset
    <2> QED BY <1>4, <2>1, <2>3
  <1>6. ASSUME NEW g \in DOMAIN Votes(fleet) PROVE Votes(fleet)[g] \in Nat \ {0}
    <2> DEFINE voters == {i \in D : fleet[i].gw = g}
    <2>1. Votes(fleet)[g] = Cardinality(voters)
      BY <1>1, <1>6 DEF Votes
    <2>2. voters \in SUBSET D /\ voters # {}
      BY <1>4, <1>6
    <2> HIDE DEF voters, D
    <2>3. IsFiniteSet(voters)
      BY <1>2, <2>2, FS_Subset
    <2>4. Cardinality(voters) \in Nat /\ Cardinality(voters) # 0
      BY <2>2, <2>3, FS_CardinalityType, FS_EmptySet
    <2> QED BY <2>1, <2>4
  <1>7. Votes(fleet) = [g \in DOMAIN Votes(fleet) |-> Votes(fleet)[g]]
    BY DEF Votes
  <1> QED BY <1>5, <1>6, <1>7

LEMMA GatewayIsExact ==
  ASSUME NEW fleet, IsFleet(fleet)
  PROVE  GatewayExact(fleet)
  <1> DEFINE votes == Votes(fleet)
             X == DOMAIN votes
             most == {g \in X : \A o \in X : votes[g] > votes[o] \/ (votes[g] = votes[o] /\ g <= o)}
  <1>1. X \in SUBSET Nat /\ IsFiniteSet(X) /\ votes \in [X -> Nat \ {0}]
    BY VotesType
  <1> HIDE DEF votes
  <1>2. ASSUME NEW iteration \in SetToSeqs(X)
        PROVE  IF most = {} THEN TopVote(votes, iteration) = NoGateway
                            ELSE most = {TopVote(votes, iteration)}
    <2> DEFINE N == Len(iteration)
               best == AfterVotes(votes, iteration)[N]
    <2>1. Lists(iteration, X)
      BY <1>1, SetToSeqsLists
    <2>2. /\ iteration \in Seq(X) /\ N \in Nat
          /\ \A g : g \in X <=> \E i \in 1 .. N : iteration[i] = g
      BY <2>1 DEF Lists, ToSet
    <2>3. BestSoFar(votes, iteration, N, best)
      BY <1>1, <2>2, AllVotes
    <2>4. TopVote(votes, iteration) = best.gw
      BY DEF TopVote
    <2> HIDE DEF best
    <2>5. CASE N = 0
      <3>1. X = {}
        BY <2>2, <2>5
      <3>2. most = {}
        BY <3>1
      <3>3. best.gw = NoGateway
        BY <2>3, <2>5 DEF BestSoFar, NoVote
      <3> QED BY <2>4, <3>2, <3>3
    <2>6. CASE N # 0
      <3>1. PICK i \in 1 .. N : best = [gw |-> iteration[i], n |-> votes[iteration[i]]]
        BY <2>2, <2>3, <2>6 DEF BestSoFar
      <3>2. best.gw \in X
        BY <2>2, <3>1
      <3>3. \A o \in X : votes[best.gw] > votes[o] \/ (votes[best.gw] = votes[o] /\ best.gw <= o)
        BY <2>2, <2>3, <2>6 DEF BestSoFar
      <3>4. best.gw \in most
        BY <3>2, <3>3
      <3>5. ASSUME NEW g \in most PROVE g = best.gw
        <4>1. /\ g \in Nat /\ best.gw \in Nat /\ votes[g] \in Nat /\ votes[best.gw] \in Nat
              /\ votes[g] > votes[best.gw] \/ (votes[g] = votes[best.gw] /\ g <= best.gw)
              /\ votes[best.gw] > votes[g] \/ (votes[best.gw] = votes[g] /\ best.gw <= g)
          BY <1>1, <3>2, <3>3, <3>5
        <4> QED BY <4>1
      <3>6. most = {best.gw}
        BY <3>4, <3>5
      <3> QED BY <2>4, <3>6
    <2> QED BY <2>2, <2>5, <2>6
  <1> QED BY <1>2 DEF GatewayExact, votes

-----------------------------------------------------------------------------
(* The sort: how many belong in front of an element is where it goes.      *)

LEMMA OneTo ==
  ASSUME NEW n \in Nat
  PROVE  IsFiniteSet(1 .. n) /\ Cardinality(1 .. n) = n
  BY FS_Interval

\* front[i] are those in front of i, in a strict total order of 1 .. N.
Orders(front, N) ==
    /\ front \in [1 .. N -> SUBSET (1 .. N)]
    /\ \A i \in 1 .. N : i \notin front[i]
    /\ \A i \in 1 .. N : \A j \in front[i] : front[j] \subseteq front[i]
    /\ \A i, j \in 1 .. N : i # j => i \in front[j] \/ j \in front[i]

\* For each number up to N - 1 exactly one element has so many in front.
Ranked(front, N) ==
    /\ \A i \in 1 .. N : IsFiniteSet(front[i]) /\ Cardinality(front[i]) \in Nat
    /\ \A i \in 1 .. N : \A j \in front[i] : Cardinality(front[j]) < Cardinality(front[i])
    /\ \A i, j \in 1 .. N : Cardinality(front[i]) = Cardinality(front[j]) => i = j
    /\ \A k \in 1 .. N : \E i \in 1 .. N : Cardinality(front[i]) = k - 1

LEMMA OrdersAreRanked ==
  ASSUME NEW N \in Nat, NEW front, Orders(front, N)
  PROVE  Ranked(front, N)
  <1> DEFINE D == 1 .. N
             rank == [i \in D |-> Cardinality(front[i]) + 1]
  <1>1. IsFiniteSet(D) /\ Cardinality(D) = N
    BY FS_Interval
  <1> HIDE DEF D
  <1>2. \A i \in D : front[i] \in SUBSET D
    BY DEF D, Orders
  <1>3. \A i \in D : IsFiniteSet(front[i]) /\ Cardinality(front[i]) \in Nat
    BY <1>1, <1>2, FS_Subset, FS_CardinalityType
  <1>4. ASSUME NEW i \in D, NEW j \in front[i] PROVE Cardinality(front[j]) < Cardinality(front[i])
    <2>1. j \in D /\ front[j] \in SUBSET front[i] /\ j \notin front[j]
      BY <1>2, <1>4 DEF D, Orders
    <2>2. Cardinality(front[j]) <= Cardinality(front[i])
      BY <1>3, <2>1, FS_Subset
    <2>3. Cardinality(front[j]) # Cardinality(front[i])
      BY <1>3, <1>4, <2>1, FS_Subset
    <2> QED BY <1>3, <2>1, <2>2, <2>3
  <1>5. ASSUME NEW i \in D, NEW j \in D, i # j PROVE Cardinality(front[i]) # Cardinality(front[j])
    <2>1. i \in front[j] \/ j \in front[i]
      BY <1>5 DEF D, Orders
    <2>2. CASE i \in front[j]
      <3>1. Cardinality(front[i]) < Cardinality(front[j])
        BY <1>4, <2>2
      <3> QED BY <1>3, <3>1
    <2>3. CASE j \in front[i]
      <3>1. Cardinality(front[j]) < Cardinality(front[i])
        BY <1>4, <2>3
      <3> QED BY <1>3, <3>1
    <2> QED BY <2>1, <2>2, <2>3
  <1>6. ASSUME NEW i \in D PROVE Cardinality(front[i]) < N
    <2>1. front[i] \in SUBSET D /\ front[i] # D
      BY <1>2 DEF D, Orders
    <2> QED BY <1>1, <1>3, <2>1, FS_Subset
  <1>7. rank \in Surjection(D, D)
    <2>1. rank \in [D -> D]
      <3>1. \A i \in D : Cardinality(front[i]) + 1 \in 1 .. N
        BY <1>3, <1>6
      <3> QED BY <3>1 DEF D
    <2>2. rank \in Injection(D, D)
      <3>1. \A i, j \in D : rank[i] = rank[j] => i = j
        BY <1>3, <1>5
      <3> QED BY <2>1, <3>1 DEF Injection, IsInjective
    <2> HIDE DEF rank
    <2> QED BY <1>1, <2>2, FS_Injection
  <1>8. ASSUME NEW k \in D PROVE \E i \in D : Cardinality(front[i]) = k - 1
    <2>1. PICK i \in D : rank[i] = k
      BY <1>7 DEF Surjection
    <2> QED BY <1>3, <2>1
  <1> QED BY <1>3, <1>4, <1>5, <1>8 DEF D, Ranked

LEMMA BeforeOrders ==
  ASSUME NEW m, NEW n, NEW o,
         m.hub \in BOOLEAN, m.online \in BOOLEAN, m.name \in Nat,
         n.hub \in BOOLEAN, n.online \in BOOLEAN, n.name \in Nat,
         o.hub \in BOOLEAN, o.online \in BOOLEAN, o.name \in Nat
  PROVE  /\ ~ (Before(m, n) /\ Before(n, m))
         /\ Before(m, n) /\ ~ Before(o, n) => Before(m, o)
         /\ ~ Before(n, m) /\ Before(n, o) => Before(m, o)
         /\ ~ Before(n, m) /\ ~ Before(o, n) => ~ Before(o, m)
         /\ m.name # n.name => Before(m, n) \/ Before(n, m)
  BY DEF Before

Sortable(s) ==
    /\ Len(s) \in Nat /\ DOMAIN s = 1 .. Len(s)
    /\ \A i \in 1 .. Len(s) : s[i].hub \in BOOLEAN /\ s[i].online \in BOOLEAN /\ s[i].name \in Nat

\* Ahead is a strict total order of the places of any sequence of nodes.
LEMMA FrontRanks ==
  ASSUME NEW s, Sortable(s)
  PROVE  /\ \A i \in 1 .. Len(s) : IsFiniteSet(InFront(s, i)) /\ Cardinality(InFront(s, i)) \in Nat
         /\ \A i \in 1 .. Len(s) : \A j \in InFront(s, i) :
                Cardinality(InFront(s, j)) < Cardinality(InFront(s, i))
         /\ \A i, j \in 1 .. Len(s) : Cardinality(InFront(s, i)) = Cardinality(InFront(s, j)) => i = j
         /\ \A k \in 1 .. Len(s) : \E i \in 1 .. Len(s) : Cardinality(InFront(s, i)) = k - 1
  <1> DEFINE N == Len(s)
             D == 1 .. N
             front == [i \in D |-> InFront(s, i)]
  <1>0. N \in Nat /\ D \subseteq Nat
    BY DEF Sortable
  <1>1. \A i \in D : s[i].hub \in BOOLEAN /\ s[i].online \in BOOLEAN /\ s[i].name \in Nat
    BY DEF Sortable
  <1>2. /\ front \in [D -> SUBSET D]
        /\ \A i, j \in D : j \in front[i] <=> Ahead(s, j, i)
    BY DEF InFront, Sortable
  <1> HIDE DEF front, D
  <1>3. ASSUME NEW i \in D PROVE i \notin front[i]
    <2>1. ~ Before(s[i], s[i])
      BY <1>1, BeforeOrders
    <2> QED BY <1>0, <1>2, <2>1 DEF Ahead
  <1>4. ASSUME NEW i \in D, NEW j \in front[i], NEW k \in front[j] PROVE k \in front[i]
    <2>1. j \in D /\ k \in D /\ Ahead(s, j, i) /\ Ahead(s, k, j)
      BY <1>2
    <2>2. /\ Before(s[k], s[j]) /\ ~ Before(s[i], s[j]) => Before(s[k], s[i])
          /\ ~ Before(s[j], s[k]) /\ Before(s[j], s[i]) => Before(s[k], s[i])
          /\ ~ Before(s[j], s[k]) /\ ~ Before(s[i], s[j]) => ~ Before(s[i], s[k])
          /\ ~ (Before(s[j], s[i]) /\ Before(s[i], s[j]))
          /\ ~ (Before(s[k], s[j]) /\ Before(s[j], s[k]))
      BY <1>1, <2>1, BeforeOrders
    <2>3. i \in Nat /\ j \in Nat /\ k \in Nat
      BY <1>0, <2>1
    <2>4. Ahead(s, k, i)
      BY <2>1, <2>2, <2>3 DEF Ahead
    <2> QED BY <1>2, <2>1, <2>4
  <1>5. ASSUME NEW i \in D, NEW j \in D, i # j PROVE i \in front[j] \/ j \in front[i]
    <2>1. i \in Nat /\ j \in Nat
      BY <1>0
    <2>2. Ahead(s, i, j) \/ Ahead(s, j, i)
      BY <1>5, <2>1 DEF Ahead
    <2> QED BY <1>2, <2>2
  <1>6. \A i \in D : \A j \in front[i] : front[j] \subseteq front[i]
    BY <1>4
  <1>7. Orders(front, N)
    <2> HIDE DEF N
    <2> QED BY <1>2, <1>3, <1>5, <1>6 DEF D, Orders
  <1>8. Ranked(front, N)
    BY <1>0, <1>7, OrdersAreRanked
  <1>9. \A i \in D : front[i] = InFront(s, i)
    BY DEF front
  <1>10. \A i \in D : InFront(s, i) \subseteq D
    BY DEF InFront, Sortable, D
  <1>11. /\ \A i \in D : IsFiniteSet(front[i]) /\ Cardinality(front[i]) \in Nat
         /\ \A i \in D : \A j \in front[i] : Cardinality(front[j]) < Cardinality(front[i])
         /\ \A i, j \in D : Cardinality(front[i]) = Cardinality(front[j]) => i = j
         /\ \A k \in D : \E i \in D : Cardinality(front[i]) = k - 1
    BY <1>8 DEF Ranked, D
  <1>12. \A i \in D : IsFiniteSet(InFront(s, i)) /\ Cardinality(InFront(s, i)) \in Nat
    BY <1>9, <1>11
  <1>13. ASSUME NEW i \in D, NEW j \in InFront(s, i)
         PROVE  Cardinality(InFront(s, j)) < Cardinality(InFront(s, i))
    <2>1. j \in D /\ j \in front[i]
      BY <1>9, <1>10
    <2>2. Cardinality(front[j]) < Cardinality(front[i])
      BY <1>11, <2>1
    <2> QED BY <1>9, <2>1, <2>2
  <1>14. \A i, j \in D : Cardinality(InFront(s, i)) = Cardinality(InFront(s, j)) => i = j
    BY <1>9, <1>11
  <1>15. ASSUME NEW k \in D PROVE \E i \in D : Cardinality(InFront(s, i)) = k - 1
    <2>1. PICK i \in D : Cardinality(front[i]) = k - 1
      BY <1>11
    <2> QED BY <1>9, <2>1
  <1> QED BY <1>12, <1>13, <1>14, <1>15 DEF D

\* Where StableSort takes the elements from.
Places(s, place) ==
    /\ place \in [1 .. Len(s) -> 1 .. Len(s)]
    /\ \A k \in 1 .. Len(s) : /\ StableSort(s)[k] = s[place[k]]
                              /\ Cardinality(InFront(s, place[k])) = k - 1
    /\ \A i \in 1 .. Len(s) : \E k \in 1 .. Len(s) : place[k] = i

\* StableSort puts each element where its rank says.
LEMMA SortPlaces ==
  ASSUME NEW s, Sortable(s)
  PROVE  /\ DOMAIN StableSort(s) = 1 .. Len(s)
         /\ StableSort(s) = [k \in 1 .. Len(s) |-> StableSort(s)[k]]
         /\ \E place : Places(s, place)
  <1> DEFINE D == 1 .. Len(s)
             place == [k \in D |-> CHOOSE i \in D : Cardinality(InFront(s, i)) = k - 1]
  <1>1. DOMAIN s = D
    BY DEF Sortable
  <1>2. \A k \in D : place[k] \in D /\ Cardinality(InFront(s, place[k])) = k - 1
    BY FrontRanks
  <1>3. StableSort(s) = [k \in D |-> s[place[k]]]
    BY <1>1 DEF StableSort
  <1>4. ASSUME NEW i \in D PROVE \E k \in D : place[k] = i
    <2> DEFINE rank == [j \in D |-> Cardinality(InFront(s, j)) + 1]
    <2>1. IsFiniteSet(D)
      BY OneTo DEF Sortable
    <2>0. place \in [D -> D]
      BY <1>2
    <2>2. \A k, l \in D : place[k] = place[l] => k = l
      <3>1. D \subseteq Int
        BY DEF Sortable
      <3> HIDE DEF place, D
      <3> QED BY <1>2, <3>1
    <2>3. place \in Injection(D, D)
      <3> HIDE DEF place, D
      <3> QED BY <2>0, <2>2 DEF Injection, IsInjective
    <2>4. place \in Surjection(D, D)
      <3> HIDE DEF place, D
      <3> QED BY <2>1, <2>3, FS_Injection
    <2> QED BY <2>4 DEF Surjection
  <1>5. place \in [D -> D]
    BY <1>2
  <1> HIDE DEF place, D
  <1>6. DOMAIN StableSort(s) = D /\ StableSort(s) = [k \in D |-> StableSort(s)[k]]
    BY <1>3
  <1>7. \A k \in D : StableSort(s)[k] = s[place[k]]
    BY <1>3
  <1>8. Places(s, place)
    BY <1>2, <1>4, <1>5, <1>7 DEF Places, D
  <1> QED BY <1>6, <1>8 DEF D

\* A sorted list of X, in the order asked for.
LEMMA SortSorts ==
  ASSUME NEW s, Sortable(s), NEW X, Lists(s, X)
  PROVE  LET u == StableSort(s) IN
         /\ IsInjective(u)
         /\ ToSet(u) = X
         /\ \A i, j \in DOMAIN u : i < j => ~ Before(u[j], u[i])
  <1> DEFINE D == 1 .. Len(s)
             u == StableSort(s)
  <1>1. PICK place : Places(s, place)
    BY SortPlaces
  <1>2. DOMAIN u = D
    BY SortPlaces
  <1>3. /\ \A i, j \in D : s[i] = s[j] => i = j
        /\ \A x : x \in X <=> \E i \in D : s[i] = x
        /\ D \subseteq Nat
    BY DEF Lists, IsInjective, ToSet, Sortable
  <1>4. /\ \A i \in D : Cardinality(InFront(s, i)) \in Nat
        /\ \A i \in D : \A j \in InFront(s, i) : Cardinality(InFront(s, j)) < Cardinality(InFront(s, i))
    BY FrontRanks
  <1>5. \A i, j \in D : j \in InFront(s, i) <=> Ahead(s, j, i)
    BY DEF InFront, Sortable
  <1>9. \A k \in D : place[k] \in D /\ u[k] = s[place[k]] /\ Cardinality(InFront(s, place[k])) = k - 1
    BY <1>1 DEF Places
  <1>10. \A i \in D : \E k \in D : place[k] = i
    BY <1>1 DEF Places
  <1> HIDE DEF D, u
  <1>6. ASSUME NEW i \in D, NEW j \in D, u[i] = u[j] PROVE i = j
    <2>1. place[i] = place[j]
      <3>1. place[i] \in D /\ place[j] \in D /\ s[place[i]] = s[place[j]]
        BY <1>6, <1>9
      <3>2. \A k, l \in D : s[k] = s[l] => k = l
        BY <1>3
      <3> QED BY <3>1, <3>2
    <2>2. i - 1 = j - 1 /\ i \in Nat /\ j \in Nat
      BY <1>3, <1>9, <2>1
    <2> QED BY <2>2
  <1>7. \A x : x \in ToSet(u) <=> x \in X
    <2>1. \A x : x \in ToSet(u) <=> \E k \in D : u[k] = x
      BY <1>2 DEF ToSet
    <2>2. \A k \in D : u[k] \in X
      BY <1>3, <1>9
    <2>3. ASSUME NEW x \in X PROVE \E k \in D : u[k] = x
      <3>1. PICK i \in D : s[i] = x
        BY <1>3
      <3>2. PICK k \in D : place[k] = i
        BY <1>10
      <3> QED BY <1>9, <3>1, <3>2
    <2> QED BY <2>1, <2>2, <2>3
  <1>8. ASSUME NEW i \in D, NEW j \in D, i < j PROVE ~ Before(u[j], u[i])
    <2>1. i \in Nat /\ j \in Nat /\ place[i] \in D /\ place[j] \in D
      BY <1>3, <1>9
    <2>2. SUFFICES ASSUME Before(u[j], u[i]) PROVE FALSE
      OBVIOUS
    <2>3. place[j] \in InFront(s, place[i])
      BY <1>9, <1>5, <2>1, <2>2 DEF Ahead
    <2>4. Cardinality(InFront(s, place[j])) < Cardinality(InFront(s, place[i]))
      BY <1>4, <2>1, <2>3
    <2> QED BY <1>9, <1>8, <2>1, <2>4
  <1> QED BY <1>2, <1>6, <1>7, <1>8 DEF IsInjective, u

\* Where names tell elements apart, the sorted list depends on the set alone.
LEMMA SortForgetsOrder ==
  ASSUME NEW X, NEW a, NEW b, Lists(a, X), Lists(b, X), Sortable(a), Sortable(b),
         \A x, y \in X : x.name = y.name => x = y
  PROVE  StableSort(a) = StableSort(b)
  <1> DEFINE Rank(x) == Cardinality({y \in X : Before(y, x)})
  <1>1. \A x \in X : x.hub \in BOOLEAN /\ x.online \in BOOLEAN /\ x.name \in Nat
    BY DEF Lists, ToSet, Sortable
  <1>2. ASSUME NEW s, Lists(s, X), Sortable(s)
        PROVE  /\ IsFiniteSet(X) /\ Cardinality(X) = Len(s)
               /\ \A i \in 1 .. Len(s) : s[i] \in X /\ Cardinality(InFront(s, i)) = Rank(s[i])
    <2> DEFINE D == 1 .. Len(s)
    <2>0. Len(s) \in Nat /\ DOMAIN s = D /\ s \in Seq(X) /\ D \subseteq Nat
      BY <1>2 DEF Lists, Sortable
    <2>1. /\ s \in [D -> X]
          /\ \A i, j \in D : s[i] = s[j] => i = j
          /\ \A x \in X : \E i \in D : s[i] = x
      BY <1>2, <2>0 DEF Lists, IsInjective, ToSet
    <2>2. IsFiniteSet(D) /\ Cardinality(D) = Len(s)
      BY <2>0, OneTo
    <2> HIDE DEF D
    <2>3. s \in Surjection(D, X) /\ s \in Injection(D, X)
      BY <2>1 DEF Surjection, Injection, IsInjective
    <2>4. IsFiniteSet(X) /\ Cardinality(X) = Len(s)
      BY <2>2, <2>3, FS_Surjection
    <2>5. ASSUME NEW i \in D PROVE s[i] \in X /\ Cardinality(InFront(s, i)) = Rank(s[i])
      <3> DEFINE F == InFront(s, i)
                 B == {y \in X : Before(y, s[i])}
                 g == [j \in F |-> s[j]]
      <3>1. \A j : j \in F <=> j \in D /\ Ahead(s, j, i)
        BY <2>0 DEF InFront
      <3>2. IsFiniteSet(F)
        BY <1>2, FrontRanks DEF D
      <3>3. ASSUME NEW j \in D PROVE Ahead(s, j, i) <=> Before(s[j], s[i])
        <4>1. CASE j = i
          <5>1. ~ Before(s[i], s[i])
            BY <1>1, <2>1, BeforeOrders
          <5> QED BY <2>0, <4>1, <5>1 DEF Ahead
        <4>2. CASE j # i
          <5>1. s[j].name # s[i].name
            BY <2>1, <4>2
          <5>2. Before(s[j], s[i]) \/ Before(s[i], s[j])
            BY <1>1, <2>1, <5>1, BeforeOrders
          <5> QED BY <5>2 DEF Ahead
        <4> QED BY <4>1, <4>2
      <3> HIDE DEF F
      <3>4. \A j \in F : j \in D /\ s[j] \in B
        BY <2>1, <3>1, <3>3
      <3>5. \A y \in B : \E j \in F : s[j] = y
        BY <2>1, <3>1, <3>3
      <3> HIDE DEF B
      <3>6. g \in [F -> B] /\ (\A j, k \in F : g[j] = g[k] => j = k) /\ \A y \in B : \E j \in F : g[j] = y
        BY <2>1, <3>4, <3>5
      <3>7. g \in Injection(F, B) /\ g \in Surjection(F, B)
        <4> HIDE DEF g
        <4> QED BY <3>6 DEF Injection, IsInjective, Surjection
      <3>8. Cardinality(B) = Cardinality(F)
        <4> HIDE DEF g
        <4> QED BY <3>2, <3>7, FS_Surjection
      <3>9. Cardinality(F) = Rank(s[i])
        BY <3>8 DEF B
      <3> QED BY <2>1, <3>9 DEF F
    <2> QED BY <2>4, <2>5 DEF D
  <1> HIDE DEF Rank
  <1>3. IsFiniteSet(X) /\ Len(a) = Cardinality(X) /\ Len(b) = Cardinality(X)
    BY <1>2
  <1> DEFINE D == 1 .. Len(a)
             u == StableSort(a)
             v == StableSort(b)
  <1>4. D = 1 .. Len(b)
    BY <1>3
  <1>5. \A x, y \in X : Rank(x) = Rank(y) => x = y
    <2>1. ASSUME NEW x \in X, NEW y \in X, Rank(x) = Rank(y) PROVE x = y
      <3>1. PICK i \in D, j \in D : a[i] = x /\ a[j] = y
        BY DEF Lists, ToSet, Sortable
      <3>2. Cardinality(InFront(a, i)) = Cardinality(InFront(a, j))
        BY <1>2, <2>1, <3>1
      <3>3. i = j
        BY <3>2, FrontRanks
      <3> QED BY <3>1, <3>3
    <2> QED BY <2>1
  <1>6. ASSUME NEW s, Lists(s, X), Sortable(s), NEW k \in 1 .. Len(s)
        PROVE  StableSort(s)[k] \in X /\ Rank(StableSort(s)[k]) = k - 1
    <2>0. PICK place : Places(s, place)
      BY <1>6, SortPlaces
    <2>1. StableSort(s)[k] = s[place[k]] /\ Cardinality(InFront(s, place[k])) = k - 1
      BY <1>6, <2>0 DEF Places
    <2>2. place[k] \in 1 .. Len(s)
      BY <1>6, <2>0 DEF Places
    <2>3. s[place[k]] \in X /\ Cardinality(InFront(s, place[k])) = Rank(s[place[k]])
      BY <1>2, <1>6, <2>2
    <2> QED BY <2>1, <2>3
  <1>7. ASSUME NEW k \in D PROVE u[k] = v[k]
    <2>1. u[k] \in X /\ Rank(u[k]) = k - 1
      BY <1>6
    <2>2. v[k] \in X /\ Rank(v[k]) = k - 1
      BY <1>4, <1>6
    <2> QED BY <1>5, <2>1, <2>2
  <1>8. u = [k \in D |-> u[k]] /\ v = [k \in D |-> v[k]]
    BY <1>4, SortPlaces
  <1> HIDE DEF D, u, v
  <1>9. u = v
    BY <1>7, <1>8
  <1> QED BY <1>9 DEF u, v

-----------------------------------------------------------------------------
(* The spokes.                                                             *)

Drawn(fleet, t) == {NodeOf(h, t) : h \in {g \in ToSet(fleet) : On(g, t)}}

\* The nodes of a tab are those of the hosts that are on it.
LEMMA NodesAreDrawn ==
  ASSUME NEW fleet, IsFleet(fleet), NEW t \in Tabs
  PROVE  /\ Lists(Nodes(Build(fleet, t)), Drawn(fleet, t))
         /\ Sortable(Nodes(Build(fleet, t)))
         /\ Drawn(fleet, t) = {Build(fleet, t).nodes[id] : id \in DOMAIN Build(fleet, t).nodes}
  <1> DEFINE b == Build(fleet, t)
             N == Len(fleet)
             s == Nodes(b)
             ids == IdsOn(fleet, t, N)
             D == 1 .. Len(b.order)
  <1>1. FleetSoFar(fleet, t, N, b)
    BY WholeFleet
  <1> HIDE DEF b
  <1>2. \A h : h \in ToSet(fleet) <=> \E i \in 1 .. N : fleet[i] = h
    BY FleetType DEF ToSet
  <1>3. \A x : x \in ids <=> \E i \in 1 .. N : On(fleet[i], t) /\ fleet[i].id = x
    BY DEF IdsOn
  <1>4. /\ DOMAIN b.nodes = ids /\ Lists(b.order, ids)
        /\ \A i \in 1 .. N : On(fleet[i], t) => b.nodes[fleet[i].id] = NodeOf(fleet[i], t)
    BY <1>1 DEF FleetSoFar
  <1> HIDE DEF ids
  <1>5. /\ Len(b.order) \in Nat /\ DOMAIN b.order = D
        /\ \A i \in D : b.order[i] \in ids
        /\ \A x \in ids : \E i \in D : b.order[i] = x
    BY <1>4 DEF Lists, ToSet
  <1>6. \A i, j \in D : b.order[i] = b.order[j] => i = j
    BY <1>4, <1>5 DEF Lists, IsInjective
  <1>7. ASSUME NEW x \in ids
        PROVE  \E h \in ToSet(fleet) :
                  On(h, t) /\ h \in Reports /\ h.id = x /\ b.nodes[x] = NodeOf(h, t)
    BY <1>2, <1>3, <1>4, FleetType
  <1>8. ASSUME NEW x \in ids
        PROVE  /\ b.nodes[x] \in Drawn(fleet, t) /\ b.nodes[x].id = x
               /\ b.nodes[x].hub \in BOOLEAN /\ b.nodes[x].online \in BOOLEAN /\ b.nodes[x].name \in Nat
    <2>1. PICK h \in ToSet(fleet) : On(h, t) /\ h \in Reports /\ h.id = x /\ b.nodes[x] = NodeOf(h, t)
      BY <1>7
    <2>2. NodeOf(h, t) \in NodesOf(h)
      BY <2>1, NodeOfHost
    <2>3. h.online \in BOOLEAN /\ h.name \in Nat
      BY <2>1, NicType
    <2> QED BY <2>1, <2>2, <2>3 DEF NodesOf, Drawn
  <1>9. ASSUME NEW m \in Drawn(fleet, t) PROVE \E x \in ids : b.nodes[x] = m
    <2>1. PICK h \in ToSet(fleet) : On(h, t) /\ m = NodeOf(h, t)
      BY DEF Drawn
    <2> QED BY <1>2, <1>3, <1>4, <2>1
  <1>10. /\ DOMAIN s = D /\ s = [i \in D |-> s[i]]
         /\ \A i \in D : s[i] = b.nodes[b.order[i]]
    BY <1>5 DEF Nodes
  <1> HIDE DEF s
  <1>11. ASSUME NEW i \in D
         PROVE  /\ s[i] \in Drawn(fleet, t) /\ s[i].id = b.order[i]
                /\ s[i].hub \in BOOLEAN /\ s[i].online \in BOOLEAN /\ s[i].name \in Nat
    <2>1. b.order[i] \in ids /\ s[i] = b.nodes[b.order[i]]
      BY <1>5, <1>10
    <2> QED BY <1>8, <2>1
  <1>12. s \in Seq(Drawn(fleet, t)) /\ Len(s) = Len(b.order)
    <2>1. s \in [D -> Drawn(fleet, t)]
      BY <1>10, <1>11
    <2> QED BY <1>5, <2>1
  <1>13. Sortable(s)
    BY <1>5, <1>10, <1>11, <1>12 DEF Sortable
  <1>14. IsInjective(s)
    <2>1. \A i, j \in D : s[i] = s[j] => i = j
      BY <1>6, <1>11
    <2> QED BY <1>10, <2>1 DEF IsInjective
  <1>15. ToSet(s) = Drawn(fleet, t)
    <2>1. \A m : m \in ToSet(s) <=> \E i \in D : s[i] = m
      BY <1>10 DEF ToSet
    <2>2. ASSUME NEW m \in Drawn(fleet, t) PROVE \E i \in D : s[i] = m
      <3>1. PICK x \in ids : b.nodes[x] = m
        BY <1>9
      <3>2. PICK i \in D : b.order[i] = x
        BY <1>5
      <3> QED BY <1>10, <3>1, <3>2
    <2>3. \A i \in D : s[i] \in Drawn(fleet, t)
      BY <1>11
    <2> QED BY <2>1, <2>2, <2>3
  <1>16. Drawn(fleet, t) = {b.nodes[id] : id \in DOMAIN b.nodes}
    <2> DEFINE all == {b.nodes[id] : id \in DOMAIN b.nodes}
    <2>1. \A m : m \in all <=> \E x \in ids : b.nodes[x] = m
      BY <1>4
    <2> HIDE DEF all
    <2>2. \A m : m \in Drawn(fleet, t) <=> m \in all
      BY <1>8, <1>9, <2>1
    <2>3. Drawn(fleet, t) = all
      BY <2>2
    <2> QED BY <2>3 DEF all
  <1> QED BY <1>12, <1>13, <1>14, <1>15, <1>16 DEF Lists, s, b

\* Another order of the rows is a fleet of the same hosts.
LEMMA OtherRows ==
  ASSUME NEW fleet, IsFleet(fleet), NEW rows \in SetToSeqs(ToSet(fleet))
  PROVE  IsFleet(rows) /\ ToSet(rows) = ToSet(fleet)
  <1> DEFINE X == ToSet(fleet)
  <1>1. \A h : h \in X <=> \E i \in 1 .. Len(fleet) : fleet[i] = h
    BY FleetType DEF ToSet
  <1>2. IsFiniteSet(X)
    <2>1. fleet \in Surjection(1 .. Len(fleet), X)
      <3>1. fleet \in [1 .. Len(fleet) -> X]
        BY <1>1, FleetType DEF IsFleet
      <3> QED BY <1>1, <3>1 DEF Surjection
    <2>2. IsFiniteSet(1 .. Len(fleet))
      BY FleetType, OneTo
    <2> HIDE DEF X
    <2> QED BY <2>1, <2>2, FS_Surjection
  <1> HIDE DEF X
  <1>3. Lists(rows, X)
    BY <1>2, SetToSeqsLists DEF X
  <1>4. X \subseteq Reports /\ \A g, h \in X : g.id = h.id => g = h
    BY <1>1, FleetType
  <1>5. rows \in Seq(Reports)
    BY <1>3, <1>4 DEF Lists
  <1>6. ASSUME NEW i \in DOMAIN rows, NEW j \in DOMAIN rows, rows[i].id = rows[j].id PROVE i = j
    <2>1. rows[i] \in X /\ rows[j] \in X
      BY <1>3 DEF Lists, ToSet
    <2>2. rows[i] = rows[j]
      BY <1>4, <1>6, <2>1
    <2> QED BY <1>3, <2>2 DEF Lists, IsInjective
  <1> QED BY <1>3, <1>5, <1>6 DEF IsFleet, Lists, X

LEMMA SpokesAreExact ==
  ASSUME NEW fleet, IsFleet(fleet), NEW t \in Tabs
  PROVE  SpokesExact(fleet, t)
  <1> DEFINE there == Spokes(Build(fleet, t))
             X == Drawn(fleet, t)
  <1>1. /\ Lists(Nodes(Build(fleet, t)), X) /\ Sortable(Nodes(Build(fleet, t)))
        /\ X = {Build(fleet, t).nodes[id] : id \in DOMAIN Build(fleet, t).nodes}
    BY NodesAreDrawn
  <1> HIDE DEF X
  <1>2. /\ IsInjective(there) /\ ToSet(there) = X
        /\ \A i, j \in DOMAIN there : i < j => ~ Before(there[j], there[i])
    BY <1>1, SortSorts DEF Spokes
  <1>3. ASSUME \A g, h \in ToSet(fleet) : g.name = h.name => g = h,
               NEW rows \in SetToSeqs(ToSet(fleet))
        PROVE  Spokes(Build(rows, t)) = there
    <2>1. IsFleet(rows) /\ ToSet(rows) = ToSet(fleet)
      BY OtherRows
    <2>2. Lists(Nodes(Build(rows, t)), Drawn(rows, t)) /\ Sortable(Nodes(Build(rows, t)))
      BY <2>1, NodesAreDrawn
    <2>3. Drawn(rows, t) = X
      BY <2>1 DEF Drawn, X
    <2>4. ASSUME NEW x \in X, NEW y \in X, x.name = y.name PROVE x = y
      <3>1. PICK g \in ToSet(fleet) : On(g, t) /\ x = NodeOf(g, t)
        BY DEF X, Drawn
      <3>2. PICK h \in ToSet(fleet) : On(h, t) /\ y = NodeOf(h, t)
        BY DEF X, Drawn
      <3>3. g \in Reports /\ h \in Reports
        BY FleetType DEF ToSet
      <3>4. x.name = g.name /\ y.name = h.name
        BY <3>1, <3>2, <3>3, NodeOfHost DEF NodesOf
      <3> QED BY <1>3, <2>4, <3>1, <3>2, <3>4
    <2> QED BY <1>1, <2>2, <2>3, <2>4, SortForgetsOrder DEF Spokes
  <1> QED BY <1>1, <1>2, <1>3 DEF SpokesExact

-----------------------------------------------------------------------------

\* buildTopology draws every fleet exactly, of any number of hosts with any
\* interfaces, addresses and gateways: each host once on the tabs of its
\* interfaces, in an order and with conflicts that only depend on the reports.
THEOREM EveryMapIsExact ==
  ASSUME NEW fleet, IsFleet(fleet)
  PROVE  Exact(fleet)
  BY NodesAreExact, SpokesAreExact, ConflictsAreExact, GatewayIsExact DEF Exact

\* The same beside HostSkills, as the property that the run checks.
THEOREM TopologyIsAlwaysExact == Spec => []TopologyIsExact
  <1>1. TopologyIsExact
    BY EveryMapIsExact, TopologyAssumption DEF TopologyIsExact
  <1> QED BY <1>1, PTL
=============================================================================
