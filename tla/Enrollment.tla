----------------------------- MODULE Enrollment -----------------------------
(***************************************************************************)
(* Enrollment tokens, agent registration and host deletion: the rows that  *)
(* hosts-svc keeps in PostgreSQL and those it makes dock keep.  A request  *)
(* is a process that yields after every SQL statement and every call of    *)
(* dock: there is no transaction around them, the request can fail or be   *)
(* cut off between any two, and a call of dock can be carried out although *)
(* its reply is lost.  One workspace.                                      *)
(***************************************************************************)
EXTENDS Naturals, Tables

CONSTANTS Tickets,     \* enroll requests, and the token each of them mints
          Registers,   \* register requests, and the agent token dock mints in each
          Deletes,     \* DELETE /internal/v1/hosts/:id requests
          Names,       \* host names; dock has one agent per name
          Machines,    \* hosts.id, the hash of the machine's uuid
          Slugs,
          SlugTries,   \* slugs uniqueHostSlugInWorkspace tries: base, base-2, base-4 ... (25)
          Candidate,   \* Candidate[n][i] = the i-th of them for the name n
          Fallback,    \* Fallback[m] = "host-" and a prefix of the host id
          None

ASSUME EnrollmentAssumption ==
    /\ SlugTries \in Nat \ {0}
    /\ Candidate \in [Names -> [1 .. SlugTries -> Slugs]]
    /\ Fallback \in [Machines -> Slugs]
    /\ Tickets \cap Registers = {}
    /\ None \notin Tickets \cup Registers \cup Names \cup Machines \cup Slugs

Ids == Tickets \cup Registers

VARIABLES tokens,      \* agent_tokens: the rows by id; id = request that inserted it
          pending,     \* rows whose coder_config still marks a pending enrollment
          revoked,     \* rows with revoked_at
          hosts,       \* hosts: the slug of each row
          agents,      \* agents: the host and the token row of each agent
          dockTokens,  \* dock's agent_tokens (external)
          dockAgents   \* dock's agents (external)
VARIABLES epc, ename, expired     \* enroll requests
\* Register requests: the token of dock's reply, the slug tried, the token row
\* found; the last two are forgotten once used.
VARIABLES rpc, rticket, rmachine, rraw, rtry, rlink
VARIABLES dpc, dhost, dtokens     \* delete requests
\* History: the registers whose rows nothing has touched since they were
\* written, neither a deletion of the host nor another machine's register.
VARIABLE settled

tokenVars    == <<tokens, pending, revoked>>
hostVars     == <<hosts, agents, settled>>
dockVars     == <<dockTokens, dockAgents>>
enrollVars   == <<epc, ename, expired>>
registerVars == <<rpc, rticket, rmachine, rraw, rtry, rlink>>
deleteVars   == <<dpc, dhost, dtokens>>
vars == <<tokenVars, hostVars, dockVars, enrollVars, registerVars, deleteVars>>

TypeOK ==
    /\ IsTable(tokens, Ids, Ids \cup {None})
    /\ pending \subseteq Tickets
    /\ revoked \subseteq Ids
    /\ IsTable(hosts, Machines, Slugs)
    /\ IsTable(agents, Names, [host : Machines, token : Ids])
    /\ dockTokens \subseteq Ids
    /\ dockAgents \subseteq Names
    /\ epc \in [Tickets -> {"idle", "inserted", "rollback", "issued", "refused", "split"}]
    /\ ename \in [Tickets -> Names \cup {None}]
    /\ expired \subseteq Tickets
    /\ rpc \in [Registers -> {"idle", "valid", "slug", "slugged", "hosted", "minting",
                              "mirrored", "inserted", "done", "failed"}]
    /\ rticket \in [Registers -> Tickets \cup {None}]
    /\ rmachine \in [Registers -> Machines \cup {None}]
    /\ rraw \in [Registers -> Ids \cup {None}]
    /\ rtry \in [Registers -> 0 .. SlugTries]
    /\ rlink \in [Registers -> Ids \cup {None}]
    /\ \A r \in Registers : rpc[r] = "mirrored" => rlink[r] # None
    /\ dpc \in [Deletes -> {"idle", "found", "collected", "revoking", "done", "failed"}]
    /\ dhost \in [Deletes -> Machines \cup {None}]
    /\ dtokens \in [Deletes -> SUBSET Ids]
    /\ settled \subseteq Registers

Init ==
    /\ tokens = Empty /\ pending = {} /\ revoked = {}
    /\ hosts = Empty /\ agents = Empty /\ settled = {}
    /\ dockTokens = {} /\ dockAgents = {}
    /\ epc = [t \in Tickets |-> "idle"]
    /\ ename = [t \in Tickets |-> None]
    /\ expired = {}
    /\ rpc = [r \in Registers |-> "idle"]
    /\ rticket = [r \in Registers |-> None]
    /\ rmachine = [r \in Registers |-> None]
    /\ rraw = [r \in Registers |-> None]
    /\ rtry = [r \in Registers |-> 0]
    /\ rlink = [r \in Registers |-> None]
    /\ dpc = [d \in Deletes |-> "idle"]
    /\ dhost = [d \in Deletes |-> None]
    /\ dtokens = [d \in Deletes |-> {}]

-----------------------------------------------------------------------------
(* Helpers *)

At(pcs, x, from, to) == pcs[x] = from /\ pcs' = [pcs EXCEPT ![x] = to]

\* The name in the ticket that register request r presents.
NameOf(r) == ename[rticket[r]]

\* The slug that register request r would insert.
Slug(r) ==
    IF rtry[r] = 0 THEN Fallback[rmachine[r]] ELSE Candidate[NameOf(r)][rtry[r]]

SlugTaken(s) == \E m \in DOMAIN hosts : hosts[m] = s

\* UNIQUE (workspace_id, slug) and the foreign keys of agents.
HostFits(m, s) == m \in DOMAIN hosts \/ ~ SlugTaken(s)
AgentFits(m, i) == m \in DOMAIN hosts /\ i \in DOMAIN tokens

-----------------------------------------------------------------------------
(* createEnrollmentTokenTTL: the local row, then dock's *)

EnrollInsert(t, n) ==
    /\ At(epc, t, "idle", "inserted")
    /\ ename' = [ename EXCEPT ![t] = n]
    /\ tokens' = Upsert(tokens, t, t)
    /\ pending' = pending \cup {t}
    /\ UNCHANGED <<revoked, hostVars, dockVars, expired, registerVars, deleteVars>>

\* Dock.IssueAgentToken: the raw token leaves the server in the reply.
EnrollIssue(t) ==
    /\ At(epc, t, "inserted", "issued")
    /\ dockTokens' = dockTokens \cup {t}
    /\ UNCHANGED <<tokenVars, hostVars, dockAgents, ename, expired, registerVars, deleteVars>>

\* Mutant of EnrollIssueFails: the local row stays.
EnrollIssueFailsKeeps(t) ==
    /\ At(epc, t, "inserted", "refused")
    /\ dockTokens' \in {dockTokens, dockTokens \cup {t}}
    /\ UNCHANGED <<tokenVars, hostVars, dockAgents, ename, expired, registerVars, deleteVars>>

\* The call fails; dock may have inserted the row all the same.
EnrollIssueFails(t) ==
    /\ At(epc, t, "inserted", "rollback")
    /\ dockTokens' \in {dockTokens, dockTokens \cup {t}}
    /\ UNCHANGED <<tokenVars, hostVars, dockAgents, ename, expired, registerVars, deleteVars>>

\* The DELETE of the local row; when it fails too the code can only log it.
EnrollRollback(t) ==
    /\ \/ /\ At(epc, t, "rollback", "refused")
          /\ tokens' = Without(tokens, {t})
          /\ pending' = pending \ {t}
       \/ /\ At(epc, t, "rollback", "split")
          /\ UNCHANGED <<tokens, pending>>
    /\ UNCHANGED <<revoked, hostVars, dockVars, ename, expired, registerVars, deleteVars>>

\* marker.ExpiresAt passes.
Expire(t) ==
    /\ t \notin expired /\ epc[t] = "issued"
    /\ expired' = expired \cup {t}
    /\ UNCHANGED <<tokenVars, hostVars, dockVars, epc, ename, registerVars, deleteVars>>

-----------------------------------------------------------------------------
(* handleHostRegister and registerAgent *)

\* A machine that was given the ticket presents it.
Presents(r, t, m) ==
    /\ epc[t] = "issued"
    /\ rticket' = [rticket EXCEPT ![r] = t]
    /\ rmachine' = [rmachine EXCEPT ![r] = m]

Valid(t) == t \in DOMAIN tokens \ revoked /\ t \in pending /\ t \notin expired

\* Mutant of Validate: the eager UPDATE of consumeEnrollmentToken.
ValidateEagerly(r, t, m) ==
    /\ Presents(r, t, m)
    /\ At(rpc, r, "idle", IF Valid(t) THEN "valid" ELSE "failed")
    /\ pending' = pending \ {t}
    /\ UNCHANGED <<tokens, revoked, hostVars, dockVars, enrollVars, rraw, rtry, rlink, deleteVars>>

\* validateEnrollmentToken reads; 401, 409 or 410 when the ticket is not valid.
Validate(r, t, m) ==
    /\ Presents(r, t, m)
    /\ At(rpc, r, "idle", IF Valid(t) THEN "valid" ELSE "failed")
    /\ UNCHANGED <<tokenVars, hostVars, dockVars, enrollVars, rraw, rtry, rlink, deleteVars>>

\* Dock.AgentRegister: a new agent with a new token, or the agent it already
\* has of that name, without a token or with a re-minted one.  The reply may
\* be lost.
DockRegister(r) ==
    /\ rpc[r] = "valid"
    /\ \E raw \in {r} \cup (IF NameOf(r) \in dockAgents THEN {None} ELSE {}) :
          /\ dockTokens' = dockTokens \cup ({raw} \ {None})
          /\ \/ /\ At(rpc, r, "valid", "slug")
                /\ rraw' = [rraw EXCEPT ![r] = raw]
                /\ rtry' = [rtry EXCEPT ![r] = 1]
             \/ At(rpc, r, "valid", "failed") /\ UNCHANGED <<rraw, rtry>>
    /\ dockAgents' = dockAgents \cup {NameOf(r)}
    /\ UNCHANGED <<tokenVars, hostVars, enrollVars, rticket, rmachine, rlink, deleteVars>>

\* One SELECT EXISTS of uniqueHostSlugInWorkspace; when the candidates are
\* used up, or the query fails, the slug is the fallback.
TrySlug(r) ==
    /\ rpc[r] = "slug"
    /\ \/ /\ ~ SlugTaken(Slug(r))
          /\ rpc' = [rpc EXCEPT ![r] = "slugged"] /\ UNCHANGED rtry
       \/ /\ SlugTaken(Slug(r)) /\ rtry[r] < SlugTries
          /\ rtry' = [rtry EXCEPT ![r] = @ + 1] /\ UNCHANGED rpc
       \/ /\ rpc' = [rpc EXCEPT ![r] = "slugged"]
          /\ rtry' = [rtry EXCEPT ![r] = 0]
    /\ UNCHANGED <<tokenVars, hostVars, dockVars, enrollVars, rticket, rmachine, rraw, rlink,
                   deleteVars>>

\* The upsert of hosts keeps the slug of a row that exists; a new row whose
\* slug was taken since TrySlug violates the UNIQUE constraint.
UpsertHost(r) ==
    /\ At(rpc, r, "slugged", "hosted")
    /\ HostFits(rmachine[r], Slug(r))
    /\ hosts' = IF rmachine[r] \in DOMAIN hosts THEN hosts
                ELSE Upsert(hosts, rmachine[r], Slug(r))
    /\ rtry' = [rtry EXCEPT ![r] = 0]
    /\ UNCHANGED <<tokenVars, agents, settled, dockVars, enrollVars, rticket, rmachine, rraw, rlink,
                   deleteVars>>

\* Mutant of MirrorFind: a lookup that misses does not fall through.
MirrorFindOnly(r) ==
    /\ rpc[r] = "hosted"
    /\ IF rraw[r] = None
       THEN /\ At(rpc, r, "hosted", "mirrored")
            /\ rlink' = [rlink EXCEPT ![r] = IF NameOf(r) \in DOMAIN agents
                                             THEN agents[NameOf(r)].token ELSE None]
       ELSE At(rpc, r, "hosted", "minting") /\ UNCHANGED rlink
    /\ UNCHANGED <<tokenVars, hostVars, dockVars, enrollVars, rticket, rmachine, rraw, rtry,
                   deleteVars>>

\* mirrorDockAgentTokenForAgent: without a token, the one of the agent's row.  A
\* query that fails counts as a miss.
MirrorFind(r) ==
    /\ rpc[r] = "hosted"
    /\ \/ /\ rraw[r] = None /\ NameOf(r) \in DOMAIN agents
          /\ At(rpc, r, "hosted", "mirrored")
          /\ rlink' = [rlink EXCEPT ![r] = agents[NameOf(r)].token]
       \/ At(rpc, r, "hosted", "minting") /\ UNCHANGED rlink
    /\ UNCHANGED <<tokenVars, hostVars, dockVars, enrollVars, rticket, rmachine, rraw, rtry,
                   deleteVars>>

\* A row with the token's hash, or with a stub for a hash.
MirrorMint(r) ==
    /\ At(rpc, r, "minting", "mirrored")
    /\ tokens' = Upsert(tokens, r, rraw[r])
    /\ rlink' = [rlink EXCEPT ![r] = r]
    /\ UNCHANGED <<pending, revoked, hostVars, dockVars, enrollVars, rticket, rmachine, rraw,
                   rtry, deleteVars>>

Overtaken(r) == {q \in settled : NameOf(q) = NameOf(r) /\ rmachine[q] # rmachine[r]}

\* Mutant of InsertAgent: ON CONFLICT (id) DO NOTHING.
InsertAgentOnce(r) ==
    /\ At(rpc, r, "mirrored", "inserted")
    /\ AgentFits(rmachine[r], rlink[r])
    /\ agents' = IF NameOf(r) \in DOMAIN agents THEN agents
                 ELSE Upsert(agents, NameOf(r), [host |-> rmachine[r], token |-> rlink[r]])
    /\ settled' = (settled \ Overtaken(r)) \cup {r}
    /\ rlink' = [rlink EXCEPT ![r] = None]
    /\ UNCHANGED <<tokenVars, hosts, dockVars, enrollVars, rticket, rmachine, rraw, rtry,
                   deleteVars>>

\* The upsert of agents moves a row that exists to the host and leaves its
\* agent_token_id alone.
TokenOf(r) ==
    IF NameOf(r) \in DOMAIN agents THEN agents[NameOf(r)].token ELSE rlink[r]

InsertAgent(r) ==
    /\ At(rpc, r, "mirrored", "inserted")
    /\ AgentFits(rmachine[r], rlink[r])
    /\ agents' = Upsert(agents, NameOf(r), [host |-> rmachine[r], token |-> TokenOf(r)])
    /\ settled' = (settled \ Overtaken(r)) \cup {r}
    /\ rlink' = [rlink EXCEPT ![r] = None]
    /\ UNCHANGED <<tokenVars, hosts, dockVars, enrollVars, rticket, rmachine, rraw, rtry,
                   deleteVars>>

\* markEnrollmentConsumed; its failure is logged, the reply is 201.
Consume(r) ==
    /\ At(rpc, r, "inserted", "done")
    /\ pending' \in {pending, pending \ {rticket[r]}}
    /\ UNCHANGED <<tokens, revoked, hostVars, dockVars, enrollVars, rticket, rmachine, rraw, rtry,
                   rlink, deleteVars>>

\* A statement or the call of dock fails: 500.
RegisterFails(r) ==
    /\ rpc[r] \in {"valid", "slugged", "hosted", "minting", "mirrored"}
    /\ rpc' = [rpc EXCEPT ![r] = "failed"]
    /\ rtry' = [rtry EXCEPT ![r] = 0]
    /\ rlink' = [rlink EXCEPT ![r] = None]
    /\ UNCHANGED <<tokenVars, hostVars, dockVars, enrollVars, rticket, rmachine, rraw,
                   deleteVars>>

Register(r) ==
    \/ DockRegister(r) \/ TrySlug(r) \/ UpsertHost(r) \/ MirrorFind(r) \/ MirrorMint(r)
    \/ InsertAgent(r) \/ Consume(r) \/ RegisterFails(r)

-----------------------------------------------------------------------------
(* Deletion of a host *)

\* The DELETE of the row and the cascade to its agents.
Cascade(m) ==
    /\ hosts' = Without(hosts, {m})
    /\ agents' = Without(agents, {n \in DOMAIN agents : agents[n].host = m})
    /\ settled' = {r \in settled : rmachine[r] # m}

\* handleHostDelete, the operator's: the token rows are left intact.
OperatorDelete(m) ==
    /\ m \in DOMAIN hosts
    /\ Cascade(m)
    /\ UNCHANGED <<tokenVars, dockVars, enrollVars, registerVars, deleteVars>>

\* handleInternalHostDelete; an unknown host changes nothing and is left out.
DeleteFind(d, m) ==
    /\ m \in DOMAIN hosts
    /\ At(dpc, d, "idle", "found")
    /\ dhost' = [dhost EXCEPT ![d] = m]
    /\ UNCHANGED <<tokenVars, hostVars, dockVars, enrollVars, registerVars, dtokens>>

\* The tokens of the host's agents (none when the query fails), then the kick
\* (AgentHub!KickClose).
DeleteCollect(d) ==
    /\ At(dpc, d, "found", "collected")
    /\ \E found \in {{}, {agents[n].token : n \in {x \in DOMAIN agents : agents[x].host = dhost[d]}}} :
          dtokens' = [dtokens EXCEPT ![d] = found]
    /\ UNCHANGED <<tokenVars, hostVars, dockVars, enrollVars, registerVars, dhost>>

DeleteRow(d) ==
    /\ \/ At(dpc, d, "collected", "revoking") /\ Cascade(dhost[d])
       \/ At(dpc, d, "collected", "failed") /\ UNCHANGED hostVars
    /\ UNCHANGED <<tokenVars, dockVars, enrollVars, registerVars, dhost, dtokens>>

\* One UPDATE of revoked_at; a failure is skipped.
DeleteRevoke(d, i) ==
    /\ dpc[d] = "revoking"
    /\ i \in dtokens[d]
    /\ revoked' \in {revoked, revoked \cup {i}}
    /\ dtokens' = [dtokens EXCEPT ![d] = @ \ {i}]
    /\ UNCHANGED <<tokens, pending, hostVars, dockVars, enrollVars, registerVars, dpc, dhost>>

DeleteDone(d) ==
    /\ dtokens[d] = {}
    /\ At(dpc, d, "revoking", "done")
    /\ UNCHANGED <<tokenVars, hostVars, dockVars, enrollVars, registerVars, dhost, dtokens>>

-----------------------------------------------------------------------------

Next ==
    \/ \E t \in Tickets, n \in Names : EnrollInsert(t, n)
    \/ \E t \in Tickets : EnrollIssue(t) \/ EnrollIssueFails(t) \/ EnrollRollback(t) \/ Expire(t)
    \/ \E r \in Registers, t \in Tickets, m \in Machines : Validate(r, t, m)
    \/ \E r \in Registers : Register(r)
    \/ \E m \in Machines : OperatorDelete(m)
    \/ \E d \in Deletes, m \in Machines : DeleteFind(d, m)
    \/ \E d \in Deletes : DeleteCollect(d) \/ DeleteRow(d) \/ DeleteDone(d)
    \/ \E d \in Deletes, i \in Ids : DeleteRevoke(d, i)

Spec == Init /\ [][Next]_vars

-----------------------------------------------------------------------------
(* Properties *)

\* "a partial failure leaves the token reusable": a ticket is burned only by a
\* request that went all the way, however many present it, fail or are cut off.
BurnedTicketPaidOff ==
    \A t \in Tickets :
        epc[t] = "issued" /\ t \notin pending =>
            \E r \in Registers : rpc[r] = "done" /\ rticket[r] = t

\* "so the two DBs stay in sync": a ticket that was handed out is known to both
\* stores, and a local row that dock does not have belongs to a request still
\* under way or to one whose rollback failed.
StoresAgree ==
    \A t \in Tickets :
        /\ epc[t] = "issued" => t \in DOMAIN tokens /\ t \in dockTokens
        /\ t \in DOMAIN tokens \ dockTokens => epc[t] \in {"inserted", "rollback", "split"}

\* "the host exists": a 201 means that the host's row is there and the agent's
\* is on it, until the host is deleted or another machine takes the name,
\* however these statements interleave.
DoneIsWhole ==
    \A r \in settled :
        rpc[r] = "done" =>
            /\ rmachine[r] \in DOMAIN hosts
            /\ NameOf(r) \in DOMAIN agents /\ agents[NameOf(r)].host = rmachine[r]

\* "mints a permanent agent_token in the response": once some request for an
\* agent is answered 201 and none that got a token is still under way, one of
\* those answered 201 carried a token.
AgentHasItsToken ==
    \A r \in Registers :
        rpc[r] = "done" =>
            \E q \in Registers :
                rpc[q] \notin {"idle", "failed"} /\ rraw[q] # None /\ NameOf(q) = NameOf(r)

\* How a token gets lost: an agent whose requests were answered 201 without one is
\* an agent of whose name another request failed on the way.
LostTokenHasCause ==
    \A r \in Registers :
        rpc[r] = "done" =>
            \E q \in Registers :
                /\ rpc[q] # "idle" /\ NameOf(q) = NameOf(r)
                /\ rpc[q] = "failed" \/ rraw[q] # None

\* The rows hang together in every interleaving, without a transaction: slugs
\* differ, an agent's host and token are there, and the token is never an
\* enrollment's, so that the rollback of an enrollment (agent_tokens ON DELETE
\* CASCADE) takes no agent along.
RowsHangTogether ==
    /\ \A m, n \in DOMAIN hosts : hosts[m] = hosts[n] => m = n
    /\ \A n \in DOMAIN agents :
          agents[n].host \in DOMAIN hosts /\ agents[n].token \in DOMAIN tokens \ Tickets
=============================================================================
