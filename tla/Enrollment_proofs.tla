------------------------- MODULE Enrollment_proofs --------------------------
(***************************************************************************)
(* Proofs about Enrollment, for any number of requests, machines and names.*)
(* Tables are partial functions; the first lemmas say what an upsert and a *)
(* delete do to one.                                                       *)
(***************************************************************************)
EXTENDS Enrollment, TLAPS

\* A row of a table has the table's type.
LEMMA RowType ==
    ASSUME NEW S, NEW T, NEW table, IsTable(table, S, T), NEW x \in DOMAIN table
    PROVE  table[x] \in T
  BY DEF IsTable

\* A table of rows of one type stays one.
LEMMA UpsertType ==
    ASSUME NEW S, NEW T, NEW table, IsTable(table, S, T), NEW x \in S, NEW v \in T
    PROVE  IsTable(Upsert(table, x, v), S, T)
  <1> DEFINE new == Upsert(table, x, v)
  <1>1. table \in [DOMAIN table -> T] /\ DOMAIN table \subseteq S
    BY DEF IsTable
  <1>2. new \in [DOMAIN new -> T] /\ DOMAIN new \subseteq S
    BY <1>1 DEF Upsert
  <1> QED BY <1>2 DEF IsTable

\* Rows are deleted, the others stay.
LEMMA WithoutRows ==
    ASSUME NEW S, NEW T, NEW table, IsTable(table, S, T), NEW X
    PROVE  /\ IsTable(Without(table, X), S, T)
           /\ DOMAIN Without(table, X) = DOMAIN table \ X
           /\ \A y \in DOMAIN table \ X : Without(table, X)[y] = table[y]
  <1>1. table \in [DOMAIN table -> T] /\ DOMAIN table \subseteq S
    BY DEF IsTable
  <1>2. /\ Without(table, X) \in [DOMAIN Without(table, X) -> T]
        /\ DOMAIN Without(table, X) \subseteq S
    BY <1>1 DEF Without
  <1> QED BY <1>1, <1>2 DEF IsTable, Without

-----------------------------------------------------------------------------
(* The inductive invariant *)

\* What an enroll request has done so far: the ticket it hands out has a name
\* and a row, and cannot have been used before it was handed out.
TicketsKnown ==
    \A t \in Tickets :
        /\ epc[t] # "idle" => ename[t] \in Names
        /\ epc[t] = "inserted" => t \in pending
        /\ epc[t] \in {"inserted", "issued"} => t \in DOMAIN tokens

\* A register request presents a ticket that was handed out.
RegistersKnown ==
    \A r \in Registers :
        rpc[r] # "idle" =>
            rticket[r] \in Tickets /\ epc[rticket[r]] = "issued" /\ rmachine[r] \in Machines

\* DoneIsWhole from the moment the agent's row is written.
SettledStands ==
    \A r \in settled :
        /\ rpc[r] \in {"inserted", "done"}
        /\ rmachine[r] \in DOMAIN hosts
        /\ NameOf(r) \in DOMAIN agents /\ agents[NameOf(r)].host = rmachine[r]

IInv ==
    /\ TypeOK
    /\ TicketsKnown
    /\ RegistersKnown
    /\ StoresAgree
    /\ BurnedTicketPaidOff
    /\ SettledStands

LEMMA InitIInv == Init => IInv
  <1> SUFFICES ASSUME Init PROVE IInv
    OBVIOUS
  <1>1. \A T : IsTable(Empty, {}, T) /\ DOMAIN Empty = {}
    BY DEF IsTable, Empty
  <1>2. \A S, T : IsTable(Empty, S, T)
    BY <1>1 DEF IsTable, Empty
  <1>3. TypeOK
    BY <1>2, EnrollmentAssumption DEF Init, TypeOK
  <1> QED BY <1>1, <1>3 DEF Init, IInv, TicketsKnown, RegistersKnown, StoresAgree,
             BurnedTicketPaidOff, SettledStands

-----------------------------------------------------------------------------
(* Type correctness *)

\* The name and the slug of a register request under way.
LEMMA RequestData ==
    ASSUME IInv, NEW r \in Registers, rpc[r] # "idle"
    PROVE  NameOf(r) \in Names /\ Slug(r) \in Slugs
  <1>1. rticket[r] \in Tickets /\ epc[rticket[r]] = "issued" /\ rmachine[r] \in Machines
    BY DEF IInv, RegistersKnown
  <1>2. NameOf(r) \in Names
    BY <1>1 DEF IInv, TicketsKnown, NameOf
  <1>3. rtry[r] \in 0 .. SlugTries
    BY DEF IInv, TypeOK
  <1> QED BY <1>1, <1>2, <1>3, EnrollmentAssumption DEF Slug

LEMMA TypeEnroll ==
    ASSUME IInv, NEW t \in Tickets,
           \/ \E n \in Names : EnrollInsert(t, n)
           \/ EnrollIssue(t) \/ EnrollIssueFails(t) \/ EnrollRollback(t) \/ Expire(t)
    PROVE  TypeOK'
  <1> USE DEF IInv, TypeOK, tokenVars, hostVars, dockVars, enrollVars, registerVars, deleteVars, At, Ids
  <1>1. CASE \E n \in Names : EnrollInsert(t, n)
    <2>1. IsTable(tokens', Ids, Ids \cup {None})
      <3>1. t \in Ids /\ t \in Ids \cup {None} /\ IsTable(tokens, Ids, Ids \cup {None})
        OBVIOUS
      <3>2. IsTable(Upsert(tokens, t, t), Ids, Ids \cup {None})
        BY <3>1, UpsertType
      <3> QED BY <1>1, <3>2 DEF EnrollInsert
    <2> QED BY <1>1, <2>1 DEF EnrollInsert
  <1>2. CASE EnrollIssue(t)
    BY <1>2 DEF EnrollIssue
  <1>3. CASE EnrollIssueFails(t)
    BY <1>3 DEF EnrollIssueFails
  <1>4. CASE EnrollRollback(t)
    <2>1. IsTable(tokens', Ids, Ids \cup {None})
      <3>1. IsTable(Without(tokens, {t}), Ids, Ids \cup {None})
        BY WithoutRows
      <3> QED BY <1>4, <3>1 DEF EnrollRollback
    <2> QED BY <1>4, <2>1 DEF EnrollRollback
  <1>5. CASE Expire(t)
    BY <1>5 DEF Expire
  <1> QED BY <1>1, <1>2, <1>3, <1>4, <1>5

LEMMA TypeRegister ==
    ASSUME IInv, NEW r \in Registers, Register(r)
    PROVE  TypeOK'
  <1> USE DEF IInv, TypeOK, tokenVars, hostVars, dockVars, enrollVars, registerVars, deleteVars, At, Ids
  <1>1. rpc[r] # "idle" => NameOf(r) \in Names /\ Slug(r) \in Slugs /\ rticket[r] \in Tickets /\ rmachine[r] \in Machines
    BY RequestData DEF RegistersKnown
  <1>2. CASE DockRegister(r)
    <2>1. PICK raw \in {r} \cup (IF NameOf(r) \in dockAgents THEN {None} ELSE {}) :
            /\ dockTokens' = dockTokens \cup ({raw} \ {None})
            /\ \/ /\ At(rpc, r, "valid", "slug")
                  /\ rraw' = [rraw EXCEPT ![r] = raw]
                  /\ rtry' = [rtry EXCEPT ![r] = 1]
               \/ At(rpc, r, "valid", "failed") /\ UNCHANGED <<rraw, rtry>>
      BY <1>2 DEF DockRegister
    <2>2. raw \in Ids \cup {None}
      BY <2>1
    <2>3. dockTokens' \subseteq Ids /\ rraw' \in [Registers -> Ids \cup {None}]
      BY <2>1, <2>2
    <2>4. 1 \in 0 .. SlugTries
      BY EnrollmentAssumption
    <2>5. rtry' \in [Registers -> 0 .. SlugTries]
      BY <2>1, <2>4
    <2>6. dockAgents' \subseteq Names
      BY <1>1, <1>2, <2>1 DEF DockRegister
    <2>7. /\ rpc' = [rpc EXCEPT ![r] = "slug"] \/ rpc' = [rpc EXCEPT ![r] = "failed"]
          /\ UNCHANGED <<tokenVars, hostVars, enrollVars, rticket, rmachine, rlink, deleteVars>>
      BY <1>2, <2>1 DEF DockRegister
    <2> QED BY <2>3, <2>5, <2>6, <2>7
  <1>3. CASE TrySlug(r)
    <2>1. rtry[r] \in 0 .. SlugTries /\ 0 \in 0 .. SlugTries
      BY EnrollmentAssumption
    <2>2. rtry[r] < SlugTries => rtry[r] + 1 \in 0 .. SlugTries
      BY <2>1, EnrollmentAssumption
    <2>3. rtry' \in [Registers -> 0 .. SlugTries]
      BY <1>3, <2>1, <2>2 DEF TrySlug
    <2>4. /\ rpc' = rpc \/ rpc' = [rpc EXCEPT ![r] = "slugged"]
          /\ UNCHANGED <<tokenVars, hostVars, dockVars, enrollVars, rticket, rmachine, rraw, rlink,
                         deleteVars>>
      BY <1>3 DEF TrySlug
    <2> QED BY <2>3, <2>4
  <1>4. CASE UpsertHost(r)
    <2>1. IsTable(hosts', Machines, Slugs)
      BY <1>1, <1>4, UpsertType DEF UpsertHost
    <2> QED BY <1>4, <2>1, EnrollmentAssumption DEF UpsertHost
  <1>5. CASE MirrorFind(r)
    <2>1. CASE NameOf(r) \in DOMAIN agents
      <3>1. agents[NameOf(r)] \in [host : Machines, token : Ids]
        BY <2>1 DEF IsTable
      <3>2. agents[NameOf(r)].token # None
        BY <3>1, EnrollmentAssumption
      <3> QED BY <1>5, <3>1, <3>2 DEF MirrorFind
    <2>2. CASE At(rpc, r, "hosted", "minting") /\ UNCHANGED rlink
      BY <1>5, <2>2 DEF MirrorFind
    <2> QED BY <1>5, <2>1, <2>2 DEF MirrorFind
  <1>6. CASE MirrorMint(r)
    <2>1. IsTable(tokens', Ids, Ids \cup {None})
      BY <1>6, UpsertType DEF MirrorMint
    <2> QED BY <1>6, <2>1, EnrollmentAssumption DEF MirrorMint
  <1>7. CASE InsertAgent(r)
    <2>1. TokenOf(r) \in Ids
      <3>1. NameOf(r) \in DOMAIN agents =>
              agents[NameOf(r)] \in [host : Machines, token : Ids]
        BY RowType
      <3> QED BY <1>7, <3>1 DEF InsertAgent, TokenOf
    <2>2. IsTable(agents', Names, [host : Machines, token : Ids])
      BY <1>1, <1>7, <2>1, UpsertType DEF InsertAgent
    <2> QED BY <1>7, <2>2 DEF InsertAgent
  <1>8. CASE Consume(r)
    BY <1>8 DEF Consume
  <1>9. CASE RegisterFails(r)
    BY <1>9, EnrollmentAssumption DEF RegisterFails
  <1> QED BY <1>2, <1>3, <1>4, <1>5, <1>6, <1>7, <1>8, <1>9 DEF Register

LEMMA TypeDelete ==
    ASSUME IInv,
           \/ \E m \in Machines : OperatorDelete(m)
           \/ \E d \in Deletes, m \in Machines : DeleteFind(d, m)
           \/ \E d \in Deletes : DeleteCollect(d) \/ DeleteRow(d) \/ DeleteDone(d)
           \/ \E d \in Deletes, i \in Ids : DeleteRevoke(d, i)
    PROVE  TypeOK'
  <1> USE DEF IInv, TypeOK, tokenVars, hostVars, dockVars, enrollVars, registerVars, deleteVars, At
  <1>1. ASSUME NEW m, Cascade(m)
        PROVE  /\ IsTable(hosts', Machines, Slugs)
               /\ IsTable(agents', Names, [host : Machines, token : Ids])
               /\ settled' \subseteq Registers
    <2>1. \A X : IsTable(Without(hosts, X), Machines, Slugs)
      BY WithoutRows
    <2>2. \A X : IsTable(Without(agents, X), Names, [host : Machines, token : Ids])
      BY WithoutRows
    <2> QED BY <1>1, <2>1, <2>2 DEF Cascade
  <1>2. CASE \E m \in Machines : OperatorDelete(m)
    BY <1>1, <1>2 DEF OperatorDelete
  <1>3. CASE \E d \in Deletes, m \in Machines : DeleteFind(d, m)
    BY <1>3 DEF DeleteFind
  <1>4. ASSUME NEW d \in Deletes, DeleteCollect(d)
        PROVE  TypeOK'
    <2>1. \A n \in DOMAIN agents : agents[n] \in [host : Machines, token : Ids]
      BY RowType
    <2>2. {agents[n].token : n \in {x \in DOMAIN agents : agents[x].host = dhost[d]}} \subseteq Ids
      BY <2>1
    <2>3. dtokens' \in [Deletes -> SUBSET Ids]
      BY <1>4, <2>2 DEF DeleteCollect
    <2> QED BY <1>4, <2>3 DEF DeleteCollect
  <1>5. ASSUME NEW d \in Deletes, DeleteRow(d)
        PROVE  TypeOK'
    BY <1>1, <1>5 DEF DeleteRow
  <1>6. ASSUME NEW d \in Deletes, DeleteDone(d)
        PROVE  TypeOK'
    BY <1>6 DEF DeleteDone
  <1>7. ASSUME NEW d \in Deletes, NEW i \in Ids, DeleteRevoke(d, i)
        PROVE  TypeOK'
    BY <1>7 DEF DeleteRevoke
  <1> QED BY <1>2, <1>3, <1>4, <1>5, <1>6, <1>7

LEMMA TypeStep == IInv /\ Next => TypeOK'
  <1> SUFFICES ASSUME IInv, Next PROVE TypeOK'
    OBVIOUS
  <1>1. ASSUME NEW r \in Registers, NEW t \in Tickets, NEW m \in Machines, Validate(r, t, m)
        PROVE  TypeOK'
    BY <1>1 DEF IInv, TypeOK, Validate, Presents, At, tokenVars, hostVars, dockVars, enrollVars,
                deleteVars
  <1> QED BY <1>1, TypeEnroll, TypeRegister, TypeDelete DEF Next

-----------------------------------------------------------------------------
(* The other conjuncts: one step for each action that can disturb them *)

LEMMA TicketsStep == IInv /\ Next => TicketsKnown'
  <1> SUFFICES ASSUME IInv, Next PROVE TicketsKnown'
    OBVIOUS
  <1> USE DEF IInv, TypeOK, TicketsKnown, At, tokenVars, hostVars, dockVars, enrollVars,
              registerVars, deleteVars
  <1>1. ASSUME NEW t \in Tickets, NEW n \in Names, EnrollInsert(t, n) PROVE TicketsKnown'
    <2>1. DOMAIN Upsert(tokens, t, t) = {t} \cup DOMAIN tokens
      BY DEF Upsert
    <2> QED BY <1>1, <2>1 DEF EnrollInsert
  <1>2. ASSUME NEW t \in Tickets, EnrollIssue(t) \/ EnrollIssueFails(t) PROVE TicketsKnown'
    BY <1>2 DEF EnrollIssue, EnrollIssueFails
  <1>3. ASSUME NEW t \in Tickets, EnrollRollback(t) PROVE TicketsKnown'
    <2>1. DOMAIN Without(tokens, {t}) = DOMAIN tokens \ {t}
      BY DEF Without
    <2> QED BY <1>3, <2>1 DEF EnrollRollback
  <1>4. ASSUME NEW r \in Registers, MirrorMint(r) PROVE TicketsKnown'
    <2>1. DOMAIN Upsert(tokens, r, rraw[r]) = {r} \cup DOMAIN tokens
      BY DEF Upsert
    <2> QED BY <1>4, <2>1 DEF MirrorMint
  <1>5. ASSUME NEW r \in Registers, Consume(r) PROVE TicketsKnown'
    <2>1. epc[rticket[r]] = "issued"
      BY <1>5 DEF Consume, RegistersKnown
    <2> QED BY <1>5, <2>1 DEF Consume
  <1>6. CASE UNCHANGED <<epc, ename, pending>> /\ DOMAIN tokens' = DOMAIN tokens
    BY <1>6
  <1>7. QED
    BY <1>1, <1>2, <1>3, <1>4, <1>5, <1>6
    DEF Next, Register, Expire, Validate, DockRegister, TrySlug, UpsertHost, MirrorFind, InsertAgent,
        RegisterFails, OperatorDelete, DeleteFind, DeleteCollect, DeleteRow, DeleteRevoke, DeleteDone

LEMMA RegistersStep == IInv /\ Next => RegistersKnown'
  <1> SUFFICES ASSUME IInv, Next PROVE RegistersKnown'
    OBVIOUS
  <1> USE DEF IInv, TypeOK, RegistersKnown, At, tokenVars, hostVars, dockVars, enrollVars,
              registerVars, deleteVars
  <1>1. ASSUME NEW r \in Registers, NEW t \in Tickets, NEW m \in Machines, Validate(r, t, m)
        PROVE  RegistersKnown'
    BY <1>1 DEF Validate, Presents
  <1>2. ASSUME NEW r \in Registers, Register(r) PROVE RegistersKnown'
    BY <1>2 DEF Register, DockRegister, TrySlug, UpsertHost, MirrorFind, MirrorMint, InsertAgent,
                Consume, RegisterFails
  <1>3. ASSUME NEW t \in Tickets,
               \/ \E n \in Names : EnrollInsert(t, n)
               \/ EnrollIssue(t) \/ EnrollIssueFails(t) \/ EnrollRollback(t)
        PROVE  RegistersKnown'
    BY <1>3 DEF EnrollInsert, EnrollIssue, EnrollIssueFails, EnrollRollback
  <1>4. CASE UNCHANGED <<epc, rpc, rticket, rmachine>>
    BY <1>4
  <1> QED BY <1>1, <1>2, <1>3, <1>4
    DEF Next, Expire, OperatorDelete, DeleteFind, DeleteCollect, DeleteRow, DeleteRevoke, DeleteDone

LEMMA StoresStep == IInv /\ Next => StoresAgree'
  <1> SUFFICES ASSUME IInv, Next PROVE StoresAgree'
    OBVIOUS
  <1> USE DEF IInv, TypeOK, StoresAgree, TicketsKnown, At, tokenVars, hostVars, dockVars,
              enrollVars, registerVars, deleteVars
  <1>1. ASSUME NEW t \in Tickets, NEW n \in Names, EnrollInsert(t, n) PROVE StoresAgree'
    <2>1. DOMAIN Upsert(tokens, t, t) = {t} \cup DOMAIN tokens
      BY DEF Upsert
    <2> QED BY <1>1, <2>1 DEF EnrollInsert
  <1>2. ASSUME NEW t \in Tickets, EnrollIssue(t) PROVE StoresAgree'
    BY <1>2 DEF EnrollIssue
  <1>3. ASSUME NEW t \in Tickets, EnrollIssueFails(t) PROVE StoresAgree'
    BY <1>3 DEF EnrollIssueFails
  <1>4. ASSUME NEW t \in Tickets, EnrollRollback(t) PROVE StoresAgree'
    <2>1. DOMAIN Without(tokens, {t}) = DOMAIN tokens \ {t}
      BY DEF Without
    <2> QED BY <1>4, <2>1 DEF EnrollRollback
  <1>5. ASSUME NEW r \in Registers, DockRegister(r) PROVE StoresAgree'
    BY <1>5 DEF DockRegister
  <1>6. ASSUME NEW r \in Registers, MirrorMint(r) PROVE StoresAgree'
    <2>1. DOMAIN Upsert(tokens, r, rraw[r]) = {r} \cup DOMAIN tokens
      BY DEF Upsert
    <2> QED BY <1>6, <2>1, EnrollmentAssumption DEF MirrorMint
  <1>7. CASE UNCHANGED <<tokens, dockTokens, epc>>
    BY <1>7
  <1> QED
    BY <1>1, <1>2, <1>3, <1>4, <1>5, <1>6, <1>7
    DEF Next, Register, Expire, Validate, TrySlug, UpsertHost, MirrorFind, InsertAgent, Consume,
        RegisterFails, OperatorDelete, DeleteFind, DeleteCollect, DeleteRow, DeleteRevoke, DeleteDone

LEMMA BurnedStep == IInv /\ Next => BurnedTicketPaidOff'
  <1> SUFFICES ASSUME IInv, Next PROVE BurnedTicketPaidOff'
    OBVIOUS
  <1> USE DEF IInv, TypeOK, BurnedTicketPaidOff, At, tokenVars, hostVars, dockVars, enrollVars,
              registerVars, deleteVars
  \* A request that is done stays done.
  <1>1. ASSUME UNCHANGED <<epc, pending>>,
               \A r \in Registers : rpc[r] = "done" => rpc'[r] = "done" /\ rticket'[r] = rticket[r]
        PROVE  BurnedTicketPaidOff'
    BY <1>1
  <1>2. ASSUME NEW r \in Registers, NEW t \in Tickets, NEW m \in Machines, Validate(r, t, m)
        PROVE  BurnedTicketPaidOff'
    BY <1>1, <1>2 DEF Validate, Presents
  <1>3. ASSUME NEW r \in Registers,
               \/ DockRegister(r) \/ TrySlug(r) \/ UpsertHost(r) \/ MirrorFind(r) \/ MirrorMint(r)
               \/ InsertAgent(r) \/ RegisterFails(r)
        PROVE  BurnedTicketPaidOff'
    BY <1>1, <1>3 DEF DockRegister, TrySlug, UpsertHost, MirrorFind, MirrorMint, InsertAgent,
                      RegisterFails
  <1>4. ASSUME NEW r \in Registers, Consume(r) PROVE BurnedTicketPaidOff'
    <2>1. rpc'[r] = "done" /\ rticket'[r] = rticket[r]
      BY <1>4 DEF Consume
    <2>2. \A q \in Registers : rpc[q] = "done" => rpc'[q] = "done" /\ rticket'[q] = rticket[q]
      BY <1>4 DEF Consume
    <2> SUFFICES ASSUME NEW t \in Tickets, epc[t] = "issued", t \notin pending'
                 PROVE  \E q \in Registers : rpc'[q] = "done" /\ rticket'[q] = t
      BY <1>4 DEF Consume
    <2>3. CASE t = rticket[r]
      BY <2>1, <2>3
    <2>4. CASE t # rticket[r]
      BY <1>4, <2>2, <2>4 DEF Consume
    <2> QED BY <2>3, <2>4
  <1>5. ASSUME NEW t \in Tickets,
               \/ \E n \in Names : EnrollInsert(t, n)
               \/ EnrollIssue(t) \/ EnrollIssueFails(t) \/ EnrollRollback(t)
        PROVE  BurnedTicketPaidOff'
    BY <1>5 DEF TicketsKnown, EnrollInsert, EnrollIssue, EnrollIssueFails, EnrollRollback
  <1> QED
    BY <1>1, <1>2, <1>3, <1>4, <1>5
    DEF Next, Register, Expire, OperatorDelete, DeleteFind, DeleteCollect, DeleteRow, DeleteRevoke,
        DeleteDone

LEMMA SettledStep == IInv /\ Next => SettledStands'
  <1> SUFFICES ASSUME IInv, Next PROVE SettledStands'
    OBVIOUS
  <1> USE DEF IInv, TypeOK, SettledStands, NameOf, At, tokenVars, hostVars, dockVars, enrollVars,
              registerVars, deleteVars
  \* The ticket of a request and its name stay what they are.
  <1>1. \A r \in settled : rticket[r] \in Tickets /\ epc[rticket[r]] = "issued"
    BY DEF RegistersKnown
  <1>2. ASSUME UNCHANGED <<hosts, agents, settled>>,
               \A r \in settled :
                  /\ rpc'[r] \in {"inserted", "done"}
                  /\ rmachine'[r] = rmachine[r] /\ rticket'[r] = rticket[r]
                  /\ ename'[rticket[r]] = ename[rticket[r]]
        PROVE  SettledStands'
    BY <1>2
  <1>3. ASSUME NEW t \in Tickets, NEW n \in Names, EnrollInsert(t, n) PROVE SettledStands'
    BY <1>1, <1>2, <1>3 DEF EnrollInsert
  <1>4. ASSUME NEW t \in Tickets,
               EnrollIssue(t) \/ EnrollIssueFails(t) \/ EnrollRollback(t) \/ Expire(t)
        PROVE  SettledStands'
    BY <1>2, <1>4 DEF EnrollIssue, EnrollIssueFails, EnrollRollback, Expire
  <1>5. ASSUME NEW r \in Registers, NEW t \in Tickets, NEW m \in Machines, Validate(r, t, m)
        PROVE  SettledStands'
    BY <1>2, <1>5 DEF Validate, Presents
  <1>6. ASSUME NEW r \in Registers,
               \/ DockRegister(r) \/ TrySlug(r) \/ MirrorFind(r) \/ MirrorMint(r) \/ Consume(r)
               \/ RegisterFails(r)
        PROVE  SettledStands'
    BY <1>2, <1>6 DEF DockRegister, TrySlug, MirrorFind, MirrorMint, Consume, RegisterFails
  <1>7. ASSUME NEW r \in Registers, UpsertHost(r) PROVE SettledStands'
    <2>1. DOMAIN hosts \subseteq DOMAIN hosts'
      BY <1>7 DEF UpsertHost, Upsert
    <2>2. \A q \in settled : q # r
      BY <1>7 DEF UpsertHost
    <2> QED BY <1>7, <2>1, <2>2 DEF UpsertHost
  <1>8. ASSUME NEW r \in Registers, InsertAgent(r) PROVE SettledStands'
    <2> DEFINE row == [host |-> rmachine[r], token |-> TokenOf(r)]
    <2>1. /\ DOMAIN agents' = {NameOf(r)} \cup DOMAIN agents
          /\ agents'[NameOf(r)] = row
          /\ \A n \in DOMAIN agents \ {NameOf(r)} : agents'[n] = agents[n]
      <3>1. agents' = Upsert(agents, NameOf(r), row)
        BY <1>8 DEF InsertAgent
      <3> HIDE DEF row
      <3> QED BY <3>1 DEF Upsert
    <2>2. UNCHANGED <<hosts, rmachine, rticket, ename>> /\ rmachine[r] \in DOMAIN hosts
      BY <1>8 DEF InsertAgent, AgentFits
    <2>3. /\ rpc'[r] = "inserted"
          /\ \A q \in Registers \ {r} : rpc'[q] = rpc[q]
      BY <1>8 DEF InsertAgent
    <2>4. ASSUME NEW q \in settled'
          PROVE  NameOf(q) = NameOf(r) => rmachine[q] = rmachine[r]
      BY <1>8, <2>4 DEF InsertAgent, Overtaken
    <2>5. ASSUME NEW q \in settled'
          PROVE  /\ rpc'[q] \in {"inserted", "done"}
                 /\ rmachine'[q] \in DOMAIN hosts'
                 /\ NameOf(q)' \in DOMAIN agents' /\ agents'[NameOf(q)'].host = rmachine'[q]
      <3>1. q = r \/ q \in settled
        BY <1>8 DEF InsertAgent
      <3>2. NameOf(q)' = NameOf(q)
        BY <2>2
      <3>3. row.host = rmachine[r]
        OBVIOUS
      <3>4. rpc'[q] \in {"inserted", "done"} /\ rmachine'[q] \in DOMAIN hosts'
        BY <2>2, <2>3, <3>1
      <3>5. CASE NameOf(q) = NameOf(r)
        BY <2>1, <2>2, <2>4, <3>2, <3>3, <3>4, <3>5
      <3>6. CASE NameOf(q) # NameOf(r)
        BY <2>1, <2>2, <3>1, <3>2, <3>4, <3>6
      <3> QED BY <3>5, <3>6
    <2> QED BY <2>5
  <1>9. ASSUME NEW m, Cascade(m), UNCHANGED <<rpc, rticket, rmachine, ename>>
        PROVE  SettledStands'
    <2>1. /\ DOMAIN hosts' = DOMAIN hosts \ {m}
          /\ \A n \in DOMAIN agents :
                agents[n].host # m => n \in DOMAIN agents' /\ agents'[n] = agents[n]
      BY <1>9 DEF Cascade, Without
    <2> QED BY <1>9, <2>1 DEF Cascade
  <1>10. ASSUME NEW m \in Machines, OperatorDelete(m) PROVE SettledStands'
    BY <1>9, <1>10 DEF OperatorDelete
  <1>11. ASSUME NEW d \in Deletes, DeleteRow(d) PROVE SettledStands'
    BY <1>2, <1>9, <1>11 DEF DeleteRow
  <1>12. ASSUME NEW d \in Deletes,
                \/ \E m \in Machines : DeleteFind(d, m)
                \/ DeleteCollect(d) \/ DeleteDone(d)
                \/ \E i \in Ids : DeleteRevoke(d, i)
         PROVE  SettledStands'
    BY <1>2, <1>12 DEF DeleteFind, DeleteCollect, DeleteDone, DeleteRevoke
  <1> QED
    BY <1>3, <1>4, <1>5, <1>6, <1>7, <1>8, <1>10, <1>11, <1>12 DEF Next, Register

-----------------------------------------------------------------------------
(* The theorems *)

\* The strengthening is an invariant.
THEOREM Inductive == Spec => []IInv
  <1>1. IInv /\ UNCHANGED vars => IInv'
    <2> SUFFICES ASSUME IInv, UNCHANGED vars PROVE IInv'
      OBVIOUS
    <2> USE DEF vars, tokenVars, hostVars, dockVars, enrollVars, registerVars, deleteVars
    <2>1. TypeOK'
      BY DEF IInv, TypeOK
    <2>2. TicketsKnown' /\ RegistersKnown'
      BY DEF IInv, TicketsKnown, RegistersKnown
    <2>3. StoresAgree' /\ BurnedTicketPaidOff'
      BY DEF IInv, StoresAgree, BurnedTicketPaidOff
    <2>4. SettledStands'
      BY DEF IInv, SettledStands, NameOf
    <2> QED BY <2>1, <2>2, <2>3, <2>4 DEF IInv
  <1>2. IInv /\ [Next]_vars => IInv'
    BY <1>1, TypeStep, TicketsStep, RegistersStep, StoresStep, BurnedStep, SettledStep DEF IInv
  <1> QED BY <1>2, InitIInv, PTL DEF Spec

\* Every row of every table has its type, and the INSERT of an agent never has
\* a NULL agent_token_id.
THEOREM TypeCorrect == Spec => []TypeOK
  <1>1. IInv => TypeOK
    BY DEF IInv
  <1> QED BY <1>1, Inductive, PTL

\* A ticket is burned by a register that succeeded, never by one that failed,
\* whatever fails and however many requests present it.
THEOREM BurnedTickets == Spec => []BurnedTicketPaidOff
  <1>1. IInv => BurnedTicketPaidOff
    BY DEF IInv
  <1> QED BY <1>1, Inductive, PTL

\* The two stores agree about the tickets that were handed out.
THEOREM StoresInSync == Spec => []StoresAgree
  <1>1. IInv => StoresAgree
    BY DEF IInv
  <1> QED BY <1>1, Inductive, PTL

\* After a 201 the host and the agent are there until something takes them.
THEOREM Whole == Spec => []DoneIsWhole
  <1>1. IInv => DoneIsWhole
    BY DEF IInv, SettledStands, DoneIsWhole
  <1> QED BY <1>1, Inductive, PTL

-----------------------------------------------------------------------------
(* What hangs on what *)

\* The token row that a register request is about to hang its agent on.
LinksStand == \A r \in Registers : rlink[r] # None => rlink[r] \in DOMAIN tokens \ Tickets

LInv == RowsHangTogether /\ LinksStand

\* Rows of requests that mirror a token are never deleted.
LEMMA MirrorsStay ==
    ASSUME IInv, Next
    PROVE  DOMAIN tokens \ Tickets \subseteq DOMAIN tokens' \ Tickets
  <1> USE DEF tokenVars, hostVars, dockVars, enrollVars, registerVars, deleteVars
  <1>1. ASSUME NEW t \in Tickets, NEW n \in Names, EnrollInsert(t, n)
        PROVE  DOMAIN tokens \ Tickets \subseteq DOMAIN tokens' \ Tickets
    BY <1>1 DEF EnrollInsert, Upsert
  <1>2. ASSUME NEW t \in Tickets, EnrollRollback(t)
        PROVE  DOMAIN tokens \ Tickets \subseteq DOMAIN tokens' \ Tickets
    BY <1>2 DEF EnrollRollback, Without
  <1>3. ASSUME NEW r \in Registers, MirrorMint(r)
        PROVE  DOMAIN tokens \ Tickets \subseteq DOMAIN tokens' \ Tickets
    BY <1>3 DEF MirrorMint, Upsert
  <1>4. CASE UNCHANGED tokens
    BY <1>4
  <1> QED
    BY <1>1, <1>2, <1>3, <1>4
    DEF Next, Register, EnrollIssue, EnrollIssueFails, Expire, Validate, DockRegister, TrySlug,
        UpsertHost, MirrorFind, InsertAgent, Consume, RegisterFails, OperatorDelete, Cascade,
        DeleteFind, DeleteCollect, DeleteRow, DeleteRevoke, DeleteDone

LEMMA InitHangs == Init => LInv
  <1>1. DOMAIN Empty = {}
    BY DEF Empty
  <1> QED BY <1>1 DEF Init, LInv, RowsHangTogether, LinksStand

LEMMA HostsStep == IInv /\ LInv /\ Next => RowsHangTogether'
  <1> SUFFICES ASSUME IInv, LInv, Next PROVE RowsHangTogether'
    OBVIOUS
  <1> USE DEF tokenVars, hostVars, dockVars, enrollVars, registerVars, deleteVars
  <1>1. DOMAIN tokens \ Tickets \subseteq DOMAIN tokens' \ Tickets
    BY MirrorsStay
  <1>2. ASSUME NEW r \in Registers, UpsertHost(r) PROVE RowsHangTogether'
    <2> DEFINE m == rmachine[r]
    <2>1. agents' = agents /\ HostFits(m, Slug(r))
      BY <1>2 DEF UpsertHost
    <2>2. CASE m \in DOMAIN hosts
      <3>1. hosts' = hosts
        BY <1>2, <2>2 DEF UpsertHost
      <3> QED BY <1>1, <2>1, <3>1 DEF LInv, RowsHangTogether
    <2>3. CASE m \notin DOMAIN hosts
      <3>1. hosts' = Upsert(hosts, m, Slug(r)) /\ \A n \in DOMAIN hosts : hosts[n] # Slug(r)
        BY <1>2, <2>1, <2>3 DEF UpsertHost, HostFits, SlugTaken
      <3>2. /\ DOMAIN hosts' = {m} \cup DOMAIN hosts
            /\ \A n \in DOMAIN hosts' : hosts'[n] = IF n = m THEN Slug(r) ELSE hosts[n]
        BY <3>1 DEF Upsert
      <3> HIDE DEF m
      <3>3. \A n, o \in DOMAIN hosts' : hosts'[n] = hosts'[o] => n = o
        BY <3>1, <3>2 DEF LInv, RowsHangTogether
      <3> QED BY <1>1, <2>1, <3>2, <3>3 DEF LInv, RowsHangTogether
    <2> QED BY <2>2, <2>3
  <1>3. ASSUME NEW r \in Registers, InsertAgent(r) PROVE RowsHangTogether'
    <2> DEFINE n == NameOf(r)
               row == [host |-> rmachine[r], token |-> TokenOf(r)]
    <2>1. /\ rmachine[r] \in DOMAIN hosts /\ rlink[r] \in DOMAIN tokens
          /\ agents' = Upsert(agents, n, row)
          /\ UNCHANGED <<hosts, tokens>>
      BY <1>3 DEF InsertAgent, AgentFits
    <2>2. rlink[r] # None
      BY <2>1, EnrollmentAssumption DEF IInv, TypeOK, IsTable, Ids
    <2>3. TokenOf(r) \in DOMAIN tokens \ Tickets
      BY <2>2 DEF TokenOf, LInv, RowsHangTogether, LinksStand
    <2>4. row.host \in DOMAIN hosts /\ row.token \in DOMAIN tokens \ Tickets
      BY <2>1, <2>3
    <2> HIDE DEF row, n
    <2>5. /\ DOMAIN agents' = {n} \cup DOMAIN agents
          /\ \A k \in DOMAIN agents' : agents'[k] = IF k = n THEN row ELSE agents[k]
      BY <2>1 DEF Upsert
    <2> QED BY <2>1, <2>4, <2>5 DEF LInv, RowsHangTogether
  <1>4. ASSUME NEW m, Cascade(m) PROVE RowsHangTogether'
    <2>1. /\ DOMAIN hosts' = DOMAIN hosts \ {m} /\ \A n \in DOMAIN hosts' : hosts'[n] = hosts[n]
          /\ DOMAIN agents' = DOMAIN agents \ {n \in DOMAIN agents : agents[n].host = m}
          /\ \A n \in DOMAIN agents' : agents'[n] = agents[n]
      BY <1>4 DEF Cascade, Without
    <2> QED BY <1>1, <2>1 DEF LInv, RowsHangTogether
  <1>5. CASE UNCHANGED <<hosts, agents>>
    BY <1>1, <1>5 DEF LInv, RowsHangTogether
  <1> QED
    BY <1>2, <1>3, <1>4, <1>5
    DEF Next, Register, EnrollInsert, EnrollIssue, EnrollIssueFails, EnrollRollback, Expire, Validate,
        DockRegister, TrySlug, MirrorFind, MirrorMint, Consume, RegisterFails, OperatorDelete,
        DeleteFind, DeleteCollect, DeleteRow, DeleteRevoke, DeleteDone

LEMMA LinksStep == IInv /\ LInv /\ Next => LinksStand'
  <1> SUFFICES ASSUME IInv, LInv, Next PROVE LinksStand'
    OBVIOUS
  <1> USE DEF tokenVars, hostVars, dockVars, enrollVars, registerVars, deleteVars
  <1>1. DOMAIN tokens \ Tickets \subseteq DOMAIN tokens' \ Tickets
    BY MirrorsStay
  <1>2. ASSUME NEW r \in Registers, MirrorFind(r) PROVE LinksStand'
    <2>1. \A q \in Registers : \/ rlink'[q] = rlink[q]
                               \/ /\ NameOf(r) \in DOMAIN agents
                                  /\ rlink'[q] = agents[NameOf(r)].token
      BY <1>2 DEF MirrorFind, IInv, TypeOK
    <2> QED BY <1>1, <2>1 DEF LInv, RowsHangTogether, LinksStand
  <1>3. ASSUME NEW r \in Registers, MirrorMint(r) PROVE LinksStand'
    <2>1. /\ \A q \in Registers : rlink'[q] = IF q = r THEN r ELSE rlink[q]
          /\ r \in DOMAIN tokens' /\ r \notin Tickets
      BY <1>3, EnrollmentAssumption DEF MirrorMint, Upsert, IInv, TypeOK
    <2> QED BY <1>1, <2>1 DEF LInv, LinksStand
  <1>4. ASSUME NEW r \in Registers, InsertAgent(r) \/ RegisterFails(r) PROVE LinksStand'
    <2>1. \A q \in Registers : rlink'[q] = IF q = r THEN None ELSE rlink[q]
      BY <1>4 DEF InsertAgent, RegisterFails, IInv, TypeOK
    <2> QED BY <1>1, <2>1 DEF LInv, LinksStand
  <1>5. CASE UNCHANGED rlink
    BY <1>1, <1>5 DEF LInv, LinksStand
  <1> QED
    BY <1>2, <1>3, <1>4, <1>5
    DEF Next, Register, EnrollInsert, EnrollIssue, EnrollIssueFails, EnrollRollback, Expire, Validate,
        DockRegister, TrySlug, UpsertHost, Consume, OperatorDelete, DeleteFind, DeleteCollect,
        DeleteRow, DeleteRevoke, DeleteDone

\* Whatever fails between the statements of an enroll, a register or a delete, the
\* rows hang together, and the cascade of agent_tokens has nothing to take.
THEOREM RowsAlwaysHang == Spec => []RowsHangTogether
  <1>1. LInv /\ UNCHANGED vars => LInv'
    BY DEF LInv, RowsHangTogether, LinksStand, vars, tokenVars, hostVars, registerVars
  <1>2. IInv /\ LInv /\ [Next]_vars => LInv'
    BY <1>1, HostsStep, LinksStep DEF LInv
  <1>3. LInv => RowsHangTogether
    BY DEF LInv
  <1> QED BY <1>2, <1>3, InitHangs, Inductive, PTL DEF Spec

-----------------------------------------------------------------------------
(* Tokens that are lost *)

\* Requests that have been at dock, or have failed before.
Answered == {"slug", "slugged", "hosted", "minting", "mirrored", "inserted", "done"}

\* Dock has an agent because of a request that got a token for it or has failed.
Paid(n) ==
    \E q \in Registers :
        /\ rpc[q] \in Answered \cup {"failed"} /\ NameOf(q) = n
        /\ rpc[q] = "failed" \/ rraw[q] # None

DInv ==
    /\ \A n \in dockAgents : Paid(n)
    /\ \A r \in Registers : rpc[r] \in Answered => NameOf(r) \in dockAgents

\* A register request that has begun keeps its name.
LEMMA NamesStay ==
    ASSUME IInv, Next, NEW r \in Registers, rpc[r] # "idle"
    PROVE  NameOf(r)' = NameOf(r) /\ rpc'[r] # "idle"
  <1> USE DEF At, tokenVars, hostVars, dockVars, enrollVars, registerVars, deleteVars
  <1>1. rticket[r] \in Tickets /\ epc[rticket[r]] = "issued"
    BY DEF IInv, RegistersKnown
  <1>2. rticket'[r] = rticket[r] /\ rpc'[r] # "idle"
    <2>1. ASSUME NEW q \in Registers, NEW t \in Tickets, NEW m \in Machines, Validate(q, t, m)
          PROVE  rticket'[r] = rticket[r] /\ rpc'[r] # "idle"
      BY <2>1 DEF Validate, Presents, IInv, TypeOK
    <2>2. ASSUME NEW q \in Registers, Register(q)
          PROVE  rticket'[r] = rticket[r] /\ rpc'[r] # "idle"
      BY <2>2 DEF IInv, TypeOK, Register, DockRegister, TrySlug, UpsertHost, MirrorFind, MirrorMint,
                  InsertAgent, Consume, RegisterFails
    <2>3. CASE UNCHANGED registerVars
      BY <2>3
    <2> QED
      BY <2>1, <2>2, <2>3
      DEF Next, EnrollInsert, EnrollIssue, EnrollIssueFails, EnrollRollback, Expire, OperatorDelete,
          DeleteFind, DeleteCollect, DeleteRow, DeleteRevoke, DeleteDone
  <1>3. ename'[rticket[r]] = ename[rticket[r]]
    <2>1. ASSUME NEW t \in Tickets, NEW n \in Names, EnrollInsert(t, n)
          PROVE  ename'[rticket[r]] = ename[rticket[r]]
      BY <1>1, <2>1 DEF EnrollInsert, IInv, TypeOK
    <2>2. CASE UNCHANGED ename
      BY <2>2
    <2> QED
      BY <2>1, <2>2
      DEF Next, Register, EnrollIssue, EnrollIssueFails, EnrollRollback, Expire, Validate, DockRegister,
          TrySlug, UpsertHost, MirrorFind, MirrorMint, InsertAgent, Consume, RegisterFails,
          OperatorDelete, DeleteFind, DeleteCollect, DeleteRow, DeleteRevoke, DeleteDone
  <1> QED BY <1>2, <1>3 DEF NameOf

\* What dock knows an agent by stays, and only dock's own call adds an agent.
LEMMA PaidStays ==
    ASSUME IInv, Next, NEW n, Paid(n)
    PROVE  Paid(n)'
  <1> USE DEF At, tokenVars, hostVars, dockVars, enrollVars, registerVars, deleteVars
  <1>1. PICK q \in Registers : /\ rpc[q] \in Answered \cup {"failed"} /\ NameOf(q) = n
                               /\ rpc[q] = "failed" \/ rraw[q] # None
    BY DEF Paid
  <1>2. NameOf(q)' = n
    BY <1>1, NamesStay DEF Answered
  <1>3. rpc'[q] \in Answered \cup {"failed"} /\ (rpc'[q] = "failed" \/ rraw'[q] # None)
    <2>1. ASSUME NEW p \in Registers, NEW t \in Tickets, NEW m \in Machines, Validate(p, t, m)
          PROVE  rpc'[q] = rpc[q] /\ rraw'[q] = rraw[q]
      BY <1>1, <2>1 DEF Answered, Validate, IInv, TypeOK
    <2>2. ASSUME NEW p \in Registers, DockRegister(p)
          PROVE  rpc'[q] = rpc[q] /\ rraw'[q] = rraw[q]
      BY <1>1, <2>2 DEF Answered, DockRegister, IInv, TypeOK
    <2>3. ASSUME NEW p \in Registers,
                 \/ TrySlug(p) \/ UpsertHost(p) \/ MirrorFind(p) \/ MirrorMint(p)
                 \/ InsertAgent(p) \/ Consume(p) \/ RegisterFails(p)
          PROVE  /\ rraw'[q] = rraw[q]
                 /\ \/ rpc'[q] = rpc[q] \/ rpc'[q] = "failed"
                    \/ rpc[q] \in Answered /\ rpc'[q] \in Answered
      BY <2>3 DEF IInv, TypeOK, Answered, TrySlug, UpsertHost, MirrorFind, MirrorMint, InsertAgent,
                  Consume, RegisterFails
    <2>4. CASE UNCHANGED registerVars
      BY <1>1, <2>4
    <2>5. ASSUME NEW p \in Registers, Register(p)
          PROVE  rpc'[q] \in Answered \cup {"failed"} /\ (rpc'[q] = "failed" \/ rraw'[q] # None)
      <3>1. CASE DockRegister(p)
        BY <1>1, <2>2, <3>1
      <3>2. CASE ~ DockRegister(p)
        <4>1. rpc[q] = "failed" => rpc'[q] = "failed"
          BY <2>5, <3>2 DEF IInv, TypeOK, Register, TrySlug, UpsertHost, MirrorFind, MirrorMint,
                            InsertAgent, Consume, RegisterFails
        <4> QED BY <1>1, <2>3, <2>5, <3>2, <4>1 DEF Register
      <3> QED BY <3>1, <3>2
    <2> QED
      BY <1>1, <2>1, <2>4, <2>5
      DEF Next, EnrollInsert, EnrollIssue, EnrollIssueFails, EnrollRollback, Expire, OperatorDelete,
          DeleteFind, DeleteCollect, DeleteRow, DeleteRevoke, DeleteDone
  <1> QED BY <1>2, <1>3 DEF Paid

LEMMA DockStep == IInv /\ DInv /\ Next => DInv'
  <1> SUFFICES ASSUME IInv, DInv, Next PROVE DInv'
    OBVIOUS
  <1> USE DEF At, tokenVars, hostVars, dockVars, enrollVars, registerVars, deleteVars
  <1>1. \A n : Paid(n) => Paid(n)'
    BY PaidStays
  <1>2. \A r \in Registers : rpc[r] # "idle" => NameOf(r)' = NameOf(r)
    BY NamesStay
  <1>3. ASSUME NEW r \in Registers, DockRegister(r) PROVE DInv'
    <2>1. PICK raw \in {r} \cup (IF NameOf(r) \in dockAgents THEN {None} ELSE {}) :
            \/ At(rpc, r, "valid", "slug") /\ rraw' = [rraw EXCEPT ![r] = raw]
            \/ At(rpc, r, "valid", "failed")
      BY <1>3 DEF DockRegister
    <2>2. /\ rpc[r] = "valid" /\ dockAgents' = dockAgents \cup {NameOf(r)}
          /\ \A q \in Registers \ {r} : rpc'[q] = rpc[q]
          /\ rpc'[r] \in {"slug", "failed"}
          /\ (raw # None /\ rpc'[r] = "slug") => rraw'[r] = raw
      BY <1>3, <2>1 DEF DockRegister, IInv, TypeOK
    <2>3. ASSUME NEW n, n = NameOf(r), n \notin dockAgents PROVE Paid(n)'
      <3>1. raw = r /\ r # None
        BY <2>1, <2>3, EnrollmentAssumption
      <3>2. rpc'[r] = "failed" \/ rraw'[r] # None
        BY <2>2, <3>1
      <3>3. NameOf(r)' = n
        BY <1>2, <2>2, <2>3
      <3> QED BY <2>2, <3>2, <3>3 DEF Paid, Answered
    <2>4. ASSUME NEW n \in dockAgents' PROVE Paid(n)'
      <3>1. CASE n \in dockAgents
        BY <1>1, <3>1 DEF DInv
      <3>2. CASE n \notin dockAgents
        <4>1. n = NameOf(r)
          BY <2>2, <3>2
        <4> QED BY <2>3, <3>2, <4>1
      <3> QED BY <3>1, <3>2
    <2>5. \A q \in Registers : rpc'[q] \in Answered => NameOf(q)' \in dockAgents'
      BY <1>2, <2>2 DEF DInv, Answered
    <2> QED BY <2>4, <2>5 DEF DInv
  <1>4. CASE /\ UNCHANGED dockAgents
             /\ \A r \in Registers : rpc'[r] \in Answered => rpc[r] \in Answered
    BY <1>1, <1>2, <1>4 DEF DInv, Answered
  <1>5. ASSUME NEW r \in Registers, NEW t \in Tickets, NEW m \in Machines, Validate(r, t, m)
        PROVE  /\ UNCHANGED dockAgents
               /\ \A q \in Registers : rpc'[q] \in Answered => rpc[q] \in Answered
    BY <1>5 DEF Validate, IInv, TypeOK, Answered
  <1>6. ASSUME NEW r \in Registers,
               \/ TrySlug(r) \/ UpsertHost(r) \/ MirrorFind(r) \/ MirrorMint(r)
               \/ InsertAgent(r) \/ Consume(r) \/ RegisterFails(r)
        PROVE  /\ UNCHANGED dockAgents
               /\ \A q \in Registers : rpc'[q] \in Answered => rpc[q] \in Answered
    BY <1>6 DEF IInv, TypeOK, Answered, TrySlug, UpsertHost, MirrorFind, MirrorMint, InsertAgent,
                Consume, RegisterFails
  <1> QED
    BY <1>3, <1>4, <1>5, <1>6
    DEF Next, Register, EnrollInsert, EnrollIssue, EnrollIssueFails, EnrollRollback, Expire,
        OperatorDelete, DeleteFind, DeleteCollect, DeleteRow, DeleteRevoke, DeleteDone

\* An agent is left without its token by a request that failed, and by nothing else.
THEOREM LostTokensHaveCause == Spec => []LostTokenHasCause
  <1>1. Init => DInv
    BY DEF Init, DInv, Answered
  <1>2. DInv /\ UNCHANGED vars => DInv'
    BY DEF DInv, Paid, NameOf, vars, enrollVars, registerVars, dockVars
  <1>3. IInv /\ DInv /\ [Next]_vars => DInv'
    BY <1>2, DockStep
  <1>4. DInv => LostTokenHasCause
    BY DEF DInv, Paid, Answered, LostTokenHasCause
  <1> QED BY <1>1, <1>3, <1>4, Inductive, PTL DEF Spec
=============================================================================
