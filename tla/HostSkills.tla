----------------------------- MODULE HostSkills -----------------------------
(***************************************************************************)
(* What hangs on a hosts row: the skills its agents advertise, their       *)
(* credentials, the requests of admins who name a skill by its id, and the *)
(* saved console layouts that do the same.  A deletion takes skills and    *)
(* credentials along (ON DELETE CASCADE); requests and layouts keep the id.*)
(***************************************************************************)
EXTENDS Naturals, FiniteSets, HostLinks

CONSTANTS Kinds, Names, Keys, Values,
          MasterKeys,      \* values of POLAR_CREDENTIAL_KEY
          MaxSkill,        \* bound on the ids the sequence hands out
          MaxRows,         \* bound on the credentials and layouts stored at a time
          Requests,        \* requests of admins to rename or to set a credential
          ActiveIn,        \* the workspace such a request is made in
          Layouts          \* ids of layouts

SkillIds   == 1 .. MaxSkill
SkillRows  == [host : Hosts, kind : Kinds, name : Names]
Sealed     == [value : Values, under : MasterKeys]
CredRows   == [cipher : Sealed \cup {None}, plain : Values \cup {None}, encrypted : BOOLEAN]
Panes      == [host : Hosts, skill : SkillIds, kind : Kinds]

ASSUME SkillsAssumption ==
    /\ MaxSkill \in Nat /\ MaxRows \in Nat
    /\ Kinds \subseteq Names       \* a skill is first named after its kind
    /\ ActiveIn \in [Requests -> Workspaces]
    /\ None \notin Values \cup MasterKeys \cup Names \cup Workspaces
    /\ None \notin Sealed

VARIABLES skills,      \* host_skills
          nextSkill,   \* its sequence (BIGSERIAL)
          creds,       \* host_skill_credentials by skill and key
          master,      \* polarCredentialKey, None when not configured
          rpc, rhost, rskill,   \* requests: where they are, what they name
          ahead,       \* history: requests that named an id not handed out yet
          layouts,     \* console_layouts; kind is history: what the pane was saved for
          stored       \* history: the value last put under a key

requestVars == <<rpc, rhost, rskill, ahead>>
skillVars == <<skills, nextSkill, creds, master, requestVars, layouts, stored>>
vars == <<linkVars, skillVars>>

\* Types, the foreign keys and UNIQUE (host_id, kind) (hosts-schema.sql).
SkillsOK ==
    /\ IsTable(skills, SkillIds, SkillRows)
    /\ nextSkill \in 1 .. MaxSkill + 1
    /\ \A s \in DOMAIN skills : s < nextSkill /\ skills[s].host \in DOMAIN hosts
    /\ \A s, t \in DOMAIN skills :
         skills[s].host = skills[t].host /\ skills[s].kind = skills[t].kind => s = t

CredsOK ==
    /\ IsTable(creds, SkillIds \X Keys, CredRows)
    /\ \A c \in DOMAIN creds : c[1] \in DOMAIN skills
    /\ master \in MasterKeys \cup {None}
    /\ IsTable(stored, SkillIds \X Keys, Values)
    /\ DOMAIN creds = DOMAIN stored

RequestsOK ==
    /\ rpc \in [Requests -> {"idle", "host", "granted"}]
    /\ rhost \in [Requests -> Hosts \cup {None}]
    /\ rskill \in [Requests -> SkillIds \cup {0}]
    /\ ahead \subseteq Requests

TypeOK == LinksTypeOK /\ SkillsOK /\ CredsOK /\ RequestsOK /\ IsTable(layouts, Layouts, Panes)

Init ==
    /\ LinksInit
    /\ skills = Empty
    /\ nextSkill = 1
    /\ creds = Empty
    /\ master \in MasterKeys \cup {None}
    /\ rpc = [q \in Requests |-> "idle"]
    /\ rhost = [q \in Requests |-> None]
    /\ rskill = [q \in Requests |-> 0]
    /\ ahead = {}
    /\ layouts = Empty
    /\ stored = Empty

-----------------------------------------------------------------------------
(* ensureHostSkillFromAdvertise *)

\* Mutant of NewSkill: ids are taken up again, as MAX(id) + 1 would.
NewSkillReused(h, k) ==
    LET s == CHOOSE n \in SkillIds \cup {MaxSkill + 1} :
               n \notin DOMAIN skills /\ \A m \in DOMAIN skills : m < n
                 /\ \A m2 \in 1 .. n - 1 : m2 \in DOMAIN skills \/ \E m3 \in DOMAIN skills : m2 < m3
    IN  /\ s \in SkillIds
        /\ skills' = Upsert(skills, s, [host |-> h, kind |-> k, name |-> k])
        /\ nextSkill' = s + 1

NewSkill(h, k) ==
    /\ nextSkill <= MaxSkill
    /\ skills' = Upsert(skills, nextSkill, [host |-> h, kind |-> k, name |-> k])
    /\ nextSkill' = nextSkill + 1

\* Mutant of EnsureSkill: the conflict clause also sets name = EXCLUDED.name.
EnsureSkillNames(h, k) ==
    LET row == {s \in DOMAIN skills : skills[s].host = h /\ skills[s].kind = k}
    IN  /\ h \in DOMAIN hosts
        /\ \/ row = {} /\ NewSkill(h, k)
           \/ /\ row # {}
              /\ skills' = [s \in DOMAIN skills |-> IF s \in row THEN [skills[s] EXCEPT !.name = k] ELSE skills[s]]
              /\ nextSkill' = nextSkill
        /\ UNCHANGED <<creds, master, requestVars, layouts, stored>>

\* A row that is there keeps its id and its name; what the agent says of its
\* capabilities is left out.
EnsureSkill(h, k) ==
    LET known == \E s \in DOMAIN skills : skills[s].host = h /\ skills[s].kind = k
    IN  /\ h \in DOMAIN hosts
        /\ \/ ~known /\ NewSkill(h, k)
           \/ known /\ UNCHANGED <<skills, nextSkill>>
        /\ UNCHANGED <<creds, master, requestVars, layouts, stored>>

\* skill.advertise on a connection: for the host it was given.
Advertise(l, k) ==
    /\ l \in up
    /\ hostOf[l] # None
    /\ healing[l] = None
    /\ EnsureSkill(hostOf[l], k)
    /\ UNCHANGED linkVars

\* The same, forwarded by dock for an agent that is connected there.
Touch(h, k) ==
    /\ EnsureSkill(h, k)
    /\ UNCHANGED linkVars

-----------------------------------------------------------------------------
(* The requests of an admin: resolveHostSkillAdmin, then the statement.    *)
(* The client names any id, of a skill that is there, was or may be.       *)

CheckHost(q, h, s) ==
    /\ rpc[q] = "idle"
    /\ h \in DOMAIN hosts
    /\ hosts[h].ws = ActiveIn[q]
    /\ rpc' = [rpc EXCEPT ![q] = "host"]
    /\ rhost' = [rhost EXCEPT ![q] = h]
    /\ rskill' = [rskill EXCEPT ![q] = s]
    /\ ahead' = IF s < nextSkill THEN ahead ELSE ahead \cup {q}
    /\ UNCHANGED <<linkVars, skills, nextSkill, creds, master, layouts, stored>>

\* The end of a request.
Reply(q) ==
    /\ rpc' = [rpc EXCEPT ![q] = "idle"]
    /\ rhost' = [rhost EXCEPT ![q] = None]
    /\ rskill' = [rskill EXCEPT ![q] = 0]
    /\ ahead' = ahead \ {q}

Owns(q) == rskill[q] \in DOMAIN skills /\ skills[rskill[q]].host = rhost[q]

CheckSkill(q) ==
    /\ rpc[q] = "host"
    /\ Owns(q)
    /\ rpc' = [rpc EXCEPT ![q] = "granted"]
    /\ UNCHANGED <<linkVars, skills, nextSkill, creds, master, rhost, rskill, ahead, layouts, stored>>

Refuse(q) ==
    /\ rpc[q] = "host"
    /\ ~Owns(q)
    /\ Reply(q)
    /\ UNCHANGED <<linkVars, skills, nextSkill, creds, master, layouts, stored>>

\* Granted, but the statement fails or finds no row any more.
GiveUp(q) ==
    /\ rpc[q] = "granted"
    /\ Reply(q)
    /\ UNCHANGED <<linkVars, skills, nextSkill, creds, master, layouts, stored>>

\* updateHostSkillName
Rename(q, n) ==
    /\ rpc[q] = "granted"
    /\ rskill[q] \in DOMAIN skills
    /\ skills' = [skills EXCEPT ![rskill[q]].name = n]
    /\ Reply(q)
    /\ UNCHANGED <<linkVars, nextSkill, creds, master, layouts, stored>>

\* encryptCoderCredential and its caller's choice of the column.
Row(v) ==
    IF master = None THEN [cipher |-> None, plain |-> v, encrypted |-> FALSE]
                     ELSE [cipher |-> [value |-> v, under |-> master], plain |-> None, encrypted |-> TRUE]

\* Mutant of Written: ON CONFLICT leaves the column `encrypted` as it is.
WrittenMixed(c, v) == IF c \in DOMAIN creds THEN [Row(v) EXCEPT !.encrypted = creds[c].encrypted] ELSE Row(v)

\* The row after the upsert: all three columns are EXCLUDED's.
Written(c, v) == Row(v)

\* upsertHostSkillCredential; the foreign key wants the skill.
PutCredential(q, k, v) ==
    LET c == <<rskill[q], k>>
    IN  /\ rpc[q] = "granted"
        /\ rskill[q] \in DOMAIN skills
        /\ Cardinality(DOMAIN creds \cup {c}) + Cardinality(DOMAIN layouts) <= MaxRows
        /\ creds' = Upsert(creds, c, Written(c, v))
        /\ stored' = Upsert(stored, c, v)
        /\ Reply(q)
        /\ UNCHANGED <<linkVars, skills, nextSkill, master, layouts>>

\* deleteHostSkillCredential
DeleteCredential(q, k) ==
    /\ rpc[q] = "granted"
    /\ creds' = Without(creds, {<<rskill[q], k>>})
    /\ stored' = Without(stored, {<<rskill[q], k>>})
    /\ Reply(q)
    /\ UNCHANGED <<linkVars, skills, nextSkill, master, layouts>>

\* fetchHostSkillCredentialPlaintext, None for its error.
Plaintext(c) ==
    LET r == creds[c]
    IN  IF ~r.encrypted THEN r.plain
        ELSE IF r.cipher = None \/ master = None THEN None
        ELSE IF r.cipher.under = master THEN r.cipher.value ELSE None

-----------------------------------------------------------------------------
(* Console layouts, each with one pane.  A page saves what it has listed;  *)
(* the store checks the shape of the ids and not that they exist.          *)

PaneOf(s) == [host |-> skills[s].host, skill |-> s, kind |-> skills[s].kind]

CreateLayout(y, s) ==
    /\ y \notin DOMAIN layouts
    /\ Cardinality(DOMAIN creds) + Cardinality(DOMAIN layouts) < MaxRows
    /\ s \in DOMAIN skills
    /\ layouts' = Upsert(layouts, y, PaneOf(s))
    /\ UNCHANGED <<linkVars, skills, nextSkill, creds, master, requestVars, stored>>

UpdateLayout(y, s) ==
    /\ y \in DOMAIN layouts
    /\ s \in DOMAIN skills
    /\ layouts' = [layouts EXCEPT ![y] = PaneOf(s)]
    /\ UNCHANGED <<linkVars, skills, nextSkill, creds, master, requestVars, stored>>

DeleteLayout(y) ==
    /\ y \in DOMAIN layouts
    /\ layouts' = Without(layouts, {y})
    /\ UNCHANGED <<linkVars, skills, nextSkill, creds, master, requestVars, stored>>

-----------------------------------------------------------------------------
\* Mutant of Cascade: host_skill_credentials has no ON DELETE CASCADE.
CascadeSkills(h) ==
    /\ skills' = Without(skills, {s \in DOMAIN skills : skills[s].host = h})
    /\ UNCHANGED <<creds, stored>>

Cascade(h) ==
    LET gone == {s \in DOMAIN skills : skills[s].host = h}
        lost == {c \in DOMAIN creds : c[1] \in gone}
    IN  /\ skills' = Without(skills, gone)
        /\ creds' = Without(creds, lost)
        /\ stored' = Without(stored, lost)

\* handleHostDelete and handleInternalHostDelete.
DeleteHost(h) ==
    /\ DropHost(h)
    /\ Cascade(h)
    /\ UNCHANGED <<nextSkill, master, requestVars, layouts>>

\* hosts-svc starts again, with the key its environment has now.
Restart(m) ==
    /\ master' = m
    /\ up' = {}
    /\ hostOf' = [l \in Links |-> None]
    /\ healing' = [l \in Links |-> None]
    /\ rpc' = [q \in Requests |-> "idle"]
    /\ rhost' = [q \in Requests |-> None]
    /\ rskill' = [q \in Requests |-> 0]
    /\ ahead' = {}
    /\ UNCHANGED <<hosts, agents, foreign, skills, nextSkill, creds, layouts, stored>>

-----------------------------------------------------------------------------
Link(l) ==
    /\ \/ \E w \in Workspaces : InsertHost(l, w)
       \/ \E b \in Bots \cup {None} : InsertAgent(l, b)
       \/ Connect(l)
       \/ LazyResolve(l)
       \/ Heal(l)
       \/ Disconnect(l)
    /\ UNCHANGED skillVars

Admin(q) ==
    \/ \E h \in Hosts, s \in SkillIds : CheckHost(q, h, s)
    \/ CheckSkill(q)
    \/ Refuse(q)
    \/ GiveUp(q)
    \/ \E n \in Names : Rename(q, n)
    \/ \E k \in Keys, v \in Values : PutCredential(q, k, v)
    \/ \E k \in Keys : DeleteCredential(q, k)

Next ==
    \/ \E l \in Links : Link(l)
    \/ \E l \in Links, k \in Kinds : Advertise(l, k)
    \/ \E h \in Hosts, k \in Kinds : Touch(h, k)
    \/ \E q \in Requests : Admin(q)
    \/ \E y \in Layouts, s \in SkillIds : CreateLayout(y, s) \/ UpdateLayout(y, s)
    \/ \E y \in Layouts : DeleteLayout(y)
    \/ \E h \in Hosts : DeleteHost(h)
    \/ \E m \in MasterKeys \cup {None} : Restart(m)

Spec == Init /\ [][Next]_vars

-----------------------------------------------------------------------------
\* The two SELECTs of resolveHostSkillAdmin are no transaction: a host can be
\* deleted between them, and registered again in another workspace under the
\* same id.  A request that was granted still acts on a skill of the host it
\* named or on nothing, and that host is in the workspace it was granted for,
\* unless the request was ahead of the sequence: then the skill may have come
\* into being after the host moved.
GrantHolds ==
    \A q \in Requests :
        rpc[q] = "granted" /\ rskill[q] \in DOMAIN skills =>
            /\ skills[rskill[q]].host = rhost[q]
            /\ q \notin ahead => hosts[rhost[q]].ws = ActiveIn[q]

\* A saved pane opens the skill it was saved for or none, though layouts are not
\* cleaned up when hosts are deleted, registered and advertised again.
PaneNeverRetargets ==
    \A y \in DOMAIN layouts : LET pane == layouts[y] IN
        pane.skill \in DOMAIN skills =>
            /\ skills[pane.skill].host = pane.host
            /\ skills[pane.skill].kind = pane.kind

\* Only an admin's rename changes a skill's name: agents advertise again at
\* every reconnect (ensureHostSkillFromAdvertise) and must not undo it.
RenameSticks ==
    [][\A s \in DOMAIN skills \cap DOMAIN skills' :
         skills'[s].name # skills[s].name => \E q \in Requests : rpc[q] = "granted" /\ rskill[q] = s]_vars

\* A stored credential reads back as what was last put, or as an error if it was
\* encrypted under a key that is not the present one, through any sequence
\* of upserts with encryption on, off and under other keys; and no plaintext stays
\* beside a ciphertext.
CredentialReadsBack ==
    \A c \in DOMAIN creds :
        /\ Plaintext(c) # None => Plaintext(c) = stored[c]
        /\ Plaintext(c) = None => creds[c].cipher # None /\ creds[c].cipher.under # master
        /\ creds[c].encrypted => creds[c].plain = None
=============================================================================
