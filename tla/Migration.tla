------------------------------ MODULE Migration ------------------------------
(***************************************************************************)
(* internal/migration: idpctl copies an Ory Kratos instance into a tenant, *)
(* one statement after another and none in a transaction, while Kratos and *)
(* the tenant are both in service.  A run that fails or is stopped may be  *)
(* followed by another; an operator has one at a time.                     *)
(*                                                                         *)
(* Every action is one statement of the run, or one of a newcomer or an    *)
(* administrator that it may meet.  A row is named by who inserts it:      *)
(* <<m, k>> is the identity that run m makes for person k, <<m, p>> the    *)
(* provider row it makes for Kratos' provider p.  Kratos' rows come in no  *)
(* particular order, so a run takes any of those that are left.            *)
(***************************************************************************)
EXTENDS Provisioning, Naturals, FiniteSets

CONSTANTS
  Person,      \* identities in Kratos' database
  AtFirst,     \* those who are there at the start, others sign up later
  Inactive,    \* those whose state is "inactive"; any other state is active
  PasswordOf,  \* PasswordOf[k]: identifiers of k's password, {} if it has no
               \*   password, or one without identifiers or without a hash
  HashOf,      \* HashOf[k]: the algorithm of that hash
  EntriesOf,   \* EntriesOf[k]: the <<provider id, subject>> of k's oidc credential
  KratosProvider, \* provider ids that entries mention
  Configured,  \* the provider ids in kratos.yml
  ListedAt,    \* ListedAt[p]: where in the list of kratos.yml p is
  Kind,        \* Kind[p]: the "provider" of p, google or generic
  Subject,
  Email,       \* identifiers of passwords
  Token,       \* active sessions in Kratos, by their token
  Holder,      \* Holder[t]: whose session t is
  Enabled,     \* the methods enabled in kratos.yml
  admin,       \* who creates provider rows by hand
  ByHand,      \* bound: the providers for which this may happen
  Wishes,      \* bound: type and identifier of what newcomers ask for
  Deletable,   \* bound: the rows that may be deleted
  Interventions, \* bound: how often an administrator creates or deletes a row
  Nobody       \* no person, no provider, no row

ProviderRow == (Run \cup {admin}) \X KratosProvider

ASSUME MigrationAssumption ==
  /\ Identity = Newcomer \cup (Run \X Person)
  /\ Newcomer \cap (Run \X Person) = {}
  /\ AtFirst \subseteq Person /\ Inactive \subseteq Person
  /\ Identifier = Email \cup (ProviderRow \X Subject)
  /\ PasswordOf \in [Person -> SUBSET Email]
  /\ HashOf \in [Person -> {"bcrypt", "argon2id"}]
  /\ EntriesOf \in [Person -> SUBSET (KratosProvider \X Subject)]
  /\ Configured \subseteq KratosProvider /\ ListedAt \in [Configured -> Nat]
  /\ ByHand \subseteq KratosProvider /\ Deletable \subseteq ProviderRow
  /\ Wishes \subseteq ({password} \X Email) \cup ({oidc} \X (ProviderRow \X Subject))
  /\ Holder \in [Token -> Person]
  /\ Enabled \subseteq Method
  /\ Nobody \notin Person \cup KratosProvider \cup ProviderRow
  /\ admin \notin Run

\* Kratos' unique index on identifiers: that of a password names one person.
ASSUME KratosNamesAssumption ==
  \A k, l \in Person : PasswordOf[k] \cap PasswordOf[l] # {} => k = l

VARIABLES
  tenant,      \* the row of tenants is there
  policy,      \* allowed_first_factors of the tenant's login policy
  providers,   \* providers[x]: the row x of tenant_sso_providers
  sessions,    \* sessions[t]: identity_id of the session with token t
  kratos,      \* the people Kratos has
  run          \* run[m]: where run m is, and its locals

migrationVars == <<tenant, policy, providers, sessions, kratos, run,
                   accounts, credentials, schemas, npc, wanted>>

RunPC == {"idle", "tenant", "schema", "insert_schema", "policy", "sso",
          "insert_provider", "read", "identities", "read_sessions", "sessions",
          "done", "stopped"}

RunLocals ==
  [pc : RunPC,
   map : [KratosProvider -> ProviderRow \cup {Nobody}],  \* providerMap
   provider : KratosProvider \cup {Nobody},  \* to be inserted
   seen : SUBSET Person,                     \* kratosIdentities
   left : SUBSET Person,                     \* those still to be inserted
   person : Person \cup {Nobody},            \* ki, the last one inserted
   password : BOOLEAN,                       \* its password is still to do
   entries : SUBSET (KratosProvider \X Subject), \* and these entries
   tokens : SUBSET Token,                    \* sessions still to do
   warned : SUBSET Person]                   \* history: whose statement failed

NotBegun == [pc |-> "idle", map |-> [p \in KratosProvider |-> Nobody],
             provider |-> Nobody, seen |-> {}, left |-> {}, person |-> Nobody,
             password |-> FALSE, entries |-> {}, tokens |-> {}, warned |-> {}]

Over(m)     == run[m].pc \in {"done", "stopped"}
Underway(m) == run[m].pc # "idle" /\ ~ Over(m)

ProviderState == {"absent", "present", "deleted"}

MigrationTypeOK ==
  /\ ProvisioningTypeOK
  /\ tenant \in BOOLEAN
  /\ policy \subseteq Method
  /\ providers \in [ProviderRow -> ProviderState]
  /\ sessions \in [Token -> Owner]
  /\ kratos \subseteq Person
  /\ run \in [Run -> RunLocals]

\* policy.Default allows password.
MigrationInit ==
  /\ ProvisioningInit
  /\ tenant \in BOOLEAN
  /\ policy = {password}
  /\ providers = [x \in ProviderRow |-> "absent"]
  /\ sessions = [t \in Token |-> NoIdentity]
  /\ kratos = AtFirst
  /\ run = [m \in Run |-> NotBegun]

-----------------------------------------------------------------------------
\* Around the run.

(* The middleware finds the tenant, an OIDC login its provider.            *)
Ask(r) ==
  /\ NewcomerGoto(r, "idle", "check")
  /\ tenant
  /\ \E key \in Wishes :
       /\ key[1] = oidc => providers[key[2][1]] = "present"
       /\ wanted' = [wanted EXCEPT ![r] = key]
  /\ UNCHANGED <<accounts, credentials, schemas>>
  /\ UNCHANGED <<tenant, policy, providers, sessions, kratos, run>>

Provision(r) ==
  /\ ServeNewcomer(r)
  /\ UNCHANGED <<tenant, policy, providers, sessions, kratos, run>>

MayIntervene ==
  Cardinality({x \in ProviderRow : providers[x] = "deleted"}) +
    Cardinality({p \in KratosProvider : providers[<<admin, p>>] # "absent"})
    < Interventions

(* POST and DELETE of /admin/sso/providers                                 *)
CreateProvider(p) ==
  /\ tenant
  /\ MayIntervene
  /\ providers[<<admin, p>>] = "absent"
  /\ providers' = [providers EXCEPT ![<<admin, p>>] = "present"]
  /\ UNCHANGED <<tenant, policy, sessions, kratos, run, accounts, credentials,
                 provisioningVars>>

DeleteProvider(x) ==
  /\ MayIntervene
  /\ providers[x] = "present"
  /\ providers' = [providers EXCEPT ![x] = "deleted"]
  /\ UNCHANGED <<tenant, policy, sessions, kratos, run, accounts, credentials,
                 provisioningVars>>

(* Kratos is in service: somebody registers there.                         *)
SignUp(k) ==
  /\ k \notin kratos
  /\ kratos' = kratos \cup {k}
  /\ UNCHANGED <<tenant, policy, providers, sessions, run, accounts, credentials,
                 provisioningVars>>

-----------------------------------------------------------------------------
\* The steps of Run.

At(m, step) == run[m].pc = step
Goto(m, step) == run' = [run EXCEPT ![m].pc = step]

Begin(m) ==
  /\ At(m, "idle")
  /\ \A n \in Run : ~ Underway(n)
  /\ Goto(m, "tenant")
  /\ UNCHANGED <<tenant, policy, providers, sessions, kratos, accounts,
                 credentials, provisioningVars>>

EnsureTenant(m) ==
  /\ At(m, "tenant")
  /\ tenant' = TRUE
  /\ Goto(m, "schema")
  /\ UNCHANGED <<policy, providers, sessions, kratos, accounts, credentials,
                 provisioningVars>>

(* FetchSchema, then the old schemas are deactivated ...                   *)
DeactivateSchemas(m) ==
  /\ At(m, "schema")
  /\ schemas' = [w \in Newcomer \cup Run |->
                   IF schemas[w] = "active" THEN "inactive" ELSE schemas[w]]
  /\ Goto(m, "insert_schema")
  /\ UNCHANGED <<tenant, policy, providers, sessions, kratos, accounts,
                 credentials, npc, wanted>>

\* Slip: the new schema is inserted first and deactivated with the old ones.
SlipDeactivateLast(m) ==
  /\ At(m, "insert_schema")
  /\ schemas' = [w \in Newcomer \cup Run |->
                   IF w = m \/ schemas[w] = "active" THEN "inactive" ELSE schemas[w]]
  /\ Goto(m, "policy")
  /\ UNCHANGED <<tenant, policy, providers, sessions, kratos, accounts,
                 credentials, npc, wanted>>

(* ... and Kratos' default schema becomes version 1.                       *)
MigrateSchema(m) ==
  /\ At(m, "insert_schema")
  /\ InsertSchema(m)
  /\ Goto(m, "policy")
  /\ UNCHANGED <<tenant, policy, providers, sessions, kratos, accounts,
                 credentials, npc, wanted>>

AllowedFirstFactors == Enabled

(* The upsert of the whole policy.                                         *)
MigratePolicy(m) ==
  /\ At(m, "policy")
  /\ policy' = AllowedFirstFactors
  /\ Goto(m, "sso")
  /\ UNCHANGED <<tenant, providers, sessions, kratos, accounts, credentials,
                 provisioningVars>>

\* Slip: a row made for another provider id does not count.
SlipSameProvider(m, p) ==
  {x \in ProviderRow : providers[x] = "present" /\ x = <<m, p>>}

RowsOfKind(m, p) ==
  {x \in ProviderRow : providers[x] = "present" /\ Kind[x[2]] = Kind[p]}

\* The providers whose turn has not come.
ToMap(m) == {p \in Configured : run[m].map[p] = Nobody}

(* The next in the list: SELECT ... WHERE provider = kind LIMIT 1 ...      *)
FindProvider(m) ==
  /\ At(m, "sso")
  /\ \E p \in ToMap(m) :
       /\ \A q \in ToMap(m) : ListedAt[p] <= ListedAt[q]
       /\ \/ \E x \in RowsOfKind(m, p) : run' = [run EXCEPT ![m].map[p] = x]
          \/ /\ RowsOfKind(m, p) = {}
             /\ run' = [run EXCEPT ![m].pc = "insert_provider",
                                   ![m].provider = p]
  /\ UNCHANGED <<tenant, policy, providers, sessions, kratos, accounts,
                 credentials, provisioningVars>>

(* ... or a row is inserted.                                               *)
InsertProvider(m) ==
  LET p == run[m].provider
  IN  /\ At(m, "insert_provider")
      /\ providers' = [providers EXCEPT ![<<m, p>>] = "present"]
      /\ run' = [run EXCEPT ![m].pc = "sso", ![m].provider = Nobody,
                            ![m].map[p] = <<m, p>>]
      /\ UNCHANGED <<tenant, policy, sessions, kratos, accounts, credentials,
                     provisioningVars>>

ProvidersMapped(m) ==
  /\ At(m, "sso")
  /\ \A p \in Configured : run[m].map[p] # Nobody
  /\ Goto(m, "read")
  /\ UNCHANGED <<tenant, policy, providers, sessions, kratos, accounts,
                 credentials, provisioningVars>>

(* Identities and Credentials of the KratosReader.                         *)
ReadKratos(m) ==
  /\ At(m, "read")
  /\ run' = [run EXCEPT ![m].pc = "identities", ![m].seen = kratos,
                        ![m].left = kratos]
  /\ UNCHANGED <<tenant, policy, providers, sessions, kratos, accounts,
                 credentials, provisioningVars>>

CredentialsDone(m) == ~ run[m].password /\ run[m].entries = {}

\* Slip: the state is kept as Kratos has it.
SlipKeepState(k) == IF k \in Inactive THEN "inactive" ELSE "active"

MigratedState(k) == IF k \in Inactive THEN "pending_verification" ELSE "active"

\* Slip: an entry of an unknown provider ends the credential.
SlipReturn(m, k) ==
  {e \in EntriesOf[k] : \A d \in EntriesOf[k] : run[m].map[d[1]] # Nobody}

\* An entry of a provider that is not mapped is skipped without a statement.
KnownEntries(m, k) == {e \in EntriesOf[k] : run[m].map[e[1]] # Nobody}

(* The next identity is inserted, its credentials are next.                *)
InsertIdentity(m) ==
  /\ At(m, "identities") /\ CredentialsDone(m)
  /\ \E k \in run[m].left :
       /\ CreateIdentity(<<m, k>>, MigratedState(k))
       /\ run' = [run EXCEPT ![m].left = @ \ {k}, ![m].person = k,
                             ![m].password = (PasswordOf[k] # {}),
                             ![m].entries = KnownEntries(m, k)]
  /\ UNCHANGED <<tenant, policy, providers, sessions, kratos, credentials,
                 provisioningVars>>

\* Slip: the credentials of a skipped identity are not skipped.
SlipKeepCredentials(m) ==
  /\ At(m, "identities") /\ CredentialsDone(m)
  /\ \E k \in run[m].left :
       run' = [run EXCEPT ![m].left = @ \ {k}, ![m].warned = @ \cup {k},
                          ![m].person = k, ![m].entries = KnownEntries(m, k)]
  /\ UNCHANGED <<tenant, policy, providers, sessions, kratos, accounts,
                 credentials, provisioningVars>>

(* An insert that fails skips the person, with a warning.                  *)
SkipIdentity(m) ==
  /\ At(m, "identities") /\ CredentialsDone(m)
  /\ \E k \in run[m].left :
       run' = [run EXCEPT ![m].left = @ \ {k}, ![m].warned = @ \cup {k}]
  /\ UNCHANGED <<tenant, policy, providers, sessions, kratos, accounts,
                 credentials, provisioningVars>>

\* Slip: ON CONFLICT takes the credential over, as UpsertCredential does.
SlipTakeOver(i, type, names) ==
  credentials' = {c \in credentials : ~ (c.type = type /\ c.names = names)}
                 \cup {[identity |-> i, type |-> type, names |-> names]}

(* INSERT ... ON CONFLICT DO NOTHING                                       *)
AddUnlessTaken(i, type, names) ==
  \/ CreateCredential(i, type, names)
  \/ /\ \E c \in credentials : c.type = type /\ c.names = names
     /\ UNCHANGED credentials

MigratePassword(m) ==
  /\ At(m, "identities") /\ run[m].password
  /\ AddUnlessTaken(<<m, run[m].person>>, password, PasswordOf[run[m].person])
  /\ run' = [run EXCEPT ![m].password = FALSE]
  /\ UNCHANGED <<tenant, policy, providers, sessions, kratos, accounts,
                 provisioningVars>>

MigrateEntry(m) ==
  /\ At(m, "identities")
  /\ \E e \in run[m].entries :
       /\ AddUnlessTaken(<<m, run[m].person>>, oidc,
                         {<<run[m].map[e[1]], e[2]>>})
       /\ run' = [run EXCEPT ![m].entries = @ \ {e}]
  /\ UNCHANGED <<tenant, policy, providers, sessions, kratos, accounts,
                 provisioningVars>>

(* A failing statement ends its Kratos credential, with a warning.         *)
SkipCredential(m) ==
  /\ At(m, "identities")
  /\ \/ run[m].password /\ run' = [run EXCEPT ![m].password = FALSE,
                                    ![m].warned = @ \cup {run[m].person}]
     \/ run[m].entries # {} /\ run' = [run EXCEPT ![m].entries = {},
                                    ![m].warned = @ \cup {run[m].person}]
  /\ UNCHANGED <<tenant, policy, providers, sessions, kratos, accounts,
                 credentials, provisioningVars>>

(* The last identity is done: the run ends, or goes on to the sessions.    *)
EndIdentities(m) ==
  /\ At(m, "identities") /\ CredentialsDone(m)
  /\ run[m].left = {}
  /\ \E step \in {"done", "read_sessions"} :
       run' = [run EXCEPT ![m].pc = step, ![m].person = Nobody]
  /\ UNCHANGED <<tenant, policy, providers, sessions, kratos, accounts,
                 credentials, provisioningVars>>

IdentityMap(m) == {k \in run[m].seen : accounts[<<m, k>>] # "absent"}

(* Some of Kratos' sessions are active; those of unknown people do not count. *)
ReadSessions(m) ==
  /\ At(m, "read_sessions")
  /\ \E ts \in SUBSET {t \in Token : Holder[t] \in IdentityMap(m)} :
       run' = [run EXCEPT ![m].pc = "sessions", ![m].tokens = ts]
  /\ UNCHANGED <<tenant, policy, providers, sessions, kratos, accounts,
                 credentials, provisioningVars>>

(* ON CONFLICT (token) DO NOTHING, and a failure is only a warning.        *)
MigrateSession(m) ==
  /\ At(m, "sessions")
  /\ \E t \in run[m].tokens :
       /\ run' = [run EXCEPT ![m].tokens = @ \ {t}]
       /\ sessions' \in {sessions, [sessions EXCEPT ![t] =
             IF @ = NoIdentity THEN <<m, Holder[t]>> ELSE @]}
  /\ UNCHANGED <<tenant, policy, providers, kratos, accounts, credentials,
                 provisioningVars>>

EndSessions(m) ==
  /\ At(m, "sessions")
  /\ run[m].tokens = {}
  /\ Goto(m, "done")
  /\ UNCHANGED <<tenant, policy, providers, sessions, kratos, accounts,
                 credentials, provisioningVars>>

(* A statement whose failure is fatal, the deadline of 30 minutes, or a    *)
(* stop of the process: the locals are gone, what was written stays.       *)
Stop(m) ==
  /\ Underway(m)
  /\ run' = [run EXCEPT ![m] = [NotBegun EXCEPT !.pc = "stopped"]]
  /\ UNCHANGED <<tenant, policy, providers, sessions, kratos, accounts,
                 credentials, provisioningVars>>

Migrate(m) ==
  \/ EnsureTenant(m)   \/ DeactivateSchemas(m) \/ MigrateSchema(m)
  \/ MigratePolicy(m)  \/ FindProvider(m)      \/ InsertProvider(m)
  \/ ProvidersMapped(m) \/ ReadKratos(m)       \/ InsertIdentity(m)
  \/ SkipIdentity(m)   \/ MigratePassword(m)   \/ MigrateEntry(m)
  \/ SkipCredential(m) \/ EndIdentities(m)     \/ ReadSessions(m)
  \/ MigrateSession(m) \/ EndSessions(m)       \/ Stop(m)

MigrationNext ==
  \/ \E m \in Run : Begin(m) \/ Migrate(m)
  \/ \E r \in Newcomer : Ask(r) \/ Provision(r)
  \/ \E p \in ByHand : CreateProvider(p)
  \/ \E x \in Deletable : DeleteProvider(x)
  \/ \E k \in Person : SignUp(k)

MigrationSpec == MigrationInit /\ [][MigrationNext]_migrationVars

-----------------------------------------------------------------------------
\* What names k's credentials in the tenant, after run m.
Keys(m, k) ==
  ({password} \X PasswordOf[k]) \cup
  {<<oidc, <<run[m].map[e[1]], e[2]>>>> : e \in {d \in EntriesOf[k] :
                                                d[1] \in Configured}}

\* Who has the same key in the tenant as k: providers of one kind share a row
\* there (FindProvider), so that equal subjects at two of them become one.
SharedBy(k, key) ==
  {k} \cup {l \in Person : key[1] = oidc /\ \E e \in EntriesOf[l] :
             e[1] \in Configured /\ Kind[e[1]] = Kind[key[2][1][2]]
               /\ e[2] = key[2][2]}

(* Whoever a completed run read and did not warn about has arrived: each   *)
(* name of each credential leads to an identity that some run made for     *)
(* this very person, or for one who shares the key, active if that person  *)
(* was; or to one a newcomer registered under the name before.  And what   *)
(* was enabled is allowed (run.go:162-204, 258-386).  Earlier runs may     *)
(* have stopped anywhere.  Whether the credential can be used is another   *)
(* question: see PasswordsCanBeChecked, and DeleteProvider.                *)
MigratedPeopleArrive ==
  \A m \in Run : run[m].pc = "done" =>
    /\ Enabled \subseteq policy
    /\ \A k \in run[m].seen \ run[m].warned : \A key \in Keys(m, k) :
         \E i \in Named(key[1], key[2]) :
           \/ i \in Newcomer /\ wanted[i] = key
           \/ \E l \in SharedBy(k, key) :
                i \in Run \X {l} /\ (l \notin Inactive => accounts[i] = "active")

\* The config column of a password: a newcomer's comes from Enroll, a migrated
\* person's from Kratos, unchanged.
HashedPassword(c) ==
  IF c.identity \in Newcomer THEN "bcrypt" ELSE HashOf[c.identity[2]]

(* run.go:330: "Our format is identical so we pass the config through      *)
(* unchanged": whatever password the tenant has, the authenticator can     *)
(* compare with what is typed (adapters/password/adapter.go:72).           *)
PasswordsCanBeChecked ==
  \A c \in credentials : c.type = password => HashedPassword(c) = "bcrypt"

(* No row refers to an identity that was never inserted, however a run or  *)
(* a request ends: the tables have no foreign keys (run.go:293-303, 404).  *)
NothingDangles ==
  /\ \A c \in credentials : accounts[c.identity] # "absent"
  /\ \A t \in Token : sessions[t] # NoIdentity =>
       /\ sessions[t] \in Run \X {Holder[t]}
       /\ accounts[sessions[t]] # "absent"

(* Runs share a provider row: the check for an existing one supports       *)
(* re-runs, whatever the administrator deletes (run.go:225-240).           *)
RunsShareProviders ==
  \A x, y \in Run \X KratosProvider :
    providers[x] = "present" /\ providers[y] = "present" /\ Kind[x[2]] = Kind[y[2]]
      => x = y

(* The tenant is never left without a schema once it had one, but for the  *)
(* two statements of a run, or one that stopped between them and that no   *)
(* request has repaired (run.go:133-146, store.go:81).                     *)
SchemasAreRepaired ==
  ActiveSchemas = {} =>
    \/ \A w \in Newcomer \cup Run : schemas[w] = "absent"
    \/ \E m \in Run : /\ run[m].pc \in {"insert_schema", "stopped"}
                      /\ schemas[m] = "absent"

(* What the tenant has is not taken over: credentials and sessions stay    *)
(* with the identity they name, whatever a run brings (run.go:348, 419).   *)
NothingIsTakenOver ==
  [][/\ credentials \subseteq credentials'
     /\ \A t \in Token : sessions[t] # NoIdentity => sessions'[t] = sessions[t]
    ]_migrationVars
=============================================================================
