-------------------------- MODULE MigrationArrival --------------------------
(***************************************************************************)
(* Proof that whoever a completed run read, and did not warn about, has    *)
(* arrived in the tenant, for any set of runs, people and providers, and   *)
(* whatever newcomers and administrators do meanwhile.                     *)
(*                                                                         *)
(* The argument: every credential is either what its newcomer wanted or    *)
(* one of the person its identity was made for (Source), so a conflict in  *)
(* AddUnlessTaken is with the right identity, or with that of somebody who *)
(* has the same subject at a provider of the same kind (SharedBy); and of  *)
(* the people a run has behind it, only the last has anything to do still  *)
(* (Progress).                                                             *)
(***************************************************************************)
EXTENDS MigrationProofs

-----------------------------------------------------------------------------
\* Where credentials come from.

OfNewcomer(c) ==
  /\ c.identity \in Newcomer
  /\ npc[c.identity] # "idle"
  /\ wanted[c.identity][1] = c.type
  /\ c.names = {wanted[c.identity][2]}

OfPassword(c, k) ==
  c.type = password /\ c.names = PasswordOf[k] /\ PasswordOf[k] # {}

OfEntry(c, k) ==
  /\ c.type = oidc
  /\ \E x \in ProviderRow, e \in EntriesOf[k] :
       e[1] \in Configured /\ Kind[x[2]] = Kind[e[1]] /\ c.names = {<<x, e[2]>>}

OfPerson(c) ==
  \E n \in Run, k \in Person :
    c.identity = <<n, k>> /\ (OfPassword(c, k) \/ OfEntry(c, k))

Source(c) == OfNewcomer(c) \/ OfPerson(c)

-----------------------------------------------------------------------------
\* What a run knows.

Late == {"identities", "read_sessions", "sessions", "done"}
PastProviders == {"read"} \cup Late
PastPolicy == {"sso", "insert_provider"} \cup PastProviders

MapSound(m) ==
  \A p \in KratosProvider : run[m].map[p] # Nobody =>
    p \in Configured /\ Kind[run[m].map[p][2]] = Kind[p]

MapDone(m) ==
  run[m].pc \in PastProviders => \A p \in Configured : run[m].map[p] # Nobody

PolicyDone(m) == run[m].pc \in PastPolicy => policy = Enabled

PendingSound(m) ==
  /\ run[m].password => PasswordOf[run[m].person] # {}
  /\ run[m].entries # {} => run[m].entries \subseteq EntriesOf[run[m].person]

Finished(m) ==
  run[m].pc \in Late \ {"identities"} => run[m].left = {} /\ CredentialsDone(m)

Arrived(k, type, name) ==
  \E c \in credentials :
    /\ c.type = type /\ name \in c.names
    /\ \/ c.identity \in Newcomer /\ npc[c.identity] # "idle"
          /\ wanted[c.identity] = <<type, name>>
       \/ \E n \in Run, l \in SharedBy(k, <<type, name>>) : c.identity = <<n, l>>

\* The people a run has behind it.
Behind(m) == run[m].seen \ (run[m].left \cup run[m].warned)

PasswordArrived(m, k) ==
  \A name \in PasswordOf[k] :
    Arrived(k, password, name) \/ (k = run[m].person /\ run[m].password)

EntryArrived(m, k) ==
  \A e \in EntriesOf[k], x \in ProviderRow :
    e[1] \in Configured /\ x = run[m].map[e[1]] =>
    \/ Arrived(k, oidc, <<x, e[2]>>)
    \/ k = run[m].person /\ e \in run[m].entries

Progress(m) ==
  run[m].pc \in Late =>
    \A k \in Behind(m) : PasswordArrived(m, k) /\ EntryArrived(m, k)

RunInv(m) ==
  /\ MapSound(m) /\ MapDone(m) /\ PolicyDone(m)
  /\ PendingSound(m) /\ Finished(m) /\ Progress(m)

StateSound ==
  \A n \in Run, k \in Person : accounts[<<n, k>>] \in {"absent", MigratedState(k)}

ArriveInv ==
  /\ HasInv
  /\ \A c \in credentials : Source(c)
  /\ StateSound
  /\ \A m \in Run : RunInv(m)

-----------------------------------------------------------------------------
LEMMA LocalsOf ==
  ASSUME TypeInv, NEW m \in Run
  PROVE  /\ run \in [Run -> RunLocals] /\ run[m] \in RunLocals
         /\ run[m].map \in [KratosProvider -> ProviderRow \cup {Nobody}]
         /\ run[m].left \subseteq Person /\ run[m].seen \subseteq Person
         /\ run[m].entries \subseteq KratosProvider \X Subject
         /\ run[m].password \in BOOLEAN
  BY DEF TypeInv, MigrationTypeOK, RunLocals

(* What has arrived does not leave.                                        *)
LEMMA ArrivedStays ==
  ASSUME TypeInv, TypeInv', Grows, NEW k, NEW type, NEW name, Arrived(k, type, name)
  PROVE  Arrived(k, type, name)'
<1> DEFINE OfAnybody(c) ==
             \E n \in Run, l \in SharedBy(k, <<type, name>>) : c.identity = <<n, l>>
<1>1. PICK c \in credentials :
         /\ c.type = type /\ name \in c.names
         /\ \/ c.identity \in Newcomer /\ npc[c.identity] # "idle"
               /\ wanted[c.identity] = <<type, name>>
            \/ OfAnybody(c)
  BY DEF Arrived
<1>2. c \in credentials'
  BY DEF Grows
<1>3. CASE OfAnybody(c)
  BY <1>1, <1>2, <1>3 DEF Arrived, SharedBy
<1>4. CASE c.identity \in Newcomer /\ npc[c.identity] # "idle"
           /\ wanted[c.identity] = <<type, name>>
  <2>1. npc'[c.identity] # "idle" /\ wanted'[c.identity] = <<type, name>>
    BY <1>4 DEF Grows
  <2> QED BY <1>1, <1>2, <1>4, <2>1 DEF Arrived
<1> QED BY <1>1, <1>3, <1>4

LEMMA AddedRow ==
  ASSUME NEW i, NEW type, NEW names,
         CreateCredential(i, type, names) \/ AddUnlessTaken(i, type, names),
         NEW c \in credentials', c \notin credentials
  PROVE  c = [identity |-> i, type |-> type, names |-> names]
  BY DEF CreateCredential, AddUnlessTaken

LEMMA CredentialSteps ==
  ASSUME [MigrationNext]_migrationVars
  PROVE  \/ credentials' = credentials
         \/ \E m \in Run : MigratePassword(m) \/ MigrateEntry(m)
         \/ \E r \in Newcomer : ProvisionCredential(r)
  BY DEF MigrationNext, Ask, Provision, SignUp, migrationVars, provisioningVars,
     Migrate, Begin, CreateProvider, DeleteProvider, EnsureTenant,
     DeactivateSchemas, MigrateSchema, MigratePolicy, FindProvider, InsertProvider,
     ProvidersMapped, ReadKratos, InsertIdentity, SkipIdentity, SkipCredential,
     EndIdentities, ReadSessions, MigrateSession, EndSessions, Stop, ServeNewcomer,
     CheckTaken, GetActive, InsertDefault, InsertDefaultFails, GetActiveAgain,
     ProvisionIdentity, TurnAway, ReadOnly

LEMMA SourceStep ==
  ASSUME ArriveInv, [MigrationNext]_migrationVars, NEW c \in credentials'
  PROVE  Source(c)'
<1>0. TypeInv /\ TypeInv' /\ Grows
  BY TypeStep, StepGrows DEF ArriveInv, HasInv
<1>1. CASE c \in credentials
  <2>1. CASE OfPerson(c)
    BY <2>1 DEF Source, OfPerson, OfPassword, OfEntry
  <2>2. CASE OfNewcomer(c)
    BY <1>0, <2>2 DEF Source, OfNewcomer, Grows
  <2> QED BY <1>1, <2>1, <2>2 DEF ArriveInv, Source
<1>2. ASSUME c \notin credentials, NEW m \in Run, MigratePassword(m)
      PROVE  Source(c)'
  <2> DEFINE k == run[m].person
  <2>1. k \in Person /\ PasswordOf[k] # {}
    BY <1>0, <1>2 DEF ArriveInv, RunInv, PendingSound, TypeInv, KnowsWhat,
       MigratePassword
  <2>2. c = [identity |-> <<m, k>>, type |-> password, names |-> PasswordOf[k]]
    BY <1>2, AddedRow DEF MigratePassword
  <2>3. OfPassword(c, k) /\ c.identity = <<m, k>>
    BY <2>1, <2>2 DEF OfPassword
  <2> QED BY <2>1, <2>3 DEF Source, OfPerson, OfPassword
<1>3. ASSUME c \notin credentials, NEW m \in Run, MigrateEntry(m)
      PROVE  Source(c)'
  <2> DEFINE k == run[m].person
  <2>1. PICK e \in run[m].entries :
          AddUnlessTaken(<<m, k>>, oidc, {<<run[m].map[e[1]], e[2]>>})
    BY <1>3 DEF MigrateEntry
  <2> DEFINE x == run[m].map[e[1]]
  <2>2. x # Nobody /\ AddUnlessTaken(<<m, k>>, oidc, {<<x, e[2]>>})
    BY <1>0, <2>1 DEF TypeInv, KnowsWhat
  <2>3. k \in Person /\ e \in EntriesOf[k]
    BY <1>0, <2>1 DEF ArriveInv, RunInv, PendingSound, TypeInv, KnowsWhat
  <2>4. e[1] \in KratosProvider /\ x \in ProviderRow
    BY <1>0, <2>1, <2>2, LocalsOf
  <2>5. e[1] \in Configured /\ Kind[x[2]] = Kind[e[1]]
    BY <2>2, <2>4 DEF ArriveInv, RunInv, MapSound
  <2>6. c = [identity |-> <<m, k>>, type |-> oidc, names |-> {<<x, e[2]>>}]
    BY <1>3, <2>2, AddedRow
  <2>7. OfEntry(c, k) /\ c.identity = <<m, k>>
    BY <2>3, <2>4, <2>5, <2>6 DEF OfEntry
  <2> QED BY <2>3, <2>7 DEF Source, OfPerson, OfEntry
<1>4. ASSUME c \notin credentials, NEW r \in Newcomer, ProvisionCredential(r)
      PROVE  Source(c)'
  <2>1. c = [identity |-> r, type |-> wanted[r][1], names |-> {wanted[r][2]}]
    BY <1>4, AddedRow DEF ProvisionCredential
  <2>2. npc'[r] # "idle" /\ wanted' = wanted
    BY <1>0, <1>4 DEF ProvisionCredential, NewcomerGoto, TypeInv, MigrationTypeOK,
       ProvisioningTypeOK
  <2> QED BY <2>1, <2>2 DEF Source, OfNewcomer
<1> QED BY <1>1, <1>2, <1>3, <1>4, CredentialSteps

(* The states of migrated identities.                                      *)
LEMMA StateStep ==
  ASSUME ArriveInv, [MigrationNext]_migrationVars
  PROVE  StateSound'
<1>0. TypeInv /\ Grows /\ accounts \in [Identity -> AccountState]
  BY StepGrows DEF ArriveInv, HasInv, TypeInv, MigrationTypeOK, ProvisioningTypeOK
<1>1. CASE accounts' = accounts
  BY <1>1 DEF ArriveInv, StateSound
<1>2. ASSUME NEW m \in Run, InsertIdentity(m) PROVE StateSound'
  <2>1. PICK j \in run[m].left : CreateIdentity(<<m, j>>, MigratedState(j))
    BY <1>2 DEF InsertIdentity
  <2> SUFFICES ASSUME NEW n \in Run, NEW k \in Person
               PROVE  accounts'[<<n, k>>] \in {"absent", MigratedState(k)}
    BY DEF StateSound, MigratedState
  <2>2. <<n, k>> \in Identity
    BY PersonTypes
  <2>3. accounts[<<n, k>>] \in {"absent", MigratedState(k)}
    BY DEF ArriveInv, StateSound
  <2>4. CASE <<n, k>> = <<m, j>>
    <3>1. k = j /\ accounts' = [accounts EXCEPT ![<<n, k>>] = MigratedState(k)]
      BY <2>1, <2>4 DEF CreateIdentity
    <3> QED BY <1>0, <2>2, <3>1
  <2>5. CASE <<n, k>> # <<m, j>>
    BY <1>0, <2>1, <2>2, <2>3, <2>5 DEF CreateIdentity
  <2> QED BY <2>4, <2>5
<1>3. ASSUME NEW r \in Newcomer, ProvisionIdentity(r) PROVE StateSound'
  <2> SUFFICES ASSUME NEW n \in Run, NEW k \in Person
               PROVE  accounts'[<<n, k>>] \in {"absent", MigratedState(k)}
    BY DEF StateSound, MigratedState
  <2>1. <<n, k>> \in Identity /\ <<n, k>> # r
    BY MigrationAssumption
  <2>2. accounts'[<<n, k>>] = accounts[<<n, k>>]
    BY <1>0, <1>3, <2>1 DEF ProvisionIdentity, CreateIdentity
  <2> QED BY <2>2 DEF ArriveInv, StateSound
<1>4. \/ accounts' = accounts
      \/ \E m \in Run : InsertIdentity(m)
      \/ \E r \in Newcomer : ProvisionIdentity(r)
  BY DEF MigrationNext, Ask, Provision, SignUp, migrationVars, provisioningVars,
     Migrate, Begin, CreateProvider, DeleteProvider, EnsureTenant,
     DeactivateSchemas, MigrateSchema, MigratePolicy, FindProvider, InsertProvider,
     ProvidersMapped, ReadKratos, SkipIdentity, MigratePassword, MigrateEntry,
     SkipCredential, EndIdentities, ReadSessions, MigrateSession, EndSessions, Stop,
     ServeNewcomer, CheckTaken, GetActive, InsertDefault, InsertDefaultFails,
     GetActiveAgain, ProvisionCredential, TurnAway, ReadOnly
<1> QED BY <1>1, <1>2, <1>3, <1>4

-----------------------------------------------------------------------------
\* The run that moves.

LEMMA MapStep ==
  ASSUME ArriveInv, NEW m \in Run, Begin(m) \/ Migrate(m)
  PROVE  MapSound(m)' /\ MapDone(m)'
<1> USE DEF KeepsMap, PastProviders, Late
<1>0. /\ TypeInv /\ run \in [Run -> RunLocals] /\ MapSound(m) /\ MapDone(m)
      /\ run[m].map \in [KratosProvider -> ProviderRow \cup {Nobody}]
  BY LocalsOf DEF ArriveInv, HasInv, RunInv
<1>a. ASSUME run'[m].map = run[m].map,
             \/ run'[m].pc \notin PastProviders \/ run[m].pc \in PastProviders
             \/ \A p \in Configured : run[m].map[p] # Nobody
      PROVE  MapSound(m)' /\ MapDone(m)'
  BY <1>0, <1>a DEF MapSound, MapDone
<1>1. CASE \/ Begin(m) \/ EnsureTenant(m) \/ DeactivateSchemas(m)
           \/ MigrateSchema(m) \/ MigratePolicy(m)
  <2>1. run'[m].pc \notin PastProviders
    BY <1>0, <1>1 DEF Begin, EnsureTenant, DeactivateSchemas, MigrateSchema,
       MigratePolicy, Goto, RunLocals
  <2> QED BY <1>0, <1>1, <1>a, <2>1, GotoStepKeeps DEF GotoStep
<1>2. CASE ProvidersMapped(m) \/ EndSessions(m)
  <2>1. \/ run[m].pc \in PastProviders
        \/ \A p \in Configured : run[m].map[p] # Nobody
    BY <1>2 DEF ProvidersMapped, EndSessions, At
  <2> QED BY <1>0, <1>2, <1>a, <2>1, GotoStepKeeps DEF GotoStep
<1>3. CASE FindProvider(m)
  <2>0. run[m].pc = "sso"
    BY <1>3 DEF FindProvider, At
  <2>1. PICK p \in Configured :
          \/ /\ run'[m].pc = run[m].pc
             /\ \E x \in RowsOfKind(m, p) : run'[m].map = [run[m].map EXCEPT ![p] = x]
          \/ run'[m].map = run[m].map /\ run'[m].pc = "insert_provider"
    BY <1>0, <1>3, FindKeeps
  <2>2. ASSUME NEW x \in RowsOfKind(m, p), run'[m].map = [run[m].map EXCEPT ![p] = x]
        PROVE  MapSound(m)'
    <3>1. p \in KratosProvider /\ Kind[x[2]] = Kind[p]
      BY MigrationAssumption DEF RowsOfKind
    <3> QED BY <1>0, <2>2, <3>1 DEF MapSound
  <2> QED BY <1>a, <2>0, <2>1, <2>2 DEF MapDone
<1>4. CASE InsertProvider(m)
  <2> DEFINE p == run[m].provider
  <2>1. /\ run'[m].pc = "sso" /\ run'[m].map = [run[m].map EXCEPT ![p] = <<m, p>>]
        /\ p \in Configured
    BY <1>0, <1>4, InsertProviderKeeps DEF TypeInv, KnowsWhat, InsertProvider
  <2>2. p \in KratosProvider
    BY <2>1, MigrationAssumption
  <2> QED BY <1>0, <2>1, <2>2 DEF MapSound, MapDone
<1>5. CASE \/ ReadKratos(m) \/ InsertIdentity(m) \/ SkipIdentity(m)
           \/ MigratePassword(m) \/ MigrateEntry(m) \/ SkipCredential(m)
           \/ EndIdentities(m) \/ ReadSessions(m) \/ MigrateSession(m)
  <2>1. run[m].pc \in PastProviders
    BY <1>5 DEF ReadKratos, InsertIdentity, SkipIdentity, MigratePassword,
       MigrateEntry, SkipCredential, EndIdentities, ReadSessions, MigrateSession, At
  <2> QED BY <1>0, <1>5, <1>a, <2>1, ReadKratosKeeps, InsertIdentityKeeps,
          SkipIdentityKeeps, MigratePasswordKeeps, MigrateEntryKeeps,
          SkipCredentialKeeps, EndIdentitiesKeeps, ReadSessionsKeeps,
          MigrateSessionKeeps
<1>6. CASE Stop(m)
  <2>1. run'[m].pc = "stopped" /\ run'[m].map = [p \in KratosProvider |-> Nobody]
    BY <1>0, <1>6 DEF Stop, NotBegun
  <2> QED BY <2>1 DEF MapSound, MapDone
<1> QED BY <1>1, <1>2, <1>3, <1>4, <1>5, <1>6 DEF Migrate

LEMMA PolicyStep ==
  ASSUME ArriveInv, [MigrationNext]_migrationVars, NEW m \in Run
  PROVE  PolicyDone(m)'
<1> USE DEF PastPolicy, PastProviders, Late
<1>0. TypeInv /\ run \in [Run -> RunLocals] /\ PolicyDone(m)
  BY LocalsOf DEF ArriveInv, HasInv, RunInv
<1>1. policy' = policy \/ policy' = Enabled
  BY DEF MigrationNext, Ask, Provision, SignUp, migrationVars,
     Migrate, Begin, CreateProvider, DeleteProvider, EnsureTenant,
     DeactivateSchemas, MigrateSchema, MigratePolicy, FindProvider, InsertProvider,
     ProvidersMapped, ReadKratos, InsertIdentity, SkipIdentity, MigratePassword,
     MigrateEntry, SkipCredential, EndIdentities, ReadSessions, MigrateSession,
     EndSessions, Stop, AllowedFirstFactors
<1>2. ASSUME Begin(m) \/ Migrate(m), run'[m].pc \in PastPolicy
      PROVE  run[m].pc \in PastPolicy \/ policy' = Enabled
  <2>1. CASE MigratePolicy(m)
    BY <2>1 DEF MigratePolicy, AllowedFirstFactors
  <2>2. CASE Begin(m) \/ EnsureTenant(m) \/ DeactivateSchemas(m) \/ MigrateSchema(m)
    BY <1>0, <1>2, <2>2 DEF Begin, EnsureTenant, DeactivateSchemas, MigrateSchema,
       Goto, RunLocals
  <2>3. CASE Stop(m)
    BY <1>0, <1>2, <2>3, StopKeeps
  <2> QED BY <1>2, <2>1, <2>2, <2>3 DEF Migrate, FindProvider, InsertProvider,
          ProvidersMapped, ReadKratos, InsertIdentity, SkipIdentity, MigratePassword,
          MigrateEntry, SkipCredential, EndIdentities, ReadSessions, MigrateSession,
          EndSessions, At
<1> QED BY <1>0, <1>1, <1>2, RunsMove, OthersKeep DEF PolicyDone

LEMMA PendingStep ==
  ASSUME ArriveInv, NEW m \in Run, Begin(m) \/ Migrate(m)
  PROVE  PendingSound(m)'
<1> USE DEF KeepsPending, KeepsPeople
<1>0. TypeInv /\ run \in [Run -> RunLocals] /\ PendingSound(m)
  BY LocalsOf DEF ArriveInv, HasInv, RunInv
<1>1. CASE InsertIdentity(m)
  BY <1>0, <1>1, InsertIdentityKeeps DEF PendingSound, KnownEntries
<1>2. CASE \/ GotoStep(m) \/ FindProvider(m) \/ InsertProvider(m) \/ ReadKratos(m)
           \/ SkipIdentity(m) \/ ReadSessions(m) \/ MigrateSession(m)
  <2>1. /\ run'[m].person = run[m].person /\ run'[m].password = run[m].password
        /\ run'[m].entries = run[m].entries
    BY <1>0, <1>2, GotoStepKeeps, FindKeeps, InsertProviderKeeps, ReadKratosKeeps,
       SkipIdentityKeeps, ReadSessionsKeeps, MigrateSessionKeeps
  <2> QED BY <1>0, <2>1 DEF PendingSound
<1>3. CASE MigratePassword(m)
  BY <1>0, <1>3, MigratePasswordKeeps DEF PendingSound
<1>4. CASE MigrateEntry(m)
  BY <1>0, <1>4, MigrateEntryKeeps DEF PendingSound
<1>5. CASE SkipCredential(m)
  BY <1>0, <1>5, SkipCredentialKeeps DEF PendingSound
<1>6. CASE Stop(m)
  BY <1>0, <1>6, StopKeeps DEF PendingSound
<1>7. CASE EndIdentities(m)
  BY <1>0, <1>7, EndIdentitiesKeeps DEF PendingSound, CredentialsDone
<1> QED BY <1>1, <1>2, <1>3, <1>4, <1>5, <1>6, <1>7 DEF Migrate, GotoStep

LEMMA FinishedStep ==
  ASSUME ArriveInv, NEW m \in Run, Begin(m) \/ Migrate(m)
  PROVE  Finished(m)'
<1> USE DEF KeepsPending, KeepsPeople, Late, CredentialsDone
<1>0. TypeInv /\ run \in [Run -> RunLocals] /\ Finished(m)
  BY LocalsOf DEF ArriveInv, HasInv, RunInv
<1>1. CASE EndIdentities(m) \/ EndSessions(m) \/ ReadSessions(m) \/ MigrateSession(m)
  <2>1. /\ run'[m].left = run[m].left /\ run'[m].password = run[m].password
        /\ run'[m].entries = run[m].entries
    BY <1>0, <1>1, GotoStepKeeps, EndIdentitiesKeeps, ReadSessionsKeeps,
       MigrateSessionKeeps DEF GotoStep
  <2>2. run[m].left = {} /\ CredentialsDone(m)
    BY <1>0, <1>1 DEF Finished, EndIdentities, EndSessions, ReadSessions,
       MigrateSession, At
  <2> QED BY <2>1, <2>2 DEF Finished
<1>2. CASE \/ Begin(m) \/ EnsureTenant(m) \/ DeactivateSchemas(m) \/ MigrateSchema(m)
           \/ MigratePolicy(m) \/ ProvidersMapped(m)
  BY <1>0, <1>2 DEF Begin, EnsureTenant, DeactivateSchemas, MigrateSchema,
     MigratePolicy, ProvidersMapped, Goto, RunLocals, Finished
<1>3. CASE FindProvider(m)
  BY <1>0, <1>3, FindKeeps DEF FindProvider, At, Finished
<1>4. CASE \/ InsertProvider(m) \/ ReadKratos(m) \/ InsertIdentity(m)
           \/ SkipIdentity(m) \/ MigratePassword(m) \/ MigrateEntry(m)
           \/ SkipCredential(m) \/ Stop(m)
  <2>1. run'[m].pc \notin Late \ {"identities"}
    BY <1>0, <1>4, InsertProviderKeeps, ReadKratosKeeps, InsertIdentityKeeps,
       SkipIdentityKeeps, MigratePasswordKeeps, MigrateEntryKeeps,
       SkipCredentialKeeps, StopKeeps
  <2> QED BY <2>1 DEF Finished
<1> QED BY <1>1, <1>2, <1>3, <1>4 DEF Migrate

(* A conflict is with a credential that leads to the right identity.       *)
LEMMA PasswordAdded ==
  ASSUME ArriveInv, TypeInv', Grows, NEW m \in Run, NEW k \in Person,
         AddUnlessTaken(<<m, k>>, password, PasswordOf[k]),
         NEW name \in PasswordOf[k]
  PROVE  Arrived(k, password, name)'
<1>1. CASE CreateCredential(<<m, k>>, password, PasswordOf[k])
  <2> DEFINE c == [identity |-> <<m, k>>, type |-> password, names |-> PasswordOf[k]]
  <2>1. c \in credentials'
    BY <1>1 DEF CreateCredential
  <2> HIDE DEF c
  <2>2. c.type = password /\ name \in c.names /\ c.identity = <<m, k>>
    BY DEF c
  <2> QED BY <2>1, <2>2 DEF Arrived, SharedBy
<1>2. ASSUME NEW c \in credentials, c.type = password, c.names = PasswordOf[k]
      PROVE  Arrived(k, password, name)
  <2>1. CASE OfNewcomer(c)
    <3>1. wanted[c.identity] \in (Method \X Identifier) \cup {<<>>}
          /\ wanted[c.identity] # <<>>
      BY <2>1 DEF OfNewcomer, ArriveInv, HasInv, TypeInv, MigrationTypeOK,
         ProvisioningTypeOK
    <3>2. wanted[c.identity] = <<password, name>>
      BY <1>2, <2>1, <3>1 DEF OfNewcomer
    <3> QED BY <1>2, <2>1, <3>2 DEF Arrived, OfNewcomer
  <2>2. CASE OfPerson(c)
    <3>1. PICK n \in Run, l \in Person :
            c.identity = <<n, l>> /\ (OfPassword(c, l) \/ OfEntry(c, l))
      BY <2>2 DEF OfPerson
    <3>2. OfPassword(c, l)
      BY <1>2, <3>1, ProvisioningAssumption DEF OfEntry
    <3>3. l = k
      BY <1>2, <3>2, KratosNamesAssumption DEF OfPassword
    <3> QED BY <1>2, <3>1, <3>3 DEF Arrived, SharedBy
  <2> QED BY <2>1, <2>2 DEF ArriveInv, Source
<1> QED BY <1>1, <1>2, ArrivedStays DEF AddUnlessTaken, ArriveInv, HasInv

LEMMA EntryAdded ==
  ASSUME ArriveInv, TypeInv', Grows, NEW m \in Run, NEW k \in Person,
         NEW e \in EntriesOf[k], e[1] \in Configured, NEW x \in ProviderRow,
         Kind[x[2]] = Kind[e[1]], AddUnlessTaken(<<m, k>>, oidc, {<<x, e[2]>>})
  PROVE  Arrived(k, oidc, <<x, e[2]>>)'
<1> DEFINE name == <<x, e[2]>>
<1>1. CASE CreateCredential(<<m, k>>, oidc, {name})
  <2> DEFINE c == [identity |-> <<m, k>>, type |-> oidc, names |-> {name}]
  <2>1. c \in credentials'
    BY <1>1 DEF CreateCredential
  <2>2. c.type = oidc /\ name \in c.names /\ c.identity = <<m, k>>
    OBVIOUS
  <2> HIDE DEF c
  <2> QED BY <2>1, <2>2 DEF Arrived, SharedBy
<1>2. ASSUME NEW c \in credentials, c.type = oidc, c.names = {name}
      PROVE  Arrived(k, oidc, name)
  <2>1. CASE OfNewcomer(c)
    <3>1. wanted[c.identity] \in (Method \X Identifier) \cup {<<>>}
          /\ wanted[c.identity] # <<>>
      BY <2>1 DEF OfNewcomer, ArriveInv, HasInv, TypeInv, MigrationTypeOK,
         ProvisioningTypeOK
    <3>2. wanted[c.identity][2] = name
      BY <1>2, <2>1 DEF OfNewcomer
    <3>3. wanted[c.identity] = <<oidc, name>>
      BY <1>2, <2>1, <3>1, <3>2 DEF OfNewcomer
    <3> QED BY <1>2, <2>1, <3>3 DEF Arrived, OfNewcomer
  <2>2. CASE OfPerson(c)
    <3>1. PICK n \in Run, l \in Person :
            c.identity = <<n, l>> /\ (OfPassword(c, l) \/ OfEntry(c, l))
      BY <2>2 DEF OfPerson
    <3>2. OfEntry(c, l)
      BY <1>2, <3>1, ProvisioningAssumption DEF OfPassword
    <3>3. PICK y \in ProviderRow, d \in EntriesOf[l] :
            d[1] \in Configured /\ Kind[y[2]] = Kind[d[1]] /\ c.names = {<<y, d[2]>>}
      BY <3>2 DEF OfEntry
    <3>4. <<y, d[2]>> = name
      BY <1>2, <3>3
    <3>5. y = x /\ d[2] = e[2]
      BY <3>4
    <3>6. l \in SharedBy(k, <<oidc, name>>)
      BY <3>3, <3>5 DEF SharedBy
    <3> QED BY <1>2, <3>1, <3>6 DEF Arrived
  <2> QED BY <2>1, <2>2 DEF ArriveInv, Source
<1> QED BY <1>1, <1>2, ArrivedStays DEF AddUnlessTaken, ArriveInv, HasInv

(* A person stays as far as the locals of the run let them.                *)
LEMMA StillArrived ==
  ASSUME TypeInv, TypeInv', Grows, NEW m \in Run, NEW k \in Person,
         run'[m].map = run[m].map, PasswordArrived(m, k), EntryArrived(m, k)
  PROVE  /\ (k = run[m].person /\ run[m].password =>
               k = run'[m].person /\ run'[m].password) => PasswordArrived(m, k)'
         /\ (k = run[m].person =>
               k = run'[m].person /\ run[m].entries \subseteq run'[m].entries)
               => EntryArrived(m, k)'
         /\ (CredentialsDone(m) \/ k # run[m].person) =>
               PasswordArrived(m, k)' /\ EntryArrived(m, k)'
<1>1. ASSUME NEW name \in PasswordOf[k], Arrived(k, password, name)
      PROVE  Arrived(k, password, name)'
  BY <1>1, ArrivedStays
<1>2. ASSUME NEW e \in EntriesOf[k], NEW x \in ProviderRow,
             Arrived(k, oidc, <<x, e[2]>>)
      PROVE  Arrived(k, oidc, <<x, e[2]>>)'
  BY <1>2, ArrivedStays
<1> QED BY <1>1, <1>2 DEF PasswordArrived, EntryArrived, CredentialsDone

LEMMA ProgressStep ==
  ASSUME ArriveInv, TypeInv', Grows, NEW m \in Run, Begin(m) \/ Migrate(m)
  PROVE  Progress(m)'
<1> USE DEF KeepsPending, KeepsPeople, KeepsMap, Late
<1>0. /\ TypeInv /\ run \in [Run -> RunLocals] /\ RunInv(m)
      /\ run[m].left \subseteq Person /\ run[m].seen \subseteq Person
      /\ run[m].entries \subseteq KratosProvider \X Subject
      /\ run[m].map \in [KratosProvider -> ProviderRow \cup {Nobody}]
  BY LocalsOf DEF ArriveInv, HasInv
<1>1. CASE EndSessions(m) \/ ReadSessions(m) \/ MigrateSession(m)
  <2>1. KeepsPeople(m) /\ KeepsPending(m) /\ KeepsMap(m)
    BY <1>0, <1>1, GotoStepKeeps, ReadSessionsKeeps, MigrateSessionKeeps DEF GotoStep
  <2>2. run[m].pc \in Late
    BY <1>1 DEF EndSessions, ReadSessions, MigrateSession, At
  <2>3. ASSUME NEW k \in Behind(m)' PROVE PasswordArrived(m, k)' /\ EntryArrived(m, k)'
    <3>1. k \in Person /\ PasswordArrived(m, k) /\ EntryArrived(m, k)
      BY <1>0, <2>1, <2>2 DEF RunInv, Progress, Behind
    <3> QED BY <1>0, <2>1, <3>1, StillArrived
  <2> QED BY <2>3 DEF Progress
<1>2. CASE \/ Begin(m) \/ EnsureTenant(m) \/ DeactivateSchemas(m) \/ MigrateSchema(m)
           \/ MigratePolicy(m) \/ ProvidersMapped(m)
  BY <1>0, <1>2 DEF Begin, EnsureTenant, DeactivateSchemas, MigrateSchema,
     MigratePolicy, ProvidersMapped, Goto, RunLocals, Progress
<1>3. CASE FindProvider(m) \/ InsertProvider(m) \/ Stop(m)
  <2>1. run'[m].pc \notin Late
    BY <1>0, <1>3, FindKeeps, InsertProviderKeeps, StopKeeps DEF FindProvider, At
  <2> QED BY <2>1 DEF Progress
<1>4. CASE ReadKratos(m)
  BY <1>0, <1>4, ReadKratosKeeps DEF Progress, Behind
<1>5. CASE InsertIdentity(m)
  <2>1. PICK j \in run[m].left :
          /\ run'[m].left = run[m].left \ {j} /\ run'[m].person = j
          /\ run'[m].password = (PasswordOf[j] # {})
          /\ run'[m].entries = KnownEntries(m, j)
    BY <1>0, <1>5, InsertIdentityKeeps
  <2>2. /\ KeepsMap(m) /\ run'[m].seen = run[m].seen /\ run'[m].warned = run[m].warned
        /\ run[m].pc = "identities" /\ CredentialsDone(m)
    BY <1>0, <1>5, InsertIdentityKeeps DEF InsertIdentity, At
  <2>3. ASSUME NEW k \in Behind(m)' PROVE PasswordArrived(m, k)' /\ EntryArrived(m, k)'
    <3>1. CASE k = j
      <4>1. PasswordArrived(m, k)'
        BY <2>1, <3>1 DEF PasswordArrived
      <4>2. EntryArrived(m, k)'
        BY <2>1, <2>2, <3>1, MigrationAssumption DEF EntryArrived, KnownEntries
      <4> QED BY <4>1, <4>2
    <3>2. CASE k # j
      <4>1. k \in Person /\ PasswordArrived(m, k) /\ EntryArrived(m, k)
        BY <1>0, <2>1, <2>2, <3>2 DEF RunInv, Progress, Behind
      <4> QED BY <1>0, <2>2, <4>1, StillArrived
    <3> QED BY <3>1, <3>2
  <2> QED BY <2>3 DEF Progress
<1>6. CASE SkipIdentity(m)
  <2>1. /\ KeepsMap(m) /\ KeepsPending(m) /\ run'[m].person = run[m].person
        /\ run[m].pc = "identities"
    BY <1>0, <1>6, SkipIdentityKeeps DEF SkipIdentity, At
  <2>2. Behind(m)' \subseteq Behind(m)
    BY <1>0, <1>6, SkipIdentityKeeps DEF Behind
  <2>3. ASSUME NEW k \in Behind(m)' PROVE PasswordArrived(m, k)' /\ EntryArrived(m, k)'
    <3>1. k \in Person /\ PasswordArrived(m, k) /\ EntryArrived(m, k)
      BY <1>0, <2>1, <2>2 DEF RunInv, Progress, Behind
    <3> QED BY <1>0, <2>1, <3>1, StillArrived
  <2> QED BY <2>3 DEF Progress
<1>7. CASE MigratePassword(m)
  <2>1. /\ KeepsMap(m) /\ KeepsPeople(m) /\ run'[m].entries = run[m].entries
        /\ run[m].pc = "identities" /\ run[m].password
        /\ AddUnlessTaken(<<m, run[m].person>>, password, PasswordOf[run[m].person])
    BY <1>0, <1>7, MigratePasswordKeeps DEF MigratePassword, At
  <2>2. ASSUME NEW k \in Behind(m)' PROVE PasswordArrived(m, k)' /\ EntryArrived(m, k)'
    <3>1. k \in Person /\ PasswordArrived(m, k) /\ EntryArrived(m, k)
      BY <1>0, <2>1 DEF RunInv, Progress, Behind
    <3>2. EntryArrived(m, k)'
      BY <1>0, <2>1, <3>1, StillArrived
    <3>3. CASE k = run[m].person
      BY <2>1, <3>1, <3>2, <3>3, PasswordAdded DEF PasswordArrived
    <3>4. CASE k # run[m].person
      BY <1>0, <2>1, <3>1, <3>2, <3>4, StillArrived
    <3> QED BY <3>2, <3>3, <3>4
  <2> QED BY <2>2 DEF Progress
<1>8. CASE MigrateEntry(m)
  <2>1. PICK e \in run[m].entries :
          /\ run'[m].entries = run[m].entries \ {e}
          /\ AddUnlessTaken(<<m, run[m].person>>, oidc,
                            {<<run[m].map[e[1]], e[2]>>})
    BY <1>0, <1>8, MigrateEntryKeeps
  <2>2. /\ KeepsMap(m) /\ KeepsPeople(m) /\ run'[m].password = run[m].password
        /\ run[m].pc = "identities"
    BY <1>0, <1>8, MigrateEntryKeeps DEF MigrateEntry, At
  <2>3. ASSUME NEW k \in Behind(m)' PROVE PasswordArrived(m, k)' /\ EntryArrived(m, k)'
    <3>1. k \in Person /\ PasswordArrived(m, k) /\ EntryArrived(m, k)
      BY <1>0, <2>2 DEF RunInv, Progress, Behind
    <3>2. PasswordArrived(m, k)'
      BY <1>0, <2>2, <3>1, StillArrived
    <3>3. CASE k = run[m].person
      <4>1. e \in EntriesOf[k] /\ e[1] \in KratosProvider
        BY <1>0, <2>1, <3>3 DEF RunInv, PendingSound
      <4>2. ASSUME e[1] \in Configured, NEW x \in ProviderRow, x = run[m].map[e[1]]
            PROVE  Arrived(k, oidc, <<x, e[2]>>)'
        <5>1. Kind[x[2]] = Kind[e[1]] /\ x # Nobody
          BY <1>0, <4>1, <4>2, MigrationAssumption DEF RunInv, MapSound
        <5>2. AddUnlessTaken(<<m, k>>, oidc, {<<x, e[2]>>})
          BY <2>1, <3>3, <4>2, <5>1
        <5> QED BY <3>1, <4>1, <4>2, <5>1, <5>2, EntryAdded
      <4>3. ASSUME NEW d \in EntriesOf[k], NEW x \in ProviderRow,
                   d[1] \in Configured, x = run'[m].map[d[1]]
            PROVE  \/ Arrived(k, oidc, <<x, d[2]>>)'
                   \/ k = run'[m].person /\ d \in run'[m].entries
        <5>1. CASE d = e
          BY <2>2, <4>2, <4>3, <5>1
        <5>2. CASE d # e /\ d \in run[m].entries
          BY <2>1, <2>2, <3>3, <5>2
        <5>3. CASE Arrived(k, oidc, <<x, d[2]>>)
          BY <1>0, <5>3, ArrivedStays
        <5> QED BY <2>2, <3>1, <4>3, <5>1, <5>2, <5>3 DEF EntryArrived
      <4> QED BY <3>2, <4>3 DEF EntryArrived
    <3>4. CASE k # run[m].person
      BY <1>0, <2>2, <3>1, <3>4, StillArrived
    <3> QED BY <3>2, <3>3, <3>4
  <2> QED BY <2>3 DEF Progress
<1>9. CASE SkipCredential(m)
  <2>1. /\ KeepsMap(m) /\ run'[m].seen = run[m].seen /\ run'[m].left = run[m].left
        /\ run'[m].warned = run[m].warned \cup {run[m].person}
        /\ run[m].pc = "identities"
    BY <1>0, <1>9, SkipCredentialKeeps DEF SkipCredential, At
  <2>2. ASSUME NEW k \in Behind(m)' PROVE PasswordArrived(m, k)' /\ EntryArrived(m, k)'
    <3>1. /\ k \in Person /\ PasswordArrived(m, k) /\ EntryArrived(m, k)
          /\ k # run[m].person
      BY <1>0, <2>1 DEF RunInv, Progress, Behind
    <3> QED BY <1>0, <2>1, <3>1, StillArrived
  <2> QED BY <2>2 DEF Progress
<1>10. CASE EndIdentities(m)
  <2>1. /\ KeepsMap(m) /\ run[m].pc \in Late /\ CredentialsDone(m)
        /\ Behind(m)' = Behind(m)
    BY <1>0, <1>10, EndIdentitiesKeeps DEF Behind
  <2>2. ASSUME NEW k \in Behind(m)' PROVE PasswordArrived(m, k)' /\ EntryArrived(m, k)'
    <3>1. k \in Person /\ PasswordArrived(m, k) /\ EntryArrived(m, k)
      BY <1>0, <2>1 DEF RunInv, Progress, Behind
    <3> QED BY <1>0, <2>1, <3>1, StillArrived
  <2> QED BY <2>2 DEF Progress
<1> QED BY <1>1, <1>2, <1>3, <1>4, <1>5, <1>6, <1>7, <1>8, <1>9, <1>10 DEF Migrate

LEMMA ArriveStep == ArriveInv /\ [MigrationNext]_migrationVars => ArriveInv'
<1> SUFFICES ASSUME ArriveInv, [MigrationNext]_migrationVars PROVE ArriveInv'
  OBVIOUS
<1>1. HasInv' /\ TypeInv /\ TypeInv' /\ Grows
  BY HasStep, TypeStep, StepGrows DEF ArriveInv, HasInv
<1>2. ASSUME NEW m \in Run PROVE RunInv(m)'
  <2>1. CASE Begin(m) \/ Migrate(m)
    BY <1>1, <2>1, MapStep, PolicyStep, PendingStep, FinishedStep, ProgressStep
       DEF RunInv
  <2>2. CASE run'[m] = run[m]
    <3>1. RunInv(m) /\ run[m].seen \subseteq Person
      BY <1>1, LocalsOf DEF ArriveInv
    <3>2. MapSound(m)' /\ MapDone(m)' /\ PendingSound(m)' /\ Finished(m)'
      BY <2>2, <3>1 DEF RunInv, MapSound, MapDone, PendingSound, Finished,
         CredentialsDone
    <3>3. Progress(m)'
      <4>1. ASSUME run[m].pc \in Late, NEW k \in Behind(m)
            PROVE  PasswordArrived(m, k)' /\ EntryArrived(m, k)'
        <5>1. k \in Person /\ PasswordArrived(m, k) /\ EntryArrived(m, k)
          BY <3>1, <4>1 DEF RunInv, Progress, Behind
        <5> QED BY <1>1, <2>2, <5>1, StillArrived
      <4>2. Behind(m)' = Behind(m)
        BY <2>2 DEF Behind
      <4> QED BY <2>2, <4>1, <4>2 DEF Progress
    <3> QED BY <3>2, <3>3, PolicyStep DEF RunInv
  <2> QED BY <1>1, <2>1, <2>2, RunsMove, OthersKeep
<1> QED BY <1>1, <1>2, SourceStep, StateStep DEF ArriveInv

LEMMA ArriveInit == MigrationInit => ArriveInv
<1> SUFFICES ASSUME MigrationInit PROVE ArriveInv
  OBVIOUS
<1>1. ASSUME NEW m \in Run PROVE RunInv(m)
  <2>1. /\ run[m].pc = "idle" /\ run[m].password = FALSE /\ run[m].entries = {}
        /\ run[m].map = [p \in KratosProvider |-> Nobody]
    BY DEF MigrationInit, NotBegun
  <2> QED BY <2>1 DEF RunInv, MapSound, MapDone, PolicyDone, PendingSound, Finished,
          Progress, Late, PastProviders, PastPolicy
<1>2. credentials = {} /\ StateSound
  BY PersonTypes DEF MigrationInit, ProvisioningInit, StateSound
<1> QED BY <1>1, <1>2, HasInit DEF ArriveInv

LEMMA KeysAre ==
  ASSUME NEW m \in Run, NEW k \in Person, NEW key \in Keys(m, k)
  PROVE  \/ \E name \in PasswordOf[k] : key = <<password, name>>
         \/ \E e \in EntriesOf[k] :
              e[1] \in Configured /\ key = <<oidc, <<run[m].map[e[1]], e[2]>>>>
  BY DEF Keys

(* What the invariant promises of somebody who has arrived.                *)
LEMMA ArrivedMeans ==
  ASSUME ArriveInv, NEW k \in Person, NEW type, NEW name, Arrived(k, type, name)
  PROVE  \E i \in Named(type, name) :
           \/ i \in Newcomer /\ wanted[i] = <<type, name>>
           \/ \E l \in SharedBy(k, <<type, name>>) :
                i \in Run \X {l} /\ (l \notin Inactive => accounts[i] = "active")
<1>1. PICK c \in credentials :
         /\ c.type = type /\ name \in c.names
         /\ \/ c.identity \in Newcomer /\ wanted[c.identity] = <<type, name>>
            \/ \E n \in Run, l \in SharedBy(k, <<type, name>>) : c.identity = <<n, l>>
  BY DEF Arrived
<1>2. c.identity \in Named(type, name)
  BY <1>1 DEF Named
<1>3. CASE c.identity \in Newcomer /\ wanted[c.identity] = <<type, name>>
  BY <1>2, <1>3
<1>4. ASSUME NEW n \in Run, NEW l \in SharedBy(k, <<type, name>>),
             c.identity = <<n, l>>
      PROVE  c.identity \in Run \X {l}
             /\ (l \notin Inactive => accounts[c.identity] = "active")
  <2>1. l \in Person
    BY DEF SharedBy
  <2>2. accounts[<<n, l>>] = MigratedState(l)
    BY <1>4, <2>1 DEF ArriveInv, StateSound, HasInv, NothingDangles
  <2> QED BY <1>4, <2>2 DEF MigratedState
<1> QED BY <1>1, <1>2, <1>3, <1>4

(* However earlier runs ended and whoever registered meanwhile: each name  *)
(* of the people a completed run read and did not warn about leads to an   *)
(* identity made for them, or for somebody with whom they share the key,   *)
(* and the methods of Kratos are allowed (run.go:162-204, 258-386).        *)
THEOREM PeopleArrive == MigrationSpec => []MigratedPeopleArrive
<1>1. ArriveInv => MigratedPeopleArrive
  <2> SUFFICES ASSUME ArriveInv, NEW m \in Run, run[m].pc = "done"
               PROVE  /\ Enabled \subseteq policy
                      /\ \A k \in run[m].seen \ run[m].warned : \A key \in Keys(m, k) :
                           \E i \in Named(key[1], key[2]) :
                             \/ i \in Newcomer /\ wanted[i] = key
                             \/ \E l \in SharedBy(k, key) :
                                  /\ i \in Run \X {l}
                                  /\ l \notin Inactive => accounts[i] = "active"
    BY DEF MigratedPeopleArrive
  <2>1. RunInv(m) /\ policy = Enabled /\ CredentialsDone(m)
    BY DEF ArriveInv, RunInv, PolicyDone, Finished, PastPolicy, PastProviders, Late
  <2>2. ASSUME NEW k \in run[m].seen \ run[m].warned, NEW key \in Keys(m, k)
        PROVE  key = <<key[1], key[2]>> /\ k \in Person /\ Arrived(k, key[1], key[2])
    <3>1. k \in Person /\ k \in Behind(m)
      BY <2>1, LocalsOf DEF ArriveInv, HasInv, RunInv, Finished, Behind, Late
    <3>2. PasswordArrived(m, k) /\ EntryArrived(m, k)
      BY <2>1, <3>1 DEF RunInv, Progress, Late
    <3>3. ASSUME NEW name \in PasswordOf[k], key = <<password, name>>
          PROVE  key = <<key[1], key[2]>> /\ Arrived(k, key[1], key[2])
      BY <2>1, <3>2, <3>3 DEF PasswordArrived, CredentialsDone
    <3>4. ASSUME NEW e \in EntriesOf[k], e[1] \in Configured,
                 key = <<oidc, <<run[m].map[e[1]], e[2]>>>>
          PROVE  key = <<key[1], key[2]>> /\ Arrived(k, key[1], key[2])
      <4>1. e[1] \in KratosProvider /\ run[m].map[e[1]] \in ProviderRow
        BY <2>1, <3>4, LocalsOf, MigrationAssumption
           DEF ArriveInv, HasInv, RunInv, MapDone, PastProviders, Late
      <4>2. Arrived(k, oidc, <<run[m].map[e[1]], e[2]>>)
        BY <2>1, <3>2, <3>4, <4>1 DEF EntryArrived, CredentialsDone
      <4> QED BY <3>4, <4>2
    <3> QED BY <3>1, <3>3, <3>4, KeysAre
  <2>3. ASSUME NEW k \in run[m].seen \ run[m].warned, NEW key \in Keys(m, k)
        PROVE  \E i \in Named(key[1], key[2]) :
                 \/ i \in Newcomer /\ wanted[i] = key
                 \/ \E l \in SharedBy(k, key) :
                      i \in Run \X {l} /\ (l \notin Inactive => accounts[i] = "active")
    <3>1. key = <<key[1], key[2]>> /\ k \in Person /\ Arrived(k, key[1], key[2])
      BY <2>2
    <3>2. \E i \in Named(key[1], key[2]) :
            \/ i \in Newcomer /\ wanted[i] = <<key[1], key[2]>>
            \/ \E l \in SharedBy(k, <<key[1], key[2]>>) :
                 i \in Run \X {l} /\ (l \notin Inactive => accounts[i] = "active")
      BY <3>1, ArrivedMeans
    <3> QED BY <3>1, <3>2, Zenon
  <2> QED BY <2>1, <2>3
<1> QED BY <1>1, ArriveInit, ArriveStep, PTL DEF MigrationSpec

=============================================================================
