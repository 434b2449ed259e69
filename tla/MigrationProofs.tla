--------------------------- MODULE MigrationProofs ---------------------------
(***************************************************************************)
(* Proofs about Migration for any set of runs, newcomers, people,          *)
(* providers, credentials and sessions.                                    *)
(***************************************************************************)
EXTENDS Migration, TLAPS

-----------------------------------------------------------------------------
(* Types.  A run that is about to insert a provider or credentials knows   *)
(* which, and for whom.                                                    *)

KnowsWhat(m) ==
  /\ At(m, "insert_provider") => run[m].provider \in Configured
  /\ run[m].password \/ run[m].entries # {} => run[m].person \in Person
  /\ \A e \in run[m].entries : run[m].map[e[1]] # Nobody

TypeInv == MigrationTypeOK /\ \A m \in Run : KnowsWhat(m)

LEMMA NotBegunIsLocals == NotBegun \in RunLocals
  BY DEF NotBegun, RunLocals, RunPC

LEMMA StoppedIsLocals == [NotBegun EXCEPT !.pc = "stopped"] \in RunLocals
  BY DEF NotBegun, RunLocals, RunPC

LEMMA LocalsTypes ==
  ASSUME run \in [Run -> RunLocals], NEW m \in Run, NEW l \in RunLocals,
         run' = [run EXCEPT ![m] = l]
  PROVE  /\ run' \in [Run -> RunLocals]
         /\ run'[m] = l
         /\ \A n \in Run \ {m} : run'[n] = run[n]
  OBVIOUS

LEMMA GotoTypes ==
  ASSUME run \in [Run -> RunLocals], NEW m \in Run, NEW step \in RunPC,
         Goto(m, step)
  PROVE  /\ run' \in [Run -> RunLocals]
         /\ run'[m] = [run[m] EXCEPT !.pc = step]
         /\ \A n \in Run \ {m} : run'[n] = run[n]
<1>1. run[m] \in RunLocals
  OBVIOUS
<1>2. [run[m] EXCEPT !.pc = step] \in RunLocals
  BY <1>1 DEF RunLocals
<1>3. run' = [run EXCEPT ![m] = [run[m] EXCEPT !.pc = step]]
  BY DEF Goto
<1> QED BY <1>2, <1>3, LocalsTypes

LEMMA PersonTypes ==
  ASSUME NEW k \in Person
  PROVE  /\ PasswordOf[k] \subseteq Identifier
         /\ EntriesOf[k] \subseteq KratosProvider \X Subject
         /\ \A m \in Run : KnownEntries(m, k) \subseteq KratosProvider \X Subject
         /\ MigratedState(k) \in AccountState \ {"absent"}
         /\ \A m \in Run : <<m, k>> \in Identity
  BY MigrationAssumption DEF MigratedState, AccountState, KnownEntries

LEMMA EntryTypes ==
  ASSUME NEW x \in ProviderRow, NEW s \in Subject
  PROVE  {<<x, s>>} \subseteq Identifier
  BY MigrationAssumption

LEMMA NewRowTypes ==
  ASSUME credentials \subseteq Credential, NEW i \in Identity, NEW type \in Method,
         NEW names \in SUBSET Identifier,
         CreateCredential(i, type, names) \/ AddUnlessTaken(i, type, names)
  PROVE  credentials' \subseteq Credential
  BY DEF CreateCredential, AddUnlessTaken, Credential

LEMMA NewcomerGotoTypes ==
  ASSUME ProvisioningTypeOK, NEW r \in Newcomer, NEW here \in NPC, here # "idle",
         NEW next \in NPC, NewcomerGoto(r, here, next)
  PROVE  /\ npc' \in [Newcomer -> NPC]
         /\ wanted[r] \in Method \X Identifier
         /\ wanted' = wanted => \A q \in Newcomer : npc'[q] # "idle" => wanted'[q] # <<>>
  BY DEF ProvisioningTypeOK, NewcomerGoto

LEMMA NewcomerTypes ==
  ASSUME ProvisioningTypeOK, NEW r \in Newcomer, ServeNewcomer(r)
  PROVE  ProvisioningTypeOK'
<1> USE DEF NPC
<1>1. CASE \/ CheckTaken(r) \/ GetActive(r) \/ InsertDefaultFails(r)
           \/ GetActiveAgain(r)
  BY <1>1, NewcomerGotoTypes DEF CheckTaken, GetActive, InsertDefaultFails,
     GetActiveAgain, ReadOnly, ProvisioningTypeOK
<1>2. CASE InsertDefault(r)
  <2>1. schemas' \in [Newcomer \cup Run -> SchemaState]
    BY <1>2 DEF InsertDefault, InsertSchema, ProvisioningTypeOK, SchemaState
  <2> QED BY <1>2, <2>1, NewcomerGotoTypes DEF InsertDefault, ProvisioningTypeOK
<1>3. CASE ProvisionIdentity(r)
  <2>1. accounts' \in [Identity -> AccountState]
    BY <1>3, ProvisioningAssumption DEF ProvisionIdentity, CreateIdentity,
       ProvisioningTypeOK, AccountState
  <2> QED BY <1>3, <2>1, NewcomerGotoTypes DEF ProvisionIdentity,
          ProvisioningTypeOK
<1>4. CASE ProvisionCredential(r)
  <2>1. wanted[r] \in Method \X Identifier /\ r \in Identity
    BY <1>4, NewcomerGotoTypes, ProvisioningAssumption DEF ProvisionCredential
  <2>2. credentials' \subseteq Credential
    BY <1>4, <2>1, NewRowTypes DEF ProvisionCredential, ProvisioningTypeOK
  <2> QED BY <1>4, <2>2, NewcomerGotoTypes DEF ProvisionCredential,
          ProvisioningTypeOK
<1>5. CASE TurnAway(r)
  BY <1>5 DEF TurnAway, ReadOnly, ProvisioningTypeOK
<1> QED BY <1>1, <1>2, <1>3, <1>4, <1>5 DEF ServeNewcomer

(* What a step does to the locals: those of the run that moves stay well   *)
(* typed, the others do not change.                                        *)
LEMMA RunTypes ==
  ASSUME TypeInv, NEW m \in Run, Begin(m) \/ Migrate(m)
  PROVE  /\ run' \in [Run -> RunLocals]
         /\ KnowsWhat(m)'
         /\ \A n \in Run \ {m} : run'[n] = run[n]
<1> DEFINE l == run[m]
           Good == /\ run' \in [Run -> RunLocals]
                   /\ KnowsWhat(m)'
                   /\ \A n \in Run \ {m} : run'[n] = run[n]
<1>0. run \in [Run -> RunLocals] /\ l \in RunLocals /\ KnowsWhat(m)
  BY DEF TypeInv, MigrationTypeOK
<1>a. ASSUME NEW step \in RunPC \ {"insert_provider"}, Goto(m, step)
      PROVE  Good
  <2>1. /\ run' \in [Run -> RunLocals]
        /\ run'[m] = [run[m] EXCEPT !.pc = step]
        /\ \A n \in Run \ {m} : run'[n] = run[n]
    BY <1>0, <1>a, GotoTypes
  <2>2. /\ run'[m].pc = step /\ run'[m].person = l.person
        /\ run'[m].password = l.password /\ run'[m].entries = l.entries
        /\ run'[m].map = l.map
    BY <1>0, <2>1 DEF RunLocals
  <2> QED BY <1>0, <1>a, <2>1, <2>2 DEF KnowsWhat, At
<1>b. ASSUME NEW k \in RunLocals, run' = [run EXCEPT ![m] = k],
             k.pc = "insert_provider" => k.provider \in Configured,
             k.password \/ k.entries # {} => k.person \in Person,
             \A e \in k.entries : k.map[e[1]] # Nobody
      PROVE  Good
  BY <1>0, <1>b, LocalsTypes DEF KnowsWhat, At
<1>1. CASE \/ Begin(m) \/ EnsureTenant(m) \/ ProvidersMapped(m)
           \/ EndSessions(m) \/ DeactivateSchemas(m)
           \/ MigrateSchema(m) \/ MigratePolicy(m)
  BY <1>1, <1>a DEF Begin, EnsureTenant, ProvidersMapped,
     EndSessions, DeactivateSchemas, MigrateSchema, MigratePolicy, RunPC
<1>2. CASE FindProvider(m)
  <2>1. PICK p \in Configured :
          \/ \E x \in RowsOfKind(m, p) : run' = [run EXCEPT ![m].map[p] = x]
          \/ run' = [run EXCEPT ![m].pc = "insert_provider", ![m].provider = p]
    BY <1>2 DEF FindProvider, ToMap
  <2>2. p \in KratosProvider
    BY MigrationAssumption
  <2>3. ASSUME NEW x \in RowsOfKind(m, p), run' = [run EXCEPT ![m].map[p] = x]
        PROVE  Good
    <3> DEFINE k == [l EXCEPT !.map = [l.map EXCEPT ![p] = x]]
    <3>1. x \in ProviderRow
      BY <2>3 DEF RowsOfKind
    <3>2. k \in RunLocals
      BY <1>0, <2>2, <3>1 DEF RunLocals
    <3>3. k.pc = "sso" /\ k.password = l.password /\ k.entries = l.entries
          /\ k.person = l.person
      BY <1>0, <1>2 DEF RunLocals, FindProvider, At
    <3>4. run' = [run EXCEPT ![m] = k]
      BY <2>3
    <3>5. \A e \in k.entries : k.map[e[1]] # Nobody
      BY <1>0, <2>2, <3>1, <3>3, MigrationAssumption DEF KnowsWhat, RunLocals
    <3> QED BY <1>0, <1>b, <3>2, <3>3, <3>4, <3>5 DEF KnowsWhat
  <2>4. ASSUME run' = [run EXCEPT ![m].pc = "insert_provider", ![m].provider = p]
        PROVE  Good
    <3> DEFINE k == [l EXCEPT !.pc = "insert_provider", !.provider = p]
    <3>1. k \in RunLocals /\ k.provider = p /\ k.password = l.password
          /\ k.entries = l.entries /\ k.person = l.person /\ k.map = l.map
      BY <1>0, <2>2 DEF RunLocals, RunPC
    <3>2. run' = [run EXCEPT ![m] = k]
      BY <2>4
    <3> QED BY <1>0, <1>b, <3>1, <3>2 DEF KnowsWhat
  <2> QED BY <2>1, <2>3, <2>4
<1>3. CASE InsertProvider(m)
  <2> DEFINE p == l.provider
             k == [l EXCEPT !.pc = "sso", !.provider = Nobody,
                            !.map = [l.map EXCEPT ![p] = <<m, p>>]]
  <2>1. p \in KratosProvider /\ <<m, p>> \in ProviderRow
    BY <1>0, <1>3, MigrationAssumption DEF InsertProvider, KnowsWhat, ProviderRow
  <2>2. k \in RunLocals /\ k.pc = "sso" /\ k.password = l.password
        /\ k.entries = l.entries /\ k.person = l.person
    BY <1>0, <2>1 DEF RunLocals, RunPC
  <2>3. run' = [run EXCEPT ![m] = k]
    BY <1>3 DEF InsertProvider
  <2>4. \A e \in k.entries : k.map[e[1]] # Nobody
    BY <1>0, <2>1, <2>2, MigrationAssumption DEF KnowsWhat, RunLocals
  <2> QED BY <1>0, <1>b, <2>2, <2>3, <2>4 DEF KnowsWhat
<1>4. CASE ReadKratos(m)
  <2> DEFINE k == [l EXCEPT !.pc = "identities", !.seen = kratos, !.left = kratos]
  <2>1. k \in RunLocals /\ k.pc = "identities" /\ k.password = l.password
        /\ k.entries = l.entries /\ k.person = l.person /\ k.map = l.map
    BY <1>0 DEF RunLocals, RunPC, TypeInv, MigrationTypeOK
  <2>2. run' = [run EXCEPT ![m] = k]
    BY <1>4 DEF ReadKratos
  <2> QED BY <1>0, <1>b, <2>1, <2>2 DEF KnowsWhat
<1>5. CASE InsertIdentity(m)
  <2>1. PICK q \in l.left :
          run' = [run EXCEPT ![m].left = @ \ {q}, ![m].person = q,
                             ![m].password = (PasswordOf[q] # {}),
                             ![m].entries = KnownEntries(m, q)]
    BY <1>5 DEF InsertIdentity
  <2> DEFINE k == [l EXCEPT !.left = l.left \ {q}, !.person = q,
                            !.password = (PasswordOf[q] # {}),
                            !.entries = KnownEntries(m, q)]
  <2>2. q \in Person
    BY <1>0 DEF RunLocals
  <2>3. /\ k \in RunLocals /\ k.pc = "identities" /\ k.person = q
        /\ k.entries = KnownEntries(m, q) /\ k.map = l.map
    BY <1>0, <1>5, <2>2, PersonTypes DEF RunLocals, InsertIdentity, At
  <2>4. run' = [run EXCEPT ![m] = k]
    BY <2>1
  <2>5. \A e \in k.entries : k.map[e[1]] # Nobody
    BY <2>3 DEF KnownEntries
  <2> QED BY <1>0, <1>b, <2>2, <2>3, <2>4, <2>5
<1>6. CASE SkipIdentity(m)
  <2>1. PICK q \in l.left : run' = [run EXCEPT ![m].left = @ \ {q},
                                               ![m].warned = @ \cup {q}]
    BY <1>6 DEF SkipIdentity
  <2> DEFINE k == [l EXCEPT !.left = l.left \ {q}, !.warned = l.warned \cup {q}]
  <2>2. k \in RunLocals /\ k.pc = "identities" /\ k.person = l.person
        /\ k.password = l.password /\ k.entries = l.entries /\ k.map = l.map
    BY <1>0, <1>6 DEF RunLocals, SkipIdentity, At
  <2>3. run' = [run EXCEPT ![m] = k]
    BY <2>1
  <2> QED BY <1>0, <1>b, <2>2, <2>3 DEF KnowsWhat
<1>7. CASE MigratePassword(m)
  <2> DEFINE k == [l EXCEPT !.password = FALSE]
  <2>1. k \in RunLocals /\ k.pc = "identities" /\ k.person = l.person
        /\ ~ k.password /\ k.entries = l.entries /\ k.map = l.map
    BY <1>0, <1>7 DEF RunLocals, MigratePassword, At
  <2>2. run' = [run EXCEPT ![m] = k]
    BY <1>7 DEF MigratePassword
  <2> QED BY <1>0, <1>b, <2>1, <2>2 DEF KnowsWhat
<1>8. CASE MigrateEntry(m)
  <2>1. PICK e \in l.entries : run' = [run EXCEPT ![m].entries = @ \ {e}]
    BY <1>8 DEF MigrateEntry
  <2> DEFINE k == [l EXCEPT !.entries = l.entries \ {e}]
  <2>2. k \in RunLocals /\ k.pc = "identities" /\ k.person = l.person
        /\ k.password = l.password /\ k.map = l.map /\ k.entries \subseteq l.entries
    BY <1>0, <1>8 DEF RunLocals, MigrateEntry, At
  <2>3. run' = [run EXCEPT ![m] = k]
    BY <2>1
  <2> QED BY <1>0, <1>b, <2>1, <2>2, <2>3 DEF KnowsWhat
<1>9. CASE SkipCredential(m)
  <2>1. l.person \in Person /\ l.pc = "identities"
    BY <1>0, <1>9 DEF SkipCredential, KnowsWhat, At
  <2>2. CASE run' = [run EXCEPT ![m].password = FALSE,
                                ![m].warned = @ \cup {run[m].person}]
    <3> DEFINE k == [l EXCEPT !.password = FALSE, !.warned = l.warned \cup {l.person}]
    <3>1. /\ k \in RunLocals /\ k.pc = "identities" /\ k.person = l.person
          /\ k.entries = l.entries /\ k.map = l.map
      BY <1>0, <2>1 DEF RunLocals
    <3>2. run' = [run EXCEPT ![m] = k]
      BY <2>2
    <3> QED BY <1>0, <1>b, <2>1, <3>1, <3>2 DEF KnowsWhat
  <2>3. CASE run' = [run EXCEPT ![m].entries = {},
                                ![m].warned = @ \cup {run[m].person}]
    <3> DEFINE k == [l EXCEPT !.entries = {}, !.warned = l.warned \cup {l.person}]
    <3>1. /\ k \in RunLocals /\ k.pc = "identities" /\ k.person = l.person
          /\ k.entries = {}
      BY <1>0, <2>1 DEF RunLocals
    <3>2. run' = [run EXCEPT ![m] = k]
      BY <2>3
    <3> QED BY <1>0, <1>b, <2>1, <3>1, <3>2
  <2> QED BY <1>9, <2>2, <2>3 DEF SkipCredential
<1>10. CASE ReadSessions(m)
  <2>1. PICK ts \in SUBSET Token :
          run' = [run EXCEPT ![m].pc = "sessions", ![m].tokens = ts]
    BY <1>10 DEF ReadSessions
  <2> DEFINE k == [l EXCEPT !.pc = "sessions", !.tokens = ts]
  <2>2. k \in RunLocals /\ k.pc = "sessions" /\ k.person = l.person
        /\ k.password = l.password /\ k.entries = l.entries /\ k.map = l.map
    BY <1>0 DEF RunLocals, RunPC
  <2>3. run' = [run EXCEPT ![m] = k]
    BY <2>1
  <2> QED BY <1>0, <1>b, <2>2, <2>3 DEF KnowsWhat
<1>11. CASE MigrateSession(m)
  <2>1. PICK t \in l.tokens : run' = [run EXCEPT ![m].tokens = @ \ {t}]
    BY <1>11 DEF MigrateSession
  <2> DEFINE k == [l EXCEPT !.tokens = l.tokens \ {t}]
  <2>2. k \in RunLocals /\ k.pc = "sessions" /\ k.person = l.person
        /\ k.password = l.password /\ k.entries = l.entries /\ k.map = l.map
    BY <1>0, <1>11 DEF RunLocals, MigrateSession, At
  <2>3. run' = [run EXCEPT ![m] = k]
    BY <2>1
  <2> QED BY <1>0, <1>b, <2>2, <2>3 DEF KnowsWhat
<1>12. CASE Stop(m)
  <2> DEFINE k == [NotBegun EXCEPT !.pc = "stopped"]
  <2>1. k.pc = "stopped" /\ ~ k.password /\ k.entries = {}
    BY DEF NotBegun
  <2> QED BY <1>12, <1>b, <2>1, StoppedIsLocals DEF Stop
<1>13. CASE EndIdentities(m)
  <2>1. PICK step \in {"done", "read_sessions"} :
          run' = [run EXCEPT ![m].pc = step, ![m].person = Nobody]
    BY <1>13 DEF EndIdentities
  <2> DEFINE k == [l EXCEPT !.pc = step, !.person = Nobody]
  <2>2. k \in RunLocals /\ k.pc = step /\ ~ k.password /\ k.entries = {}
    BY <1>0, <1>13 DEF RunLocals, RunPC, EndIdentities, CredentialsDone
  <2>3. run' = [run EXCEPT ![m] = k]
    BY <2>1
  <2> QED BY <1>b, <2>2, <2>3
<1> QED BY <1>1, <1>2, <1>3, <1>4, <1>5, <1>6, <1>7, <1>8, <1>9, <1>10, <1>11,
        <1>12, <1>13 DEF Migrate

LEMMA NewcomersLeaveRuns ==
  ASSUME TypeInv, UNCHANGED run
  PROVE  \A m \in Run : KnowsWhat(m)'
  BY DEF TypeInv, KnowsWhat, At

LEMMA MigrateTypes ==
  ASSUME TypeInv, NEW m \in Run, Begin(m) \/ Migrate(m)
  PROVE  /\ ProvisioningTypeOK'
         /\ tenant' \in BOOLEAN /\ policy' \subseteq Method
         /\ providers' \in [ProviderRow -> ProviderState]
         /\ sessions' \in [Token -> Owner] /\ kratos' \subseteq Person
<1> USE DEF provisioningVars
<1>0. /\ ProvisioningTypeOK /\ tenant \in BOOLEAN /\ policy \subseteq Method
      /\ providers \in [ProviderRow -> ProviderState]
      /\ sessions \in [Token -> Owner] /\ kratos \subseteq Person
      /\ run[m] \in RunLocals /\ KnowsWhat(m)
  BY DEF TypeInv, MigrationTypeOK
<1>1. CASE UNCHANGED <<policy, providers, sessions, kratos, accounts,
                       credentials, provisioningVars>> /\ tenant' \in BOOLEAN
  BY <1>0, <1>1 DEF ProvisioningTypeOK
<1>2. CASE \/ Begin(m) \/ EnsureTenant(m) \/ FindProvider(m)
           \/ ProvidersMapped(m) \/ ReadKratos(m) \/ SkipIdentity(m)
           \/ SkipCredential(m) \/ EndIdentities(m) \/ ReadSessions(m)
           \/ EndSessions(m) \/ Stop(m)
  BY <1>0, <1>1, <1>2 DEF Begin, EnsureTenant, FindProvider, ProvidersMapped,
     ReadKratos, SkipIdentity, SkipCredential, EndIdentities, ReadSessions,
     EndSessions, Stop
<1>3. CASE DeactivateSchemas(m) \/ MigrateSchema(m)
  <2>1. schemas' \in [Newcomer \cup Run -> SchemaState]
    BY <1>0, <1>3 DEF DeactivateSchemas, MigrateSchema, InsertSchema,
       ProvisioningTypeOK, SchemaState
  <2> QED BY <1>0, <1>3, <2>1 DEF DeactivateSchemas, MigrateSchema,
          ProvisioningTypeOK
<1>4. CASE MigratePolicy(m)
  BY <1>0, <1>4, MigrationAssumption DEF MigratePolicy, AllowedFirstFactors,
     ProvisioningTypeOK
<1>5. CASE InsertProvider(m)
  <2>1. <<m, run[m].provider>> \in ProviderRow
    BY <1>0, <1>5, MigrationAssumption DEF InsertProvider, KnowsWhat, ProviderRow
  <2> QED BY <1>0, <1>5, <2>1 DEF InsertProvider, ProviderState,
          ProvisioningTypeOK
<1>6. CASE InsertIdentity(m)
  <2>1. PICK k \in run[m].left : CreateIdentity(<<m, k>>, MigratedState(k))
    BY <1>6 DEF InsertIdentity
  <2>2. k \in Person
    BY <1>0 DEF RunLocals
  <2>3. accounts' \in [Identity -> AccountState]
    BY <1>0, <2>1, <2>2, PersonTypes DEF CreateIdentity, ProvisioningTypeOK
  <2> QED BY <1>0, <1>6, <2>3 DEF InsertIdentity, ProvisioningTypeOK
<1>7. CASE MigratePassword(m)
  <2>1. run[m].person \in Person
    BY <1>0, <1>7 DEF MigratePassword, KnowsWhat
  <2>2. credentials' \subseteq Credential
    BY <1>0, <1>7, <2>1, PersonTypes, NewRowTypes, ProvisioningAssumption
       DEF MigratePassword, ProvisioningTypeOK
  <2> QED BY <1>0, <1>7, <2>2 DEF MigratePassword, ProvisioningTypeOK
<1>8. CASE MigrateEntry(m)
  <2>1. PICK e \in run[m].entries :
          AddUnlessTaken(<<m, run[m].person>>, oidc, {<<run[m].map[e[1]], e[2]>>})
    BY <1>8 DEF MigrateEntry
  <2>2. run[m].person \in Person
    BY <1>0, <1>8 DEF MigrateEntry, KnowsWhat
  <2>3. e[1] \in KratosProvider /\ e[2] \in Subject
    BY <1>0 DEF RunLocals
  <2>4. run[m].map[e[1]] \in ProviderRow
    BY <1>0, <2>3 DEF RunLocals, KnowsWhat
  <2>5. credentials' \subseteq Credential
    BY <1>0, <2>1, <2>2, <2>3, <2>4, PersonTypes, EntryTypes, NewRowTypes,
       ProvisioningAssumption DEF ProvisioningTypeOK
  <2> QED BY <1>0, <1>8, <2>5 DEF MigrateEntry, ProvisioningTypeOK
<1>9. CASE MigrateSession(m)
  <2>1. \A t \in Token : <<m, Holder[t]>> \in Owner
    BY MigrationAssumption DEF Owner
  <2>2. sessions' \in [Token -> Owner]
    BY <1>0, <1>9, <2>1 DEF MigrateSession
  <2> QED BY <1>0, <1>9, <2>2 DEF MigrateSession, ProvisioningTypeOK
<1> QED BY <1>2, <1>3, <1>4, <1>5, <1>6, <1>7, <1>8, <1>9 DEF Migrate

LEMMA TypeStep == TypeInv /\ [MigrationNext]_migrationVars => TypeInv'
<1> SUFFICES ASSUME TypeInv, [MigrationNext]_migrationVars PROVE TypeInv'
  OBVIOUS
<1> USE DEF provisioningVars
<1>0. MigrationTypeOK /\ \A m \in Run : KnowsWhat(m)
  BY DEF TypeInv
<1>1. ASSUME NEW m \in Run, Begin(m) \/ Migrate(m) PROVE TypeInv'
  <2>1. \A n \in Run : KnowsWhat(n)'
    BY <1>0, <1>1, RunTypes DEF KnowsWhat, At
  <2> QED BY <1>1, <2>1, RunTypes, MigrateTypes DEF TypeInv, MigrationTypeOK
<1>2. ASSUME NEW r \in Newcomer, Ask(r) PROVE TypeInv'
  <2>1. PICK key \in Method \X Identifier : wanted' = [wanted EXCEPT ![r] = key]
    <3>1. ASSUME NEW name \in Email PROVE <<password, name>> \in Method \X Identifier
      BY ProvisioningAssumption, MigrationAssumption
    <3>2. ASSUME NEW x \in ProviderRow, NEW s \in Subject
          PROVE  <<oidc, <<x, s>>>> \in Method \X Identifier
      <4>1. <<x, s>> \in Identifier
        BY MigrationAssumption
      <4> QED BY <4>1, ProvisioningAssumption
    <3>3. PICK key \in Wishes : wanted' = [wanted EXCEPT ![r] = key]
      BY <1>2 DEF Ask
    <3>4. \/ \E name \in Email : key = <<password, name>>
          \/ \E x \in ProviderRow, s \in Subject : key = <<oidc, <<x, s>>>>
      BY MigrationAssumption
    <3>5. key \in Method \X Identifier
      BY <3>1, <3>2, <3>4
    <3> QED BY <3>3, <3>5, Zenon
  <2>2. /\ wanted' \in [Newcomer -> (Method \X Identifier) \cup {<<>>}]
        /\ wanted'[r] # <<>>
        /\ \A q \in Newcomer \ {r} : wanted'[q] = wanted[q]
    <3>1. wanted \in [Newcomer -> (Method \X Identifier) \cup {<<>>}]
      BY <1>0 DEF MigrationTypeOK, ProvisioningTypeOK
    <3>2. key # <<>>
      OBVIOUS
    <3> QED BY <2>1, <3>1, <3>2
  <2>3. npc' \in [Newcomer -> NPC] /\ \A q \in Newcomer \ {r} : npc'[q] = npc[q]
    BY <1>0, <1>2 DEF Ask, NewcomerGoto, MigrationTypeOK, ProvisioningTypeOK, NPC
  <2>4. ProvisioningTypeOK'
    BY <1>0, <1>2, <2>2, <2>3 DEF Ask, MigrationTypeOK, ProvisioningTypeOK
  <2> QED BY <1>0, <1>2, <2>4, NewcomersLeaveRuns DEF Ask, MigrationTypeOK, TypeInv
<1>3. ASSUME NEW r \in Newcomer, Provision(r) PROVE TypeInv'
  BY <1>0, <1>3, NewcomerTypes, NewcomersLeaveRuns DEF Provision,
     MigrationTypeOK, TypeInv
<1>4. ASSUME NEW p \in ByHand, CreateProvider(p) PROVE TypeInv'
  <2>1. <<admin, p>> \in ProviderRow
    BY MigrationAssumption DEF ProviderRow
  <2>2. providers' \in [ProviderRow -> ProviderState]
    BY <1>0, <1>4, <2>1 DEF CreateProvider, MigrationTypeOK, ProviderState
  <2> QED BY <1>0, <1>4, <2>2, NewcomersLeaveRuns DEF CreateProvider,
          MigrationTypeOK, ProvisioningTypeOK, TypeInv
<1>5. ASSUME NEW x \in Deletable, DeleteProvider(x) PROVE TypeInv'
  <2>1. providers' \in [ProviderRow -> ProviderState]
    BY <1>0, <1>5, MigrationAssumption DEF DeleteProvider, MigrationTypeOK,
       ProviderState
  <2> QED BY <1>0, <1>5, <2>1, NewcomersLeaveRuns DEF DeleteProvider,
          MigrationTypeOK, ProvisioningTypeOK, TypeInv
<1>6. ASSUME NEW k \in Person, SignUp(k) PROVE TypeInv'
  BY <1>0, <1>6, NewcomersLeaveRuns DEF SignUp, MigrationTypeOK,
     ProvisioningTypeOK, TypeInv
<1>7. CASE UNCHANGED migrationVars
  BY <1>0, <1>7, NewcomersLeaveRuns DEF migrationVars, MigrationTypeOK,
     ProvisioningTypeOK, TypeInv
<1> QED BY <1>1, <1>2, <1>3, <1>4, <1>5, <1>6, <1>7 DEF MigrationNext

LEMMA TypeInit == MigrationInit => TypeInv
<1> SUFFICES ASSUME MigrationInit PROVE TypeInv
  OBVIOUS
<1>1. ProvisioningTypeOK
  BY DEF MigrationInit, ProvisioningInit, ProvisioningTypeOK, AccountState,
     SchemaState, NPC
<1>2. MigrationTypeOK
  BY <1>1, NotBegunIsLocals, MigrationAssumption, ProvisioningAssumption
     DEF MigrationInit, MigrationTypeOK, ProviderState, Owner
<1>3. ASSUME NEW m \in Run PROVE KnowsWhat(m)
  BY DEF MigrationInit, KnowsWhat, At, NotBegun
<1> QED BY <1>2, <1>3 DEF TypeInv

LEMMA TypeInvariant == MigrationSpec => []TypeInv
  BY TypeInit, TypeStep, PTL DEF MigrationSpec

(* Rows and locals keep their types whatever runs, newcomers and           *)
(* administrators do to one another (run.go, schema/store.go).             *)
THEOREM MigrationTypeCorrect == MigrationSpec => []MigrationTypeOK
<1>1. TypeInv => MigrationTypeOK
  BY DEF TypeInv
<1> QED BY <1>1, TypeInvariant, PTL

-----------------------------------------------------------------------------
(* What each statement does to the locals of its run.                      *)

KeepsPending(m) == run'[m].password = run[m].password /\ run'[m].entries = run[m].entries
KeepsPeople(m) == run'[m].seen = run[m].seen /\ run'[m].left = run[m].left
                  /\ run'[m].person = run[m].person /\ run'[m].warned = run[m].warned
KeepsMap(m) == run'[m].map = run[m].map
KeepsTokens(m) == run'[m].tokens = run[m].tokens

LEMMA GotoKeeps ==
  ASSUME run \in [Run -> RunLocals], NEW m \in Run, NEW step, Goto(m, step)
  PROVE  /\ run'[m].pc = step /\ KeepsPending(m) /\ KeepsPeople(m)
         /\ KeepsMap(m) /\ KeepsTokens(m) 
  BY DEF Goto, RunLocals, KeepsPending, KeepsPeople, KeepsMap, KeepsTokens

LEMMA FindKeeps ==
  ASSUME run \in [Run -> RunLocals], NEW m \in Run, FindProvider(m)
  PROVE  /\ KeepsPending(m) /\ KeepsPeople(m) /\ KeepsTokens(m)
         /\ \E p \in Configured :
              \/ /\ run'[m].pc = run[m].pc
                 /\ \E x \in RowsOfKind(m, p) : run'[m].map = [run[m].map EXCEPT ![p] = x]
              \/ /\ RowsOfKind(m, p) = {} /\ KeepsMap(m)
                 /\ run'[m].pc = "insert_provider" /\ run'[m].provider = p
<1>1. PICK p \in Configured :
        \/ \E x \in RowsOfKind(m, p) : run' = [run EXCEPT ![m].map[p] = x]
        \/ /\ RowsOfKind(m, p) = {}
           /\ run' = [run EXCEPT ![m].pc = "insert_provider", ![m].provider = p]
  BY DEF FindProvider, ToMap
<1>2. ASSUME NEW x \in RowsOfKind(m, p), run' = [run EXCEPT ![m].map[p] = x]
      PROVE  /\ KeepsPending(m) /\ KeepsPeople(m) /\ KeepsTokens(m)
             /\ run'[m].pc = run[m].pc
             /\ run'[m].map = [run[m].map EXCEPT ![p] = x]
  BY <1>2 DEF RunLocals, KeepsPending, KeepsPeople, KeepsTokens
<1>3. ASSUME run' = [run EXCEPT ![m].pc = "insert_provider", ![m].provider = p]
      PROVE  /\ KeepsPending(m) /\ KeepsPeople(m) /\ KeepsTokens(m) /\ KeepsMap(m)
             /\ run'[m].pc = "insert_provider" /\ run'[m].provider = p
  BY <1>3 DEF RunLocals, KeepsPending, KeepsPeople, KeepsTokens, KeepsMap
<1> QED BY <1>1, <1>2, <1>3

LEMMA InsertProviderKeeps ==
  ASSUME run \in [Run -> RunLocals], NEW m \in Run, InsertProvider(m)
  PROVE  /\ KeepsPending(m) /\ KeepsPeople(m) /\ KeepsTokens(m)
         /\ run'[m].pc = "sso"
         /\ run'[m].map = [run[m].map EXCEPT ![run[m].provider] = <<m, run[m].provider>>]
  BY DEF InsertProvider, RunLocals, KeepsPending, KeepsPeople, KeepsMap, KeepsTokens

LEMMA ReadKratosKeeps ==
  ASSUME run \in [Run -> RunLocals], NEW m \in Run, ReadKratos(m)
  PROVE  /\ KeepsPending(m) /\ KeepsTokens(m) /\ KeepsMap(m)
         /\ run'[m].person = run[m].person /\ run'[m].warned = run[m].warned
         /\ run'[m].pc = "identities" /\ run'[m].seen = kratos /\ run'[m].left = kratos
  BY DEF ReadKratos, RunLocals, KeepsPending, KeepsPeople, KeepsMap, KeepsTokens

LEMMA InsertIdentityKeeps ==
  ASSUME run \in [Run -> RunLocals], NEW m \in Run, InsertIdentity(m)
  PROVE  /\ KeepsMap(m) /\ KeepsTokens(m) 
         /\ run'[m].pc = "identities"
         /\ run'[m].seen = run[m].seen /\ run'[m].warned = run[m].warned
         /\ \E k \in run[m].left :
              /\ CreateIdentity(<<m, k>>, MigratedState(k))
              /\ run'[m].left = run[m].left \ {k} /\ run'[m].person = k
              /\ run'[m].password = (PasswordOf[k] # {})
              /\ run'[m].entries = KnownEntries(m, k)
<1>1. PICK k \in run[m].left :
        /\ CreateIdentity(<<m, k>>, MigratedState(k))
        /\ run' = [run EXCEPT ![m].left = @ \ {k}, ![m].person = k,
                              ![m].password = (PasswordOf[k] # {}),
                              ![m].entries = KnownEntries(m, k)]
  BY DEF InsertIdentity
<1>2. /\ run'[m].left = run[m].left \ {k} /\ run'[m].person = k
      /\ run'[m].password = (PasswordOf[k] # {})
      /\ run'[m].entries = KnownEntries(m, k)
  BY <1>1 DEF RunLocals
<1>3. /\ KeepsMap(m) /\ KeepsTokens(m) /\ run'[m].pc = "identities"
      /\ run'[m].seen = run[m].seen /\ run'[m].warned = run[m].warned
  <2>1. run[m].pc = "identities"
    BY DEF InsertIdentity, At
  <2>2. \E l, d, e : run' = [run EXCEPT ![m].left = l, ![m].person = k,
                                        ![m].password = d, ![m].entries = e]
    BY <1>1
  <2> QED BY <2>1, <2>2 DEF RunLocals, KeepsMap, KeepsTokens
<1> QED BY <1>1, <1>2, <1>3

LEMMA SkipIdentityKeeps ==
  ASSUME run \in [Run -> RunLocals], NEW m \in Run, SkipIdentity(m)
  PROVE  /\ KeepsPending(m) /\ KeepsMap(m) /\ KeepsTokens(m) 
         /\ run'[m].pc = "identities"
         /\ run'[m].seen = run[m].seen /\ run'[m].person = run[m].person
         /\ \E k \in run[m].left :
              /\ run'[m].left = run[m].left \ {k}
              /\ run'[m].warned = run[m].warned \cup {k}
  BY DEF SkipIdentity, At, RunLocals, KeepsPending, KeepsPeople, KeepsMap, KeepsTokens

LEMMA MigratePasswordKeeps ==
  ASSUME run \in [Run -> RunLocals], NEW m \in Run, MigratePassword(m)
  PROVE  /\ KeepsPeople(m) /\ KeepsMap(m) /\ KeepsTokens(m) 
         /\ run'[m].pc = "identities"
         /\ run'[m].password = FALSE /\ run'[m].entries = run[m].entries
  BY DEF MigratePassword, At, RunLocals, KeepsPending, KeepsPeople, KeepsMap, KeepsTokens

LEMMA MigrateEntryKeeps ==
  ASSUME run \in [Run -> RunLocals], NEW m \in Run, MigrateEntry(m)
  PROVE  /\ KeepsPeople(m) /\ KeepsMap(m) /\ KeepsTokens(m) 
         /\ run'[m].pc = "identities"
         /\ run'[m].password = run[m].password 
         /\ \E e \in run[m].entries :
              /\ run'[m].entries = run[m].entries \ {e}
              /\ AddUnlessTaken(<<m, run[m].person>>, oidc,
                                {<<run[m].map[e[1]], e[2]>>})
<1>1. PICK e \in run[m].entries :
        /\ AddUnlessTaken(<<m, run[m].person>>, oidc,
                          {<<run[m].map[e[1]], e[2]>>})
        /\ run' = [run EXCEPT ![m].entries = @ \ {e}]
  BY DEF MigrateEntry
<1>2. /\ KeepsPeople(m) /\ KeepsMap(m) /\ KeepsTokens(m)
      /\ run'[m].pc = "identities" /\ run'[m].password = run[m].password
      /\ run'[m].entries = run[m].entries \ {e}
  BY <1>1 DEF MigrateEntry, At, RunLocals, KeepsPeople, KeepsMap, KeepsTokens
<1> QED BY <1>1, <1>2

LEMMA SkipCredentialKeeps ==
  ASSUME run \in [Run -> RunLocals], NEW m \in Run, SkipCredential(m)
  PROVE  /\ KeepsMap(m) /\ KeepsTokens(m) 
         /\ run'[m].pc = "identities"
         /\ run'[m].seen = run[m].seen /\ run'[m].left = run[m].left
         /\ run'[m].person = run[m].person
         /\ run[m].password \/ run[m].entries # {}
         /\ run'[m].warned = run[m].warned \cup {run[m].person}
         /\ \/ run'[m].password = FALSE /\ run'[m].entries = run[m].entries
            \/ run'[m].password = run[m].password /\ run'[m].entries = {}
  BY DEF SkipCredential, At, RunLocals, KeepsPending, KeepsPeople, KeepsMap, KeepsTokens

LEMMA EndIdentitiesKeeps ==
  ASSUME run \in [Run -> RunLocals], NEW m \in Run, EndIdentities(m)
  PROVE  /\ KeepsPending(m) /\ KeepsMap(m) /\ KeepsTokens(m)
         /\ run'[m].pc \in {"done", "read_sessions"}
         /\ run'[m].seen = run[m].seen /\ run'[m].left = run[m].left
         /\ run'[m].warned = run[m].warned
         /\ run[m].pc = "identities" /\ run[m].left = {} /\ CredentialsDone(m)
  BY DEF EndIdentities, At, RunLocals, KeepsPending, KeepsMap, KeepsTokens

LEMMA ReadSessionsKeeps ==
  ASSUME run \in [Run -> RunLocals], NEW m \in Run, ReadSessions(m)
  PROVE  /\ KeepsPending(m) /\ KeepsPeople(m) /\ KeepsMap(m)
         /\ run'[m].pc = "sessions"
         /\ run'[m].tokens \subseteq {t \in Token : Holder[t] \in IdentityMap(m)}
  BY DEF ReadSessions, At, RunLocals, KeepsPending, KeepsPeople, KeepsMap, KeepsTokens

LEMMA MigrateSessionKeeps ==
  ASSUME run \in [Run -> RunLocals], NEW m \in Run, MigrateSession(m)
  PROVE  /\ KeepsPending(m) /\ KeepsPeople(m) /\ KeepsMap(m)
         /\ run'[m].pc = "sessions"
         /\ \E t \in run[m].tokens :
              /\ run'[m].tokens = run[m].tokens \ {t}
              /\ sessions' \in {sessions, [sessions EXCEPT ![t] =
                    IF @ = NoIdentity THEN <<m, Holder[t]>> ELSE @]}
  BY DEF MigrateSession, At, RunLocals, KeepsPending, KeepsPeople, KeepsMap, KeepsTokens

LEMMA StopKeeps ==
  ASSUME run \in [Run -> RunLocals], NEW m \in Run, Stop(m)
  PROVE  /\ run'[m].pc = "stopped" 
         /\ run'[m].password = FALSE /\ run'[m].entries = {} /\ run'[m].tokens = {}
  BY DEF Stop, NotBegun

(* The other runs keep theirs.                                             *)
LEMMA OthersKeep ==
  ASSUME TypeInv, NEW m \in Run, Begin(m) \/ Migrate(m), NEW n \in Run \ {m}
  PROVE  run'[n] = run[n]
  BY RunTypes

GotoStep(m) ==
  \/ Begin(m) \/ EnsureTenant(m) \/ DeactivateSchemas(m) \/ MigrateSchema(m)
  \/ MigratePolicy(m) \/ ProvidersMapped(m) \/ EndSessions(m)

LEMMA GotoStepKeeps ==
  ASSUME run \in [Run -> RunLocals], NEW m \in Run, GotoStep(m)
  PROVE  /\ KeepsPending(m) /\ KeepsPeople(m) /\ KeepsMap(m) /\ KeepsTokens(m)
         /\ run'[m].pc # "insert_provider"
<1>1. \E step \in RunPC \ {"insert_provider"} : Goto(m, step)
  BY DEF GotoStep, Begin, EnsureTenant, DeactivateSchemas, MigrateSchema,
     MigratePolicy, ProvidersMapped, EndSessions, RunPC
<1> QED BY <1>1, GotoKeeps

-----------------------------------------------------------------------------
(* What only ever grows: nothing that was inserted is changed.             *)

Grows ==
  /\ \A i \in Identity : accounts[i] # "absent" => accounts'[i] = accounts[i]
  /\ credentials \subseteq credentials'
  /\ \A t \in Token : sessions[t] # NoIdentity => sessions'[t] = sessions[t]
  /\ \A r \in Newcomer : npc[r] # "idle" => wanted'[r] = wanted[r]
  /\ \A r \in Newcomer : npc[r] # "idle" => npc'[r] # "idle"

LEMMA StepGrows == TypeInv /\ [MigrationNext]_migrationVars => Grows
<1> SUFFICES ASSUME TypeInv, [MigrationNext]_migrationVars PROVE Grows
  OBVIOUS
<1> USE DEF provisioningVars, Grows
<1>0. /\ accounts \in [Identity -> AccountState]
      /\ npc \in [Newcomer -> NPC]
      /\ sessions \in [Token -> Owner]
      /\ run \in [Run -> RunLocals]
      /\ wanted \in [Newcomer -> (Method \X Identifier) \cup {<<>>}]
  BY DEF TypeInv, MigrationTypeOK, ProvisioningTypeOK
<1>1. CASE UNCHANGED <<accounts, credentials, sessions, npc, wanted>>
  BY <1>1
<1>2. ASSUME NEW m \in Run,
             \/ GotoStep(m) \/ FindProvider(m) \/ InsertProvider(m)
             \/ ReadKratos(m) \/ SkipIdentity(m) \/ SkipCredential(m)
             \/ EndIdentities(m) \/ ReadSessions(m) \/ Stop(m)
      PROVE  UNCHANGED <<accounts, credentials, sessions, npc, wanted>>
  BY <1>2 DEF GotoStep, Begin, EnsureTenant, DeactivateSchemas, MigrateSchema,
     MigratePolicy, FindProvider, InsertProvider, ProvidersMapped, ReadKratos,
     SkipIdentity, SkipCredential, EndIdentities, ReadSessions, EndSessions, Stop
<1>3. ASSUME NEW m \in Run, InsertIdentity(m) PROVE Grows
  BY <1>0, <1>3 DEF InsertIdentity, CreateIdentity
<1>4. ASSUME NEW m \in Run, MigratePassword(m) \/ MigrateEntry(m) PROVE Grows
  BY <1>4 DEF MigratePassword, MigrateEntry, AddUnlessTaken, CreateCredential
<1>5. ASSUME NEW m \in Run, MigrateSession(m) PROVE Grows
  BY <1>0, <1>5 DEF MigrateSession
<1>6. ASSUME NEW r \in Newcomer, Ask(r) PROVE Grows
  BY <1>0, <1>6 DEF Ask, NewcomerGoto
<1>7. ASSUME NEW r \in Newcomer, Provision(r) PROVE Grows
  <2>1. /\ wanted' = wanted /\ sessions' = sessions
        /\ \A q \in Newcomer : npc[q] # "idle" => npc'[q] # "idle"
    BY <1>0, <1>7 DEF Provision, ServeNewcomer, CheckTaken, GetActive,
       InsertDefault, InsertDefaultFails, GetActiveAgain, ProvisionIdentity,
       ProvisionCredential, TurnAway, ReadOnly, NewcomerGoto
  <2>2. /\ \A i \in Identity : accounts[i] # "absent" => accounts'[i] = accounts[i]
        /\ credentials \subseteq credentials'
    BY <1>0, <1>7 DEF Provision, ServeNewcomer, CheckTaken, GetActive,
       InsertDefault, InsertDefaultFails, GetActiveAgain, ProvisionIdentity,
       ProvisionCredential, TurnAway, ReadOnly, CreateIdentity, CreateCredential
  <2> QED BY <2>1, <2>2
<1>8. CASE \/ \E p \in ByHand : CreateProvider(p)
           \/ \E x \in Deletable : DeleteProvider(x)
           \/ \E k \in Person : SignUp(k)
           \/ UNCHANGED migrationVars
  BY <1>1, <1>8 DEF CreateProvider, DeleteProvider, SignUp, migrationVars
<1> QED BY <1>1, <1>2, <1>3, <1>4, <1>5, <1>6, <1>7, <1>8
        DEF MigrationNext, Migrate, GotoStep

(* Credentials and sessions of the tenant stay with their identity,        *)
(* whatever a run brings (run.go:348, 419).                                *)
THEOREM NothingTakenOver == MigrationSpec => NothingIsTakenOver
<1>1. TypeInv /\ [MigrationNext]_migrationVars =>
        [/\ credentials \subseteq credentials'
         /\ \A t \in Token : sessions[t] # NoIdentity => sessions'[t] = sessions[t]
        ]_migrationVars
  BY StepGrows DEF Grows
<1> QED BY <1>1, TypeInvariant, PTL DEF MigrationSpec, NothingIsTakenOver

-----------------------------------------------------------------------------
(* Nothing dangles: whoever is about to insert a row that refers to an     *)
(* identity knows one that was inserted.                                   *)

RunHas(m) ==
  /\ run[m].password \/ run[m].entries # {} => accounts[<<m, run[m].person>>] # "absent"
  /\ \A t \in run[m].tokens : accounts[<<m, Holder[t]>>] # "absent"

NewcomerHas(r) == npc[r] = "credential" => accounts[r] # "absent"

HasInv ==
  /\ TypeInv
  /\ NothingDangles
  /\ \A r \in Newcomer : NewcomerHas(r)
  /\ \A m \in Run : RunHas(m)

LEMMA IdentitiesStay ==
  ASSUME TypeInv, Grows, NEW i \in Identity, accounts[i] # "absent"
  PROVE  accounts'[i] # "absent"
  BY DEF Grows

LEMMA HolderTypes ==
  ASSUME NEW m \in Run, NEW t \in Token PROVE <<m, Holder[t]>> \in Identity
  BY MigrationAssumption

(* A run that does not move keeps what it has.                             *)
LEMMA StillHas ==
  ASSUME TypeInv, Grows, NEW m \in Run, RunHas(m), run'[m].tokens \subseteq run[m].tokens,
         run'[m].password \/ run'[m].entries # {} =>
           /\ run[m].password \/ run[m].entries # {}
           /\ run'[m].person = run[m].person
  PROVE  RunHas(m)'
<1>1. \A t \in run[m].tokens : t \in Token
  BY DEF TypeInv, MigrationTypeOK, RunLocals
<1>2. run[m].password \/ run[m].entries # {} => <<m, run[m].person>> \in Identity
  BY PersonTypes DEF TypeInv, KnowsWhat
<1> QED BY <1>1, <1>2, HolderTypes, IdentitiesStay DEF RunHas

LEMMA MoverHas ==
  ASSUME TypeInv, Grows, NEW m \in Run, RunHas(m), Begin(m) \/ Migrate(m)
  PROVE  RunHas(m)'
<1> USE DEF KeepsPending, KeepsPeople, KeepsMap, KeepsTokens
<1>0. run \in [Run -> RunLocals] /\ run[m] \in RunLocals
      /\ accounts \in [Identity -> AccountState]
  BY DEF TypeInv, MigrationTypeOK, ProvisioningTypeOK
<1>1. CASE GotoStep(m)
  BY <1>0, <1>1, GotoStepKeeps, StillHas
<1>2. CASE FindProvider(m)
  BY <1>0, <1>2, FindKeeps, StillHas
<1>3. CASE InsertProvider(m)
  BY <1>0, <1>3, InsertProviderKeeps, StillHas
<1>4. CASE ReadKratos(m)
  BY <1>0, <1>4, ReadKratosKeeps, StillHas
<1>5. CASE InsertIdentity(m)
  <2>1. PICK k \in run[m].left :
          CreateIdentity(<<m, k>>, MigratedState(k)) /\ run'[m].person = k
    BY <1>0, <1>5, InsertIdentityKeeps
  <2>2. k \in Person
    BY <1>0 DEF RunLocals
  <2>3. accounts'[<<m, k>>] # "absent"
    BY <1>0, <2>1, <2>2, PersonTypes DEF CreateIdentity
  <2>4. \A t \in run'[m].tokens : accounts'[<<m, Holder[t]>>] # "absent"
    <3>1. run'[m].tokens = run[m].tokens /\ run[m].tokens \subseteq Token
      BY <1>0, <1>5, InsertIdentityKeeps DEF RunLocals
    <3> QED BY <3>1, HolderTypes, IdentitiesStay DEF RunHas
  <2> QED BY <2>1, <2>3, <2>4 DEF RunHas
<1>6. CASE SkipIdentity(m)
  BY <1>0, <1>6, SkipIdentityKeeps, StillHas
<1>7. CASE MigratePassword(m)
  BY <1>0, <1>7, MigratePasswordKeeps, StillHas
<1>8. CASE MigrateEntry(m)
  BY <1>0, <1>8, MigrateEntryKeeps, StillHas
<1>9. CASE SkipCredential(m)
  BY <1>0, <1>9, SkipCredentialKeeps, StillHas
<1>10. CASE ReadSessions(m)
  <2>1. /\ run'[m].tokens \subseteq {t \in Token : Holder[t] \in IdentityMap(m)}
        /\ accounts' = accounts /\ run'[m].person = run[m].person
        /\ run'[m].password = run[m].password /\ run'[m].entries = run[m].entries
    BY <1>0, <1>10, ReadSessionsKeeps DEF ReadSessions
  <2> QED BY <2>1 DEF RunHas, IdentityMap
<1>11. CASE MigrateSession(m)
  BY <1>0, <1>11, MigrateSessionKeeps, StillHas
<1>12. CASE Stop(m)
  BY <1>0, <1>12, StopKeeps, StillHas
<1>13. CASE EndIdentities(m)
  BY <1>0, <1>13, EndIdentitiesKeeps, StillHas DEF CredentialsDone
<1> QED BY <1>1, <1>2, <1>3, <1>4, <1>5, <1>6, <1>7, <1>8, <1>9, <1>10, <1>11,
        <1>12, <1>13 DEF Migrate, GotoStep

LEMMA NewcomerStillHas ==
  ASSUME TypeInv, Grows, NEW r \in Newcomer, NewcomerHas(r),
         \/ npc'[r] = npc[r]
         \/ npc'[r] # "credential"
         \/ ProvisionIdentity(r)
  PROVE  NewcomerHas(r)'
<1>1. r \in Identity /\ accounts \in [Identity -> AccountState]
  BY ProvisioningAssumption DEF TypeInv, MigrationTypeOK, ProvisioningTypeOK
<1>2. CASE ProvisionIdentity(r)
  BY <1>1, <1>2 DEF ProvisionIdentity, CreateIdentity, NewcomerHas
<1> QED BY <1>1, <1>2, IdentitiesStay DEF NewcomerHas

(* Only these steps insert a row that refers to an identity.               *)
LEMMA NewRowsHaveOwners ==
  ASSUME HasInv, [MigrationNext]_migrationVars
  PROVE  /\ \A c \in credentials' \ credentials : c.identity \in Identity
                                                  /\ accounts[c.identity] # "absent"
         /\ \A t \in Token : sessions'[t] # sessions[t] =>
              \E m \in Run : /\ sessions'[t] = <<m, Holder[t]>>
                             /\ accounts[<<m, Holder[t]>>] # "absent"
<1> USE DEF provisioningVars
<1>0. TypeInv /\ run \in [Run -> RunLocals] /\ sessions \in [Token -> Owner]
  BY DEF HasInv, TypeInv, MigrationTypeOK
<1>1. CASE UNCHANGED <<credentials, sessions>>
  BY <1>1
<1>2. ASSUME NEW m \in Run,
             \/ GotoStep(m) \/ FindProvider(m) \/ InsertProvider(m)
             \/ ReadKratos(m) \/ InsertIdentity(m) \/ SkipIdentity(m)
             \/ SkipCredential(m) \/ EndIdentities(m) \/ ReadSessions(m)
             \/ Stop(m)
      PROVE  UNCHANGED <<credentials, sessions>>
  BY <1>2 DEF GotoStep, Begin, EnsureTenant, DeactivateSchemas, MigrateSchema,
     MigratePolicy, FindProvider, InsertProvider, ProvidersMapped, ReadKratos,
     InsertIdentity, SkipIdentity, SkipCredential, EndIdentities, ReadSessions,
     EndSessions, Stop
<1>3. ASSUME NEW m \in Run, MigratePassword(m) \/ MigrateEntry(m)
      PROVE  /\ sessions' = sessions
             /\ \A c \in credentials' \ credentials :
                  c.identity \in Identity /\ accounts[c.identity] # "absent"
  <2>1. run[m].person \in Person /\ accounts[<<m, run[m].person>>] # "absent"
    BY <1>0, <1>3 DEF HasInv, RunHas, TypeInv, KnowsWhat, MigratePassword, MigrateEntry
  <2>2. \A c \in credentials' \ credentials : c.identity = <<m, run[m].person>>
    BY <1>3 DEF MigratePassword, MigrateEntry, AddUnlessTaken, CreateCredential
  <2> QED BY <1>3, <2>1, <2>2, PersonTypes DEF MigratePassword, MigrateEntry
<1>4. ASSUME NEW m \in Run, MigrateSession(m)
      PROVE  /\ credentials' = credentials
             /\ \A t \in Token : sessions'[t] # sessions[t] =>
                  /\ sessions'[t] = <<m, Holder[t]>>
                  /\ accounts[<<m, Holder[t]>>] # "absent"
  <2>1. PICK t \in run[m].tokens :
          sessions' \in {sessions, [sessions EXCEPT ![t] =
                           IF @ = NoIdentity THEN <<m, Holder[t]>> ELSE @]}
    BY <1>4 DEF MigrateSession
  <2>2. accounts[<<m, Holder[t]>>] # "absent"
    BY DEF HasInv, RunHas
  <2> QED BY <1>0, <1>4, <2>1, <2>2 DEF MigrateSession
<1>5. ASSUME NEW r \in Newcomer, Provision(r)
      PROVE  /\ sessions' = sessions
             /\ \A c \in credentials' \ credentials :
                  c.identity \in Identity /\ accounts[c.identity] # "absent"
  <2>1. CASE credentials' = credentials
    BY <1>5, <2>1 DEF Provision
  <2>2. CASE ProvisionCredential(r)
    BY <1>5, <2>2, ProvisioningAssumption DEF Provision, ProvisionCredential,
       NewcomerGoto, CreateCredential, HasInv, NewcomerHas
  <2> QED BY <1>5, <2>1, <2>2 DEF Provision, ServeNewcomer, CheckTaken, GetActive,
          InsertDefault, InsertDefaultFails, GetActiveAgain, ProvisionIdentity,
          TurnAway, ReadOnly
<1>6. CASE \/ \E r \in Newcomer : Ask(r)
           \/ \E p \in ByHand : CreateProvider(p)
           \/ \E x \in Deletable : DeleteProvider(x)
           \/ \E k \in Person : SignUp(k)
           \/ UNCHANGED migrationVars
  BY <1>1, <1>6 DEF Ask, CreateProvider, DeleteProvider, SignUp, migrationVars
<1> QED BY <1>1, <1>2, <1>3, <1>4, <1>5, <1>6 DEF MigrationNext, Migrate, GotoStep

LEMMA HasStep == HasInv /\ [MigrationNext]_migrationVars => HasInv'
<1> SUFFICES ASSUME HasInv, [MigrationNext]_migrationVars PROVE HasInv'
  OBVIOUS
<1>1. TypeInv /\ TypeInv' /\ Grows
  BY TypeStep, StepGrows DEF HasInv
<1>2. credentials \subseteq Credential /\ sessions \in [Token -> Owner]
  BY <1>1 DEF TypeInv, MigrationTypeOK, ProvisioningTypeOK
<1>3. NothingDangles'
  <2>1. ASSUME NEW c \in credentials' PROVE accounts'[c.identity] # "absent"
    <3>1. CASE c \in credentials
      BY <1>1, <1>2, <3>1, IdentitiesStay DEF HasInv, NothingDangles, Credential
    <3>2. CASE c \notin credentials
      BY <1>1, <3>2, NewRowsHaveOwners, IdentitiesStay
    <3> QED BY <3>1, <3>2
  <2>2. ASSUME NEW t \in Token, sessions'[t] # NoIdentity
        PROVE  /\ sessions'[t] \in Run \X {Holder[t]}
               /\ accounts'[sessions'[t]] # "absent"
    <3>1. CASE sessions'[t] = sessions[t]
      <4>1. sessions[t] \in Run \X {Holder[t]} /\ accounts[sessions[t]] # "absent"
        BY <2>2, <3>1 DEF HasInv, NothingDangles
      <4>2. sessions[t] \in Identity
        BY <1>2, <2>2, <3>1 DEF Owner
      <4> QED BY <1>1, <3>1, <4>1, <4>2, IdentitiesStay
    <3>2. CASE sessions'[t] # sessions[t]
      <4>1. PICK m \in Run : /\ sessions'[t] = <<m, Holder[t]>>
                             /\ accounts[<<m, Holder[t]>>] # "absent"
        BY <3>2, NewRowsHaveOwners
      <4>2. accounts'[<<m, Holder[t]>>] # "absent"
        BY <1>1, <4>1, HolderTypes, IdentitiesStay
      <4> QED BY <4>1, <4>2
    <3> QED BY <3>1, <3>2
  <2> QED BY <2>1, <2>2 DEF NothingDangles
<1>4. ASSUME NEW m \in Run PROVE RunHas(m)'
  <2>1. RunHas(m)
    BY DEF HasInv
  <2>2. CASE run'[m] = run[m]
    BY <1>1, <2>1, <2>2, StillHas
  <2>3. CASE Begin(m) \/ Migrate(m)
    BY <1>1, <2>1, <2>3, MoverHas
  <2>4. run' = run \/ \E n \in Run : Begin(n) \/ Migrate(n)
    BY DEF MigrationNext, Ask, Provision, CreateProvider, DeleteProvider, SignUp,
       migrationVars
  <2> QED BY <1>1, <2>2, <2>3, <2>4, OthersKeep
<1>5. ASSUME NEW r \in Newcomer PROVE NewcomerHas(r)'
  <2>1. NewcomerHas(r) /\ npc \in [Newcomer -> NPC]
    BY <1>1 DEF HasInv, TypeInv, MigrationTypeOK, ProvisioningTypeOK
  <2>2. npc' = npc \/ \E q \in Newcomer : Ask(q) \/ Provision(q)
    BY DEF MigrationNext, Migrate, Begin, EnsureTenant, DeactivateSchemas,
       MigrateSchema, MigratePolicy, FindProvider, InsertProvider,
       ProvidersMapped, ReadKratos, InsertIdentity, SkipIdentity,
       MigratePassword, MigrateEntry, SkipCredential, EndIdentities,
       ReadSessions, MigrateSession, EndSessions, Stop, CreateProvider,
       DeleteProvider, SignUp, migrationVars, provisioningVars
  <2>3. ASSUME NEW q \in Newcomer, Ask(q) \/ Provision(q)
        PROVE  \/ npc'[r] = npc[r] \/ npc'[r] # "credential"
               \/ ProvisionIdentity(r)
    BY <2>1, <2>3 DEF Ask, Provision, ServeNewcomer, CheckTaken, GetActive,
       InsertDefault, InsertDefaultFails, GetActiveAgain, ProvisionIdentity,
       ProvisionCredential, TurnAway, NewcomerGoto
  <2> QED BY <1>1, <2>1, <2>2, <2>3, NewcomerStillHas
<1> QED BY <1>1, <1>3, <1>4, <1>5 DEF HasInv

LEMMA HasInit == MigrationInit => HasInv
  BY TypeInit DEF MigrationInit, ProvisioningInit, HasInv, NothingDangles,
     NewcomerHas, RunHas, NotBegun

LEMMA HasInvariant == MigrationSpec => []HasInv
  BY HasInit, HasStep, PTL DEF MigrationSpec

(* No credential and no session refers to an identity that was never       *)
(* inserted, although identities are skipped and nothing is in a           *)
(* transaction (run.go:293-303, 404).                                      *)
THEOREM NoDangling == MigrationSpec => []NothingDangles
<1>1. HasInv => NothingDangles
  BY DEF HasInv
<1> QED BY <1>1, HasInvariant, PTL

-----------------------------------------------------------------------------
(* The runs share a provider row: one run is under way at a time, and one  *)
(* that is about to insert a row has seen that no run made one of its kind. *)

OneRun == \A m, n \in Run : Underway(m) /\ Underway(n) => m = n

KindIsFree(m) ==
  At(m, "insert_provider") =>
    \A x \in Run \X KratosProvider :
      providers[x] = "present" => Kind[x[2]] # Kind[run[m].provider]

ShareInv ==
  /\ TypeInv
  /\ RunsShareProviders
  /\ OneRun
  /\ \A m \in Run : KindIsFree(m)

LEMMA MoverIsUnderway ==
  ASSUME NEW m \in Run, Migrate(m)
  PROVE  Underway(m)
  BY DEF Migrate, Underway, Over, At, EnsureTenant, DeactivateSchemas, MigrateSchema,
     MigratePolicy, FindProvider, InsertProvider, ProvidersMapped, ReadKratos,
     InsertIdentity, SkipIdentity, MigratePassword, MigrateEntry, SkipCredential,
     EndIdentities, ReadSessions, MigrateSession, EndSessions, Stop

LEMMA RunsMove ==
  ASSUME [MigrationNext]_migrationVars
  PROVE  run' = run \/ \E m \in Run : Begin(m) \/ Migrate(m)
  BY DEF MigrationNext, Ask, Provision, CreateProvider, DeleteProvider, SignUp,
     migrationVars

LEMMA OneRunStep ==
  ASSUME TypeInv, OneRun, [MigrationNext]_migrationVars
  PROVE  OneRun'
<1>1. CASE run' = run
  BY <1>1 DEF OneRun, Underway, Over
<1>2. ASSUME NEW m \in Run, Begin(m) PROVE OneRun'
  BY <1>2, OthersKeep DEF OneRun, Underway, Over, Begin
<1>3. ASSUME NEW m \in Run, Migrate(m) PROVE OneRun'
  BY <1>3, OthersKeep, MoverIsUnderway DEF OneRun, Underway, Over
<1> QED BY <1>1, <1>2, <1>3, RunsMove

(* Only a step that found no row leads to the insert.                      *)
LEMMA WhoInserts ==
  ASSUME TypeInv, NEW m \in Run, Begin(m) \/ Migrate(m),
         run'[m].pc = "insert_provider"
  PROVE  /\ providers' = providers
         /\ run'[m].provider \in KratosProvider
         /\ RowsOfKind(m, run'[m].provider) = {}
<1>0. run \in [Run -> RunLocals]
  BY DEF TypeInv, MigrationTypeOK
<1>1. FindProvider(m)
  BY <1>0, GotoStepKeeps, InsertProviderKeeps, ReadKratosKeeps, InsertIdentityKeeps,
     SkipIdentityKeeps, MigratePasswordKeeps, MigrateEntryKeeps, SkipCredentialKeeps,
     EndIdentitiesKeeps, ReadSessionsKeeps, MigrateSessionKeeps, StopKeeps
     DEF Migrate, GotoStep
<1>2. run[m].pc = "sso" /\ providers' = providers
  BY <1>1 DEF FindProvider, At
<1> QED BY <1>0, <1>1, <1>2, FindKeeps, MigrationAssumption

LEMMA WhichRowsAppear ==
  ASSUME TypeInv, [MigrationNext]_migrationVars, NEW x \in Run \X KratosProvider,
         providers'[x] = "present", providers[x] # "present"
  PROVE  \E m \in Run : InsertProvider(m) /\ x = <<m, run[m].provider>>
<1>0. providers \in [ProviderRow -> ProviderState]
  BY DEF TypeInv, MigrationTypeOK
<1>1. ASSUME NEW p \in ByHand, CreateProvider(p) PROVE FALSE
  BY <1>0, <1>1, MigrationAssumption DEF CreateProvider
<1>2. ASSUME NEW y \in Deletable, DeleteProvider(y) PROVE FALSE
  BY <1>0, <1>2 DEF DeleteProvider
<1>3. CASE providers' = providers
  BY <1>3
<1>4. ASSUME NEW m \in Run, InsertProvider(m) PROVE x = <<m, run[m].provider>>
  BY <1>0, <1>4 DEF InsertProvider
<1>5. \/ providers' = providers
      \/ \E m \in Run : InsertProvider(m)
      \/ \E p \in ByHand : CreateProvider(p)
      \/ \E y \in Deletable : DeleteProvider(y)
  BY DEF MigrationNext, Ask, Provision, SignUp, migrationVars, Migrate, Begin,
     EnsureTenant, DeactivateSchemas, MigrateSchema, MigratePolicy, FindProvider,
     ProvidersMapped, ReadKratos, InsertIdentity, SkipIdentity, MigratePassword,
     MigrateEntry, SkipCredential, EndIdentities, ReadSessions, MigrateSession,
     EndSessions, Stop
<1> QED BY <1>1, <1>2, <1>3, <1>4, <1>5

LEMMA ShareStep == ShareInv /\ [MigrationNext]_migrationVars => ShareInv'
<1> SUFFICES ASSUME ShareInv, [MigrationNext]_migrationVars PROVE ShareInv'
  OBVIOUS
<1>1. TypeInv /\ TypeInv' /\ OneRun'
  BY TypeStep, OneRunStep DEF ShareInv
<1>2. ASSUME NEW m \in Run, InsertProvider(m)
      PROVE  /\ At(m, "insert_provider") /\ run'[m].pc = "sso"
             /\ \A n \in Run : At(n, "insert_provider") => n = m
             /\ run[m].provider \in KratosProvider
  BY <1>1, <1>2, InsertProviderKeeps, MigrationAssumption
     DEF ShareInv, OneRun, Underway, Over, At, InsertProvider, TypeInv,
         MigrationTypeOK, KnowsWhat
<1>3. RunsShareProviders'
  <2> SUFFICES ASSUME NEW x \in Run \X KratosProvider, NEW y \in Run \X KratosProvider,
                      providers'[x] = "present", providers'[y] = "present",
                      Kind[x[2]] = Kind[y[2]]
               PROVE  x = y
    BY DEF RunsShareProviders
  <2>1. CASE providers[x] = "present" /\ providers[y] = "present"
    BY <2>1 DEF ShareInv, RunsShareProviders
  <2>2. ASSUME NEW v \in {x, y}, providers[v] # "present"
        PROVE  x = y
    <3>1. PICK m \in Run : InsertProvider(m) /\ v = <<m, run[m].provider>>
      BY <1>1, <2>2, WhichRowsAppear
    <3>2. ASSUME NEW w \in {x, y} PROVE w = v
      <4>1. CASE providers[w] = "present"
        <5>1. At(m, "insert_provider") /\ KindIsFree(m)
          BY <1>2, <3>1 DEF ShareInv
        <5>2. Kind[w[2]] # Kind[run[m].provider]
          BY <4>1, <5>1 DEF KindIsFree
        <5> QED BY <3>1, <5>2
      <4>2. CASE providers[w] # "present"
        <5>1. PICK n \in Run : InsertProvider(n) /\ w = <<n, run[n].provider>>
          BY <1>1, <4>2, WhichRowsAppear
        <5> QED BY <1>2, <3>1, <5>1
      <4> QED BY <4>1, <4>2
    <3> QED BY <3>2
  <2> QED BY <2>1, <2>2
<1>4. ASSUME NEW n \in Run PROVE KindIsFree(n)'
  <2> SUFFICES ASSUME run'[n].pc = "insert_provider",
                      NEW x \in Run \X KratosProvider, providers'[x] = "present"
               PROVE  Kind[x[2]] # Kind[run'[n].provider]
    BY DEF KindIsFree, At
  <2>1. CASE Begin(n) \/ Migrate(n)
    <3>1. providers' = providers /\ RowsOfKind(n, run'[n].provider) = {}
      BY <1>1, <2>1, WhoInserts
    <3> QED BY <3>1 DEF RowsOfKind, ProviderRow
  <2>2. CASE run'[n] = run[n]
    <3>1. KindIsFree(n) /\ At(n, "insert_provider")
      BY <2>2 DEF ShareInv, At
    <3>2. CASE providers[x] = "present"
      BY <2>2, <3>1, <3>2 DEF KindIsFree
    <3>3. CASE providers[x] # "present"
      BY <1>1, <1>2, <3>1, <3>3, WhichRowsAppear
    <3> QED BY <3>2, <3>3
  <2> QED BY <1>1, <2>1, <2>2, RunsMove, OthersKeep
<1> QED BY <1>1, <1>3, <1>4 DEF ShareInv

LEMMA ShareInit == MigrationInit => ShareInv
  BY TypeInit DEF MigrationInit, ShareInv, RunsShareProviders, OneRun, KindIsFree,
     Underway, At, NotBegun, ProviderRow

(* However often the migration is run, and wherever it was stopped, there  *)
(* is one row of a run for a kind of provider (run.go:225-240).            *)
THEOREM ProvidersShared == MigrationSpec => []RunsShareProviders
<1>1. ShareInv => RunsShareProviders
  BY DEF ShareInv
<1> QED BY <1>1, ShareInit, ShareStep, PTL DEF MigrationSpec

-----------------------------------------------------------------------------
(* The schemas: a run inserts its row after it deactivated the others.     *)

Early == {"idle", "tenant", "schema", "insert_schema"}

SchemaInv ==
  /\ TypeInv
  /\ SchemasAreRepaired
  /\ \A m \in Run : run[m].pc \in Early => schemas[m] = "absent"

LEMMA EarlySteps ==
  ASSUME TypeInv, NEW m \in Run, Begin(m) \/ Migrate(m)
  PROVE  /\ run'[m].pc \in Early => run[m].pc \in Early /\ ~ MigrateSchema(m)
         /\ run[m].pc \in {"insert_schema", "stopped"} =>
              MigrateSchema(m) \/ run'[m].pc = "stopped"
<1>0. run \in [Run -> RunLocals]
  BY DEF TypeInv, MigrationTypeOK
<1>1. CASE \/ Begin(m) \/ EnsureTenant(m) \/ DeactivateSchemas(m) \/ MigrateSchema(m)
           \/ MigratePolicy(m) \/ ProvidersMapped(m) \/ EndSessions(m)
  BY <1>0, <1>1 DEF Begin, EnsureTenant, DeactivateSchemas, MigrateSchema,
     MigratePolicy, ProvidersMapped, EndSessions, Goto, At, RunLocals, Early
<1>2. CASE FindProvider(m)
  BY <1>0, <1>2, FindKeeps DEF FindProvider, At, Early
<1>3. CASE \/ InsertProvider(m) \/ ReadKratos(m) \/ InsertIdentity(m)
           \/ SkipIdentity(m) \/ MigratePassword(m) \/ MigrateEntry(m)
           \/ SkipCredential(m) \/ EndIdentities(m) \/ ReadSessions(m)
           \/ MigrateSession(m)
  <2>1. run'[m].pc \notin Early
    BY <1>0, <1>3, InsertProviderKeeps, ReadKratosKeeps, InsertIdentityKeeps,
       SkipIdentityKeeps, MigratePasswordKeeps, MigrateEntryKeeps,
       SkipCredentialKeeps, EndIdentitiesKeeps, ReadSessionsKeeps,
       MigrateSessionKeeps DEF Early
  <2>2. run[m].pc \notin {"insert_schema", "stopped"}
    BY <1>3 DEF InsertProvider, ReadKratos, InsertIdentity, SkipIdentity,
       MigratePassword, MigrateEntry, SkipCredential, EndIdentities, ReadSessions,
       MigrateSession, At
  <2> QED BY <2>1, <2>2
<1>4. CASE Stop(m)
  BY <1>0, <1>4, StopKeeps DEF Early
<1> QED BY <1>1, <1>2, <1>3, <1>4 DEF Migrate

LEMMA SchemaChanges ==
  ASSUME TypeInv, [MigrationNext]_migrationVars
  PROVE  \/ schemas' = schemas
         \/ \E m \in Run : MigrateSchema(m) \/ DeactivateSchemas(m)
         \/ \E r \in Newcomer : InsertSchema(r) /\ run' = run
  BY DEF MigrationNext, Ask, Provision, SignUp, migrationVars, provisioningVars,
     Migrate, Begin, CreateProvider, DeleteProvider,
     EnsureTenant, MigratePolicy, FindProvider, InsertProvider,
     ProvidersMapped, ReadKratos, InsertIdentity, SkipIdentity, MigratePassword,
     MigrateEntry, SkipCredential, EndIdentities, ReadSessions, MigrateSession,
     EndSessions, Stop, ServeNewcomer, CheckTaken, GetActive, InsertDefault,
     InsertDefaultFails, GetActiveAgain, ProvisionIdentity, ProvisionCredential,
     TurnAway, ReadOnly

LEMMA SchemaStep == SchemaInv /\ [MigrationNext]_migrationVars => SchemaInv'
<1> SUFFICES ASSUME SchemaInv, [MigrationNext]_migrationVars PROVE SchemaInv'
  OBVIOUS
<1>0. /\ TypeInv /\ TypeInv' /\ run \in [Run -> RunLocals]
      /\ schemas \in [Newcomer \cup Run -> SchemaState]
  BY TypeStep DEF SchemaInv, TypeInv, MigrationTypeOK, ProvisioningTypeOK
<1>1. ASSUME NEW m \in Run
      PROVE  /\ run'[m].pc \in Early => run[m].pc \in Early /\ ~ MigrateSchema(m)
             /\ run[m].pc \in {"insert_schema", "stopped"} =>
                  MigrateSchema(m) \/ run'[m].pc \in {"insert_schema", "stopped"}
  <2>1. CASE Begin(m) \/ Migrate(m)
    BY <1>0, <2>1, EarlySteps
  <2>2. CASE run'[m] = run[m]
    <3>1. ~ MigrateSchema(m)
      BY <1>0, <2>2 DEF MigrateSchema, At, Goto, RunLocals
    <3> QED BY <2>2, <3>1
  <2> QED BY <1>0, <2>1, <2>2, RunsMove, OthersKeep
<1>2. ASSUME NEW m \in Run, run'[m].pc \in Early PROVE schemas'[m] = "absent"
  <2>1. schemas[m] = "absent" /\ ~ MigrateSchema(m)
    BY <1>1, <1>2 DEF SchemaInv
  <2>2. CASE schemas' = schemas
    BY <2>1, <2>2
  <2>3. ASSUME NEW n \in Run, MigrateSchema(n) PROVE schemas'[m] = "absent"
    BY <1>0, <2>1, <2>3 DEF MigrateSchema, InsertSchema
  <2>4. ASSUME NEW n \in Run, DeactivateSchemas(n) PROVE schemas'[m] = "absent"
    BY <1>0, <2>1, <2>4 DEF DeactivateSchemas
  <2>5. ASSUME NEW r \in Newcomer, InsertSchema(r) PROVE schemas'[m] = "absent"
    BY <1>0, <2>1, <2>5, ProvisioningAssumption DEF InsertSchema
  <2> QED BY <1>0, <2>2, <2>3, <2>4, <2>5, SchemaChanges
<1>3. SchemasAreRepaired'
  <2>1. CASE schemas' = schemas
    <3>1. ASSUME NEW m \in Run PROVE ~ MigrateSchema(m) \/ ActiveSchemas # {}
      BY <1>0, <2>1 DEF MigrateSchema, InsertSchema, ActiveSchemas
    <3>2. ActiveSchemas' = ActiveSchemas
      BY <2>1 DEF ActiveSchemas
    <3> QED BY <1>1, <2>1, <3>1, <3>2 DEF SchemaInv, SchemasAreRepaired
  <2>2. ASSUME NEW w \in Newcomer \cup Run, InsertSchema(w) PROVE ActiveSchemas' # {}
    BY <1>0, <2>2 DEF InsertSchema, ActiveSchemas
  <2>3. ASSUME NEW m \in Run, DeactivateSchemas(m) PROVE SchemasAreRepaired'
    <3>1. run'[m].pc = "insert_schema"
      BY <1>0, <2>3 DEF DeactivateSchemas, Goto, RunLocals
    <3>2. schemas'[m] = "absent"
      BY <1>2, <3>1 DEF Early
    <3> QED BY <3>1, <3>2 DEF SchemasAreRepaired
  <2>4. ASSUME NEW m \in Run, MigrateSchema(m) PROVE ActiveSchemas' # {}
    BY <2>2, <2>4 DEF MigrateSchema
  <2> QED BY <1>0, <2>1, <2>2, <2>3, <2>4, SchemaChanges DEF SchemasAreRepaired
<1> QED BY <1>0, <1>2, <1>3 DEF SchemaInv

LEMMA SchemaInit == MigrationInit => SchemaInv
  BY TypeInit DEF MigrationInit, ProvisioningInit, SchemaInv, SchemasAreRepaired

(* Between a run's two statements on the schemas the tenant has none, and  *)
(* otherwise never once it had one (run.go:133-146, store.go:81).          *)
THEOREM SchemasRepaired == MigrationSpec => []SchemasAreRepaired
<1>1. SchemaInv => SchemasAreRepaired
  BY DEF SchemaInv
<1> QED BY <1>1, SchemaInit, SchemaStep, PTL DEF MigrationSpec

=============================================================================
