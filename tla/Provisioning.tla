----------------------------- MODULE Provisioning -----------------------------
(***************************************************************************)
(* How a newcomer gets an identity: registration and a first OIDC login    *)
(* run the same statements in the same order, the check that nobody has    *)
(* the identifier, EnsureDefault of internal/schema, the identity, its     *)
(* credential.  What comes before and after is in Registration and         *)
(* OidcLogin; here is the table identity_schemas and what stands between   *)
(* the check and the credential.                                           *)
(*                                                                         *)
(* Migration adds the other writer of these tables, the migration tool.    *)
(***************************************************************************)
EXTENDS IdentityStore

CONSTANTS
  Newcomer,    \* requests that register, or log in through OIDC for the first time
  Run,         \* runs of the migration tool
  password, oidc

ASSUME ProvisioningAssumption ==
  /\ Method = {password, oidc}
  /\ password # oidc
  /\ Newcomer \subseteq Identity
  /\ Newcomer \cap Run = {}

VARIABLES
  schemas,     \* schemas[w]: is_active of the row that w inserted
  npc,         \* npc[r]: the statement newcomer r runs next
  wanted       \* wanted[r]: type and identifier of the credential r asks for,
               \*   <<>> before it arrives

provisioningVars == <<schemas, npc, wanted>>

\* Both writers insert version 1, and nobody inserts more than one row.
SchemaState == {"absent", "active", "inactive"}
ActiveSchemas == {w \in Newcomer \cup Run : schemas[w] = "active"}

NPC == {"idle", "check", "schema", "insert_default", "schema_again",
        "identity", "credential", "done"}

ProvisioningTypeOK ==
  /\ accounts \in [Identity -> AccountState]
  /\ credentials \subseteq Credential
  /\ schemas \in [Newcomer \cup Run -> SchemaState]
  /\ npc \in [Newcomer -> NPC]
  /\ wanted \in [Newcomer -> (Method \X Identifier) \cup {<<>>}]
  /\ \A r \in Newcomer : npc[r] # "idle" => wanted[r] # <<>>

ProvisioningInit ==
  /\ accounts = [i \in Identity |-> "absent"]
  /\ credentials = {}
  /\ schemas = [w \in Newcomer \cup Run |-> "absent"]
  /\ npc = [r \in Newcomer |-> "idle"]
  /\ wanted = [r \in Newcomer |-> <<>>]

-----------------------------------------------------------------------------
InsertSchema(w) == schemas' = [schemas EXCEPT ![w] = "active"]

NewcomerGoto(r, here, next) ==
  /\ npc[r] = here
  /\ npc' = [npc EXCEPT ![r] = next]

ReadOnly == UNCHANGED <<accounts, credentials, schemas, wanted>>

(* GetByIdentifier finds nobody: registration and OIDC go on only then.    *)
CheckTaken(r) ==
  /\ NewcomerGoto(r, "check", "schema")
  /\ Named(wanted[r][1], wanted[r][2]) = {}
  /\ ReadOnly

(* EnsureDefault: GetActive takes any active row of the highest version ...*)
GetActive(r) ==
  /\ NewcomerGoto(r, "schema", IF ActiveSchemas # {} THEN "identity"
                               ELSE "insert_default")
  /\ ReadOnly

(* ... or a default one is inserted, which no constraint refuses ...       *)
InsertDefault(r) ==
  /\ NewcomerGoto(r, "insert_default", "identity")
  /\ InsertSchema(r)
  /\ UNCHANGED <<accounts, credentials, wanted>>

InsertDefaultFails(r) ==
  /\ NewcomerGoto(r, "insert_default", "schema_again")
  /\ ReadOnly

(* ... and if it failed, GetActive has the last word.                      *)
GetActiveAgain(r) ==
  /\ NewcomerGoto(r, "schema_again", IF ActiveSchemas # {} THEN "identity"
                                     ELSE "done")
  /\ ReadOnly

(* An OIDC login makes an active identity, a registration one that the     *)
(* policy may leave pending.                                               *)
ProvisionIdentity(r) ==
  /\ NewcomerGoto(r, "identity", "credential")
  /\ \/ CreateIdentity(r, "active")
     \/ wanted[r][1] = password /\ CreateIdentity(r, "pending_verification")
  /\ UNCHANGED <<credentials, schemas, wanted>>

ProvisionCredential(r) ==
  /\ NewcomerGoto(r, "credential", "done")
  /\ CreateCredential(r, wanted[r][1], {wanted[r][2]})
  /\ UNCHANGED <<accounts, schemas, wanted>>

(* The identifier is taken, a statement fails, the process stops.          *)
TurnAway(r) ==
  /\ npc[r] \notin {"idle", "done"}
  /\ npc' = [npc EXCEPT ![r] = "done"]
  /\ ReadOnly

ServeNewcomer(r) ==
  \/ CheckTaken(r)         \/ GetActive(r)         \/ InsertDefault(r)
  \/ InsertDefaultFails(r) \/ GetActiveAgain(r)    \/ ProvisionIdentity(r)
  \/ ProvisionCredential(r) \/ TurnAway(r)
=============================================================================
