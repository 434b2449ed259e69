---------------------------- MODULE IdentityStore ----------------------------
(***************************************************************************)
(* The tables identities and identity_credentials and the statements of    *)
(* internal/identity/store.go that the self-service flows run.  Traits and *)
(* credential configs are payload and left out.                            *)
(***************************************************************************)
EXTENDS Ids

CONSTANTS
  Method,      \* authenticator ids, the type column of credentials
  Identifier   \* emails, phone numbers, subjects

VARIABLES
  accounts,      \* accounts[i]: the state column of identity i
  credentials    \* the rows of identity_credentials

\* "absent": no row.  Rows are never deleted.
AccountState == {"absent", "active", "pending_verification"}

\* names: the identifiers column, an array the lookups search by element.
Credential == [identity : Identity, type : Method, names : SUBSET Identifier]

(* store.GetByIdentifier: whom an identifier names for a credential type.  *)
Named(type, name) ==
  {c.identity : c \in {d \in credentials : d.type = type /\ name \in d.names}}

(* store.GetIdentityIDByIdentifier: LIMIT 1 of the rows of any type.       *)
NamedByAny(name) == UNION {Named(type, name) : type \in Method}

(* store.CreateIdentity: a fresh UUID.                                     *)
CreateIdentity(i, state) ==
  /\ accounts[i] = "absent"
  /\ accounts' = [accounts EXCEPT ![i] = state]

\* Slip: the unique index is missing.
SlipNoUniqueIndex(i, type, names) ==
  credentials' = credentials \cup {[identity |-> i, type |-> type,
                                    names |-> names]}

(* store.CreateCredential: the INSERT fails on a duplicate (type,          *)
(* identifiers); the unique index compares the arrays as a whole.          *)
CreateCredential(i, type, names) ==
  /\ \A c \in credentials : ~ (c.type = type /\ c.names = names)
  /\ credentials' = credentials \cup {[identity |-> i, type |-> type,
                                       names |-> names]}

(* store.UpdateIdentityState: 0 rows affected is an error.                 *)
UpdateIdentityState(i, state) ==
  /\ accounts[i] # "absent"
  /\ accounts' = [accounts EXCEPT ![i] = state]
=============================================================================
