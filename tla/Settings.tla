------------------------------- MODULE Settings -------------------------------
(***************************************************************************)
(* The settings flow, internal/flow/settings: a request proves who it is   *)
(* with a session token, and changes the traits or the password of that    *)
(* identity.  Each SQL statement is one action; nothing ties the check of  *)
(* the session, the reading of the flow, of the traits or of the old       *)
(* credential, and the writes together.                                    *)
(*                                                                         *)
(* The sessions are there from the start, issued by the other flows; they  *)
(* are revoked by logout and end with the clock.                           *)
(*                                                                         *)
(* The OIDC login requests, internal/oidc, write to settings flows, too:   *)
(* they look at the state of the flow they are given, not at its type.     *)
(* Which subject a callback is for, the identity it may create and the     *)
(* session it issues are OidcLogin's.                                      *)
(***************************************************************************)
EXTENDS FlowStore, IdentityStore

CONSTANTS
  Request,     \* HTTP requests, each served by a goroutine of its own
  Session,     \* rows of table sessions, named by their tokens
  password,    \* the credential type "password"
  Imported     \* the credentials that are there from the start

ASSUME PasswordAssumption == password \in Method
ASSUME ImportedAssumption == Imported \subseteq Credential

VARIABLES
  sessions,    \* the rows of table sessions
  ended,       \* the sessions whose expires_at has passed
  traits,      \* traits[i]: the traits column of identity i
  pc,          \* pc[r]: the statement request r runs next
  token,       \* token[r]: the session token r presents
  target,      \* target[r]: the flow r works on
  copy,        \* copy[r]: the row an OIDC request has read
  known,       \* known[r]: the traits r has read
  names,       \* names[r]: the identifiers r will upsert
  shut,        \* history: the requests that came with a dead session
  effects,     \* history: the requests that changed traits or credentials
  replaced     \* history: who replaced the config of whose credential

tables       == <<flows, overdue, sessions, ended, accounts, credentials, traits>>
locals       == <<pc, token, target, copy, known, names>>
marks        == <<shut, effects, replaced>>
settingsVars == <<tables, locals, marks>>

Sessions == INSTANCE SessionStore WITH Request <- Session

-----------------------------------------------------------------------------
\* "settings": open for submissions, and "attempt": with an OIDC attempt in
\* it, besides; "complete": by a submission, and "oidc": by a callback, which
\* leaves CompletedAAL and CompletedAMR behind.
UI  == {"other", "settings", "attempt", "complete", "oidc"}
Row == RowOf(UI)
Blank == NoRow("other")

\* The traits that matter: the email that names a new password credential,
\* and any other field.
Field  == {"email", "name"}
Traits == [Field -> Identifier]

\* Before r has read any.
NoTraits == <<>>

\* What a client may submit as traits.*.
Changes == UNION {[fields -> Identifier] : fields \in SUBSET Field}

AMR == {<<>>}

PC == {"idle", "done", "expire",
       "init", "create", "owner",
       "submit", "get", "load", "write",
       "lookup", "email", "upsert", "complete", "view",
       "get_initiate", "persist", "get_callback", "callback"}

SettingsTypeOK ==
  /\ flows \in [Flow -> Row]
  /\ overdue \subseteq Flow
  /\ sessions \in [Session -> Sessions!SessionOf(AMR)]
  /\ ended \subseteq Session
  /\ accounts \in [Identity -> AccountState]
  /\ credentials \subseteq Credential
  /\ traits \in [Identity -> Traits]
  /\ pc \in [Request -> PC]
  /\ token \in [Request -> Session]
  /\ target \in [Request -> Flow]
  /\ copy \in [Request -> Row]
  /\ known \in [Request -> Traits \cup {NoTraits}]
  /\ names \in [Request -> SUBSET Identifier]
  /\ shut \subseteq Request
  /\ effects \subseteq Request
  /\ replaced \subseteq [by : Identity, of : Identity]

SettingsInit ==
  /\ flows = [f \in Flow |-> Blank]
  /\ overdue = {}
  /\ sessions \in [Session -> {[state |-> "active", identity |-> i,
                                aal |-> "aal1", amr |-> <<>>] : i \in Identity}]
  /\ ended = {}
  /\ accounts = [i \in Identity |-> "active"]
  /\ credentials = Imported
  /\ traits \in [Identity -> Traits]
  /\ pc = [r \in Request |-> "idle"]
  /\ token \in [Request -> Session]
  /\ target \in [Request -> Flow]
  /\ copy = [r \in Request |-> Blank]
  /\ known = [r \in Request |-> NoTraits]
  /\ names = [r \in Request |-> {}]
  /\ shut = {}
  /\ effects = {}
  /\ replaced = {}

-----------------------------------------------------------------------------
Goto(r, step) == pc' = [pc EXCEPT ![r] = step]

\* The handler returns: its goroutine and its locals are gone.
Finish(r) ==
  /\ Goto(r, "done")
  /\ copy' = [copy EXCEPT ![r] = Blank]
  /\ known' = [known EXCEPT ![r] = NoTraits]
  /\ names' = [names EXCEPT ![r] = {}]

\* sess.IdentityID, once the session check has passed: rows of table
\* sessions never change their identity.
Caller(r) == sessions[token[r]].identity

Alive(s) == sessions[s].state = "active" /\ s \notin ended

\* Slip, no behaviour of the code: a revoked session counts.
SlipRevokedCounts(s) == s \notin ended

(* session.GetByToken                                                      *)
TokenAccepted(s) == Alive(s)

FlowExpires(f) ==
  /\ PassExpiry(f)
  /\ UNCHANGED <<flows, sessions, ended, accounts, credentials, traits, locals,
                 marks>>

SessionEnds(s) ==
  /\ s \notin ended
  /\ ended' = ended \cup {s}
  /\ UNCHANGED <<flows, overdue, sessions, accounts, credentials, traits, locals,
                 marks>>

Logout(s) ==
  /\ Sessions!RevokeByToken(s)
  /\ UNCHANGED <<flows, overdue, ended, accounts, credentials, traits, locals,
                 marks>>

\* A request comes in: to open a flow, to submit to one or to look at one, to
\* start an OIDC login in one, or back from the provider.
Arrive(r) ==
  /\ pc[r] = "idle"
  /\ \E handler \in {"init", "submit", "view", "get_initiate", "get_callback"} :
       Goto(r, handler)
  /\ shut' = IF Alive(token[r]) THEN shut ELSE shut \cup {r}
  /\ UNCHANGED <<tables, token, target, copy, known, names, effects, replaced>>

(* requireSession, and GetIdentity when a flow is opened.                  *)
RequireSession(r) ==
  /\ pc[r] \in {"init", "submit"}
  /\ TokenAccepted(token[r])
  /\ Goto(r, IF pc[r] = "init" THEN "create" ELSE "get")
  /\ UNCHANGED <<tables, token, target, copy, known, names, marks>>

(* settings.InitFlow: the flow is inserted without an owner ...            *)
CreateSettingsFlow(r) ==
  /\ pc[r] = "create"
  /\ \E f \in Flow :
       /\ CreateFlow(f, "settings", "settings")
       /\ target' = [target EXCEPT ![r] = f]
  /\ Goto(r, "owner")
  /\ UNCHANGED <<overdue, sessions, ended, accounts, credentials, traits, token,
                 copy, known, names, marks>>

(* ... and then given one.                                                 *)
NameOwner(r) ==
  /\ pc[r] = "owner"
  /\ UpdateFlow(target[r], "pending", Caller(r), "settings")
  /\ Finish(r)
  /\ UNCHANGED <<overdue, sessions, ended, accounts, credentials, traits, token,
                 target, marks>>

\* Slip: the owner of the flow is not compared with the caller.
SlipAnyCaller(r, f) == flows[f].identity # NoIdentity

BelongsTo(r, f) == flows[f].identity = Caller(r)

(* SubmitFlow: flows.Get and the checks on state, type and owner; a lapsed *)
(* flow is going to be marked expired.                                     *)
GetSettingsFlow(r) ==
  /\ pc[r] = "get"
  /\ \/ /\ Lapsed(target[r])
        /\ Goto(r, "expire")
     \/ /\ ~ Lapsed(target[r])
        /\ flows[target[r]].state = "pending"
        /\ flows[target[r]].type = "settings"
        /\ BelongsTo(r, target[r])
        /\ \E method \in {"load", "lookup"} : Goto(r, method)
  /\ UNCHANGED <<tables, token, target, copy, known, names, marks>>

(* getFlow asks for no session; a lapsed flow is marked expired here, too. *)
ViewFlow(r) ==
  /\ pc[r] = "view"
  /\ Lapsed(target[r])
  /\ Goto(r, "expire")
  /\ UNCHANGED <<tables, token, target, copy, known, names, marks>>

MarkExpired(r) ==
  /\ pc[r] = "expire"
  /\ UpdateFlowState(target[r], "expired")
  /\ Finish(r)
  /\ UNCHANGED <<overdue, sessions, ended, accounts, credentials, traits, token,
                 target, marks>>

(* submitProfile reads the traits ...                                      *)
LoadTraits(r) ==
  /\ pc[r] = "load"
  /\ known' = [known EXCEPT ![r] = traits[Caller(r)]]
  /\ Goto(r, "write")
  /\ UNCHANGED <<tables, token, target, copy, names, marks>>

\* Slip: the submitted fields alone.
SlipSubmittedOnly(r, changes) == changes

\* The submitted fields, over the traits as r read them.
Merge(r, changes) ==
  [field \in Field |-> IF field \in DOMAIN changes THEN changes[field]
                                                   ELSE known[r][field]]

\* Slip: the error of UpdateTraits is ignored.
SlipIgnoreError(r, changes) ==
  /\ pc[r] = "write"
  /\ Goto(r, "complete")
  /\ UNCHANGED <<tables, token, target, copy, known, names, marks>>

(* ... and replaces them.                                                  *)
WriteTraits(r, changes) ==
  /\ pc[r] = "write"
  /\ traits' = [traits EXCEPT ![Caller(r)] = Merge(r, changes)]
  /\ effects' = effects \cup {r}
  /\ Goto(r, "complete")
  /\ UNCHANGED <<flows, overdue, sessions, ended, accounts, credentials, token,
                 target, copy, known, names, shut, replaced>>

PasswordsOf(i) == {c \in credentials : c.identity = i /\ c.type = password}

(* submitPassword, after Enroll: the identifiers of the old credential, if *)
(* there is one; a lookup that fails for any other reason counts as none.  *)
LookupCredential(r) ==
  /\ pc[r] = "lookup"
  /\ \/ \E c \in PasswordsOf(Caller(r)) :
          /\ names' = [names EXCEPT ![r] = c.names]
          /\ Goto(r, "upsert")
     \/ /\ Goto(r, "email")
        /\ UNCHANGED names
  /\ UNCHANGED <<tables, token, target, copy, known, marks>>

(* Then the email among the traits is taken.                               *)
FallBackToEmail(r) ==
  /\ pc[r] = "email"
  /\ names' = [names EXCEPT ![r] = {traits[Caller(r)]["email"]}]
  /\ Goto(r, "upsert")
  /\ UNCHANGED <<tables, token, target, copy, known, marks>>

\* The row that ON CONFLICT (tenant_id, type, identifiers) finds.
Clash(r) == {c \in credentials : c.type = password /\ c.names = names[r]}

(* identity.UpsertCredential                                               *)
UpsertPassword(r) ==
  /\ pc[r] = "upsert"
  /\ credentials' = IF Clash(r) # {} THEN credentials
       ELSE credentials \cup {[identity |-> Caller(r), type |-> password,
                               names |-> names[r]]}
  /\ replaced' = replaced \cup
       {[by |-> Caller(r), of |-> c.identity] : c \in Clash(r)}
  /\ effects' = effects \cup {r}
  /\ Goto(r, "complete")
  /\ UNCHANGED <<flows, overdue, sessions, ended, accounts, traits, token,
                 target, copy, known, names, shut>>

(* The flow succeeds; if this write fails, nobody notices.                 *)
CompleteSettings(r) ==
  /\ pc[r] = "complete"
  /\ UpdateFlow(target[r], "success", Caller(r), "complete")
  /\ Finish(r)
  /\ UNCHANGED <<overdue, sessions, ended, accounts, credentials, traits, token,
                 target, marks>>

(* InitiateLogin and HandleCallback: flows.Get and the check on the state; *)
(* what is done next is done with this copy of the row.                    *)
ReadFlow(r, before, after) ==
  /\ pc[r] = before
  /\ \/ /\ Lapsed(target[r])
        /\ Goto(r, "expire")
        /\ UNCHANGED copy
     \/ /\ ~ Lapsed(target[r])
        /\ flows[target[r]].state = "pending"
        /\ copy' = [copy EXCEPT ![r] = flows[target[r]]]
        /\ Goto(r, after)
  /\ UNCHANGED <<tables, token, target, known, names, marks>>

ReadForInitiate(r) == ReadFlow(r, "get_initiate", "persist")
ReadForCallback(r) == ReadFlow(r, "get_callback", "callback")

(* After the provider's metadata was fetched, the copy is written over     *)
(* whatever the row holds by now, with an attempt in it.                   *)
PersistAttempt(r) ==
  /\ pc[r] = "persist"
  /\ UpdateFlow(target[r], "pending", copy[r].identity, "attempt")
  /\ Finish(r)
  /\ UNCHANGED <<overdue, sessions, ended, accounts, credentials, traits, token,
                 target, marks>>

(* A copy that holds an attempt: the flow succeeds, for the identity the   *)
(* provider's subject is linked to.                                        *)
CompleteCallback(r) ==
  /\ pc[r] = "callback"
  /\ copy[r].ui = "attempt"
  /\ \E i \in Identity : UpdateFlow(target[r], "success", i, "oidc")
  /\ Finish(r)
  /\ UNCHANGED <<overdue, sessions, ended, accounts, credentials, traits, token,
                 target, marks>>

(* The handler returns without its next step: a statement or a check       *)
(* fails, or the process stops.                                            *)
Abandon(r) ==
  /\ pc[r] \notin {"idle", "done"}
  /\ Finish(r)
  /\ UNCHANGED <<tables, token, target, marks>>

Serve(r) ==
  \/ RequireSession(r)   \/ CreateSettingsFlow(r) \/ NameOwner(r)
  \/ GetSettingsFlow(r)  \/ MarkExpired(r)        \/ LoadTraits(r)
  \/ (\E changes \in Changes : WriteTraits(r, changes))
  \/ LookupCredential(r) \/ FallBackToEmail(r)    \/ UpsertPassword(r)
  \/ CompleteSettings(r) \/ ViewFlow(r)           \/ ReadForInitiate(r)
  \/ PersistAttempt(r)   \/ ReadForCallback(r)    \/ CompleteCallback(r)
  \/ Abandon(r)

SettingsNext ==
  \/ \E f \in Flow : FlowExpires(f)
  \/ \E s \in Session : SessionEnds(s) \/ Logout(s)
  \/ \E r \in Request : Arrive(r) \/ Serve(r)

SettingsSpec == SettingsInit /\ [][SettingsNext]_settingsVars

-----------------------------------------------------------------------------
(* All that is ever changed through one settings flow is changed for the   *)
(* one identity that opened it (settings/engine.go:152), although requests *)
(* with other sessions reach it, OIDC requests write it back from a copy,  *)
(* pending again, and a callback completes it for somebody else.           *)
OneIdentityPerFlow ==
  \A q, r \in effects : target[q] = target[r] => Caller(q) = Caller(r)

(* A request that comes after its session was revoked or has ended changes *)
(* no traits and no credential (settings/handler.go:153).                  *)
DeadSessionsChangeNothing == effects \cap shut = {}

(* A settings flow marked successful did change something for its owner:   *)
(* the change comes first, the flow last (settings/engine.go:188, 194).    *)
(* The one exception is the flow whose last writer was an OIDC callback    *)
(* (oidc/engine.go:318).                                                   *)
SuccessMeansChanged ==
  \A f \in Flow : flows[f].state = "success" /\ flows[f].ui # "oidc" =>
    \E r \in effects : target[r] = f /\ Caller(r) = flows[f].identity

(* settings/engine.go:173: "Start from current traits, then apply          *)
(* submitted traits.* fields": a field that was not submitted keeps the    *)
(* value it has when the traits are written.                               *)
OtherFieldsAreKept ==
  [][\A r \in Request, changes \in Changes : WriteTraits(r, changes) =>
       \A field \in Field \ DOMAIN changes :
         traits'[Caller(r)][field] = traits[Caller(r)][field]]_settingsVars

(* identity/store.go:208: UpsertCredential "replaces the config and        *)
(* identifiers of an existing one (matched by tenant+identity+type)": it   *)
(* never touches the credential of another identity.                       *)
OnlyOwnCredentialsAreReplaced == \A e \in replaced : e.by = e.of
=============================================================================
