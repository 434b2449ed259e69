------------------------------ MODULE OidcLogin ------------------------------
(***************************************************************************)
(* Login through an OIDC provider, internal/oidc: InitiateLogin stores an  *)
(* attempt (provider, nonce and code verifier) in a flow row and sends the *)
(* browser to the provider; HandleCallback joins the code that comes back  *)
(* to the flow named by the state parameter, finds or provisions the       *)
(* identity, inserts a session and completes the flow.                     *)
(*                                                                         *)
(* Each statement and each call to the provider is one action.  The other  *)
(* engines' requests on the same flows are in the model as two steps, the  *)
(* read of a row and a write from that copy.  The provider cache is the    *)
(* module ProviderCache, and the schema of EnsureDefault is left out.      *)
(***************************************************************************)
EXTENDS FlowStore, SessionStore, IdentityStore

CONSTANTS
  Provider,    \* rows of tenant_sso_providers of type "oidc"
  Subject,     \* the "sub" of an id_token
  Pkce,        \* the providers whose token endpoint checks code_verifier
  Imported,    \* oidc credentials that a migration may have left
  NoProvider,  \* the empty oidc_provider_id
  NoAttempt,   \* the empty nonce and verifier
  oidc         \* the credential type

ASSUME PkceAssumption     == Pkce \subseteq Provider
ASSUME SubjectAssumption  == Identifier = Provider \X Subject /\ Method = {oidc}
\* migrateOIDCCred inserts one credential per subject; its unique index holds.
ASSUME OidcImportAssumption ==
  /\ Imported \subseteq Credential
  /\ \A c \in Imported : \E subject \in Identifier : c.names = {subject}
  /\ \A c, d \in Imported : c.names = d.names => c = d
ASSUME NoAttemptAssumption == NoAttempt \notin Request

VARIABLES
  providers,   \* providers[p]: the row of provider p
  pc,          \* pc[r]: the statement request r runs next
  target,      \* target[r]: the {flowId} of the URL, or the state parameter
  copy,        \* copy[r]: the local f, as r read it
  wanted,      \* wanted[r]: the provider_id of the body
  code,        \* code[r]: the authorization code r brings back
  owner,       \* owner[r]: the local identityID
  started,     \* the attempts whose authorization URL reached a browser
  granted,     \* the codes that providers have handed out
  gone         \* history: gone[r]: the providers deleted before r arrived

oidcTables == <<flows, overdue, sessions, accounts, credentials, providers>>
oidcLocals == <<pc, target, copy, wanted, code, owner>>
oidcWorld  == <<started, granted, gone>>
oidcVars   == <<oidcTables, oidcLocals, oidcWorld>>

-----------------------------------------------------------------------------
\* An attempt is named by the request that draws its nonce and verifier.
\* oidc: completed_amr is ["oidc"].
UI == [phase : {"none", "first_factor", "second_factor", "verify", "complete"},
       provider : Provider \cup {NoProvider},
       attempt : Request \cup {NoAttempt},
       oidc : BOOLEAN]

Plain(phase) == [phase |-> phase, provider |-> NoProvider,
                 attempt |-> NoAttempt, oidc |-> FALSE]
Blank == NoRow(Plain("none"))

ProviderState == {"enabled", "disabled", "deleted"}

\* What the provider's authorization endpoint is asked, and what it grants.
Attempt == [attempt : Request, provider : Provider, flow : Flow]
Code    == [attempt : Request, provider : Provider, subject : Subject]
NoCode  == <<>>

AMR == <<"oidc">>

PC == {"idle", "done", "expire", "get_initiate", "provider", "persist",
       "get_callback", "configure", "exchange", "lookup", "load", "provision",
       "link", "session", "complete", "get_elsewhere", "elsewhere"}

OidcTypeOK ==
  /\ flows \in [Flow -> RowOf(UI)]
  /\ overdue \subseteq Flow
  /\ sessions \in [Request -> SessionOf({<<>>, AMR})]
  /\ accounts \in [Identity -> AccountState]
  /\ credentials \subseteq Credential
  /\ providers \in [Provider -> ProviderState]
  /\ pc \in [Request -> PC]
  /\ target \in [Request -> Flow]
  /\ copy \in [Request -> RowOf(UI)]
  /\ wanted \in [Request -> Provider \cup {NoProvider}]
  /\ code \in [Request -> Code \cup {NoCode}]
  /\ owner \in [Request -> Owner]
  /\ started \subseteq Attempt
  /\ granted \subseteq Code
  /\ gone \in [Request -> SUBSET Provider]

\* A migrated identity that was inactive waits for its verification.
OidcInit ==
  /\ flows = [f \in Flow |-> Blank]
  /\ overdue = {}
  /\ sessions = [r \in Request |-> NoSession(<<>>)]
  /\ credentials \in SUBSET Imported
  /\ \E waiting \in SUBSET Identity :
       accounts = [i \in Identity |->
         IF \A c \in credentials : c.identity # i THEN "absent"
         ELSE IF i \in waiting THEN "pending_verification"
         ELSE "active"]
  /\ providers = [p \in Provider |-> "enabled"]
  /\ pc = [r \in Request |-> "idle"]
  /\ target \in [Request -> Flow]
  /\ copy = [r \in Request |-> Blank]
  /\ wanted = [r \in Request |-> NoProvider]
  /\ code = [r \in Request |-> NoCode]
  /\ owner = [r \in Request |-> NoIdentity]
  /\ started = {}
  /\ granted = {}
  /\ gone = [r \in Request |-> {}]

-----------------------------------------------------------------------------
Goto(r, step) == pc' = [pc EXCEPT ![r] = step]

\* The handler returns: its goroutine and its locals are gone.
Finish(r) ==
  /\ Goto(r, "done")
  /\ copy'  = [copy EXCEPT ![r] = Blank]
  /\ owner' = [owner EXCEPT ![r] = NoIdentity]

\* Slip: a flow type that the schema of the table does not forbid.
SlipUnknownType(f) ==
  /\ CreateFlow(f, "oidc", Plain("first_factor"))
  /\ UNCHANGED <<overdue, sessions, accounts, credentials, providers,
                 oidcLocals, oidcWorld>>

(* A login flow, or another engine's: the URL may name either.             *)
InitAnyFlow(f) ==
  /\ \/ CreateFlow(f, "login", Plain("first_factor"))
     \/ CreateFlow(f, "verification", Plain("verify"))
  /\ UNCHANGED <<overdue, sessions, accounts, credentials, providers,
                 oidcLocals, oidcWorld>>

FlowExpires(f) ==
  /\ PassExpiry(f)
  /\ UNCHANGED <<flows, sessions, accounts, credentials, providers, oidcLocals,
                 oidcWorld>>

(* PATCH .../enabled; DELETE .../{providerId}                              *)
SetEnabled(p) ==
  /\ providers[p] # "deleted"
  /\ providers' = [providers EXCEPT ![p] =
                     IF @ = "enabled" THEN "disabled" ELSE "enabled"]
  /\ UNCHANGED <<flows, overdue, sessions, accounts, credentials, oidcLocals,
                 oidcWorld>>

DeleteProvider(p) ==
  /\ providers[p] # "deleted"
  /\ providers' = [providers EXCEPT ![p] = "deleted"]
  /\ UNCHANGED <<flows, overdue, sessions, accounts, credentials, oidcLocals,
                 oidcWorld>>

(* Verification or recovery activates an identity.                         *)
ActivateElsewhere(i) ==
  /\ accounts[i] = "pending_verification"
  /\ UpdateIdentityState(i, "active")
  /\ UNCHANGED <<flows, overdue, sessions, credentials, providers, oidcLocals,
                 oidcWorld>>

(* A user signs in at the provider a started attempt leads to.             *)
Authorize(a) ==
  /\ \E s \in Subject : granted' = granted \cup
       {[attempt |-> a.attempt, provider |-> a.provider, subject |-> s]}
  /\ UNCHANGED <<oidcTables, oidcLocals, started, gone>>

\* A request arrives.
Arrive(r, step) ==
  /\ pc[r] = "idle"
  /\ Goto(r, step)
  /\ gone' = [gone EXCEPT ![r] = {p \in Provider : providers[p] = "deleted"}]
  /\ UNCHANGED <<oidcTables, target, copy, owner, started, granted>>

SubmitInitiate(r) ==
  /\ Arrive(r, "get_initiate")
  /\ \E p \in Provider : wanted' = [wanted EXCEPT ![r] = p]
  /\ UNCHANGED code

SubmitCallback(r) ==
  /\ Arrive(r, "get_callback")
  /\ \E c \in granted : code' = [code EXCEPT ![r] = c]
  /\ UNCHANGED wanted

SubmitElsewhere(r) == Arrive(r, "get_elsewhere") /\ UNCHANGED <<wanted, code>>

(* flows.Get, and the check that the flow is pending; nobody looks at its  *)
(* type.                                                                   *)
GetFlow(r, here, next) ==
  /\ pc[r] = here
  /\ \/ /\ Lapsed(target[r])
        /\ Goto(r, "expire")
        /\ UNCHANGED copy
     \/ /\ ~ Lapsed(target[r])
        /\ flows[target[r]].state = "pending"
        /\ copy' = [copy EXCEPT ![r] = flows[target[r]]]
        /\ Goto(r, next)
  /\ UNCHANGED <<oidcTables, target, wanted, code, owner, oidcWorld>>

MarkExpired(r) ==
  /\ pc[r] = "expire"
  /\ UpdateFlowState(target[r], "expired")
  /\ Finish(r)
  /\ UNCHANGED <<overdue, sessions, accounts, credentials, providers, target,
                 wanted, code, oidcWorld>>

(* The handler returns without its next step: a statement or a call fails  *)
(* or times out, a check refuses the input, or the process stops.          *)
Abandon(r) ==
  /\ pc[r] \notin {"idle", "done"}
  /\ Finish(r)
  /\ UNCHANGED <<oidcTables, target, wanted, code, oidcWorld>>

-----------------------------------------------------------------------------
\* InitiateLogin

ReadForInitiate(r) == GetFlow(r, "get_initiate", "provider")

(* providers.Get, then getOIDCProvider: the row must be enabled.           *)
PickProvider(r) ==
  /\ pc[r] = "provider"
  /\ providers[wanted[r]] = "enabled"
  /\ Goto(r, "persist")
  /\ UNCHANGED <<oidcTables, target, copy, wanted, code, owner, oidcWorld>>

(* The attempt is stored over the copy of the row, whatever it holds now,  *)
(* and the authorization URL is returned.                                  *)
PersistAttempt(r) ==
  /\ pc[r] = "persist"
  /\ UpdateFlow(target[r], "pending", copy[r].identity,
                [copy[r].ui EXCEPT !.provider = wanted[r], !.attempt = r])
  /\ started' = started \cup {[attempt |-> r, provider |-> wanted[r],
                               flow |-> target[r]]}
  /\ Finish(r)
  /\ UNCHANGED <<overdue, sessions, accounts, credentials, providers, target,
                 wanted, code, granted, gone>>

-----------------------------------------------------------------------------
\* HandleCallback

ReadForCallback(r) == GetFlow(r, "get_callback", "configure")

\* Slip: the provider's configuration comes from a cache.
SlipCachedProvider(p) == p # NoProvider

(* The copy holds an attempt, and the row of its provider is still there;  *)
(* it need not be enabled.                                                 *)
Configured(p) == p # NoProvider /\ providers[p] # "deleted"

LoadProvider(r) ==
  /\ pc[r] = "configure"
  /\ Configured(copy[r].ui.provider)
  /\ Goto(r, "exchange")
  /\ UNCHANGED <<oidcTables, target, copy, wanted, code, owner, oidcWorld>>

\* Slip: the nonce of the id_token is not compared.
SlipNoNonce(c, ui) == TRUE

\* id_token.nonce is the nonce of the copy.
NonceMatches(c, ui) == c.attempt = ui.attempt

\* The provider knows the code, and checks the verifier if it does PKCE.
Redeems(c, ui) ==
  /\ c.provider = ui.provider
  /\ c.provider \in Pkce => c.attempt = ui.attempt

(* Exchange, Verify and the comparison of nonces.                          *)
ExchangeCode(r) ==
  /\ pc[r] = "exchange"
  /\ Redeems(code[r], copy[r].ui)
  /\ NonceMatches(code[r], copy[r].ui)
  /\ Goto(r, "lookup")
  /\ UNCHANGED <<oidcTables, target, copy, wanted, code, owner, oidcWorld>>

\* credIdentifier, "{providerID}:{sub}"
SubjectOf(c) == <<c.provider, c.subject>>

(* GetByIdentifier: a linked subject, or else just-in-time provisioning.   *)
LookupSubject(r) ==
  LET linked == Named(oidc, SubjectOf(code[r]))
  IN  /\ pc[r] = "lookup"
      /\ \/ \E i \in linked : /\ owner' = [owner EXCEPT ![r] = i]
                              /\ Goto(r, "load")
         \/ /\ linked = {}
            /\ Goto(r, "provision")
            /\ UNCHANGED owner
      /\ UNCHANGED <<oidcTables, target, copy, wanted, code, oidcWorld>>

\* Slip: the state of the identity is not looked at.
SlipAnyState(i) == accounts[i] # "absent"

MayLogIn(i) == accounts[i] = "active"

(* GetIdentity                                                             *)
LoadIdentity(r) ==
  /\ pc[r] = "load"
  /\ MayLogIn(owner[r])
  /\ Goto(r, "session")
  /\ UNCHANGED <<oidcTables, target, copy, wanted, code, owner, oidcWorld>>

(* EnsureDefault, then an identity that is active at once ...              *)
ProvisionIdentity(r) ==
  /\ pc[r] = "provision"
  /\ \E i \in Identity : /\ CreateIdentity(i, "active")
                         /\ owner' = [owner EXCEPT ![r] = i]
  /\ Goto(r, "link")
  /\ UNCHANGED <<flows, overdue, sessions, credentials, providers, target, copy,
                 wanted, code, oidcWorld>>

\* Slip: a conflict is taken for a link that is already there.
SlipIgnoreConflict(r) ==
  /\ pc[r] = "link"
  /\ Goto(r, "session")
  /\ \/ CreateCredential(owner[r], oidc, {SubjectOf(code[r])})
     \/ UNCHANGED credentials
  /\ UNCHANGED <<flows, overdue, sessions, accounts, providers, target, copy,
                 wanted, code, owner, oidcWorld>>

(* ... and its credential, which fails when another callback was faster.   *)
LinkSubject(r) ==
  /\ pc[r] = "link"
  /\ CreateCredential(owner[r], oidc, {SubjectOf(code[r])})
  /\ Goto(r, "session")
  /\ UNCHANGED <<flows, overdue, sessions, accounts, providers, target, copy,
                 wanted, code, owner, oidcWorld>>

(* policies.Get for the lifetime, then the session ...                     *)
IssueOidcSession(r) ==
  /\ pc[r] = "session"
  /\ CreateSession(r, owner[r], "aal1", AMR)
  /\ Goto(r, "complete")
  /\ UNCHANGED <<flows, overdue, accounts, credentials, providers, target, copy,
                 wanted, code, owner, oidcWorld>>

\* Slip: the row keeps the identity it had.
SlipOwnerOfCopy(r) == copy[r].identity

CallbackOwner(r) == owner[r]

(* ... and the flow, whose failure nobody notices (Abandon).               *)
CompleteCallback(r) ==
  /\ pc[r] = "complete"
  /\ UpdateFlow(target[r], "success", CallbackOwner(r),
                [Plain("complete") EXCEPT !.oidc = TRUE])
  /\ Finish(r)
  /\ UNCHANGED <<overdue, sessions, accounts, credentials, providers, target,
                 wanted, code, oidcWorld>>

-----------------------------------------------------------------------------
(* The flow's own engine reads the row ...                                 *)
ReadElsewhere(r) == GetFlow(r, "get_elsewhere", "elsewhere")

(* ... and writes it from its copy: a rejected login puts the copy back,   *)
(* an accepted first factor waits for the second, an accepted login or     *)
(* verification completes the flow, a verification is given its owner, a   *)
(* wrong token spends it.                                                  *)
WriteElsewhere(r) ==
  /\ pc[r] = "elsewhere"
  /\ IF copy[r].type = "login"
     THEN \/ UpdateFlow(target[r], "pending", copy[r].identity, copy[r].ui)
          \/ \E i \in Identity :
               /\ accounts[i] # "absent"
               /\ \/ UpdateFlow(target[r], "pending", i, Plain("second_factor"))
                  \/ UpdateFlow(target[r], "success", i, Plain("complete"))
     ELSE \/ \E i \in Identity : UpdateFlow(target[r], "pending", i, Plain("verify"))
          \/ UpdateFlow(target[r], "success", copy[r].identity, Plain("complete"))
          \/ UpdateFlowState(target[r], "failed")
  /\ Finish(r)
  /\ UNCHANGED <<overdue, sessions, accounts, credentials, providers, target,
                 wanted, code, oidcWorld>>

ServeOidc(r) ==
  \/ ReadForInitiate(r)   \/ PickProvider(r)     \/ PersistAttempt(r)
  \/ ReadForCallback(r)   \/ LoadProvider(r)     \/ ExchangeCode(r)
  \/ LookupSubject(r)     \/ LoadIdentity(r)     \/ ProvisionIdentity(r)
  \/ LinkSubject(r)       \/ IssueOidcSession(r) \/ CompleteCallback(r)
  \/ ReadElsewhere(r)     \/ WriteElsewhere(r)
  \/ MarkExpired(r)       \/ Abandon(r)

SubmitOidc(r) == SubmitInitiate(r) \/ SubmitCallback(r) \/ SubmitElsewhere(r)

OidcNext ==
  \/ \E f \in Flow : InitAnyFlow(f) \/ FlowExpires(f)
  \/ \E p \in Provider : SetEnabled(p) \/ DeleteProvider(p)
  \/ \E i \in Identity : ActivateElsewhere(i)
  \/ \E a \in started : Authorize(a)
  \/ \E r \in Request : SubmitOidc(r) \/ ServeOidc(r)

OidcSpec == OidcInit /\ [][OidcNext]_oidcVars

-----------------------------------------------------------------------------
(* A callback's session comes from an attempt that was started on the very *)
(* flow it names, at the provider that granted the code: an attempt of one *)
(* flow or provider is never completed in another, even if the provider    *)
(* ignores PKCE and attempts overwrite each other (engine.go:163, 241).    *)
SessionsMatchTheirAttempt ==
  \A r \in Request : Issued(r) =>
    [attempt |-> code[r].attempt, provider |-> code[r].provider,
     flow |-> target[r]] \in started

(* A subject of a provider stays one identity: whoever has a session       *)
(* through it is the only identity linked to it, although two first        *)
(* callbacks may both find it unlinked (engine.go:258-297).                *)
SubjectsKeepTheirIdentity ==
  \A r \in Request : Issued(r) =>
    Named(oidc, SubjectOf(code[r])) = {sessions[r].identity}

(* Only active identities get a session: a migrated identity that waits    *)
(* for verification cannot log in through its provider (engine.go:269).    *)
SessionsAreForActiveIdentities ==
  \A r \in Request : Issued(r) => accounts[sessions[r].identity] = "active"

(* A flow that a callback marked successful gave a session to the identity *)
(* it names (engine.go:312-318).                                           *)
CompletedCallbacksGaveASession ==
  \A f \in Flow : flows[f].state = "success" /\ flows[f].ui.oidc =>
    \E r \in Request :
      /\ target[r] = f
      /\ Issued(r)
      /\ sessions[r].identity = flows[f].identity

(* A callback that arrives after its provider was deleted logs nobody in,  *)
(* whatever the flow and the provider cache still hold (engine.go:196).    *)
DeletedProvidersLogNobodyIn ==
  \A r \in Request : Issued(r) => code[r].provider \notin gone[r]

(* engine.go:92: InitiateLogin "advances an existing login flow": no other *)
(* flow ever holds an attempt.                                             *)
OnlyLoginFlowsHoldAttempts ==
  \A f \in Flow : flows[f].ui.attempt # NoAttempt => flows[f].type = "login"

-----------------------------------------------------------------------------
\* What of all this a user sees: which subject is which identity, and the
\* sessions with the flow and the code each one came from.
links ==
  {l \in [subject : Identifier, identity : Identity] :
     l.identity \in Named(oidc, l.subject)}

oidcSessions ==
  {[request |-> r, flow |-> target[r], code |-> code[r],
    identity |-> sessions[r].identity] : r \in {q \in Request : Issued(q)}}

Promise == INSTANCE OidcPromise WITH linked <- links, issued <- oidcSessions

(* Statement by statement, with attempts that overwrite each other, stale  *)
(* copies and first callbacks that race, OIDC login keeps the promise of   *)
(* OidcPromise: a code is good in the flow of its attempt only, and a      *)
(* subject is never linked to an account that has one (engine.go:92-323).  *)
KeepsTheOidcPromise == Promise!Spec
=============================================================================
