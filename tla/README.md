# A verification of the identity provider's self-service flows

This directory holds TLA+ modules for the program in `src/`: a multi-tenant
identity provider (`cmd/idpd`) whose self-service flows (login, registration,
verification, recovery, settings, OIDC) are HTTP handlers over one SQL
database (the CockroachDB dialect, through pgx), and a migration tool
(`cmd/idpctl`).  TLC checks small instances; TLAPS proves all the safety
properties of the passing runs, for every value of the constants.

    tlc -config MCLogin.cfg MCLogin        the run "login"; the others likewise
    tlapm LoginProofs.tla                  the proofs; the others are AccountsProofs,
                                           AccountsRefinement, SettingsProofs, OidcProofs,
                                           ProviderCacheProofs, MigrationProofs, MigrationArrival

`PROJECT.json` lists the components, the runs, the definitions with the lines
they stand for, and for each property a mistake in the code that breaks it.

## 1. Inventory

**The shape of the program.** Every handler is a goroutine that runs a handful
of SQL statements.  No statement is in a transaction with another: `Begin` is
called nowhere.  Handlers share no memory except the authenticator registry
(filled before the server listens) and the OIDC provider cache.  So the whole
difficulty of this code lies *between two statements of one handler*: another
request runs there, a statement fails there, the process stops there.  In
particular every engine reads a flow row into a local struct, works on it, and
later writes `state`, `identity_id` and `ui` back together, whatever the row
holds by then.

| component | state | operations | interacts with |
|---|---|---|---|
| flow store (`internal/flow`) | table `self_service_flows` | Create, Get (SELECT, then UPDATE of an expired row), Update, UpdateState | all engines |
| session store, logout (`internal/session`) | table `sessions` | Create, GetByToken, RevokeByToken, Revoke | login, registration, recovery, OIDC create; settings reads; logout revokes |
| login (`internal/flow/login`) | none of its own | InitFlow, GetFlow, SubmitFlow (first factor, second factor, error), session cookie, Hydra accept | flow, session, policy, identity stores, authenticators, Hydra |
| policies (`internal/policy`) | table `tenant_flow_policies` | Get, Upsert | login and registration read it while an operator may change it |
| identities, credentials (`internal/identity`) | tables `identities`, `identity_credentials` | CreateIdentity, CreateCredential, UpsertCredential, UpdateIdentityState, UpdateIdentityTraits, lookups | all engines |
| registration (`internal/flow/registration`) | none | InitFlow, SubmitFlow, session cookie | identity, schema, flow, session stores; calls verification.InitFlow |
| verification (`internal/flow/verification`) | the token in `ui._internal` | InitFlow, SubmitFlow by link or form | flow and identity stores |
| recovery (`internal/flow/recovery`) | token and identity in `ui._internal` | InitFlow, RequestRecovery, UseToken | flow, identity and session stores |
| settings (`internal/flow/settings`) | none | InitFlow, GetFlow, SubmitProfile, SubmitPassword, behind a session check | session, flow, identity stores |
| OIDC login (`internal/oidc`) | provider cache (map, RWMutex) | InitiateLogin, HandleCallback, provider discovery | flow, identity, session stores, `tenant_sso_providers`, the issuer |
| schemas (`internal/schema`) | table `identity_schemas` | GetActive, EnsureDefault (look, insert, look again) | registration, OIDC; the migration deactivates and inserts |
| migration (`internal/migration`, `cmd/idpctl`) | none; reads Kratos' database | Run: tenant, schema, policy, SSO providers, identities with their credentials, sessions | inserts into all tables while requests are served; run again after a failure |
| SSO administration (`internal/sso`) | table `tenant_sso_providers` | create, list, get, delete, enable and disable | OIDC, migration |
| authenticators (`internal/authenticator`) | registry (map, RWMutex) | InitiateFlow, CompleteFlow, Enroll | login, registration, settings |
| tenants (`internal/tenant`) | table `tenants` | lookup before every handler | all handlers |
| Hydra client (`internal/hydra`) | none | accept a login request | login |

**What is hard, and what makes each part correct.**

* *Login.*  A flow collects up to two factors.  Several submissions, of
  different people, may work on one flow with stale copies of its row while the
  operator changes the policy and the flow expires.  Correct means: a session
  of level aal2 belongs to one identity that passed both factors in that flow,
  a session of level aal1 is issued only if the policy did not demand more,
  nobody gets a session from a flow after its time, nobody is logged in through
  another engine's flow, and Hydra hears only of sessions that exist.
* *Registration, verification, recovery.*  Five statements create an account;
  tokens travel by email and come back in any order, twice, or wrong.  Correct
  means: an account becomes active only by policy or by a token made for it, an
  identifier names one identity, a session goes to an active account and, in a
  recovery, to the identity the token was made for.  The OIDC engine writes to
  the same flows, since it asks for their state and not for their type.
* *Settings.*  Read, modify and write of the traits, a session that may be
  revoked meanwhile, and OIDC logins that take the flow back or complete it for
  somebody else.  Correct means: through one flow, one identity is changed.
* *OIDC.*  The state parameter joins a callback to its flow; a subject is
  linked to one identity; the provider cache is filled by one of several
  waiting requests while the others hold back.
* *Schemas, migration.*  Check-then-insert with no constraint; a run that may
  stop anywhere and be started again, next to requests that write the same
  tables.  Correct means: each name of whoever a completed run read and did not
  warn about leads to an identity made for them; nothing that was in the tenant changes
  hands; no credential or session refers to an identity that is not there; runs
  share a provider row; the tenant is not left without a schema.

The hazards, each at its line and with the properties that cover it, are in
`PROJECT.json`.

## 2. Plan

The order is by what the program would lose if the part were wrong.

| | module | what it adds | state |
|---|---|---|---|
| 1 | `FlowStore`, `SessionStore`, `Login` | the tables, the login engine and handler | modelled, checked, proved |
| 2 | `LoginPromise` | login without requests, rows or statements; `Login` implements it | checked, proved |
| 3 | `IdentityStore`, `TokenFlows`, `Registration`, `Verification`, `Recovery`, `OidcRequests`, composed in `Accounts` | the flows that create, verify and recover accounts, and the OIDC requests that write to them, over the same tables | modelled, checked, proved |
| 4 | `AccountsPromise` | registering, verifying and recovering without rows, statements or failures; `Accounts` implements it | checked, proved |
| 5 | `Settings` | the settings flow, behind a session that may end, and the OIDC requests that write to it | modelled, checked, proved |
| 6 | `ProviderCache` over `ProviderMemo` | the double-checked cache under its RWMutex | modelled, checked, proved |
| 7 | `OidcLogin` | InitiateLogin and HandleCallback among the other engines' writes | modelled, checked, proved |
| 8 | `OidcPromise` | attempts, codes, links and sessions without rows or statements; `OidcLogin` implements it | checked, proved |
| 9 | `Provisioning` | EnsureDefault (check, insert, look again, with no constraint) inside what registration and a first OIDC login have in common | modelled, checked and proved as part of `Migration` |
| 10 | `Migration` over `Provisioning` | Run as a sequence of statements that may stop anywhere and be run again, with newcomers, an administrator and Kratos in service | modelled, checked, proved |

What would add most next: `Login` and `OidcLogin` over one set of rows, in place
of the reads and writes by which `OidcLogin` now stands for the other engines
(`Login` does not have the OIDC engine's writes); and abstract promises of
settings and of the migration.

## 3. Modules

**The tables.**  `Ids` has the identity ids and the NULL of `identity_id`.
`FlowStore`, `SessionStore` and `IdentityStore` have one variable per table and
one operator per SQL statement; each statement is atomic, and no two are.  The
engines use the operators and add their own variables.

**Common conventions.**  A request is one call of a handler.  `pc[r]` is the
statement it runs next, `target[r]` the flow it names, `copy[r]` the local `f`.
An action is one SQL statement, one call to an authenticator or a provider, or
one read that a later step relies on, together with the checks that follow it.
A check that refuses, a statement that fails, a deadline and a stop of the
process all look alike: the request ends where it is, `Abandon(r)`.  A restart
of the server is `Abandon` of every request in flight, since nothing but the
tables survives.  `flows.Get` of a pending flow past its time goes on to a
second statement, `MarkExpired`.  Operators named `Slip...` are mistakes the
code does not make; each shows that some property can fail.

**What is left out of the data.**  One tenant, since every statement is keyed
by `tenant_id`.  Of the `ui` column only what a later step reads: phase, methods
passed, token, attempt.  A session is named by the request that inserts it, a
token and an OIDC attempt by the request that draws it, because each is fresh
random bytes and a request draws at most one.  A method stands for its entry in
`amr`.  Any wrong token is `NoToken`, or the token of another request.  The
clock is the set of flows (and sessions) whose time has passed.  Traits are
total maps with an email; a credential's config appears only as "whose was
replaced by whom", and in `Migration` as the algorithm of its hash.

**The OIDC engine among the others.**  `InitiateLogin` and `HandleCallback` ask
whether a flow is pending, never of which type it is.  The first writes the row
back from a copy it took before a network fetch: `pending`, with the owner and
the token of the copy.  The second writes `success` and the identity of the
provider's subject.  Both are actions wherever the flows they can reach are
modelled: in `OidcRequests`, which `Accounts` composes with registration,
verification and recovery, and in `Settings`.  There the provider's answer is
any subject, linked or new: that nonce, code, provider and subject belong
together is `OidcLogin`'s question, where in turn the other engines appear as
reads and writes of the same rows.

| module | code | its actions and the code they stand for |
|---|---|---|
| `Login` | `flow/login/engine.go`, `handler.go` | `GetPending`/`GetLapsed`/`MarkExpired` are flows.Get; `GetPolicy` reads the policy and switches on the phase; `PassFirstFactor`, `PassSecondFactor`, `RefuseFactor` are the authenticator's verdict; `AdvanceToSecondFactor`, `CompleteLogin`, `AppendFlowError` write the row back from the copy; `IssueSession` and `AcceptLoginRequest` are the handler |
| `LoginPromise` | what login is for | a factor is passed in a flow; a session is issued for factors passed; policies come into force |
| `AccountsPromise` | what registration, verification and recovery are for | an account is created, and enrolled once; a token is made for somebody enrolled, or for nobody; a request redeems it in its own flow, which activates; a session is issued where registering was enough, to who redeemed a recovery token, or to an active identity through a provider |
| `OidcPromise` | what OIDC login is for | an attempt is begun once; a code is granted; an account is made for a new subject and linked to it; a session is issued in the flow of the attempt, to the identity of the subject |
| `TokenFlows` | what the three account flows share | tokens that were sent, for whom they were made, and which were accepted |
| `Registration` | `flow/registration` | read, policy, check of the identifier, identity, credential, flow, then session or verification |
| `OidcRequests` | `oidc/engine.go`, as it meets the account flows | `ReadForInitiate`, `PersistAttempt`: the copy and its late write; `ReadForCallback`, then a linked subject (`FindSubject`) or a new one (`ProvisionIdentity`, `LinkSubject`), the session, `CompleteCallback` |
| `Verification` | `flow/verification` | the flow is inserted, then given its owner; a token is compared with the copy; the identity is activated, then the token cleared |
| `Recovery` | `flow/recovery` | `OfferToken` may run many times on one flow; `RefuseLink`, `Reactivate`, `IssueRecoverySession`, `CompleteRecovery` are UseToken |
| `Settings` | `flow/settings`, GetByToken, RevokeByToken of `session`, and `oidc/engine.go` as it meets settings flows | session check; opening a flow; traits read, merged, written; old credential looked up, upserted; `PersistAttempt`, `CompleteCallback` are the OIDC engine's writes |
| `OidcLogin` | `oidc/engine.go`, `handler.go`, SetEnabled and Delete of `sso` | attempts and callbacks; `ReadElsewhere`, `WriteElsewhere` are the other engines on the same flow |
| `Provisioning` | the middle of `registration.SubmitFlow` and of `HandleCallback`, `schema/store.go` | `CheckTaken`, then EnsureDefault as `GetActive`, `InsertDefault` or `InsertDefaultFails`, `GetActiveAgain`; the identity; the credential; `TurnAway` is a refusal, a failure or a stop |
| `Migration` | `migration/run.go`, `kratos.go`, Create and Delete of `sso` | one action per statement of Run, in its order; `SkipIdentity`, `SkipCredential` are the failures that are only warnings, `Stop` is every other end; `Ask`, `CreateProvider`, `DeleteProvider`, `SignUp` are what happens around it |
| `ProviderCache` | `getOIDCProvider` | the two looks, the two locks, the fetch; `Memo` is one indivisible step per call |

**Behaviour worth knowing, that the models show.**  A flow completed between the
SELECT and the UPDATE of `flows.Get` is marked expired.  A rejected login
submission writes its stale copy (`appendFlowError`), and so may take a flow
that another one completed back to pending, though every property above holds
all the same.  `flow.go:52` calls the
verification token single-use, but two requests with it may both be accepted,
because it is cleared by a later statement than the one that acts on it; and an
`InitiateLogin` that read the flow before puts it back.  A verification or
recovery flow that is over, or a settings flow, may in this way become pending
again, and a callback completes any of them for the subject's identity, with
nothing verified or changed.  In settings a lookup of the old
credential that fails counts as "none", and the new password is stored under
the email as a second credential (`FallBackToEmail`).  A provisioned identity
whose credential fails stays behind, active and unlinked.  `sso_only`, `required_aal`
and `inactivity_timeout` are stored and read by no code.  `HandleCallback`
reads the policy for the lifetime of the session only, so an OIDC login is
complete at aal1 whatever `mfa_required` says, and does not ask whether the
provider is still enabled.  Password login does not look at the state of the
identity, OIDC login does.  `RequireVerification` is a set of values the
operator may give the policy; a request sees whichever is stored when it reads.
`External` are the methods whose authenticator (the REST adapter) returns the
identifiers of a credential itself.  In `ProviderCache` a reader waits as soon
as a writer has announced itself: that is `sync.RWMutex`'s contract, the one
part taken from outside the repository; the OIDC provider's authorization and
token endpoints (`Authorize`, `Redeems`) are the other.

Of the migration: a request that runs EnsureDefault between the two statements
of `migrateSchema`, or two such requests, leave two active schemas of version 1,
and GetActive takes either.  A run that follows a stopped one makes a second
identity for each person: credentials inserted by the first stay with the first
identity (ON CONFLICT DO NOTHING), the others go to the second, so one person's
names, and sessions, may be spread over both.  Two providers of kratos.yml with
the same `provider`, two `generic` ones for instance, share one row (the lookup
at `run.go:225` asks for the kind): the config of the second is dropped, and a
subject known to both leads to whichever person was inserted first (`SharedBy`).
Provider rows are written without the `redirect_uri` (`run.go:216`) that
`InitiateLogin` sends along, and hashes are copied whatever their algorithm: that a
name leads to its identity does not say that its credential can be used.
Conflicts compare arrays of identifiers as a whole, here as sets:
that Kratos' arrays may come in another order next time is left out, as is the
clash of a person's email with one element of another's array.  The session of
a person whose state is inactive is migrated as an active session.  A password
needs no active identity, an OIDC login does, so the inactive people of Kratos
come back with the one and not with the other.

## 4. Runs

The MC modules declare the model values of the runs; the `.cfg` files give the
constants.  Requests, flows and identities are interchangeable where the
configuration treats them alike, and then form the symmetry set; a run with a
liveness property has none.  A run says `CHECK_DEADLOCK FALSE` where the finite
set of requests can all have been served, after which nothing more can happen;
in `Login` there is always a policy to change or a session to revoke.  A run of
the migration is called a migration run in this section.

| run | instance | question and answer |
|---|---|---|
| `login` | 3 requests, 1 flow, 2 identities, 2 methods, 3 policies | Three submissions are the least in which one passes a first factor, a second holds a stale copy and a third passes the second factor.  All safety properties and the refinement of `LoginPromise` hold. |
| `register` | 3 requests, 2 flows, 2 identities, empty tables | One registration and its verification by two requests, two registrations that race, or one of them and an OIDC login in its flow, which writes it back from a stale copy or completes it: accounts are activated for a reason, identifiers name one identity, a token stays with whom it was made for, and every step is one that `AccountsPromise` allows or does not show. |
| `recover` | 4 requests, 1 flow, 2 accounts | Two emails and two links on one flow: the least in which a link is used while another email replaces its token.  One account is linked to a provider, so that any of the four may be an OIDC request instead. |
| `settings` | 3 requests, 2 sessions, 1 flow | One opens the flow, two submit, or start an OIDC login in it and come back from the provider; sessions are revoked and end, the flow expires. |
| `provider_cache` | 3 requests, 2 issuers, fair | A writer, a waiting writer and a reader; all calls return. |
| `oidc` | 3 requests, 2 flows, 2 identities, 1 provider that ignores PKCE | Two attempts and a callback, or one attempt and two callbacks that both find the subject unlinked.  The provider ignores PKCE because then the nonce alone binds a code to its attempt.  `OidcPromise` is implemented; with one subject the clause of it that gives no linked account a second link is met only by the proof (an instance with a second subject also holds, and takes four minutes). |
| `migrate` | 2 migration runs, 2 people, 1 newcomer, providers `corp` and `lab` (configured, of one kind) and `old` (not configured), 1 token | Two migration runs are the least for a re-run.  Ann has a password and an entry of `corp` and of `old`, so a credential is dropped by half; Ben has the same subject at `lab`, which shares the row of `corp`, is inactive and signs up in Kratos while the migration is going on.  The newcomer registers Ann's email, or comes with the subject at a row of a migration run, at any point.  An administrator adds a row for `corp` or deletes one of a migration run (`ByHand`, `Deletable`, `Interventions`). |

Bounds: the sets above; a request serves one call; `Policy` has three members
(no second factor, one demanded, one demanded with none allowed); `login` has
one flow, and the proofs cover several; in `Migration` newcomers ask for one of
`Wishes` (the keys that can meet a migrated one) and an administrator acts
`Interventions` times, once here; in `Migration` the rows of tables are named by who inserts them,
so the sets bound them too, and nobody inserts twice.  That one migration run is
under way at a time is an assumption on the operator (`Begin`), not a bound: the
code has no lock, and two at once would each make a provider row.  No other
counter exists in the code's own state.

Fairness.  Only `FairCache` assumes any: weak fairness of each request's own
steps.  A goroutine that can go on does, because the call it waits for is
bounded by the request context (`middleware.Timeout(30s)`) and the server's
read and write timeouts (`cmd/idpd/main.go`).  Nothing is assumed of which
request gets a lock.

Where the code and its own words part, a run finds the counterexample:

| run | what the code says | what happens |
|---|---|---|
| `external_names` | "Reject if identifier is already taken" (`registration/engine.go:191`) | the check looks at what the client typed, the credential holds what `Enroll` returned, and the index compares whole arrays |
| `settings_traits` | "Start from current traits" (`settings/engine.go:173`) | two profile submissions read the same traits; the later write undoes the other's field |
| `settings_upsert` | "matched by tenant+identity+type" (`identity/store.go:208`) | ON CONFLICT matches by identifiers: another identity's config is replaced |
| `migrate_hash` | "Our format is identical so we pass the config through unchanged" (`migration/run.go:330`) | a hash may be argon2id; the one authenticator for passwords compares with bcrypt (`password/adapter.go:72`), so the person cannot log in, and nothing warns |
| `oidc_type` | "advances an existing login flow" (`oidc/engine.go:92`) | any pending flow takes an attempt, a verification flow for one |

## 5. Proofs

The theorems hold for every value of the constants.  They assume what the
modules assume: `NoIdentity` is no identity, `Enrolled` pairs identities with
methods, policies are policies, `Nobody` is no request, person or row; the names
of rows in `Migration` are those of who inserts them; and
`KratosNamesAssumption`, that a password identifier is one person's in Kratos,
which only `PeopleArrive` needs (nothing is assumed of subjects).  What is in the tables
from the start is well typed; in `OidcLogin` each imported credential names one
subject, no two the same (`OidcImportAssumption`), which is how `migrateOIDCCred`
inserts them under the unique index.  One theorem has hypotheses of its own:
`OneIdentityPerName`, see below.

**Login.**  `LoginInv` is inductive.  The properties alone are not: a row may
be overwritten by any copy in flight, so whatever is needed of rows
(`RowSound`: a row that waits for a second factor names who passed the first)
must hold of copies as well (`CopySound`), and whatever a session claims must
hold of the result a request is about to persist (`ResultSound`).  What makes
the induction go through is that `passed`, `inForce` and the existence and type
of a flow only grow (`Grows`): what a copy claimed when it was read is still
true when it is written.  The lemmas follow that argument.

* `TypeStep`: types, one step per action; gives `LoginTypeCorrect`.
* `StepGrows`: every step is `Grows`; `EarnedForGood` and `RowSoundForGood` say
  what follows for claims and rows.
* `OthersStandStill` and `StillSound`: a request that does not move stays sound.
  `MoverStaysSound`: the one that moves does, action by action; here
  `AppendToOne` shows that a second factor's `amr` is a pair.
* `RowsStep`, `PassesStep`, `HydraStep`, `LateStep`, `PolicyStep`: the parts that
  are not about one request.
* `LoginInvariant` joins them; `AAL2Sound`, `AAL1Sound`, `WaitingRowsSound`,
  `ForeignFlowsSound`, `LateRequestsSound` and `HydraSound` read the properties off.
* `SuccessSound` needs no more: a completed flow names somebody who passed a
  factor in it, whatever was written over it since.  `FactorsSound` is a small
  induction of its own over the policies a request may hold.

**Login implements its promise.**  `LoginKeepsThePromise` shows that each step of
`Login` is a step of `LoginPromise` or changes nothing it speaks of:
`PassFirstFactor` and `PassSecondFactor` pass a factor, `IssueSession` issues a
session, `UpsertPolicy` brings a policy into force.  The hard step is
`IssueSession`: that the session it inserts is one the promise allows is
`ResultSound` of `LoginInv`.

**Registration, verification and recovery.**  `AccountsProofs` proves the
properties of `Accounts` along the way of a token.

* `TypeInv`: types, and what a request has when it is where it is.
* `RowWrites` lists all that a step can do to a row, whoever does it; the later
  inductions over rows go through this list and not through the actions again.
* `PlaceInv`: which type of flow a request is at, by where it is, which tells
  apart the tokens of the two kinds of flow.
* `TokenInv`: what a row says of its token (`TokenSound`: it was sent, for this
  owner) holds of every copy too; sent tokens keep their identity (`Grows`), so
  what is compared with a stale copy is still whose it was, and so is what
  `PersistAttempt` writes back over a flow that is over; a callback names
  another owner but keeps no token.  From it `TokensStay`, `ActiveProved` and
  `RecoverySessionsProved`.
* `GivenInv`: the identity a request is about to give a session to is active, the
  registration about to be completed has its credential, the recovery its
  session, and the callback both; whence `OnlyActiveAccounts`, `RegisteredHaveCredentials` and
  `RecoveredHaveSessions`.
* `NameInv`: with `External` empty, every credential that was not imported names
  one identifier that no import names, and no two the same.
  `OneIdentityPerName` has both hypotheses, `External = {}` and `Unambiguous`
  imports, in its statement: the run `external_names` shows that it fails without
  the first.

**The account flows implement their promise.**  `AccountsRefinement` shows that
each step of `Accounts` is a step of `AccountsPromise` or changes nothing it
speaks of.  `CreateAccount` creates, `AddCredential` enrols; a token is made
where it is written into a row (a verification's second statement, `OfferToken`
of a recovery); it is redeemed by the statement that activates, so that the
later one that clears it does not show; `IssueRegistrationSession`,
`IssueRecoverySession` and `IssueOidcSession` issue.  The abstract guards are what is hard, and two
invariants more are needed for them, both checked by TLC before they were
proved.

* `RegisterInv`: each account that registering made is the account of one
  request (`AccountOf`), which alone may still enrol it and get a session for
  it.  Without it `Enroll` could happen twice and a registration could give two
  sessions.  It rests on `CreateIdentity` naming an identity that was absent.
* `RedeemInv`: a request accepts one token only, and the token, its flow and its
  type stay together from the moment it is compared with a copy until the
  session is inserted, although the row may hold another token by then.
* `Images` says when the abstract state stands still, and the lemmas `...Shows`
  take the visible actions one by one; `AccountsKeepThePromise` joins them.

**Settings.**  Nobody takes back what `Keeps` names: a session keeps its
identity, and a dead one stays dead.  `ShutInv` strengthens
`DeadSessionsChangeNothing` by where requests with dead sessions are: never past
the check.  A
settings flow does not keep its owner, since a callback may replace it, so
`ClaimInv` says whose a flow is by who has a claim to it: who is about to name
its owner, who is past the check or has changed something, whoever a pending row
names or any copy does that can take it back to pending.  At any time these are
one identity, which gives `FlowsServeOneIdentity`; the lemmas go through what a
write leaves behind (`OwnFlowClaims`, `CreateClaims`).  `SuccessIsEarned` takes
all this: only `CompleteSettings` and `CompleteCallback` make a flow successful
(`SuccessOnlyBySubmission`), the latter being its one exception.

**OIDC login.**  The other engines read any flow and write it back later with
the attempt they read, so `AttemptInv` is about rows and copies alike: whatever
attempt they hold was started on that flow (`RowSound`), and a redeemed code's
was too (`StartedHere`).  `GoneInv` follows a provider deleted before a callback
arrived through to the session.  `SubjectInv` joins the unique index to the
requests that are about to insert a session: their owner is linked to the
subject of their code, and nobody else can be.  `ActiveInv` relies on nobody
deactivating an identity, `CompleteInv` on a completed row not being read as
pending again, so that no stale copy holds a callback's success.

**OIDC login implements its promise.**  `OidcKeepsThePromise` is about the same
kind of step: `PersistAttempt` starts an attempt, `Authorize` grants a code,
`ProvisionIdentity` and `LinkSubject` are two steps of the promise as they are
two statements, and `IssueOidcSession` issues.  Besides `AttemptInv`,
`SubjectInv` and `ActiveInv` it takes two invariants.  `OnceInv`: whoever has
begun an attempt has returned, so that no attempt is begun again, on another
flow; and a callback carries a code that was granted.  `NewcomerInv`: the
identity that a request is about to link has no link, and is the newcomer of
this request only.  The latter, with the unique index of
`identity_credentials` (which knows subjects, not identities), gives the guard
of `LinkUp`: no subject is ever added to an account that is somebody's.

**Provider cache.**  `CacheInv` says which lock a request holds from where it
is; `CacheSteps` proves it action by action.  `CacheHasNoRace`,
`CacheFetchesOnce` and `CacheAgrees` are its parts, and `CacheRefines` maps
each step to a step of `ProviderMemo` or to none, whence
`CacheImplementsMemo`.

**Migration.**  `MigrationProofs` first types the tables and the locals of a run
(`TypeInv`) and states what each statement does to the locals (the `...Keeps`
lemmas), so that later proofs need not open records again.

* `StepGrows`: identities, credentials and sessions, once there, stay as they
  are.  `NothingTakenOver` is a part of it, and all else rests on it.
* `HasInv`: whoever is about to insert a row that refers to an identity has seen
  it inserted, a run for its person and for each token it took, a newcomer before
  the credential; this is what makes `NoDangling` inductive.
* `ShareInv`: one run is under way, and one that is about to insert a provider
  row found none of the kind (`KindIsFree`), which nobody but the run itself can
  make untrue; whence `ProvidersShared`.
* `SchemaInv`: a run that has not inserted its schema has no row; so the run that
  deactivated the schemas stands between its two statements or has stopped
  there, whence `SchemasRepaired`.

`MigrationArrival` proves `PeopleArrive`.  Its invariant `ArriveInv` says of
every credential where it comes from (`Source`: what its newcomer wanted, or a
password or entry of the person its identity was made for), of the provider map
that it is complete and keeps kinds (`MapDone`, `MapSound`), and of a run that
all the people it has behind it have arrived, but for what is still to do for
the last one (`Progress`).  The point is the conflict: `ON CONFLICT DO NOTHING`
loses the new row, and `Source` says that the row in its way leads to the same
person (a password identifier is one person's in Kratos), to one who has the
same subject at a provider of the same kind, or to a newcomer who registered
under that very name (`PasswordAdded`, `EntryAdded`).

**Only model-checked.**  Liveness (`CallsReturn`): fairness and ENABLED are
beyond the prover.  All other properties of the passing runs are
theorems.  The inductive invariants (`LoginInv`, `CacheInv` and the others) are
proved, and are not properties of a run.

**What the properties do not say.**  `DeadSessionsChangeNothing` is about requests
that arrive with a dead session: one that dies between the check and the write
still changes things.  `KeepsThePromise` does not promise a session to who
completed a login: the handler may stop between the two.  `CallsReturn` says
that the lock is released, not that one slow issuer leaves the others alone.
`MigratedPeopleArrive` says where a name leads, not that its credential or
provider can be used.

**Not modelled, and why.**  The authenticators appear as the verdict on what was
submitted and as the names `Enroll` returns; the hashing and the HTTP exchange
behind a verdict are not about state, and the registry is filled before the
server listens.  Of Hydra only the effect of an accepted login request counts.
Of the tenants only the lookup and the migration's upsert appear: all statements
are keyed by one tenant.  Of the migration, the dry run reads and writes
nothing; parsing `kratos.yml`, fetching the schema's JSON and the parts of the
policy that say how long, how strict or by which method are payload here.
Start-up wiring and the database wrapper move no state of their own.
