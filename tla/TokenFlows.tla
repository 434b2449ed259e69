------------------------------ MODULE TokenFlows ------------------------------
(***************************************************************************)
(* What the requests that create, verify and recover accounts share, those *)
(* of OIDC login that reach their flows included: the three tables, the    *)
(* requests that are being served, and the tokens that travel by email.    *)
(*                                                                         *)
(* A request is a goroutine; each SQL statement it runs is one action.     *)
(* A token is named by the request that generates it, since generateToken  *)
(* draws 32 fresh random bytes and a request draws at most one.            *)
(***************************************************************************)
EXTENDS FlowStore, SessionStore, IdentityStore

CONSTANTS
  NoToken,     \* the empty token; also stands for any wrong one a client sends
  Imported,    \* credentials that were there before, with their identities
  Linked       \* identities that had a credential of type "oidc" before

ASSUME NoTokenAssumption  == NoToken \notin Request
ASSUME ImportedAssumption == Imported \subseteq Credential
ASSUME LinkedAssumption   == Linked \subseteq Identity

VARIABLES
  pc,          \* pc[r]: the statement request r runs next
  target,      \* target[r]: the flow r works on
  copy,        \* copy[r]: the local f, as r read it
  draft,       \* draft[r]: the other locals of r
  given,       \* given[r]: the token the client submitted with r
  sent,        \* the tokens that reached a client
  issuedTo,    \* history: issuedTo[t]: the identity token t was made for
  accepted,    \* history: which requests got which token accepted
  linked,      \* the identities with a credential of type "oidc"
  unverified   \* history: the identities created without verification

tables     == <<flows, overdue, sessions, accounts, credentials, linked>>
locals     == <<pc, target, copy, draft, given>>
tokens     == <<sent, issuedTo, accepted, unverified>>
tokenVars  == <<tables, locals, tokens>>

-----------------------------------------------------------------------------
Token == Request \cup {NoToken}
Phase == {"none", "register", "verify", "request", "pending_link", "complete"}

\* ui._internal: the token, RecoveryIdentityID as owner, and whether it holds
\* an OIDC attempt; which attempt, and of which subject, is OidcLogin's.
UI  == [phase : Phase, token : Token, owner : Owner, attempt : BOOLEAN]
Row == RowOf(UI)

Plain(phase) == [phase |-> phase, token |-> NoToken, owner |-> NoIdentity,
                 attempt |-> FALSE]
Blank == NoRow(Plain("none"))

\* verify: pol.Registration.RequireVerification, as r read it;
\* claim: the <<method, identifier>> r checked, or <<>>;
\* identity: the identity r created or looked up.
Draft   == [verify : BOOLEAN, claim : (Method \X Identifier) \cup {<<>>},
            identity : Owner]
NoDraft == [verify |-> FALSE, claim |-> <<>>, identity |-> NoIdentity]

Acceptance == [request : Request, token : Request, type : FlowType]

\* Registering gives an empty list of methods.
RecoveryAMR == <<"recovery">>
OidcAMR     == <<"oidc">>
AMR         == {<<>>, RecoveryAMR, OidcAMR}

PC == {"idle", "done", "expire",
       "get_register", "policy", "check", "identity", "credential", "complete",
       "verification", "owner", "session",
       "get_verify", "verify", "verified",
       "get_request", "lookup", "offer",
       "get_use", "use", "recovery_session", "recovered",
       "get_initiate", "persist",
       "get_callback", "subject", "link", "oidc_session", "oidc_complete"}

TokenTypeOK ==
  /\ flows \in [Flow -> Row]
  /\ overdue \subseteq Flow
  /\ sessions \in [Request -> SessionOf(AMR)]
  /\ accounts \in [Identity -> AccountState]
  /\ credentials \subseteq Credential
  /\ linked \subseteq Identity
  /\ pc \in [Request -> PC]
  /\ target \in [Request -> Flow]
  /\ copy \in [Request -> Row]
  /\ draft \in [Request -> Draft]
  /\ given \in [Request -> Token]
  /\ sent \subseteq Request
  /\ issuedTo \in [Request -> Owner]
  /\ accepted \subseteq Acceptance
  /\ unverified \subseteq Identity

\* The identities that were there before.
Before == {c.identity : c \in Imported} \cup Linked

TokenInit ==
  /\ flows = [f \in Flow |-> Blank]
  /\ overdue = {}
  /\ sessions = [r \in Request |-> NoSession(<<>>)]
  /\ accounts = [i \in Identity |-> IF i \in Before THEN "active" ELSE "absent"]
  /\ credentials = Imported
  /\ linked = Linked
  /\ pc = [r \in Request |-> "idle"]
  /\ target \in [Request -> Flow]
  /\ copy = [r \in Request |-> Blank]
  /\ draft = [r \in Request |-> NoDraft]
  /\ given = [r \in Request |-> NoToken]
  /\ sent = {}
  /\ issuedTo = [r \in Request |-> NoIdentity]
  /\ accepted = {}
  /\ unverified = {}

-----------------------------------------------------------------------------
Goto(r, step) == pc' = [pc EXCEPT ![r] = step]

\* The handler returns: its goroutine and its locals are gone.
Finish(r) ==
  /\ Goto(r, "done")
  /\ copy'  = [copy EXCEPT ![r] = Blank]
  /\ draft' = [draft EXCEPT ![r] = NoDraft]

\* A request arrives for target[r]; token is what it submits, if anything.
Arrive(r, token, step) ==
  /\ pc[r] = "idle"
  /\ token \in sent \cup {NoToken}
  /\ given' = [given EXCEPT ![r] = token]
  /\ Goto(r, step)
  /\ UNCHANGED <<tables, target, copy, draft, tokens>>

(* flows.Get, then the checks on state and type, where there is one;       *)
(* flows.Get of a lapsed flow goes on to mark it expired.                  *)
GetFlow(r, types, here, next) ==
  /\ pc[r] = here
  /\ \/ /\ Lapsed(target[r])
        /\ Goto(r, "expire")
        /\ UNCHANGED copy
     \/ /\ ~ Lapsed(target[r])
        /\ flows[target[r]].state = "pending"
        /\ flows[target[r]].type \in types
        /\ copy' = [copy EXCEPT ![r] = flows[target[r]]]
        /\ Goto(r, next)
  /\ UNCHANGED <<tables, target, draft, given, tokens>>

MarkExpired(r) ==
  /\ pc[r] = "expire"
  /\ UpdateFlowState(target[r], "expired")
  /\ Finish(r)
  /\ UNCHANGED <<overdue, sessions, accounts, credentials, linked, target, given,
                 tokens>>

(* The handler returns without its next step: a statement fails or times   *)
(* out, a check refuses the input, or the process stops.                   *)
Abandon(r) ==
  /\ pc[r] \notin {"idle", "done"}
  /\ Finish(r)
  /\ UNCHANGED <<tables, target, given, tokens>>

FlowExpires(f) ==
  /\ PassExpiry(f)
  /\ UNCHANGED <<flows, sessions, accounts, credentials, linked, locals, tokens>>

\* The client received the token t, made for identity i.
Send(t, i) ==
  /\ sent' = sent \cup {t}
  /\ issuedTo' = [issuedTo EXCEPT ![t] = i]

\* r's client submitted the token its flow holds.
Accept(r) ==
  accepted' = accepted \cup {[request |-> r, token |-> given[r],
                              type |-> copy[r].type]}
=============================================================================
