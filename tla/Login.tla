-------------------------------- MODULE Login --------------------------------
(***************************************************************************)
(* The login self-service flow: internal/flow/login (engine and handler)   *)
(* over the tables of FlowStore and SessionStore.                          *)
(*                                                                         *)
(* A request is a goroutine that runs POST .../login/flows/{flowId}.  It   *)
(* reads the flow row into a local copy, reads the policy, calls the       *)
(* authenticator, writes the row back from its copy, and inserts a session *)
(* when the login is complete.  Each SQL statement and each authenticator  *)
(* call is one action; between any two of them other requests run, the     *)
(* statement may fail, or the process may stop.                            *)
(*                                                                         *)
(* What the client submits (method, identifier, secret, login_challenge)   *)
(* is chosen by the step that first looks at it.                           *)
(***************************************************************************)
EXTENDS FlowStore, SessionStore, Sequences

CONSTANTS
  Method,      \* authenticator ids ("password", "totp", ...)
  Policy,      \* the flow policies an operator may store
  Enrolled     \* <<identity, method>>: rows of identity_credentials

ASSUME EnrolledAssumption == Enrolled \subseteq Identity \X Method

\* policy.LoginPolicy: MFARequired, AllowedFirstFactors, AllowedSecondFactors
LoginPolicy == [mfa : BOOLEAN, firsts : SUBSET Method, seconds : SUBSET Method]
ZeroPolicy  == [mfa |-> FALSE, firsts |-> {}, seconds |-> {}]

ASSUME PolicyAssumption == Policy \subseteq LoginPolicy

VARIABLES
  policy,      \* the tenant's LoginPolicy
  pc,          \* pc[r]: the statement request r runs next
  target,      \* target[r]: the {flowId} of the URL
  copy,        \* copy[r]: the local f, as r read it
  pol,         \* pol[r]: the local pol, as r read it
  result,      \* result[r]: the SubmitResult r is about to persist
  hydra,       \* the login requests Hydra was told are accepted
  passed,      \* history: who passed which factor in which flow
  inForce,     \* history: the policies that have been in force
  late         \* history: the requests submitted after expires_at

store     == <<flows, overdue, sessions, policy>>
local     == <<pc, copy, pol, result>>
history   == <<passed, inForce, late>>
loginVars == <<store, target, local, hydra, history>>

-----------------------------------------------------------------------------
\* "request" stands for the phases of the other engines' flows, which
\* SubmitFlow does not know.
Phase == {"first_factor", "second_factor", "complete", "request"}
UI    == [phase : Phase, amr : Seq(Method)]
Row   == RowOf(UI)

FreshUI(phase) == [phase |-> phase, amr |-> <<>>]
Blank == NoRow(FreshUI("first_factor"))

Result   == [identity : Owner, aal : AAL, amr : Seq(Method)]
NoResult == [identity |-> NoIdentity, aal |-> "aal1", amr |-> <<>>]

PC == {"idle", "get", "expire", "policy", "first", "second",
       "advance", "reject", "complete", "session", "hydra", "done"}

InFlight(r) == pc[r] \notin {"idle", "done"}

\* One accepted CompleteFlow call.
Pass(f, i, m, factor) == [flow |-> f, identity |-> i, method |-> m,
                          factor |-> factor]
Passes == [flow : Flow, identity : Identity, method : Method,
           factor : {"first", "second"}]

LoginTypeOK ==
  /\ flows \in [Flow -> Row]
  /\ overdue \subseteq Flow
  /\ sessions \in [Request -> SessionOf(Seq(Method))]
  /\ policy \in Policy
  /\ pc \in [Request -> PC]
  /\ target \in [Request -> Flow]
  /\ copy \in [Request -> Row]
  /\ pol \in [Request -> LoginPolicy]
  /\ result \in [Request -> Result]
  /\ hydra \subseteq [request : Request, identity : Owner, aal : AAL]
  /\ passed \subseteq Passes
  /\ inForce \subseteq Policy
  /\ late \subseteq Request

LoginInit ==
  /\ flows = [f \in Flow |-> Blank]
  /\ overdue = {}
  /\ sessions = [r \in Request |-> NoSession(<<>>)]
  /\ policy \in Policy
  /\ pc = [r \in Request |-> "idle"]
  /\ target \in [Request -> Flow]
  /\ copy = [r \in Request |-> Blank]
  /\ pol = [r \in Request |-> ZeroPolicy]
  /\ result = [r \in Request |-> NoResult]
  /\ hydra = {}
  /\ passed = {}
  /\ inForce = {policy}
  /\ late = {}

-----------------------------------------------------------------------------
Goto(r, step) == pc' = [pc EXCEPT ![r] = step]

\* The handler returns: its goroutine and its locals are gone.
Finish(r) ==
  /\ Goto(r, "done")
  /\ copy'   = [copy EXCEPT ![r] = Blank]
  /\ pol'    = [pol EXCEPT ![r] = ZeroPolicy]
  /\ result' = [result EXCEPT ![r] = NoResult]

(* POST .../login/flows.  The policy is read by an earlier statement and   *)
(* only decides which inputs are shown; an empty list of first factors     *)
(* makes the handler panic before it inserts anything.                     *)
InitFlow(f) ==
  /\ \E p \in inForce : p.firsts # {}
  /\ CreateFlow(f, "login", FreshUI("first_factor"))
  /\ UNCHANGED <<overdue, sessions, policy, target, local, hydra, history>>

(* Another engine inserts a flow of its own into the same table.           *)
InitForeignFlow(f) ==
  /\ CreateFlow(f, "recovery", FreshUI("request"))
  /\ UNCHANGED <<overdue, sessions, policy, target, local, hydra, history>>

FlowExpires(f) ==
  /\ PassExpiry(f)
  /\ UNCHANGED <<flows, sessions, policy, target, local, hydra, history>>

UpsertPolicy ==
  /\ policy' \in Policy \ {policy}
  /\ inForce' = inForce \cup {policy'}
  /\ UNCHANGED <<flows, overdue, sessions, target, local, hydra, passed, late>>

Submit(r) ==
  /\ pc[r] = "idle"
  /\ Goto(r, "get")
  /\ late' = IF target[r] \in overdue THEN late \cup {r} ELSE late
  /\ UNCHANGED <<store, target, copy, pol, result, hydra, passed, inForce>>

(* flows.Get finds a pending row within its time: f is the local copy.     *)
GetPending(r) ==
  /\ pc[r] = "get"
  /\ flows[target[r]].state = "pending"
  /\ ~ Lapsed(target[r])
  /\ copy' = [copy EXCEPT ![r] = flows[target[r]]]
  /\ Goto(r, "policy")
  /\ UNCHANGED <<store, target, pol, result, hydra, history>>

(* flows.Get finds a pending row past expires_at ...                       *)
GetLapsed(r) ==
  /\ pc[r] = "get"
  /\ Lapsed(target[r])
  /\ Goto(r, "expire")
  /\ UNCHANGED <<store, target, copy, pol, result, hydra, history>>

(* ... and marks it expired with a second statement.                       *)
MarkExpired(r) ==
  /\ pc[r] = "expire"
  /\ UpdateFlowState(target[r], "expired")
  /\ Finish(r)
  /\ UNCHANGED <<overdue, sessions, policy, target, hydra, history>>

(* The operators named Slip... below are no behaviour of the code.  Each is *)
(* the definition that follows it with one plausible mistake, and shows    *)
(* that the property it is paired with can fail.                           *)

\* Slip: the phase is taken for the step without a known-phase check.
SlipUncheckedPhase(phase) ==
  IF phase = "second_factor" THEN "second" ELSE phase

\* Slip: an unknown phase is treated as a new flow.
SlipLenientPhase(phase) ==
  IF phase = "second_factor" THEN "second" ELSE "first"

(* policies.Get, then the switch on the phase of the copy.                 *)
PhaseStep(phase) ==
  CASE phase = "first_factor"  -> "first"
    [] phase = "second_factor" -> "second"
    [] OTHER                   -> "done"

GetPolicy(r) ==
  LET step == PhaseStep(copy[r].ui.phase)
  IN  /\ pc[r] = "policy"
      /\ \/ /\ step = "done"
            /\ Finish(r)
         \/ /\ step # "done"
            /\ pol' = [pol EXCEPT ![r] = policy]
            /\ Goto(r, step)
            /\ UNCHANGED <<copy, result>>
      /\ UNCHANGED <<store, target, hydra, history>>

DemandsSecond(p) == p.mfa /\ p.seconds # {}

\* Slip: the policy is not asked for a second factor.
SlipFirstFactorSuffices(p) == "complete"

AfterFirstFactor(p) == IF DemandsSecond(p) THEN "advance" ELSE "complete"

(* GetByIdentifier: the credentials of an allowed first factor that some   *)
(* submitted identifier names.                                             *)
FirstCredentials(r) == (Identity \X pol[r].firsts) \cap Enrolled

\* Slip: the second credential, too, is looked up by submitted identifier.
SlipAnyonesCredentials(r) == (Identity \X pol[r].seconds) \cap Enrolled

\* Slip: the method is checked against the list of first factors.
SlipWrongList(r) == ({copy[r].identity} \X pol[r].firsts) \cap Enrolled

(* GetByIdentityAndType: the credentials of an allowed second factor that  *)
(* belong to the identity on the copy of the flow.                         *)
SecondCredentials(r) == ({copy[r].identity} \X pol[r].seconds) \cap Enrolled

(* submitFirstFactor up to the verdict: CompleteFlow accepts.              *)
PassFirstFactor(r) ==
  /\ pc[r] = "first"
  /\ \E c \in FirstCredentials(r) :
       /\ passed' = passed \cup {Pass(target[r], c[1], c[2], "first")}
       /\ result' = [result EXCEPT ![r] = [identity |-> c[1], aal |-> "aal1",
                                           amr |-> <<c[2]>>]]
  /\ Goto(r, AfterFirstFactor(pol[r]))
  /\ UNCHANGED <<store, target, copy, pol, hydra, inForce, late>>

(* submitSecondFactor up to the verdict: the session will be for the       *)
(* copy's identity, with the new method appended to the copy's AMR.        *)
PassSecondFactor(r) ==
  /\ pc[r] = "second"
  /\ copy[r].identity # NoIdentity
  /\ \E c \in SecondCredentials(r) :
       /\ passed' = passed \cup {Pass(target[r], c[1], c[2], "second")}
       /\ result' = [result EXCEPT ![r] =
                       [identity |-> copy[r].identity, aal |-> "aal2",
                        amr |-> Append(copy[r].ui.amr, c[2])]]
  /\ Goto(r, "complete")
  /\ UNCHANGED <<store, target, copy, pol, hydra, inForce, late>>

(* CompleteFlow refuses what was submitted for such a credential.          *)
RefuseFactor(r) ==
  /\ \/ pc[r] = "first" /\ FirstCredentials(r) # {}
     \/ /\ pc[r] = "second"
        /\ copy[r].identity # NoIdentity
        /\ SecondCredentials(r) # {}
  /\ Goto(r, "reject")
  /\ UNCHANGED <<store, target, copy, pol, result, hydra, history>>

(* appendFlowError: the row as the request read it, back to pending.       *)
AppendFlowError(r) ==
  /\ pc[r] = "reject"
  /\ UpdateFlow(target[r], "pending", copy[r].identity, copy[r].ui)
  /\ Finish(r)
  /\ UNCHANGED <<overdue, sessions, policy, target, hydra, history>>

\* Slip: f.IdentityID is written before it is assigned.
SlipOwnerForgotten(r) == copy[r].identity

(* The identity_id written when a factor has been accepted: cred.IdentityID*)
(* after the first factor, f.IdentityID after the second.                  *)
AcceptedOwner(r) == result[r].identity

(* advanceToSecondFactor: StartFlow of the second factors shows in the     *)
(* nodes only; then the row waits for the second factor of this identity.  *)
AdvanceToSecondFactor(r) ==
  /\ pc[r] = "advance"
  /\ UpdateFlow(target[r], "pending", AcceptedOwner(r),
                [phase |-> "second_factor", amr |-> result[r].amr])
  /\ Finish(r)
  /\ UNCHANGED <<overdue, sessions, policy, target, hydra, history>>

(* The row is marked successful ...                                        *)
CompleteLogin(r) ==
  /\ pc[r] = "complete"
  /\ UpdateFlow(target[r], "success", AcceptedOwner(r),
                [phase |-> "complete", amr |-> result[r].amr])
  /\ Goto(r, "session")
  /\ UNCHANGED <<overdue, sessions, policy, target, copy, pol, result, hydra,
                 history>>

\* Slip: the session is made for whoever the row names by now.
SlipSessionFromRow(r) == flows[target[r]].identity

(* SubmitResult.IdentityID                                                 *)
SubmittedIdentity(r) == result[r].identity

\* Slip: with a login_challenge, Hydra is told before the session exists.
SlipHydraFirst(r) ==
  /\ pc[r] = "session"
  /\ Goto(r, "hydra")
  /\ UNCHANGED <<store, target, copy, pol, result, hydra, history>>

(* ... the handler inserts the session, and returns, or goes on when the   *)
(* URL carries a login_challenge ...                                       *)
IssueSession(r) ==
  /\ pc[r] = "session"
  /\ CreateSession(r, SubmittedIdentity(r), result[r].aal, result[r].amr)
  /\ \/ Finish(r)
     \/ /\ Goto(r, "hydra")
        /\ UNCHANGED <<copy, pol, result>>
  /\ UNCHANGED <<flows, overdue, policy, target, hydra, history>>

(* ... to tell Hydra.                                                      *)
AcceptLoginRequest(r) ==
  /\ pc[r] = "hydra"
  /\ hydra' = hydra \cup {[request |-> r, identity |-> SubmittedIdentity(r),
                           aal |-> result[r].aal]}
  /\ Finish(r)
  /\ UNCHANGED <<store, target, history>>

(* The handler returns without its next step: a statement or a call fails  *)
(* or times out, a check on the input refuses it, a GET is answered, or    *)
(* the process stops (then every request in flight takes this step).       *)
Abandon(r) ==
  /\ InFlight(r)
  /\ Finish(r)
  /\ UNCHANGED <<store, target, hydra, history>>

(* DELETE /sessions/whoami with the token of r's session.                  *)
Logout(r) ==
  /\ RevokeByToken(r)
  /\ UNCHANGED <<flows, overdue, policy, target, local, hydra, history>>

\* The steps of the goroutine that serves r.
Serve(r) ==
  \/ GetPending(r)            \/ GetLapsed(r)        \/ MarkExpired(r)
  \/ GetPolicy(r)             \/ PassFirstFactor(r)  \/ PassSecondFactor(r)
  \/ RefuseFactor(r)          \/ AppendFlowError(r)
  \/ AdvanceToSecondFactor(r) \/ CompleteLogin(r)    \/ IssueSession(r)
  \/ AcceptLoginRequest(r)    \/ Abandon(r)

LoginNext ==
  \/ \E f \in Flow : InitFlow(f) \/ InitForeignFlow(f) \/ FlowExpires(f)
  \/ UpsertPolicy
  \/ \E r \in Request : Submit(r) \/ Serve(r) \/ Logout(r)

LoginSpec == LoginInit /\ [][LoginNext]_loginVars

-----------------------------------------------------------------------------
(* What the login flow promises.                                           *)

Passed(f, i, m, factor) == Pass(f, i, m, factor) \in passed

\* amr is the single method by which i passed the first factor of f.
OneFactor(f, i, amr) == \E m \in Method :
  amr = <<m>> /\ Passed(f, i, m, "first")

\* amr is the first and then the second factor that i passed in f.
TwoFactors(f, i, amr) == \E m, n \in Method :
  amr = <<m, n>> /\ Passed(f, i, m, "first") /\ Passed(f, i, n, "second")

(* An aal2 session belongs to an identity that passed both factors in the  *)
(* flow the session comes from, and its amr lists exactly those two, in    *)
(* order: no interleaving of requests, with their stale copies of the row, *)
(* lets one identity's first factor combine with another's second          *)
(* (engine.go:297-366, handler.go:145).                                    *)
AAL2NeedsBothFactors ==
  \A r \in Request : Issued(r) /\ sessions[r].aal = "aal2" =>
    TwoFactors(target[r], sessions[r].identity, sessions[r].amr)

(* An aal1 session belongs to an identity that passed a first factor in    *)
(* its flow, and is issued only if some policy that has been in force did  *)
(* not demand a second factor: while every policy demands one, no order of *)
(* requests and policy changes skips it (engine.go:223-250).               *)
AAL1OnlyWithoutMFA ==
  \A r \in Request : Issued(r) /\ sessions[r].aal = "aal1" =>
    /\ OneFactor(target[r], sessions[r].identity, sessions[r].amr)
    /\ \E p \in inForce : ~ DemandsSecond(p)

(* A row that waits for a second factor names the identity that passed the *)
(* first one, with its method as the only completed factor; this makes the *)
(* nil check of submitSecondFactor (engine.go:302) unreachable.            *)
WaitingRowsNameTheirOwner ==
  \A f \in Flow : flows[f].ui.phase = "second_factor" =>
    /\ flows[f].identity # NoIdentity
    /\ OneFactor(f, flows[f].identity, flows[f].ui.amr)

(* A flow marked successful names an identity that passed its first factor *)
(* (engine.go:239, 349), although failed submissions keep overwriting the  *)
(* row with stale copies.                                                  *)
SuccessHasOwner ==
  \A f \in Flow : flows[f].state = "success" =>
    \E m \in Method : Passed(f, flows[f].identity, m, "first")

(* A method counts as a first or second factor only if a policy that has   *)
(* been in force allowed it in that position (engine.go:180, 298).         *)
FactorsWereAllowed ==
  \A p \in passed : \E q \in inForce :
    p.method \in IF p.factor = "first" THEN q.firsts ELSE q.seconds

(* A request submitted after the flow's expires_at never gets a session,   *)
(* even when a stale write has put the expired row back to pending         *)
(* (store.go:79-83, engine.go:382).                                        *)
LateRequestsGetNothing == \A r \in late : ~ Issued(r)

(* SubmitFlow does not check the type of the flow; the phases alone keep   *)
(* it from authenticating anyone in, or writing to, another engine's flow  *)
(* (engine.go:164-176).                                                    *)
ForeignFlowsAreLeftAlone ==
  \A f \in Flow : flows[f].type # "login" =>
    /\ flows[f].ui = FreshUI("request")
    /\ flows[f].identity = NoIdentity
    /\ \A p \in passed : p.flow # f

(* Hydra hears of a login only after the session row exists, and with the  *)
(* identity and the assurance level of that row (handler.go:145-153).      *)
HydraAcceptsIssuedLogins ==
  \A g \in hydra :
    /\ Issued(g.request)
    /\ g.identity = sessions[g.request].identity
    /\ g.aal = sessions[g.request].aal

(* Why these hold: the inductive invariant.  A row may be overwritten by   *)
(* any copy of it in flight, so what is demanded of rows is demanded of    *)
(* the copies too.                                                         *)

\* What a row, or a copy of it, says about who passed what.
RowSound(f, row) ==
  /\ row.ui.phase = "second_factor" =>
       /\ row.identity # NoIdentity
       /\ OneFactor(f, row.identity, row.ui.amr)
  /\ row.type # "login" =>
       row.ui = FreshUI("request") /\ row.identity = NoIdentity

RowsSound == \A f \in Flow : RowSound(f, flows[f])

\* The steps at which a request holds a copy of its flow; at the last seven
\* it knows that the flow is a login flow.
Holding    == {"policy", "first", "second", "advance", "reject", "complete",
               "session", "hydra"}
Submitting == Holding \ {"policy"}

CopySound(r) ==
  /\ pc[r] \in Holding =>
       /\ RowSound(target[r], copy[r])
       /\ Exists(target[r])
       /\ copy[r].type = flows[target[r]].type
  /\ pc[r] = "expire" => Exists(target[r])
  /\ pc[r] \in Submitting => copy[r].type = "login"
  /\ pc[r] = "second" => copy[r].ui.phase = "second_factor"
  /\ pc[r] \in {"first", "second"} => pol[r] \in inForce

\* i holds what a session of level aal with this amr claims.
Earned(f, i, aal, amr) ==
  /\ aal = "aal1" => /\ OneFactor(f, i, amr)
                     /\ \E p \in inForce : ~ DemandsSecond(p)
  /\ aal = "aal2" => TwoFactors(f, i, amr)

ResultSound(r) ==
  /\ pc[r] = "advance" =>
       OneFactor(target[r], result[r].identity, result[r].amr)
  /\ pc[r] \in {"complete", "session", "hydra"} =>
       Earned(target[r], result[r].identity, result[r].aal, result[r].amr)

SessionSound(r) ==
  /\ Issued(r) => /\ pc[r] \in {"hydra", "done"}
                  /\ Earned(target[r], sessions[r].identity,
                            sessions[r].aal, sessions[r].amr)
  /\ pc[r] = "hydra" => /\ Issued(r)
                        /\ sessions[r].identity = result[r].identity
                        /\ sessions[r].aal = result[r].aal

LateSound(r) ==
  r \in late => /\ target[r] \in overdue
                /\ pc[r] \in {"get", "expire", "done"}

PassesSound ==
  \A p \in passed : Exists(p.flow) /\ flows[p.flow].type = "login"

PolicyInForce == policy \in inForce

LoginInv ==
  /\ LoginTypeOK
  /\ PolicyInForce
  /\ RowsSound
  /\ PassesSound
  /\ FactorsWereAllowed
  /\ SuccessHasOwner
  /\ HydraAcceptsIssuedLogins
  /\ LateRequestsGetNothing
  /\ \A r \in Request : /\ CopySound(r)
                         /\ ResultSound(r)
                         /\ SessionSound(r)
                         /\ LateSound(r)

\* The sessions as LoginPromise sees them.
issuedSessions ==
  {[request |-> r, flow |-> target[r], identity |-> sessions[r].identity,
    aal |-> sessions[r].aal, amr |-> sessions[r].amr] :
     r \in {q \in Request : Issued(q)}}

Promise == INSTANCE LoginPromise WITH issued <- issuedSessions

(* Login implements LoginPromise: whatever the interleaving of statements, *)
(* each step is one legal step of the promise or none (handler.go:127-145).*)
KeepsThePromise == Promise!Spec
=============================================================================
