------------------------------- MODULE Accounts -------------------------------
(***************************************************************************)
(* Registration, verification and recovery together, and the OIDC requests *)
(* that reach their flows: all read and write the same identities, flows   *)
(* and sessions.                                                           *)
(***************************************************************************)
EXTENDS Registration, Recovery, OidcRequests

Serve(r) ==
  \/ Verify(r) \/ Register(r) \/ Recover(r) \/ VisitByOidc(r)
  \/ MarkExpired(r) \/ Abandon(r)

Submit(r) ==
  \/ SubmitRegistration(r) \/ SubmitVerification(r)
  \/ SubmitRecovery(r)     \/ SubmitLink(r)
  \/ SubmitInitiate(r)     \/ SubmitCallback(r)

AccountsNext ==
  \/ \E f \in Flow : InitRegistration(f) \/ InitRecovery(f) \/ FlowExpires(f)
  \/ \E r \in Request : Submit(r) \/ Serve(r)

AccountsSpec == TokenInit /\ [][AccountsNext]_tokenVars

-----------------------------------------------------------------------------
\* Somebody submitted a token that was made for i, and it was accepted.
Proved(i) ==
  \E a \in accepted : a.token \in Request /\ issuedTo[a.token] = i

(* An account is active only if it was there before, was registered under  *)
(* a policy without verification or created by an OIDC callback, or after  *)
(* a token made for this very identity was submitted: no race of requests, *)
(* no flow left half made by a failure or taken over by an OIDC attempt    *)
(* activates anybody else (verification/engine.go:107, recovery/engine.go: *)
(* 210).                                                                   *)
ActiveAccountsWereProved ==
  \A i \in Identity : accounts[i] = "active" =>
    \/ i \in Before \cup unverified
    \/ Proved(i)

(* A recovery session belongs to the identity its request's token was made *)
(* for, although several emails may be submitted to one flow while a link  *)
(* is being used (recovery/engine.go:158-163, 197-216).                    *)
RecoverySessionsWereProved ==
  \A r \in Request : Issued(r) /\ sessions[r].amr = RecoveryAMR =>
    /\ given[r] \in sent
    /\ issuedTo[given[r]] = sessions[r].identity

(* Whoever gets a session by registering, recovering or OIDC is active:    *)
(* the policy decides both the state of the identity and whether a session *)
(* is issued (registration/engine.go:218, 249; handler.go:136-150), and a  *)
(* callback asks for the state (oidc/engine.go:269).                       *)
SessionsAreForActiveAccounts ==
  \A r \in Request : Issued(r) => accounts[sessions[r].identity] = "active"

\* The identities with a credential to log in with.
enrolledIdentities == {c.identity : c \in credentials} \cup linked

(* A registration marked successful, by its own engine or by an OIDC       *)
(* callback, names an identity that has a credential to log in with,       *)
(* whichever of its statements fail (registration/engine.go:224-243,       *)
(* oidc/engine.go:294-318).                                                *)
RegisteredAccountsHaveCredentials ==
  \A f \in Flow :
    flows[f].type = "registration" /\ flows[f].state = "success" =>
      flows[f].identity \in enrolledIdentities

(* A recovery marked successful, by its own engine or by an OIDC callback, *)
(* did give its identity a session (recovery/engine.go:216-222,            *)
(* oidc/engine.go:312-318).                                                *)
RecoveredFlowsGaveASession ==
  \A f \in Flow : flows[f].type = "recovery" /\ flows[f].state = "success" =>
    \E r \in Request :
      /\ target[r] = f
      /\ Issued(r)
      /\ sessions[r].identity = flows[f].identity

(* registration/engine.go:191: "Reject if identifier is already taken for  *)
(* this credential type": an identifier never names two identities, even   *)
(* when two requests pass the check before either inserts.                 *)
IdentifiersNameOneIdentity ==
  \A type \in Method, name \in Identifier :
    \A i, j \in Named(type, name) : i = j

(* The token a flow holds is the one that was made for whom the flow says  *)
(* it is, in every state a row is left in or taken back to: a stale copy   *)
(* brings back an ended flow with a spent token and an earlier owner       *)
(* (oidc/engine.go:163), a callback names its own subject's identity in    *)
(* anybody's flow (oidc/engine.go:318), a request for a new link replaces  *)
(* both (recovery/engine.go:158-163), and whoever submits the token is     *)
(* activated as the owner (verification/engine.go:107).                    *)
TokensStayWithTheirOwner ==
  \A f \in Flow : LET ui == flows[f].ui IN ui.token # NoToken =>
    /\ flows[f].type = "verification" /\ flows[f].identity # NoIdentity =>
         ui.token \in sent /\ issuedTo[ui.token] = flows[f].identity
    /\ flows[f].type = "recovery" =>
         ui.token \in sent /\ issuedTo[ui.token] = ui.owner

-----------------------------------------------------------------------------
\* The state as AccountsPromise sees it: whose token t is, and of which flow ...
offers ==
  {[token |-> t, flow |-> target[t], type |-> flows[target[t]].type,
    identity |-> issuedTo[t]] : t \in sent}

\* ... who redeemed it, and where ...
redemptions ==
  {[request |-> a.request,
    offer |-> [token |-> a.token, flow |-> target[a.request], type |-> a.type,
               identity |-> issuedTo[a.token]]] : a \in accepted}

\* ... and the sessions.
Kind(amr) == IF amr = RecoveryAMR THEN "recovery"
             ELSE IF amr = OidcAMR THEN "provider" ELSE "registration"

issuedSessions ==
  {[request |-> r, identity |-> sessions[r].identity, kind |-> Kind(sessions[r].amr)] :
     r \in {q \in Request : Issued(q)}}

Promise == INSTANCE AccountsPromise
  WITH enrolled <- enrolledIdentities, open <- unverified,
       offered <- offers, redeemed <- redemptions, issued <- issuedSessions

(* Accounts implements AccountsPromise: whatever copies of rows requests   *)
(* write over each other, and wherever they stop, each statement is one    *)
(* legal step of the promise or does not show.                             *)
KeepsTheAccountsPromise == Promise!Spec
=============================================================================
