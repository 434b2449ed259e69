----------------------------- MODULE Verification -----------------------------
(***************************************************************************)
(* The email verification flow, internal/flow/verification: InitFlow, run  *)
(* inside the registration handler, and the two handlers that submit a     *)
(* token (the link and the form).                                          *)
(***************************************************************************)
EXTENDS TokenFlows

(* verification.InitFlow, called by registration: the flow is inserted     *)
(* without an owner ...                                                    *)
InitVerification(r) ==
  /\ pc[r] = "verification"
  /\ \E f \in Flow :
       /\ CreateFlow(f, "verification", [Plain("verify") EXCEPT !.token = r])
       /\ target' = [target EXCEPT ![r] = f]
  /\ Goto(r, "owner")
  /\ UNCHANGED <<overdue, sessions, accounts, credentials, linked, copy, draft,
                 given, tokens>>

(* ... then given one, and its token is returned.                          *)
NameOwner(r) ==
  /\ pc[r] = "owner"
  /\ UpdateFlow(target[r], "pending", draft[r].identity,
                [Plain("verify") EXCEPT !.token = r])
  /\ Send(r, draft[r].identity)
  /\ Finish(r)
  /\ UNCHANGED <<overdue, sessions, accounts, credentials, linked, target,
                 given, accepted, unverified>>

SubmitVerification(r) ==
  \E token \in sent \cup {NoToken} : Arrive(r, token, "get_verify")

ReadVerification(r) == GetFlow(r, {"verification"}, "get_verify", "verify")

\* The flow has an owner and a token to compare with.
Verifiable(r) ==
  /\ pc[r] = "verify"
  /\ copy[r].identity # NoIdentity
  /\ copy[r].ui.token # NoToken

(* A wrong token: the flow is spent.                                       *)
RefuseVerification(r) ==
  /\ Verifiable(r)
  /\ given[r] # copy[r].ui.token
  /\ UpdateFlowState(target[r], "failed")
  /\ Finish(r)
  /\ UNCHANGED <<overdue, sessions, accounts, credentials, linked, target,
                 given, tokens>>

\* Slip: the stored token need only exist.
SlipAnyToken(r) ==
  /\ Verifiable(r)
  /\ UpdateIdentityState(copy[r].identity, "active")
  /\ Accept(r)
  /\ Goto(r, "verified")
  /\ UNCHANGED <<flows, overdue, sessions, credentials, linked, target, copy,
                 draft, given, sent, issuedTo, unverified>>

(* The right token: the identity is activated ...                          *)
ActivateIdentity(r) ==
  /\ Verifiable(r)
  /\ given[r] = copy[r].ui.token
  /\ UpdateIdentityState(copy[r].identity, "active")
  /\ Accept(r)
  /\ Goto(r, "verified")
  /\ UNCHANGED <<flows, overdue, sessions, credentials, linked, target, copy,
                 draft, given, sent, issuedTo, unverified>>

(* ... and the token is cleared.                                           *)
CompleteVerification(r) ==
  /\ pc[r] = "verified"
  /\ UpdateFlow(target[r], "success", copy[r].identity, Plain("complete"))
  /\ Finish(r)
  /\ UNCHANGED <<overdue, sessions, accounts, credentials, linked, target,
                 given, tokens>>

Verify(r) ==
  \/ InitVerification(r)   \/ NameOwner(r)          \/ ReadVerification(r)
  \/ RefuseVerification(r) \/ ActivateIdentity(r)   \/ CompleteVerification(r)

=============================================================================
