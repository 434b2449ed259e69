------------------------------- MODULE Recovery -------------------------------
(***************************************************************************)
(* The account recovery flow, internal/flow/recovery.  RequestRecovery     *)
(* stores a token, with the identity it was made for, in the flow; it may  *)
(* run several times on one flow.  UseToken exchanges the token for a      *)
(* session.                                                                *)
(***************************************************************************)
EXTENDS TokenFlows

InitRecovery(f) ==
  /\ CreateFlow(f, "recovery", Plain("request"))
  /\ UNCHANGED <<overdue, sessions, accounts, credentials, linked, locals,
                 tokens>>

SubmitRecovery(r) == Arrive(r, NoToken, "get_request")

ReadForRequest(r) == GetFlow(r, {"recovery"}, "get_request", "lookup")

(* GetIdentityIDByIdentifier, which finds credentials of every type, those *)
(* of OIDC subjects too; any error counts as "not found".                  *)
LookupIdentity(r) ==
  /\ pc[r] = "lookup"
  /\ \E i \in (UNION {NamedByAny(name) : name \in Identifier})
             \cup linked \cup {NoIdentity} :
       draft' = [draft EXCEPT ![r].identity = i]
  /\ Goto(r, "offer")
  /\ UNCHANGED <<tables, target, copy, given, tokens>>

(* RecoveryIdentityID, written together with the token.                    *)
TokenOwner(r) == draft[r].identity

(* The flow is written from the copy, pending, with a new token for the    *)
(* identity that was found, or for nobody.                                 *)
OfferToken(r) ==
  /\ pc[r] = "offer"
  /\ UpdateFlow(target[r], "pending", draft[r].identity,
                [Plain("pending_link") EXCEPT !.token = r, !.owner = TokenOwner(r)])
  /\ Send(r, draft[r].identity)
  /\ Finish(r)
  /\ UNCHANGED <<overdue, sessions, accounts, credentials, linked, target,
                 given, accepted, unverified>>

(* For nobody, the write may fail unnoticed and the token is returned.     *)
OfferUnstored(r) ==
  /\ pc[r] = "offer"
  /\ draft[r].identity = NoIdentity
  /\ Send(r, NoIdentity)
  /\ Finish(r)
  /\ UNCHANGED <<tables, target, given, accepted, unverified>>

SubmitLink(r) == \E token \in sent \cup {NoToken} : Arrive(r, token, "get_use")

ReadForUse(r) == GetFlow(r, {"recovery"}, "get_use", "use")

\* The link has been sent.
Usable(r) ==
  /\ pc[r] = "use"
  /\ copy[r].ui.phase = "pending_link"
  /\ copy[r].ui.token # NoToken

(* A wrong token, or one made for nobody: the flow is spent.               *)
RefuseLink(r) ==
  /\ Usable(r)
  /\ given[r] # copy[r].ui.token \/ copy[r].ui.owner = NoIdentity
  /\ UpdateFlowState(target[r], "failed")
  /\ Finish(r)
  /\ UNCHANGED <<overdue, sessions, accounts, credentials, linked, target,
                 given, tokens>>

(* The right token: the identity is activated ...                          *)
Reactivate(r) ==
  /\ Usable(r)
  /\ given[r] = copy[r].ui.token
  /\ copy[r].ui.owner # NoIdentity
  /\ UpdateIdentityState(copy[r].ui.owner, "active")
  /\ Accept(r)
  /\ Goto(r, "recovery_session")
  /\ UNCHANGED <<flows, overdue, sessions, credentials, linked, target, copy,
                 draft, given, sent, issuedTo, unverified>>

\* Slip: the identity is read from the row again.
SlipOwnerOfRow(r) == flows[target[r]].identity

(* The identity parsed from the copy's RecoveryIdentityID.                 *)
RecoveredIdentity(r) == copy[r].ui.owner

\* Slip: the flow is completed before the session is inserted.
SlipSessionLater(r) ==
  /\ pc[r] = "recovery_session"
  /\ Goto(r, "recovered")
  /\ UNCHANGED <<tables, target, copy, draft, given, tokens>>

(* ... gets an aal1 session ...                                            *)
IssueRecoverySession(r) ==
  /\ pc[r] = "recovery_session"
  /\ CreateSession(r, RecoveredIdentity(r), "aal1", RecoveryAMR)
  /\ Goto(r, "recovered")
  /\ UNCHANGED <<flows, overdue, accounts, credentials, linked, target, copy,
                 draft, given, tokens>>

(* ... and the token is cleared; if this write fails, nobody notices.      *)
CompleteRecovery(r) ==
  /\ pc[r] = "recovered"
  /\ UpdateFlow(target[r], "success", copy[r].ui.owner, Plain("complete"))
  /\ Finish(r)
  /\ UNCHANGED <<overdue, sessions, accounts, credentials, linked, target,
                 given, tokens>>

Recover(r) ==
  \/ ReadForRequest(r) \/ LookupIdentity(r)        \/ OfferToken(r)
  \/ OfferUnstored(r)  \/ ReadForUse(r)            \/ RefuseLink(r)
  \/ Reactivate(r)     \/ IssueRecoverySession(r)  \/ CompleteRecovery(r)
=============================================================================
