---------------------------- MODULE OidcRequests ----------------------------
(***************************************************************************)
(* The OIDC login requests, internal/oidc, as they meet the flows of the   *)
(* other engines: neither InitiateLogin nor HandleCallback looks at the    *)
(* type of the flow it is given.  InitiateLogin writes a stale copy back,  *)
(* pending; HandleCallback completes the flow for the subject's identity,  *)
(* which it may have to create, and issues a session.                      *)
(*                                                                         *)
(* Which subject comes back, and whether its nonce, code and provider are  *)
(* the attempt's, is OidcLogin's: here any linked identity may, or one     *)
(* that is not linked yet.                                                 *)
(***************************************************************************)
EXTENDS TokenFlows

SubmitInitiate(r) == Arrive(r, NoToken, "get_initiate")

ReadForInitiate(r) == GetFlow(r, FlowType, "get_initiate", "persist")

(* After the provider's metadata was fetched: state, owner and ui of the   *)
(* copy are written over whatever the row holds by now.                    *)
PersistAttempt(r) ==
  /\ pc[r] = "persist"
  /\ UpdateFlow(target[r], "pending", copy[r].identity,
                [copy[r].ui EXCEPT !.attempt = TRUE])
  /\ Finish(r)
  /\ UNCHANGED <<overdue, sessions, accounts, credentials, linked, target, given,
                 tokens>>

SubmitCallback(r) == Arrive(r, NoToken, "get_callback")

ReadForCallback(r) == GetFlow(r, FlowType, "get_callback", "subject")

\* The flow holds an attempt, and the provider confirmed a subject.
Confirmed(r) ==
  /\ pc[r] = "subject"
  /\ copy[r].ui.attempt

(* GetByIdentifier and GetIdentity: the subject is linked, to an active    *)
(* identity.                                                               *)
FindSubject(r) ==
  /\ Confirmed(r)
  /\ \E i \in linked :
       /\ accounts[i] = "active"
       /\ draft' = [draft EXCEPT ![r].identity = i]
  /\ Goto(r, "oidc_session")
  /\ UNCHANGED <<tables, target, copy, given, tokens>>

(* A subject that is not linked: an identity is created, active ...        *)
ProvisionIdentity(r) ==
  /\ Confirmed(r)
  /\ \E i \in Identity :
       /\ CreateIdentity(i, "active")
       /\ draft' = [draft EXCEPT ![r].identity = i]
       /\ unverified' = unverified \cup {i}
  /\ Goto(r, "link")
  /\ UNCHANGED <<flows, overdue, sessions, credentials, linked, target, copy,
                 given, sent, issuedTo, accepted>>

(* ... and linked, unless another callback linked the subject before.      *)
LinkSubject(r) ==
  /\ pc[r] = "link"
  /\ linked' = linked \cup {draft[r].identity}
  /\ Goto(r, "oidc_session")
  /\ UNCHANGED <<flows, overdue, sessions, accounts, credentials, target, copy,
                 draft, given, tokens>>

IssueOidcSession(r) ==
  /\ pc[r] = "oidc_session"
  /\ CreateSession(r, draft[r].identity, "aal1", OidcAMR)
  /\ Goto(r, "oidc_complete")
  /\ UNCHANGED <<flows, overdue, accounts, credentials, linked, target, copy,
                 draft, given, tokens>>

\* Slip: the attempt is removed from _internal, whatever else it holds stays.
SlipKeepInternal(r) == [copy[r].ui EXCEPT !.attempt = FALSE]

\* _internal is replaced as a whole.
CallbackUI(r) == Plain("complete")

(* Token and attempt are cleared; if this write fails, nobody notices.     *)
CompleteCallback(r) ==
  /\ pc[r] = "oidc_complete"
  /\ UpdateFlow(target[r], "success", draft[r].identity, CallbackUI(r))
  /\ Finish(r)
  /\ UNCHANGED <<overdue, sessions, accounts, credentials, linked, target, given,
                 tokens>>

VisitByOidc(r) ==
  \/ ReadForInitiate(r) \/ PersistAttempt(r)
  \/ ReadForCallback(r) \/ FindSubject(r)      \/ ProvisionIdentity(r)
  \/ LinkSubject(r)     \/ IssueOidcSession(r) \/ CompleteCallback(r)
=============================================================================
