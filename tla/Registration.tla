----------------------------- MODULE Registration -----------------------------
(***************************************************************************)
(* The registration flow, internal/flow/registration.  SubmitFlow inserts  *)
(* the identity, then its credential, then writes the flow, then either    *)
(* starts a verification flow or lets the handler insert a session: five   *)
(* statements with no transaction around them.                             *)
(*                                                                         *)
(* The schema row of EnsureDefault is another component's.                 *)
(***************************************************************************)
EXTENDS Verification

CONSTANTS
  RequireVerification,   \* the values an operator gives this policy
  External               \* methods that name their credentials themselves

ASSUME RequireVerificationAssumption == RequireVerification \subseteq BOOLEAN
ASSUME ExternalAssumption == External \subseteq Method

\* The identifiers column: what Enroll returns, or else the identifier the
\* client submitted.  The password authenticator returns none.
CredentialNames(claim) ==
  IF claim[1] \in External
  THEN (SUBSET Identifier) \ {{}}
  ELSE {{claim[2]}}

InitRegistration(f) ==
  /\ CreateFlow(f, "registration", Plain("register"))
  /\ UNCHANGED <<overdue, sessions, accounts, credentials, linked, locals,
                 tokens>>

SubmitRegistration(r) == Arrive(r, NoToken, "get_register")

ReadRegistration(r) == GetFlow(r, {"registration"}, "get_register", "policy")

(* policies.Get: whatever the operator has stored by now.                  *)
ReadRegistrationPolicy(r) ==
  /\ pc[r] = "policy"
  /\ \E verify \in RequireVerification :
       draft' = [draft EXCEPT ![r].verify = verify]
  /\ Goto(r, "check")
  /\ UNCHANGED <<tables, target, copy, given, tokens>>

(* GetByIdentifier: nobody has this identifier for this method.  Enroll    *)
(* and EnsureDefault follow.                                               *)
CheckIdentifier(r) ==
  /\ pc[r] = "check"
  /\ \E type \in Method, name \in Identifier :
       /\ Named(type, name) = {}
       /\ draft' = [draft EXCEPT ![r].claim = <<type, name>>]
  /\ Goto(r, "identity")
  /\ UNCHANGED <<tables, target, copy, given, tokens>>

\* Slip: a state that nothing else knows.
SlipUnknownState(verify) == IF verify THEN "pending" ELSE "active"

InitialState(verify) == IF verify THEN "pending_verification" ELSE "active"

\* Slip: the token is made before the credential is in.
SlipTokenFirst(r) ==
  /\ pc[r] = "identity"
  /\ \E i \in Identity :
       /\ CreateIdentity(i, InitialState(draft[r].verify))
       /\ draft' = [draft EXCEPT ![r].identity = i]
       /\ unverified' = IF draft[r].verify THEN unverified ELSE unverified \cup {i}
  /\ Goto(r, IF draft[r].verify THEN "verification" ELSE "credential")
  /\ UNCHANGED <<flows, overdue, sessions, credentials, linked, target, copy,
                 given, sent, issuedTo, accepted>>

CreateAccount(r) ==
  /\ pc[r] = "identity"
  /\ \E i \in Identity :
       /\ CreateIdentity(i, InitialState(draft[r].verify))
       /\ draft' = [draft EXCEPT ![r].identity = i]
       /\ unverified' = IF draft[r].verify THEN unverified ELSE unverified \cup {i}
  /\ Goto(r, "credential")
  /\ UNCHANGED <<flows, overdue, sessions, credentials, linked, target, copy,
                 given, sent, issuedTo, accepted>>

\* Slip: the failure to insert the credential is ignored.
SlipIgnoreConflict(r) ==
  /\ pc[r] = "credential"
  /\ Goto(r, "complete")
  /\ UNCHANGED <<tables, target, copy, draft, given, tokens>>

(* The identity is there; its credential may still be refused.             *)
AddCredential(r) ==
  /\ pc[r] = "credential"
  /\ \E names \in CredentialNames(draft[r].claim) :
       CreateCredential(draft[r].identity, draft[r].claim[1], names)
  /\ Goto(r, "complete")
  /\ UNCHANGED <<flows, overdue, sessions, accounts, linked, target, copy,
                 draft, given, tokens>>

\* Slip: a session is issued although verification is pending.
SlipSessionAnyway(verify) == "session"

AfterRegistration(verify) == IF verify THEN "verification" ELSE "session"

CompleteRegistration(r) ==
  /\ pc[r] = "complete"
  /\ UpdateFlow(target[r], "success", draft[r].identity, Plain("complete"))
  /\ Goto(r, AfterRegistration(draft[r].verify))
  /\ UNCHANGED <<overdue, sessions, accounts, credentials, linked, target,
                 copy, draft, given, tokens>>

(* The handler: an aal1 session with an empty amr.                         *)
IssueRegistrationSession(r) ==
  /\ pc[r] = "session"
  /\ CreateSession(r, draft[r].identity, "aal1", <<>>)
  /\ Finish(r)
  /\ UNCHANGED <<flows, overdue, accounts, credentials, linked, target, given,
                 tokens>>

Register(r) ==
  \/ ReadRegistration(r)      \/ ReadRegistrationPolicy(r)
  \/ CheckIdentifier(r)       \/ CreateAccount(r)
  \/ AddCredential(r)         \/ CompleteRegistration(r)
  \/ IssueRegistrationSession(r)
=============================================================================
