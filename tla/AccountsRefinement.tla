-------------------------- MODULE AccountsRefinement --------------------------
(***************************************************************************)
(* Accounts implements AccountsPromise, for any set of requests, flows,    *)
(* identities, methods, identifiers, policies and imported credentials.    *)
(***************************************************************************)
EXTENDS AccountsProofs

-----------------------------------------------------------------------------
(* Who is registered: the identity a registration or a callback made is    *)
(* there, is its own, has the credential it was given and no other, and    *)
(* has had no session by registering yet.                                  *)

AccountOf(r) ==
  /\ pc[r] \in Registering => accounts[draft[r].identity] # "absent"
  /\ pc[r] \in {"credential", "link"} =>
       draft[r].identity \notin enrolledIdentities
  /\ pc[r] \in Registering \ {"credential", "link"} =>
       draft[r].identity \in enrolledIdentities
  /\ pc[r] \in {"credential", "complete", "session"} /\ ~ draft[r].verify =>
       draft[r].identity \in unverified
  /\ pc[r] = "offer" =>
       draft[r].identity \in enrolledIdentities \cup {NoIdentity}

RegisterInv ==
  /\ \A r \in Request : AccountOf(r)
  /\ \A i \in enrolledIdentities : i \in Identity /\ accounts[i] # "absent"
  /\ \A q \in Request : Issued(q) =>
       /\ sessions[q].identity \in Identity
       /\ accounts[sessions[q].identity] # "absent"
  /\ \A r, q \in Request :
       /\ pc[r] \in Registering
       /\ pc[q] \in Registering
       /\ draft[r].identity = draft[q].identity
       => r = q
  /\ \A r, q \in Request :
       /\ pc[r] \in Registering
       /\ Issued(q)
       /\ sessions[q].amr = <<>>
       => sessions[q].identity # draft[r].identity

(* Whose a token is: a row or a copy only ever holds a token of its flow,  *)
(* made by a request that works on no other flow any more.                 *)

\* A request that made its token, or redeemed one.
Settled  == {"owner", "done"}
Redeemed == {"verified", "recovery_session", "recovered", "done"}

TokenAt(f, row, at, step) ==
  row.ui.token # NoToken =>
    at[row.ui.token] = f /\ step[row.ui.token] \in Settled

RedeemInv ==
  /\ \A f \in Flow : TokenAt(f, flows[f], target, pc)
  /\ \A r \in Request : pc[r] \in {"verify", "use", "persist"} =>
       TokenAt(target[r], copy[r], target, pc)
  /\ \A t \in sent :
       Exists(target[t]) /\ flows[target[t]].type \in {"verification", "recovery"}
  /\ \A a \in accepted : pc[a.request] \in Redeemed
  /\ \A r \in Request : pc[r] \in Recovering =>
       [request |-> r, token |-> given[r], type |-> "recovery"] \in accepted

-----------------------------------------------------------------------------
(* What stays: an identity that is there, the flow of a request but for    *)
(* the verification a registration starts, and where a request goes when   *)
(* it has made its token or redeemed one.                                  *)

LEMMA AccountsStay ==
  ASSUME TypeInv, [AccountsNext]_tokenVars, NEW i \in Identity,
         accounts[i] # "absent"
  PROVE  accounts'[i] # "absent"
<1> TokenTypeOK
  BY DEF TypeInv
<1>1. ASSUME NEW r \in Request, Creates(r) PROVE accounts'[i] # "absent"
  BY <1>1, Creation DEF TokenTypeOK
<1>2. ASSUME NEW r \in Request, ActivateIdentity(r) \/ Reactivate(r)
      PROVE  accounts'[i] # "absent"
  BY <1>2 DEF ActivateIdentity, Reactivate, UpdateIdentityState, TokenTypeOK
<1> QED BY <1>1, <1>2, AccountWrites

LEMMA LateMoves ==
  ASSUME TypeInv, [AccountsNext]_tokenVars, NEW r \in Request
  PROVE  /\ target'[r] = target[r] \/ (pc[r] = "verification" /\ InitVerification(r))
         /\ pc[r] \in Settled => pc'[r] \in Settled
         /\ pc[r] \in Redeemed => pc'[r] \in Redeemed
<1> TokenTypeOK
  BY DEF TypeInv
<1> USE DEF Settled, Redeemed
<1>1. CASE Still(r)
  BY <1>1 DEF Still
<1>2. CASE Reads(r)
  <2>1. target' = target
    BY <1>2, ReadsOnly
  <2>2. pc[r] \in Settled \cup Redeemed => pc'[r] = "done"
    BY <1>2, FinishTypes
       DEF Confirmed, Reads, Submit, SubmitRegistration, SubmitVerification,
           SubmitRecovery, SubmitLink, SubmitInitiate, SubmitCallback, Arrive,
           ReadRegistration, ReadVerification, ReadForRequest, ReadForUse,
           GetFlow, ReadRegistrationPolicy, CheckIdentifier, LookupIdentity,
           ReadForInitiate, ReadForCallback, FindSubject, Abandon
  <2> QED BY <2>1, <2>2
<1>3. CASE Steps(r)
  <2>1. target' = target \/ (pc[r] = "verification" /\ InitVerification(r))
    BY <1>3
       DEF Steps, CreateAccount, AddCredential, CompleteRegistration,
           IssueRegistrationSession, InitVerification, NameOwner,
           RefuseVerification, ActivateIdentity, CompleteVerification,
           OfferToken, OfferUnstored, RefuseLink, Reactivate,
           IssueRecoverySession, CompleteRecovery, PersistAttempt,
           ProvisionIdentity, LinkSubject, IssueOidcSession, CompleteCallback,
           MarkExpired
  <2>2. pc[r] \in Settled \cup Redeemed =>
          \/ NameOwner(r) \/ CompleteVerification(r) \/ CompleteRecovery(r)
          \/ IssueRecoverySession(r)
    BY <1>3
       DEF Steps, CreateAccount, AddCredential, CompleteRegistration,
           IssueRegistrationSession, InitVerification,
           RefuseVerification, ActivateIdentity, Verifiable, OfferToken,
           OfferUnstored, RefuseLink, Reactivate, Usable, PersistAttempt,
           ProvisionIdentity, Confirmed, LinkSubject, IssueOidcSession,
           CompleteCallback, MarkExpired
  <2>3. NameOwner(r) \/ CompleteVerification(r) \/ CompleteRecovery(r) =>
          pc'[r] = "done"
    BY FinishTypes DEF NameOwner, CompleteVerification, CompleteRecovery
  <2>4. IssueRecoverySession(r) => pc[r] \notin Settled /\ pc'[r] = "recovered"
    BY DEF IssueRecoverySession, Goto, TokenTypeOK
  <2> QED BY <2>1, <2>2, <2>3, <2>4
<1> QED BY <1>1, <1>2, <1>3, ActsOrWorld, WorldIsStill, OneMoves

\* An identity gets a credential.
Enrolling(r) == AddCredential(r) \/ LinkSubject(r)

LEMMA EnrolmentWrites ==
  ASSUME [AccountsNext]_tokenVars
  PROVE  \/ UNCHANGED <<credentials, linked>>
         \/ \E r \in Request : Enrolling(r)
<1>1. World => UNCHANGED <<credentials, linked>>
  BY DEF World, InitRegistration, InitRecovery, FlowExpires, tokenVars, tables
<1>2. ASSUME NEW r \in Request, Reads(r) \/ Steps(r)
      PROVE  UNCHANGED <<credentials, linked>> \/ Enrolling(r)
  BY <1>2, ReadsOnly
     DEF Steps, Enrolling, CreateAccount, CompleteRegistration,
         IssueRegistrationSession, InitVerification, NameOwner, RefuseVerification,
         ActivateIdentity, CompleteVerification, OfferToken, OfferUnstored,
         RefuseLink, Reactivate, IssueRecoverySession, CompleteRecovery,
         PersistAttempt, ProvisionIdentity, IssueOidcSession, CompleteCallback,
         MarkExpired, tables
<1> QED BY <1>1, <1>2, ActsOrWorld

LEMMA Enrolls ==
  ASSUME TypeInv, NEW r \in Request, Enrolling(r)
  PROVE  /\ enrolledIdentities' = enrolledIdentities \cup {draft[r].identity}
         /\ draft[r].identity \in Identity
         /\ pc[r] \in {"credential", "link"}
         /\ UNCHANGED <<accounts, draft, sessions, sent, issuedTo, accepted,
                        unverified>>
<1>1. ASSUME AddCredential(r)
      PROVE  enrolledIdentities' = enrolledIdentities \cup {draft[r].identity}
  <2>1. PICK names \in CredentialNames(draft[r].claim) :
          credentials' = credentials \cup
            {[identity |-> draft[r].identity, type |-> draft[r].claim[1],
              names |-> names]}
    BY <1>1 DEF AddCredential, CreateCredential
  <2> DEFINE c == [identity |-> draft[r].identity, type |-> draft[r].claim[1],
                   names |-> names]
  <2>2. credentials' = credentials \cup {c} /\ c.identity = draft[r].identity
    BY <2>1
  <2>3. linked' = linked
    BY <1>1 DEF AddCredential
  <2> HIDE DEF c
  <2> QED BY <2>2, <2>3 DEF enrolledIdentities
<1>2. ASSUME LinkSubject(r)
      PROVE  enrolledIdentities' = enrolledIdentities \cup {draft[r].identity}
  BY <1>2 DEF LinkSubject, enrolledIdentities
<1>3. /\ pc[r] \in {"credential", "link"}
      /\ UNCHANGED <<accounts, draft, sessions, sent, issuedTo, accepted, unverified>>
  BY DEF Enrolling, AddCredential, LinkSubject, tokens
<1>4. draft[r].identity \in Identity
  BY <1>3 DEF TypeInv, WhereInv, Registering
<1> QED BY <1>1, <1>2, <1>3, <1>4 DEF Enrolling

-----------------------------------------------------------------------------
(* A registration goes on with the identity it has, or has just made one.  *)
LEMMA Newcomer ==
  ASSUME TypeInv, [AccountsNext]_tokenVars, NEW r \in Request,
         pc'[r] \in Registering
  PROVE  \/ pc[r] \in Registering /\ draft'[r] = draft[r]
         \/ /\ Creates(r)
            /\ pc[r] \notin Registering
            /\ pc'[r] \in {"credential", "link"}
            /\ draft'[r].identity \in Identity
            /\ accounts[draft'[r].identity] = "absent"
            /\ accounts'[draft'[r].identity] # "absent"
            /\ pc'[r] = "credential" /\ ~ draft'[r].verify =>
                 draft'[r].identity \in unverified'
<1> TokenTypeOK
  BY DEF TypeInv
<1> USE DEF Registering
<1>1. CASE Still(r)
  BY <1>1 DEF Still
<1>2. CASE Reads(r)
  <2>1. pc'[r] \notin Registering
    BY <1>2, FinishTypes
       DEF Reads, Submit, SubmitRegistration, SubmitVerification,
           SubmitRecovery, SubmitLink, SubmitInitiate, SubmitCallback, Arrive,
           ReadRegistration, ReadVerification, ReadForRequest, ReadForUse,
           GetFlow, ReadRegistrationPolicy, CheckIdentifier, LookupIdentity,
           ReadForInitiate, ReadForCallback, FindSubject, Abandon, Goto,
           TokenTypeOK
  <2> QED BY <2>1
<1>3. CASE Creates(r)
  <2>1. PICK i \in Identity, s \in {"active", "pending_verification"} :
          /\ accounts[i] = "absent"
          /\ accounts' = [accounts EXCEPT ![i] = s]
          /\ draft'[r].identity = i
          /\ draft'[r].verify = draft[r].verify
          /\ s = "active" => unverified' = unverified \cup {i}
          /\ s # "active" => draft[r].verify
    BY <1>3, Creation
  <2>2. accounts'[i] # "absent"
    BY <2>1 DEF TokenTypeOK
  <2>3. pc[r] \notin Registering /\ pc'[r] \in {"credential", "link"}
    BY <1>3 DEF Creates, CreateAccount, ProvisionIdentity, Confirmed, Goto, TokenTypeOK
  <2> QED BY <1>3, <2>1, <2>2, <2>3
<1>4. CASE Steps(r) /\ ~ Creates(r)
  BY <1>4, FinishTypes
     DEF Steps, Creates, AddCredential, CompleteRegistration, AfterRegistration,
         IssueRegistrationSession, InitVerification, NameOwner,
         RefuseVerification, ActivateIdentity, CompleteVerification,
         OfferToken, OfferUnstored, RefuseLink, Reactivate,
         IssueRecoverySession, CompleteRecovery, PersistAttempt,
         LinkSubject, IssueOidcSession, CompleteCallback,
         MarkExpired, Goto, TokenTypeOK
<1> QED BY <1>1, <1>2, <1>3, <1>4, ActsOrWorld, WorldIsStill, OneMoves

\* What the three statements that insert a session insert.
LEMMA SessionRow ==
  ASSUME TypeInv, NEW r \in Request
  PROVE  /\ IssueRegistrationSession(r) =>
              /\ sessions'[r].identity = draft[r].identity
              /\ sessions'[r].amr = <<>>
              /\ Issued(r)'
              /\ draft[r].identity \in Identity
              /\ pc[r] = "session" /\ pc'[r] = "done"
              /\ accounts' = accounts
         /\ IssueRecoverySession(r) =>
              /\ sessions'[r].identity = copy[r].ui.owner
              /\ sessions'[r].amr = RecoveryAMR
              /\ Issued(r)'
              /\ copy[r].ui.owner \in Identity
              /\ accounts' = accounts
         /\ IssueOidcSession(r) =>
              /\ sessions'[r].identity = draft[r].identity
              /\ sessions'[r].amr = OidcAMR
              /\ Issued(r)'
              /\ draft[r].identity \in Identity
              /\ pc[r] = "oidc_session"
              /\ accounts' = accounts
<1> TokenTypeOK
  BY DEF TypeInv
<1>1. ASSUME IssueRegistrationSession(r)
      PROVE  /\ sessions'[r].identity = draft[r].identity
             /\ sessions'[r].amr = <<>>
             /\ Issued(r)'
  BY <1>1 DEF IssueRegistrationSession, CreateSession, Issued, TokenTypeOK
<1>2. ASSUME IssueRegistrationSession(r)
      PROVE  /\ draft[r].identity \in Identity
             /\ pc[r] = "session" /\ pc'[r] = "done"
             /\ accounts' = accounts
  BY <1>2, FinishTypes DEF IssueRegistrationSession, TypeInv, WhereInv, Registering
<1>3. ASSUME IssueRecoverySession(r)
      PROVE  /\ sessions'[r].identity = copy[r].ui.owner
             /\ sessions'[r].amr = RecoveryAMR
             /\ Issued(r)'
  BY <1>3 DEF IssueRecoverySession, RecoveredIdentity, CreateSession, Issued, TokenTypeOK
<1>4. ASSUME IssueRecoverySession(r)
      PROVE  copy[r].ui.owner \in Identity /\ accounts' = accounts
  BY <1>4 DEF IssueRecoverySession, TypeInv, WhereInv, Recovering
<1>5. ASSUME IssueOidcSession(r)
      PROVE  /\ sessions'[r].identity = draft[r].identity
             /\ sessions'[r].amr = OidcAMR
             /\ Issued(r)'
  BY <1>5 DEF IssueOidcSession, CreateSession, Issued, TokenTypeOK
<1>6. ASSUME IssueOidcSession(r)
      PROVE  /\ draft[r].identity \in Identity
             /\ pc[r] = "oidc_session"
             /\ accounts' = accounts
  BY <1>6 DEF IssueOidcSession, TypeInv, WhereInv, Confirming
<1> QED BY <1>1, <1>2, <1>3, <1>4, <1>5, <1>6

LEMMA RegisterStep ==
  TypeInv /\ GivenInv /\ RegisterInv /\ [AccountsNext]_tokenVars => RegisterInv'
<1> SUFFICES ASSUME TypeInv, GivenInv, RegisterInv, [AccountsNext]_tokenVars
             PROVE  RegisterInv'
  OBVIOUS
<1> TokenTypeOK /\ Grows
  BY StepGrows DEF TypeInv
<1>1. \A r \in Request : pc[r] \in Registering =>
        draft[r].identity \in Identity /\ accounts[draft[r].identity] # "absent"
  BY DEF TypeInv, WhereInv, RegisterInv, AccountOf
<1>2. ASSUME NEW i \in enrolledIdentities'
      PROVE  i \in Identity /\ accounts'[i] # "absent"
  <2>1. CASE i \in enrolledIdentities
    BY <2>1, AccountsStay DEF RegisterInv
  <2>2. CASE i \notin enrolledIdentities
    <3>1. ~ UNCHANGED <<credentials, linked>>
      BY <2>2 DEF enrolledIdentities
    <3>2. PICK r \in Request : Enrolling(r)
      BY <3>1, EnrolmentWrites
    <3>3. i = draft[r].identity /\ pc[r] \in {"credential", "link"} /\ accounts' = accounts
      BY <2>2, <3>2, Enrolls
    <3> QED BY <1>1, <3>3 DEF Registering
  <2> QED BY <2>1, <2>2
<1>3. ASSUME NEW q \in Request, Issued(q)'
      PROVE  sessions'[q].identity \in Identity /\ accounts'[sessions'[q].identity] # "absent"
  <2>1. CASE Issued(q)
    BY <2>1, AccountsStay DEF RegisterInv, Grows
  <2>2. CASE IssueRegistrationSession(q)
    BY <1>1, <2>2, SessionRow DEF Registering
  <2>3. CASE IssueRecoverySession(q)
    <3>1. accounts[copy[q].ui.owner] = "active"
      BY <2>3 DEF IssueRecoverySession, GivenInv, ActiveOf, Recovering
    <3> QED BY <2>3, <3>1, SessionRow
  <2>4. CASE IssueOidcSession(q)
    <3>1. accounts[draft[q].identity] = "active"
      BY <2>4 DEF IssueOidcSession, GivenInv, ActiveOf, Confirming
    <3> QED BY <2>4, <3>1, SessionRow
  <2> QED BY <1>3, <2>1, <2>2, <2>3, <2>4, NewSession
<1>4. ASSUME NEW r \in Request, NEW q \in Request,
             pc'[r] \in Registering, pc'[q] \in Registering,
             draft'[r].identity = draft'[q].identity
      PROVE  r = q
  <2>1. CASE Creates(r)
    <3>1. q # r => Still(q)
      BY <2>1, OneMoves DEF Steps, Creates
    <3>2. pc[r] \notin Registering
      BY <2>1 DEF Creates, CreateAccount, ProvisionIdentity, Confirmed, Registering
    <3> QED BY <1>1, <1>4, <3>1, <3>2, Newcomer DEF Still
  <2>2. CASE Creates(q)
    <3>1. q # r => Still(r)
      BY <2>2, OneMoves DEF Steps, Creates
    <3>2. pc[q] \notin Registering
      BY <2>2 DEF Creates, CreateAccount, ProvisionIdentity, Confirmed, Registering
    <3> QED BY <1>1, <1>4, <3>1, <3>2, Newcomer DEF Still
  <2>3. CASE ~ Creates(r) /\ ~ Creates(q)
    BY <1>4, <2>3, Newcomer DEF RegisterInv
  <2> QED BY <2>1, <2>2, <2>3
<1>5. ASSUME NEW r \in Request, NEW q \in Request, pc'[r] \in Registering,
             Issued(q)', sessions'[q].amr = <<>>
      PROVE  sessions'[q].identity # draft'[r].identity
  <2>1. CASE Issued(q)
    <3>1. sessions'[q] = sessions[q]
      BY <2>1 DEF Grows
    <3> QED BY <1>5, <2>1, <3>1, Newcomer DEF RegisterInv
  <2>2. CASE ~ Issued(q)
    <3>1. IssueRegistrationSession(q)
      BY <1>5, <2>2, NewSession, Kinds
    <3>2. /\ sessions'[q].identity = draft[q].identity
          /\ pc[q] = "session" /\ pc'[q] = "done"
      BY <3>1, SessionRow
    <3>3. r # q /\ Still(r)
      BY <1>5, <3>1, <3>2, OneMoves DEF Registering, Steps
    <3> QED BY <1>5, <3>2, <3>3 DEF Still, RegisterInv, Registering
  <2> QED BY <2>1, <2>2
<1>6. ASSUME NEW r \in Request PROVE AccountOf(r)'
  <2>1. CASE Still(r)
    <3>1. pc[r] \in Registering => accounts'[draft[r].identity] # "absent"
      BY <1>1, AccountsStay
    <3>2. pc[r] \in {"credential", "link"} =>
            draft[r].identity \notin enrolledIdentities'
      <4>1. ASSUME pc[r] \in {"credential", "link"}, NEW q \in Request, Enrolling(q)
            PROVE  draft[q].identity # draft[r].identity
        <5>1. q # r
          BY <2>1, <4>1
             DEF Enrolling, AddCredential, LinkSubject, Goto, Still, TokenTypeOK
        <5>2. pc[q] \in {"credential", "link"}
          BY <4>1, Enrolls
        <5> QED BY <4>1, <5>1, <5>2 DEF RegisterInv, Registering
      <4>2. pc[r] \in {"credential", "link"} =>
              draft[r].identity \notin enrolledIdentities
        BY DEF RegisterInv, AccountOf
      <4>3. UNCHANGED <<credentials, linked>> =>
              enrolledIdentities' = enrolledIdentities
        BY DEF enrolledIdentities
      <4> QED BY <4>1, <4>2, <4>3, EnrolmentWrites, Enrolls
    <3> QED BY <2>1, <3>1, <3>2 DEF Still, RegisterInv, AccountOf, Grows
  <2>2. CASE LookupIdentity(r)
    <3> DEFINE found == (UNION {NamedByAny(name) : name \in Identifier})
                        \cup linked \cup {NoIdentity}
    <3>1. PICK i \in found : draft' = [draft EXCEPT ![r].identity = i]
      BY <2>2 DEF LookupIdentity
    <3>2. i \in enrolledIdentities' \cup {NoIdentity}
      <4>1. \/ \E name \in Identifier : i \in NamedByAny(name)
            \/ i \in linked \/ i = NoIdentity
        OBVIOUS
      <4>2. \A name \in Identifier : NamedByAny(name) \subseteq enrolledIdentities
        BY DEF NamedByAny, Named, enrolledIdentities
      <4>3. linked \subseteq enrolledIdentities
        BY DEF enrolledIdentities
      <4> QED BY <4>1, <4>2, <4>3 DEF Grows
    <3> HIDE DEF found
    <3>3. draft'[r].identity = i /\ pc'[r] = "offer"
      BY <2>2, <3>1 DEF LookupIdentity, Goto, TokenTypeOK, Draft
    <3> QED BY <3>2, <3>3 DEF AccountOf, Registering
  <2>3. CASE Reads(r) /\ ~ LookupIdentity(r)
    <3>1. pc'[r] \notin Registering \cup {"offer"}
      BY <2>3, FinishTypes
         DEF Reads, Submit, SubmitRegistration, SubmitVerification,
             SubmitRecovery, SubmitLink, SubmitInitiate, SubmitCallback,
             Arrive, ReadRegistration, ReadVerification, ReadForRequest,
             ReadForUse, ReadForInitiate, ReadForCallback, GetFlow,
             ReadRegistrationPolicy, CheckIdentifier, FindSubject, Abandon,
             Goto, TokenTypeOK, Registering
    <3> QED BY <3>1 DEF AccountOf, Registering
  <2>4. CASE Creates(r)
    <3>1. pc'[r] \in {"credential", "link"}
      BY <2>4 DEF Creates, CreateAccount, ProvisionIdentity, Goto, TokenTypeOK
    <3>2. pc[r] \notin Registering
      BY <2>4 DEF Creates, CreateAccount, ProvisionIdentity, Confirmed, Registering
    <3>3. /\ accounts[draft'[r].identity] = "absent"
          /\ accounts'[draft'[r].identity] # "absent"
          /\ pc'[r] = "credential" /\ ~ draft'[r].verify =>
               draft'[r].identity \in unverified'
      BY <3>1, <3>2, Newcomer DEF Registering
    <3>4. enrolledIdentities' = enrolledIdentities
      BY <2>4 DEF Creates, CreateAccount, ProvisionIdentity, enrolledIdentities
    <3>5. draft'[r].identity \notin enrolledIdentities'
      BY <3>3, <3>4 DEF RegisterInv
    <3> QED BY <3>1, <3>3, <3>5 DEF AccountOf
  <2>5. CASE Enrolling(r)
    <3>1. \/ pc[r] = "credential" /\ pc'[r] = "complete"
          \/ pc'[r] = "oidc_session"
      BY <2>5 DEF Enrolling, AddCredential, LinkSubject, Goto, TokenTypeOK
    <3>2. /\ draft[r].identity \in enrolledIdentities' /\ accounts' = accounts
          /\ draft' = draft /\ unverified' = unverified
      BY <2>5, Enrolls
    <3> QED BY <1>1, <3>1, <3>2 DEF AccountOf, RegisterInv, Registering
  <2>6. CASE CompleteRegistration(r)
    <3>1. /\ pc[r] = "complete"
          /\ pc'[r] = IF draft[r].verify THEN "verification" ELSE "session"
          /\ draft' = draft /\ accounts' = accounts /\ unverified' = unverified
      BY <2>6 DEF CompleteRegistration, AfterRegistration, Goto, TokenTypeOK, tokens
    <3> QED BY <3>1 DEF AccountOf, RegisterInv, Registering, Grows
  <2>7. CASE InitVerification(r)
    <3>1. /\ pc[r] = "verification" /\ pc'[r] = "owner"
          /\ draft' = draft /\ accounts' = accounts
      BY <2>7 DEF InitVerification, Goto, TokenTypeOK
    <3> QED BY <3>1 DEF AccountOf, RegisterInv, Registering, Grows
  <2>8. CASE Steps(r) /\ ~ (\/ Creates(r) \/ Enrolling(r)
                            \/ CompleteRegistration(r) \/ InitVerification(r))
    <3>1. pc'[r] \notin Registering \cup {"offer"}
      BY <2>8, FinishTypes
         DEF Steps, Creates, Enrolling, IssueRegistrationSession, NameOwner,
             RefuseVerification, ActivateIdentity, CompleteVerification,
             OfferToken, OfferUnstored, RefuseLink, Reactivate,
             IssueRecoverySession, CompleteRecovery, PersistAttempt,
             IssueOidcSession, CompleteCallback, MarkExpired, Goto, TokenTypeOK,
             Registering
    <3> QED BY <3>1 DEF AccountOf, Registering
  <2> QED
    BY <2>1, <2>2, <2>3, <2>4, <2>5, <2>6, <2>7, <2>8, ActsOrWorld, WorldIsStill,
       OneMoves
<1> QED BY <1>2, <1>3, <1>4, <1>5, <1>6 DEF RegisterInv

LEMMA RegisterInvariant == AccountsSpec => []RegisterInv
<1>1. TokenInit => RegisterInv
  <2> SUFFICES ASSUME TokenInit PROVE RegisterInv
    OBVIOUS
  <2>1. ASSUME NEW i \in enrolledIdentities
        PROVE  i \in Identity /\ accounts[i] # "absent"
    <3>1. i \in Before /\ i \in Identity
      BY ImportedAssumption, LinkedAssumption
         DEF TokenInit, enrolledIdentities, Before, Credential
    <3> QED BY <3>1 DEF TokenInit
  <2>2. \A r \in Request : pc[r] = "idle" /\ ~ Issued(r)
    BY DEF TokenInit, Issued, NoSession
  <2> QED BY <2>1, <2>2 DEF RegisterInv, AccountOf, Registering
<1> QED BY <1>1, TypeInvariant, GivenInvariant, RegisterStep, PTL DEF AccountsSpec

-----------------------------------------------------------------------------
(* Which statements send a token, redeem one, or insert a session.         *)

Sends(r)    == NameOwner(r) \/ OfferToken(r) \/ OfferUnstored(r)
Inserts(r)  ==
  IssueRegistrationSession(r) \/ IssueRecoverySession(r) \/ IssueOidcSession(r)
Shows(r)    ==
  Creates(r) \/ Enrolling(r) \/ Sends(r) \/ Accepts(r) \/ Inserts(r)

LEMMA QuietSteps ==
  ASSUME [AccountsNext]_tokenVars
  PROVE  \/ UNCHANGED <<accounts, credentials, linked, sessions, sent, issuedTo,
                        accepted, unverified>>
         \/ \E r \in Request : Shows(r)
<1>1. World => UNCHANGED <<accounts, credentials, linked, sessions, sent, issuedTo,
                           accepted, unverified>>
  BY DEF World, InitRegistration, InitRecovery, FlowExpires, tokenVars, tables, tokens
<1>2. ASSUME NEW r \in Request, Reads(r) \/ Steps(r)
      PROVE  \/ UNCHANGED <<accounts, credentials, linked, sessions, sent, issuedTo,
                            accepted, unverified>>
             \/ Shows(r)
  BY <1>2, ReadsOnly
     DEF Steps, Shows, Creates, Enrolling, Sends, Accepts, Inserts,
         CompleteRegistration, InitVerification, RefuseVerification,
         CompleteVerification, RefuseLink, CompleteRecovery, PersistAttempt,
         CompleteCallback, MarkExpired, tables, tokens
<1> QED BY <1>1, <1>2, ActsOrWorld

\* What sending leaves.
LEMMA Sending ==
  ASSUME TypeInv, PlaceInv, NEW r \in Request, Sends(r)
  PROVE  /\ sent' = sent \cup {r}
         /\ issuedTo'[r] = draft[r].identity
         /\ pc[r] \in {"owner", "offer"} /\ pc'[r] = "done"
         /\ target' = target
         /\ Exists(target[r])
         /\ flows[target[r]].type \in {"verification", "recovery"}
         /\ UNCHANGED <<accounts, credentials, linked, sessions, accepted, unverified>>
<1> TokenTypeOK
  BY DEF TypeInv
<1>1. /\ pc[r] \in {"owner", "offer"} /\ Send(r, draft[r].identity) /\ Finish(r)
      /\ target' = target
      /\ UNCHANGED <<accounts, credentials, linked, sessions, accepted, unverified>>
  BY DEF Sends, NameOwner, OfferToken, OfferUnstored, tables
<1>2. sent' = sent \cup {r} /\ issuedTo'[r] = draft[r].identity
  BY <1>1 DEF Send, TokenTypeOK
<1>3. pc'[r] = "done"
  BY <1>1, FinishTypes
<1>4. Exists(target[r]) /\ flows[target[r]].type \in {"verification", "recovery"}
  BY <1>1 DEF PlaceInv, PlaceOf, AtRecovery
<1> QED BY <1>1, <1>2, <1>3, <1>4

\* What redeeming leaves.
LEMMA Redeeming ==
  ASSUME TypeInv, PlaceInv, NEW r \in Request, Accepts(r)
  PROVE  /\ accepted' = accepted \cup
              {[request |-> r, token |-> given[r], type |-> copy[r].type]}
         /\ pc[r] \in {"verify", "use"}
         /\ pc'[r] \in {"verified", "recovery_session"}
         /\ copy[r].type = flows[target[r]].type
         /\ copy[r].type = IF pc[r] = "use" THEN "recovery" ELSE "verification"
         /\ pc'[r] = "recovery_session" <=> pc[r] = "use"
         /\ given[r] = copy[r].ui.token /\ given[r] # NoToken
         /\ target' = target /\ given' = given
         /\ UNCHANGED <<flows, credentials, linked, sessions, sent, issuedTo, unverified>>
<1> TokenTypeOK
  BY DEF TypeInv
<1>1. PlaceOf(r)
  BY DEF PlaceInv
<1>2. CASE ActivateIdentity(r)
  BY <1>1, <1>2 DEF ActivateIdentity, Verifiable, Accept, Goto, PlaceOf,
     AtVerification, TokenTypeOK
<1>3. CASE Reactivate(r)
  BY <1>1, <1>3 DEF Reactivate, Usable, Accept, Goto, PlaceOf, AtRecovery, TokenTypeOK
<1> QED BY <1>2, <1>3 DEF Accepts

\* The statements that show and neither send nor redeem.
LEMMA Quietly ==
  ASSUME NEW r \in Request, Creates(r) \/ Enrolling(r) \/ Inserts(r)
  PROVE  UNCHANGED <<sent, issuedTo, accepted, target>>
  BY DEF Inserts, Creates, Enrolling, CreateAccount, ProvisionIdentity,
     AddCredential, LinkSubject, IssueRegistrationSession, IssueRecoverySession,
     IssueOidcSession, tokens

LEMMA RedeemStep ==
  TypeInv /\ PlaceInv /\ RedeemInv /\ [AccountsNext]_tokenVars => RedeemInv'
<1> SUFFICES ASSUME TypeInv, PlaceInv, RedeemInv, [AccountsNext]_tokenVars
             PROVE  RedeemInv'
  OBVIOUS
<1> TokenTypeOK /\ Grows
  BY StepGrows DEF TypeInv
<1>1. ASSUME NEW f \in Flow, NEW row \in Row, TokenAt(f, row, target, pc)
      PROVE  TokenAt(f, row, target', pc')
  <2>1. CASE row.ui.token = NoToken
    BY <2>1 DEF TokenAt
  <2>2. CASE row.ui.token # NoToken
    <3>1. row.ui.token \in Request
      BY <2>2 DEF Row, RowOf, UI, Token
    <3> QED BY <1>1, <3>1, LateMoves DEF TokenAt, Settled
  <2> QED BY <2>1, <2>2
<1>2. \A r \in Request : pc[r] # "verification" => target'[r] = target[r]
  BY LateMoves
<1>3. ASSUME NEW f \in Flow PROVE TokenAt(f, flows'[f], target', pc')
  <2>1. TokenAt(f, flows[f], target', pc')
    BY <1>1 DEF RedeemInv, TokenTypeOK
  <2>2. CASE flows'[f] = flows[f]
    BY <2>1, <2>2
  <2>3. CASE Ended(f)
    BY <2>1, <2>3 DEF Ended, TokenAt
  <2>4. ASSUME NEW r \in Request, InitVerification(r), target'[r] = f,
               flows'[f].ui.token = r
        PROVE  TokenAt(f, flows'[f], target', pc')
    BY <2>4 DEF InitVerification, Goto, TokenAt, Settled, TokenTypeOK
  <2>5. ASSUME NEW r \in Request, target[r] = f, Sends(r), flows'[f].ui.token = r
        PROVE  TokenAt(f, flows'[f], target', pc')
    BY <2>5, Sending DEF TokenAt, Settled
  <2>6. CASE flows'[f].ui.token = NoToken
    BY <2>6 DEF TokenAt
  <2>7. CASE Created(f)
    BY <2>4, <2>6, <2>7 DEF Created
  <2>8. ASSUME NEW r \in Request, target[r] = f,
               GivenOwner(f, r) \/ Offered(f, r) \/ Completed(f, r)
        PROVE  TokenAt(f, flows'[f], target', pc')
    BY <2>5, <2>6, <2>8 DEF GivenOwner, Offered, Completed, Sends
  <2>9. ASSUME NEW r \in Request, target[r] = f, TakenBack(f, r)
        PROVE  TokenAt(f, flows'[f], target', pc')
    <3>1. TokenAt(f, copy[r], target, pc)
      BY <2>9 DEF TakenBack, PersistAttempt, RedeemInv
    <3>2. TokenAt(f, copy[r], target', pc')
      BY <1>1, <3>1, Locals
    <3> QED BY <2>9, <3>2 DEF TakenBack, TokenAt
  <2> QED BY <2>2, <2>3, <2>7, <2>8, <2>9, RowWrites DEF Writes
<1>4. ASSUME NEW r \in Request, pc'[r] \in {"verify", "use", "persist"}
      PROVE  TokenAt(target'[r], copy'[r], target', pc')
  <2>1. CASE Still(r)
    BY <1>1, <1>4, <2>1, Locals DEF Still, RedeemInv
  <2>2. CASE Reads(r)
    <3>1. copy'[r] = flows[target[r]] /\ target' = target
      BY <1>4, <2>2, FinishTypes, ReadsOnly
         DEF Reads, Submit, SubmitRegistration, SubmitVerification,
             SubmitRecovery, SubmitLink, SubmitInitiate, SubmitCallback,
             Arrive, ReadRegistration, ReadVerification, ReadForRequest,
             ReadForUse, GetFlow, ReadRegistrationPolicy, CheckIdentifier,
             LookupIdentity, ReadForInitiate, ReadForCallback, FindSubject,
             Abandon, Goto, TokenTypeOK
    <3>2. target[r] \in Flow /\ flows[target[r]] \in Row
      BY DEF TokenTypeOK
    <3>3. TokenAt(target[r], flows[target[r]], target', pc')
      BY <1>1, <3>2 DEF RedeemInv
    <3> QED BY <3>1, <3>3
  <2>3. CASE Steps(r)
    <3>1. pc'[r] \notin {"verify", "use", "persist"}
      BY <2>3, FinishTypes
         DEF Steps, CreateAccount, AddCredential, CompleteRegistration,
             AfterRegistration, IssueRegistrationSession, InitVerification,
             NameOwner, RefuseVerification, ActivateIdentity,
             CompleteVerification, OfferToken, OfferUnstored, RefuseLink,
             Reactivate, IssueRecoverySession, CompleteRecovery,
             PersistAttempt, ProvisionIdentity, LinkSubject, IssueOidcSession,
             CompleteCallback, MarkExpired, Goto, TokenTypeOK
    <3> QED BY <1>4, <3>1
  <2> QED BY <2>1, <2>2, <2>3, ActsOrWorld, WorldIsStill, OneMoves
<1>5. ASSUME NEW t \in sent'
      PROVE  /\ Exists(target[t])'
             /\ flows'[target'[t]].type \in {"verification", "recovery"}
  <2>1. t \in Request
    BY TypeStep DEF TokenTypeOK
  <2>2. /\ Exists(target[t]) /\ flows[target[t]].type \in {"verification", "recovery"}
        /\ target'[t] = target[t]
    <3>1. CASE t \in sent
      BY <1>2, <2>1, <3>1 DEF RedeemInv, TypeInv, WhereInv
    <3>2. ASSUME t \notin sent, NEW r \in Request, Sends(r)
          PROVE  t = r
      BY <3>2, Sending
    <3>3. t \notin sent => \E r \in Request : Sends(r)
      BY QuietSteps, Redeeming, Quietly DEF Shows
    <3> QED BY <3>1, <3>2, <3>3, Sending
  <2>3. target[t] \in Flow
    BY <2>1 DEF TokenTypeOK
  <2> QED BY <2>2, <2>3 DEF Grows, Exists
<1>6. ASSUME NEW a \in accepted' PROVE pc'[a.request] \in Redeemed
  <2>1. CASE a \in accepted
    BY <2>1, LateMoves DEF RedeemInv, TokenTypeOK, Acceptance
  <2>2. CASE a \notin accepted
    <3>1. PICK r \in Request : Accepts(r)
      BY <2>2, QuietSteps, Sending, Quietly DEF Shows
    <3> QED BY <2>2, <3>1, Redeeming DEF Redeemed
  <2> QED BY <2>1, <2>2
<1>7. ASSUME NEW r \in Request, pc'[r] \in Recovering
      PROVE  [request |-> r, token |-> given'[r], type |-> "recovery"] \in accepted'
  <2>1. \/ pc[r] \in Recovering /\ given'[r] = given[r]
        \/ Reactivate(r)
    <3>1. CASE Still(r)
      BY <1>7, <3>1 DEF Still
    <3>2. CASE Reads(r)
      BY <1>7, <3>2, FinishTypes
         DEF Reads, Submit, SubmitRegistration, SubmitVerification,
             SubmitRecovery, SubmitLink, SubmitInitiate, SubmitCallback,
             Arrive, ReadRegistration, ReadVerification, ReadForRequest,
             ReadForUse, GetFlow, ReadRegistrationPolicy, CheckIdentifier,
             LookupIdentity, ReadForInitiate, ReadForCallback, FindSubject,
             Abandon, Goto, TokenTypeOK, Recovering
    <3>3. CASE Steps(r)
      BY <1>7, <3>3, FinishTypes
         DEF Steps, CreateAccount, AddCredential, CompleteRegistration,
             AfterRegistration, IssueRegistrationSession, InitVerification,
             NameOwner, RefuseVerification, ActivateIdentity,
             CompleteVerification, OfferToken, OfferUnstored, RefuseLink,
             IssueRecoverySession, CompleteRecovery, PersistAttempt,
             ProvisionIdentity, LinkSubject, IssueOidcSession,
             CompleteCallback, MarkExpired, Goto, TokenTypeOK, Recovering
    <3> QED BY <3>1, <3>2, <3>3, ActsOrWorld, WorldIsStill, OneMoves
  <2>2. CASE Reactivate(r)
    <3>1. pc[r] = "use" /\ Accepts(r)
      BY <2>2 DEF Reactivate, Usable, Accepts
    <3> QED BY <3>1, Redeeming
  <2> QED BY <2>1, <2>2 DEF RedeemInv, Grows
<1> QED BY <1>3, <1>4, <1>5, <1>6, <1>7 DEF RedeemInv

LEMMA RedeemInvariant == AccountsSpec => []RedeemInv
<1>1. TokenInit => RedeemInv
  BY BlankIsRow DEF TokenInit, RedeemInv, TokenAt, Recovering
<1> QED BY <1>1, TypeInvariant, PlaceInvariant, RedeemStep, PTL DEF AccountsSpec

-----------------------------------------------------------------------------
(* The state as the promise sees it, from one step to the next.            *)

PromiseInv == TypeInv /\ PlaceInv /\ TokenInv /\ GivenInv /\ RegisterInv /\ RedeemInv

OfferOf(t) ==
  [token |-> t, flow |-> target[t], type |-> flows[target[t]].type,
   identity |-> issuedTo[t]]

RedemptionOf(a) ==
  [request |-> a.request,
   offer |-> [token |-> a.token, flow |-> target[a.request], type |-> a.type,
              identity |-> issuedTo[a.token]]]

SessionAs(r) ==
  [request |-> r, identity |-> sessions[r].identity,
   kind |-> Kind(sessions[r].amr)]

\* What was sent, redeemed and issued stays as it was.
LEMMA ImagesStay ==
  ASSUME PromiseInv, [AccountsNext]_tokenVars
  PROVE  /\ \A t \in sent : OfferOf(t)' = OfferOf(t)
         /\ \A a \in accepted : RedemptionOf(a)' = RedemptionOf(a)
         /\ \A r \in Request : Issued(r) => Issued(r)' /\ SessionAs(r)' = SessionAs(r)
<1> TypeInv /\ TokenTypeOK /\ Grows
  BY StepGrows DEF PromiseInv, TypeInv
<1>1. ASSUME NEW t \in sent PROVE OfferOf(t)' = OfferOf(t)
  <2>1. t \in Request /\ target[t] \in Flow /\ Exists(target[t])
    BY DEF TokenTypeOK, PromiseInv, RedeemInv
  <2>2. target'[t] = target[t] /\ issuedTo'[t] = issuedTo[t]
    BY <2>1, LateMoves DEF TypeInv, WhereInv, Grows
  <2>3. flows'[target[t]].type = flows[target[t]].type
    BY <2>1 DEF Grows
  <2> QED BY <2>2, <2>3 DEF OfferOf
<1>2. ASSUME NEW a \in accepted PROVE RedemptionOf(a)' = RedemptionOf(a)
  <2>1. a.request \in Request /\ a.token \in sent /\ pc[a.request] # "verification"
    BY DEF TokenTypeOK, Acceptance, PromiseInv, RedeemInv, TokenInv, Redeemed
  <2>2. target'[a.request] = target[a.request] /\ issuedTo'[a.token] = issuedTo[a.token]
    BY <2>1, LateMoves DEF Grows
  <2> QED BY <2>2 DEF RedemptionOf
<1>3. ASSUME NEW r \in Request, Issued(r)
      PROVE  Issued(r)' /\ SessionAs(r)' = SessionAs(r)
  BY <1>3 DEF Grows, Issued, SessionAs
<1> QED BY <1>1, <1>2, <1>3

LEMMA Images ==
  /\ offers = {OfferOf(t) : t \in sent}
  /\ offers' = {OfferOf(t)' : t \in sent'}
  /\ redemptions = {RedemptionOf(a) : a \in accepted}
  /\ redemptions' = {RedemptionOf(a)' : a \in accepted'}
  /\ issuedSessions = {SessionAs(r) : r \in {q \in Request : Issued(q)}}
  /\ issuedSessions' = {SessionAs(r)' : r \in {q \in Request : Issued(q)'}}
  BY DEF offers, OfferOf, redemptions, RedemptionOf, issuedSessions, SessionAs, Issued

\* A variable that is left alone does not show.
LEMMA SameImages ==
  ASSUME PromiseInv, [AccountsNext]_tokenVars
  PROVE  /\ sent' = sent => offers' = offers
         /\ accepted' = accepted => redemptions' = redemptions
         /\ sessions' = sessions => issuedSessions' = issuedSessions
         /\ UNCHANGED <<credentials, linked>> =>
              enrolledIdentities' = enrolledIdentities
<1>1. sent' = sent => offers' = offers
  BY ImagesStay, Images
<1>2. accepted' = accepted => redemptions' = redemptions
  BY ImagesStay, Images
<1>3. sessions' = sessions => issuedSessions' = issuedSessions
  BY DEF issuedSessions, Issued
<1>4. UNCHANGED <<credentials, linked>> => enrolledIdentities' = enrolledIdentities
  BY DEF enrolledIdentities
<1> QED BY <1>1, <1>2, <1>3, <1>4

LEMMA OneMoreSession ==
  ASSUME PromiseInv, [AccountsNext]_tokenVars, NEW r \in Request,
         ~ Issued(r), Issued(r)', \A q \in Request : q # r => sessions'[q] = sessions[q]
  PROVE  issuedSessions' = issuedSessions \cup {SessionAs(r)'}
<1>1. {q \in Request : Issued(q)'} = {q \in Request : Issued(q)} \cup {r}
  BY DEF Issued
<1>2. \A q \in {p \in Request : Issued(p)} : SessionAs(q)' = SessionAs(q)
  BY ImagesStay
<1> QED BY <1>1, <1>2, Images

-----------------------------------------------------------------------------
(* The steps that show.                                                    *)

LEMMA CreationShows ==
  ASSUME PromiseInv, [AccountsNext]_tokenVars, NEW r \in Request, Creates(r)
  PROVE  Promise!Next
<1> TokenTypeOK
  BY DEF PromiseInv, TypeInv
<1>1. PICK i \in Identity, s \in {"active", "pending_verification"} :
        /\ accounts[i] = "absent"
        /\ accounts' = [accounts EXCEPT ![i] = s]
        /\ s = "active" => unverified' = unverified \cup {i}
        /\ s # "active" => unverified' = unverified
  BY Creation
<1>2. UNCHANGED <<sessions, credentials, linked, sent, accepted>>
  BY DEF Creates, CreateAccount, ProvisionIdentity
<1>3. UNCHANGED <<enrolledIdentities, offers, redemptions, issuedSessions>>
  BY <1>2, SameImages
<1>4. Promise!Create(i)
  BY <1>1, <1>3 DEF Promise!Create
<1> QED BY <1>4 DEF Promise!Next

LEMMA EnrolmentShows ==
  ASSUME PromiseInv, [AccountsNext]_tokenVars, NEW r \in Request, Enrolling(r)
  PROVE  Promise!Next
<1> DEFINE i == draft[r].identity
<1>1. /\ enrolledIdentities' = enrolledIdentities \cup {i}
      /\ i \in Identity
      /\ pc[r] \in {"credential", "link"}
      /\ UNCHANGED <<accounts, sessions, sent, accepted, unverified>>
  BY Enrolls DEF PromiseInv
<1>2. UNCHANGED <<offers, redemptions, issuedSessions>>
  BY <1>1, SameImages
<1>3. accounts[i] # "absent" /\ i \notin enrolledIdentities
  BY <1>1 DEF PromiseInv, RegisterInv, AccountOf, Registering
<1> HIDE DEF i
<1>4. Promise!Enroll(i)
  BY <1>1, <1>2, <1>3 DEF Promise!Enroll
<1> QED BY <1>1, <1>4 DEF Promise!Next

LEMMA SendingShows ==
  ASSUME PromiseInv, [AccountsNext]_tokenVars, NEW r \in Request, Sends(r)
  PROVE  Promise!Next
<1> DEFINE o == OfferOf(r)'
<1> TypeInv /\ PlaceInv /\ TokenTypeOK /\ Grows
  BY StepGrows DEF PromiseInv, TypeInv
<1>1. /\ sent' = sent \cup {r}
      /\ issuedTo'[r] = draft[r].identity
      /\ pc[r] \in {"owner", "offer"}
      /\ target' = target
      /\ Exists(target[r])
      /\ flows[target[r]].type \in {"verification", "recovery"}
      /\ UNCHANGED <<accounts, credentials, linked, sessions, accepted, unverified>>
  BY Sending
<1>2. UNCHANGED <<enrolledIdentities, redemptions, issuedSessions>>
  BY <1>1, SameImages
<1>3. o = [token |-> r, flow |-> target[r], type |-> flows[target[r]].type,
           identity |-> draft[r].identity]
  <2>1. target[r] \in Flow
    BY DEF TokenTypeOK
  <2>2. flows'[target[r]].type = flows[target[r]].type
    BY <1>1, <2>1 DEF Grows
  <2> QED BY <1>1, <2>2 DEF OfferOf
<1>4. o \in Promise!Offer
  BY <1>1, <1>3, Locals DEF Promise!Offer, Promise!Owner, Owner
<1>5. o.token = r /\ o.identity = draft[r].identity
  BY <1>3
<1>6. offers' = offers \cup {o}
  BY <1>1, ImagesStay, Images
<1>7. \A p \in offers : p.token # o.token
  <2>1. r \notin sent
    BY <1>1 DEF TypeInv, WhereInv
  <2> QED BY <1>5, <2>1 DEF offers
<1>8. draft[r].identity \in enrolledIdentities \cup {NoIdentity}
  BY <1>1 DEF PromiseInv, RegisterInv, AccountOf, Registering
<1> HIDE DEF o
<1>9. Promise!MakeToken(o)
  BY <1>1, <1>2, <1>5, <1>6, <1>7, <1>8 DEF Promise!MakeToken
<1> QED BY <1>4, <1>9 DEF Promise!Next

LEMMA RedemptionShows ==
  ASSUME PromiseInv, [AccountsNext]_tokenVars, NEW r \in Request, Accepts(r)
  PROVE  Promise!Next
<1> DEFINE t == given[r]
           o == OfferOf(t)
<1>0. PICK a : a = [request |-> r, token |-> t, type |-> copy[r].type]
  OBVIOUS
<1> TypeInv /\ PlaceInv /\ TokenInv /\ TokenTypeOK
  BY DEF PromiseInv, TypeInv
<1>1. /\ accepted' = accepted \cup {a}
      /\ a.request = r /\ a.token = t /\ a.type = copy[r].type
      /\ pc[r] \in {"verify", "use"}
      /\ copy[r].type = flows[target[r]].type
      /\ copy[r].type \in {"verification", "recovery"}
      /\ t = copy[r].ui.token /\ t # NoToken
      /\ target' = target
      /\ UNCHANGED <<flows, credentials, linked, sessions, sent, issuedTo, unverified>>
  BY <1>0, Redeeming
<1>2. UNCHANGED <<enrolledIdentities, offers, issuedSessions>>
  BY <1>1, SameImages
<1>3. PICK i \in Identity :
        /\ t \in sent /\ issuedTo[t] = i
        /\ accounts' = [accounts EXCEPT ![i] = "active"]
  <2>1. CASE ActivateIdentity(r)
    <3>1. copy[r].identity \in Identity
      BY <2>1, Locals DEF ActivateIdentity, Verifiable, Owner
    <3> QED BY <2>1, <3>1, AcceptedIsSound DEF ActivateIdentity, UpdateIdentityState
  <2>2. CASE Reactivate(r)
    <3>1. copy[r].ui.owner \in Identity
      BY <2>2, Locals DEF Reactivate, Owner
    <3> QED BY <2>2, <3>1, AcceptedIsSound DEF Reactivate, UpdateIdentityState
  <2> QED BY <2>1, <2>2 DEF Accepts
<1>4. target[t] = target[r]
  BY <1>1 DEF PromiseInv, RedeemInv, TokenAt
<1>5. o = [token |-> t, flow |-> target[r], type |-> copy[r].type, identity |-> i]
  BY <1>1, <1>3, <1>4 DEF OfferOf
<1>6. o \in offers
  BY <1>3, Images
<1>7. o \in Promise!Offer /\ o.identity = i /\ i # NoIdentity
  <2>1. t \in Request /\ target[r] \in Flow /\ i \in Owner
    BY <1>1, Locals DEF Token, Owner
  <2> QED BY <1>1, <1>5, <2>1, NoIdentityAssumption
       DEF Promise!Offer, Promise!Owner, Owner
<1>8. RedemptionOf(a)' = [request |-> r, offer |-> o]
  BY <1>1, <1>3, <1>5 DEF RedemptionOf
<1>9. redemptions' = redemptions \cup {[request |-> r, offer |-> o]}
  BY <1>1, <1>8, ImagesStay, Images
<1>10. \A d \in redemptions : d.request # r
  BY <1>1 DEF redemptions, PromiseInv, RedeemInv, Redeemed
<1> HIDE DEF o
<1>11. Promise!Redeem(r, o)
  BY <1>1, <1>2, <1>3, <1>6, <1>7, <1>9, <1>10 DEF Promise!Redeem
<1> QED BY <1>7, <1>11 DEF Promise!Next

LEMMA RegistrationSessionShows ==
  ASSUME PromiseInv, [AccountsNext]_tokenVars, NEW r \in Request,
         IssueRegistrationSession(r)
  PROVE  Promise!Next
<1> DEFINE i == draft[r].identity
<1> TypeInv /\ TokenTypeOK
  BY DEF PromiseInv, TypeInv
<1>1. /\ pc[r] = "session" /\ i \in Identity /\ Issued(r)'
      /\ sessions'[r].identity = i /\ sessions'[r].amr = <<>>
  BY SessionRow
<1>2. UNCHANGED <<accounts, credentials, linked, sent, accepted, unverified>>
  BY DEF IssueRegistrationSession, tokens
<1>3. UNCHANGED <<enrolledIdentities, offers, redemptions>>
  BY <1>2, SameImages
<1>4. ~ Issued(r)
  BY <1>1 DEF TypeInv, WhereInv
<1>5. \A q \in Request : q # r => sessions'[q] = sessions[q]
  BY DEF IssueRegistrationSession, CreateSession, TokenTypeOK
<1>6. SessionAs(r)' = [request |-> r, identity |-> i, kind |-> "registration"]
  BY <1>1, Kinds DEF SessionAs, Kind
<1>7. issuedSessions' = issuedSessions \cup
        {[request |-> r, identity |-> i, kind |-> "registration"]}
  BY <1>1, <1>4, <1>5, <1>6, OneMoreSession
<1>8. i \in unverified \cap enrolledIdentities
  BY <1>1 DEF PromiseInv, GivenInv, ActiveOf, RegisterInv, AccountOf, Registering
<1>9. \A s \in issuedSessions :
        s.request # r /\ ~ (s.identity = i /\ s.kind = "registration")
  <2>1. \A q \in Request :
          Issued(q) /\ sessions[q].amr = <<>> => sessions[q].identity # i
    BY <1>1 DEF PromiseInv, RegisterInv, Registering
  <2>2. \A q \in Request :
          Kind(sessions[q].amr) = "registration" => sessions[q].amr = <<>>
    BY DEF TokenTypeOK, SessionOf, AMR, Kind
  <2> QED BY <1>4, <2>1, <2>2 DEF issuedSessions
<1> HIDE DEF i
<1>10. Promise!IssueRegistered(r, i)
  BY <1>2, <1>3, <1>7, <1>8, <1>9 DEF Promise!IssueRegistered, Promise!Issue
<1> QED BY <1>1, <1>10 DEF Promise!Next

LEMMA RecoverySessionShows ==
  ASSUME PromiseInv, [AccountsNext]_tokenVars, NEW r \in Request,
         IssueRecoverySession(r)
  PROVE  Promise!Next
<1> DEFINE o == [token |-> given[r], flow |-> target[r], type |-> "recovery",
                 identity |-> issuedTo[given[r]]]
<1> TypeInv /\ TokenTypeOK
  BY DEF PromiseInv, TypeInv
<1>1. /\ Issued(r)'
      /\ sessions'[r].identity = copy[r].ui.owner /\ sessions'[r].amr = RecoveryAMR
  BY SessionRow
<1>2. UNCHANGED <<accounts, credentials, linked, sent, accepted, unverified>>
  BY DEF IssueRecoverySession, tokens
<1>3. UNCHANGED <<enrolledIdentities, offers, redemptions>>
  BY <1>2, SameImages
<1>4. pc[r] = "recovery_session"
  BY DEF IssueRecoverySession
<1>5. ~ Issued(r)
  BY <1>4 DEF TypeInv, WhereInv
<1>6. \A q \in Request : q # r => sessions'[q] = sessions[q]
  BY DEF IssueRecoverySession, CreateSession, TokenTypeOK
<1>7. given[r] \in sent /\ issuedTo[given[r]] = copy[r].ui.owner
  BY <1>4 DEF PromiseInv, TokenInv, Recovering
<1>8. o \in Promise!Offer
  BY <1>7 DEF Promise!Offer, Promise!Owner, Owner, TokenTypeOK
<1>9. [request |-> r, offer |-> o] \in redemptions
  <2>1. PICK a \in accepted :
          a.request = r /\ a.token = given[r] /\ a.type = "recovery"
    BY <1>4 DEF PromiseInv, RedeemInv, Recovering
  <2>2. RedemptionOf(a) = [request |-> r, offer |-> o]
    BY <2>1 DEF RedemptionOf
  <2> QED BY <2>1, <2>2, Images
<1>10. SessionAs(r)' = [request |-> r, identity |-> o.identity, kind |-> "recovery"]
  BY <1>1, <1>7 DEF SessionAs, Kind
<1>11. issuedSessions' = issuedSessions \cup
         {[request |-> r, identity |-> o.identity, kind |-> "recovery"]}
  BY <1>1, <1>5, <1>6, <1>10, OneMoreSession
<1>12. \A s \in issuedSessions : s.request # r
  BY <1>5 DEF issuedSessions
<1>13. o.type = "recovery"
  OBVIOUS
<1> HIDE DEF o
<1>14. Promise!IssueRecovered(r, o)
  BY <1>2, <1>3, <1>9, <1>11, <1>12, <1>13 DEF Promise!IssueRecovered, Promise!Issue
<1> QED BY <1>8, <1>14 DEF Promise!Next

LEMMA ProviderSessionShows ==
  ASSUME PromiseInv, [AccountsNext]_tokenVars, NEW r \in Request,
         IssueOidcSession(r)
  PROVE  Promise!Next
<1> DEFINE i == draft[r].identity
<1> TypeInv /\ TokenTypeOK
  BY DEF PromiseInv, TypeInv
<1>1. /\ pc[r] = "oidc_session" /\ i \in Identity /\ Issued(r)'
      /\ sessions'[r].identity = i /\ sessions'[r].amr = OidcAMR
  BY SessionRow
<1>2. UNCHANGED <<accounts, credentials, linked, sent, accepted, unverified>>
  BY DEF IssueOidcSession, tokens
<1>3. UNCHANGED <<enrolledIdentities, offers, redemptions>>
  BY <1>2, SameImages
<1>4. ~ Issued(r)
  BY <1>1 DEF TypeInv, WhereInv
<1>5. \A q \in Request : q # r => sessions'[q] = sessions[q]
  BY DEF IssueOidcSession, CreateSession, TokenTypeOK
<1>6. SessionAs(r)' = [request |-> r, identity |-> i, kind |-> "provider"]
  BY <1>1, Kinds DEF SessionAs, Kind
<1>7. issuedSessions' = issuedSessions \cup
        {[request |-> r, identity |-> i, kind |-> "provider"]}
  BY <1>1, <1>4, <1>5, <1>6, OneMoreSession
<1>8. i \in enrolledIdentities /\ accounts[i] = "active"
  BY <1>1 DEF PromiseInv, GivenInv, ActiveOf, GivenOf, Confirming
<1>9. \A s \in issuedSessions : s.request # r
  BY <1>4 DEF issuedSessions
<1> HIDE DEF i
<1>10. Promise!IssueByProvider(r, i)
  BY <1>2, <1>3, <1>7, <1>8, <1>9 DEF Promise!IssueByProvider, Promise!Issue
<1> QED BY <1>1, <1>10 DEF Promise!Next

LEMMA AccountsRefine ==
  PromiseInv /\ [AccountsNext]_tokenVars => [Promise!Next]_(Promise!vars)
<1> SUFFICES ASSUME PromiseInv, [AccountsNext]_tokenVars
             PROVE  [Promise!Next]_(Promise!vars)
  OBVIOUS
<1>1. CASE UNCHANGED <<accounts, credentials, linked, sessions, sent, issuedTo,
                       accepted, unverified>>
  BY <1>1, SameImages DEF Promise!vars
<1>2. ASSUME NEW r \in Request, Shows(r) PROVE Promise!Next
  BY <1>2, CreationShows, EnrolmentShows, SendingShows, RedemptionShows,
     RegistrationSessionShows, RecoverySessionShows, ProviderSessionShows
     DEF Shows, Inserts
<1> QED BY <1>1, <1>2, QuietSteps

(* Whatever copies of rows requests write over each other, whatever fails  *)
(* and wherever a request stops, registering, verifying, recovering and    *)
(* OIDC callbacks do nothing that AccountsPromise does not allow.          *)
THEOREM AccountsKeepThePromise == AccountsSpec => KeepsTheAccountsPromise
<1>1. TokenInit => Promise!Init
  <2> SUFFICES ASSUME TokenInit PROVE Promise!Init
    OBVIOUS
  <2>1. /\ enrolledIdentities \subseteq Identity
        /\ enrolledIdentities = Before
    BY ImportedAssumption, LinkedAssumption
       DEF TokenInit, enrolledIdentities, Before, Credential
  <2>2. accounts = [i \in Identity |->
                      IF i \in enrolledIdentities THEN "active" ELSE "absent"]
    BY <2>1 DEF TokenInit
  <2>3. offers = {} /\ redemptions = {} /\ issuedSessions = {}
    BY DEF TokenInit, offers, redemptions, issuedSessions, Issued, NoSession
  <2> QED BY <2>1, <2>2, <2>3 DEF TokenInit, Promise!Init
<1> QED
  BY <1>1, AccountsRefine, TypeInvariant, PlaceInvariant, TokenInvariant,
     GivenInvariant, RegisterInvariant, RedeemInvariant, PTL
     DEF AccountsSpec, KeepsTheAccountsPromise, Promise!Spec, PromiseInv
=============================================================================
