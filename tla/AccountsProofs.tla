---------------------------- MODULE AccountsProofs ----------------------------
(***************************************************************************)
(* Proofs about Accounts: registration, verification, recovery and the     *)
(* OIDC requests that reach their flows, over the same tables, for any set *)
(* of requests, flows, identities, methods, identifiers, policies and      *)
(* imported credentials.                                                   *)
(***************************************************************************)
EXTENDS Accounts, TLAPS

-----------------------------------------------------------------------------
(* Types, and where a request is when it has what.                         *)

\* A registration, or an OIDC callback, that has made its identity.
Registering == {"credential", "complete", "session", "verification", "owner", "link"}

\* An OIDC callback that knows whose session it gives.
Confirming == {"oidc_session", "oidc_complete"}

\* A recovery whose token was accepted.
Recovering == {"recovery_session", "recovered"}

WhereInv ==
  /\ \A r \in Request :
       /\ pc[r] \in {"identity", "credential"} =>
            draft[r].claim \in Method \X Identifier
       /\ pc[r] \in Registering \cup Confirming => draft[r].identity \in Identity
       /\ pc[r] \in Recovering => copy[r].ui.owner \in Identity
       /\ Issued(r) => pc[r] \in {"recovered", "oidc_complete", "done"}
  /\ \A t \in sent : pc[t] = "done"

TypeInv == TokenTypeOK /\ WhereInv

LEMMA PlainIsUI ==
  ASSUME NEW phase \in Phase
  PROVE  /\ Plain(phase) \in UI
         /\ Plain(phase).token = NoToken
         /\ Plain(phase).owner = NoIdentity
         /\ \A r \in Request :
              /\ [Plain(phase) EXCEPT !.token = r] \in UI
              /\ [Plain(phase) EXCEPT !.token = r].token = r
  BY DEF Plain, UI, Token, Owner

LEMMA BlankIsRow ==
  /\ Blank \in Row
  /\ Blank.ui.token = NoToken
  /\ Blank.state = "absent"
  /\ Blank.type = "login"
  /\ Blank.identity = NoIdentity
  BY PlainIsUI DEF Blank, NoRow, Row, RowOf, FlowType, FlowState, Owner, Phase

LEMMA NoDraftIsDraft == NoDraft \in Draft
  BY DEF NoDraft, Draft, Owner

(* What the statements on a flow row leave.                                *)
LEMMA UpdateRecord ==
  ASSUME TokenTypeOK, NEW f \in Flow, NEW state \in FlowState, NEW i \in Owner,
         NEW ui \in UI, UpdateFlow(f, state, i, ui)
  PROVE  /\ flows' \in [Flow -> Row]
         /\ Exists(f)
         /\ flows'[f].type = flows[f].type
         /\ flows'[f].identity = i
         /\ flows'[f].state = state
         /\ flows'[f].ui = ui
         /\ \A g \in Flow : g # f => flows'[g] = flows[g]
<1>1. [type |-> flows[f].type, state |-> state, identity |-> i, ui |-> ui] \in Row
  BY DEF TokenTypeOK, Row, RowOf
<1> QED BY <1>1 DEF UpdateFlow, TokenTypeOK

LEMMA StateRecord ==
  ASSUME TokenTypeOK, NEW f \in Flow, NEW state \in FlowState,
         UpdateFlowState(f, state)
  PROVE  /\ flows' \in [Flow -> Row]
         /\ flows'[f].type = flows[f].type
         /\ flows'[f].identity = flows[f].identity
         /\ flows'[f].state = state
         /\ flows'[f].ui = flows[f].ui
         /\ \A g \in Flow : g # f => flows'[g] = flows[g]
  BY DEF UpdateFlowState, TokenTypeOK, Row, RowOf

LEMMA CreateRecord ==
  ASSUME TokenTypeOK, NEW f \in Flow, NEW type \in FlowType, NEW ui \in UI,
         CreateFlow(f, type, ui)
  PROVE  /\ flows' \in [Flow -> Row]
         /\ ~ Exists(f)
         /\ flows'[f].type = type
         /\ flows'[f].identity = NoIdentity
         /\ flows'[f].state = "pending"
         /\ flows'[f].ui = ui
         /\ \A g \in Flow : g # f => flows'[g] = flows[g]
<1>1. [type |-> type, state |-> "pending", identity |-> NoIdentity, ui |-> ui] \in Row
  BY DEF Row, RowOf, FlowState, Owner
<1> QED BY <1>1 DEF CreateFlow, TokenTypeOK

(* What the locals of a request are.                                       *)
LEMMA Locals ==
  ASSUME TokenTypeOK, NEW r \in Request
  PROVE  /\ target[r] \in Flow
         /\ copy[r] \in Row
         /\ copy[r].identity \in Owner
         /\ copy[r].ui \in UI
         /\ copy[r].ui.owner \in Owner
         /\ copy[r].ui.token \in Token
         /\ copy[r].type \in FlowType
         /\ draft[r] \in Draft
         /\ draft[r].identity \in Owner
         /\ given[r] \in Token
  BY DEF TokenTypeOK, Row, RowOf, UI, Draft

LEMMA States ==
  /\ {"pending", "success", "failed", "expired"} \subseteq FlowState
  /\ {"registration", "recovery", "verification"} \subseteq FlowType
  /\ {"register", "verify", "request", "pending_link", "complete"} \subseteq Phase
  BY DEF FlowState, FlowType, Phase

(* Only the request whose step it is moves, but for its flow's row.        *)
Still(r) ==
  /\ pc'[r] = pc[r]
  /\ target'[r] = target[r]
  /\ copy'[r] = copy[r]
  /\ draft'[r] = draft[r]
  /\ given'[r] = given[r]
  /\ sessions'[r] = sessions[r]
  /\ issuedTo'[r] = issuedTo[r]

World ==
  \/ \E f \in Flow : InitRegistration(f) \/ InitRecovery(f) \/ FlowExpires(f)
  \/ UNCHANGED tokenVars

LEMMA WorldIsStill == World => \A r \in Request : Still(r)
  BY DEF World, Still, InitRegistration, InitRecovery, FlowExpires, tokenVars,
     tables, locals, tokens

\* A statement that reads, or nothing at all.
Reads(r) ==
  \/ Submit(r)
  \/ ReadRegistration(r) \/ ReadVerification(r) \/ ReadForRequest(r) \/ ReadForUse(r)
  \/ ReadForInitiate(r) \/ ReadForCallback(r)
  \/ ReadRegistrationPolicy(r) \/ CheckIdentifier(r) \/ LookupIdentity(r)
  \/ FindSubject(r) \/ Abandon(r)

LEMMA ReadsOnly == \A r \in Request : Reads(r) => UNCHANGED <<tables, target, tokens>>
  BY DEF Reads, Submit, SubmitRegistration, SubmitVerification, SubmitRecovery,
         SubmitLink, SubmitInitiate, SubmitCallback, Arrive, ReadRegistration,
         ReadVerification, ReadForRequest, ReadForUse, GetFlow,
         ReadRegistrationPolicy, CheckIdentifier, LookupIdentity,
         ReadForInitiate, ReadForCallback, FindSubject, Abandon

\* A statement that writes.
Steps(r) ==
  \/ CreateAccount(r) \/ AddCredential(r) \/ CompleteRegistration(r)
  \/ IssueRegistrationSession(r)
  \/ InitVerification(r) \/ NameOwner(r)
  \/ RefuseVerification(r) \/ ActivateIdentity(r) \/ CompleteVerification(r)
  \/ OfferToken(r) \/ OfferUnstored(r) \/ RefuseLink(r)
  \/ Reactivate(r) \/ IssueRecoverySession(r) \/ CompleteRecovery(r)
  \/ PersistAttempt(r) \/ ProvisionIdentity(r) \/ LinkSubject(r)
  \/ IssueOidcSession(r) \/ CompleteCallback(r)
  \/ MarkExpired(r)

LEMMA ActsOrWorld ==
  [AccountsNext]_tokenVars => World \/ \E r \in Request : Reads(r) \/ Steps(r)
  BY DEF AccountsNext, Serve, Verify, Register, Recover, VisitByOidc, World, Reads,
         Steps

LEMMA OneMoves ==
  ASSUME TokenTypeOK, NEW r \in Request, Reads(r) \/ Steps(r)
  PROVE  \A q \in Request : q # r => Still(q)
<1> USE DEF TokenTypeOK, Still, tables, locals, tokens, Goto, Finish
<1>1. CASE Submit(r)
  BY <1>1 DEF Submit, SubmitRegistration, SubmitVerification, SubmitRecovery,
              SubmitLink, SubmitInitiate, SubmitCallback, Arrive
<1>2. CASE Reads(r) /\ ~ Submit(r)
  BY <1>2 DEF Reads, ReadRegistration, ReadVerification, ReadForRequest,
              ReadForUse, GetFlow, ReadRegistrationPolicy, CheckIdentifier,
              LookupIdentity, ReadForInitiate, ReadForCallback, FindSubject,
              Abandon
<1>3. CASE CreateAccount(r) \/ AddCredential(r) \/ CompleteRegistration(r)
           \/ IssueRegistrationSession(r)
  BY <1>3 DEF CreateAccount, AddCredential, CompleteRegistration,
     IssueRegistrationSession, CreateSession
<1>4. CASE InitVerification(r) \/ NameOwner(r) \/ RefuseVerification(r)
           \/ ActivateIdentity(r) \/ CompleteVerification(r)
  BY <1>4 DEF InitVerification, NameOwner, Send, RefuseVerification,
     ActivateIdentity, CompleteVerification
<1>5. CASE OfferToken(r) \/ OfferUnstored(r) \/ RefuseLink(r) \/ MarkExpired(r)
  BY <1>5 DEF OfferToken, OfferUnstored, Send, RefuseLink, MarkExpired
<1>6. CASE Reactivate(r) \/ IssueRecoverySession(r) \/ CompleteRecovery(r)
  BY <1>6 DEF Reactivate, IssueRecoverySession, CreateSession, CompleteRecovery
<1>7. CASE PersistAttempt(r) \/ ProvisionIdentity(r) \/ LinkSubject(r)
           \/ IssueOidcSession(r) \/ CompleteCallback(r)
  BY <1>7 DEF PersistAttempt, ProvisionIdentity, LinkSubject, IssueOidcSession,
     CreateSession, CompleteCallback
<1> QED BY <1>1, <1>2, <1>3, <1>4, <1>5, <1>6, <1>7 DEF Steps

(* A handler that returns leaves its locals well typed.                    *)
LEMMA FinishTypes ==
  ASSUME TokenTypeOK, NEW r \in Request, Finish(r)
  PROVE  /\ pc' \in [Request -> PC]
         /\ copy' \in [Request -> Row]
         /\ draft' \in [Request -> Draft]
         /\ pc'[r] = "done"
         /\ copy'[r] = Blank
  BY BlankIsRow, NoDraftIsDraft DEF TokenTypeOK, Finish, Goto, PC

LEMMA TypeStep == TypeInv /\ [AccountsNext]_tokenVars => TokenTypeOK'
<1> SUFFICES ASSUME TypeInv, [AccountsNext]_tokenVars PROVE TokenTypeOK'
  OBVIOUS
<1> TokenTypeOK
  BY DEF TypeInv
<1> USE DEF tables, locals, tokens
<1>1. ASSUME NEW f \in Flow, InitRegistration(f) \/ InitRecovery(f)
      PROVE  TokenTypeOK'
  <2>1. flows' \in [Flow -> Row]
    BY <1>1, CreateRecord, PlainIsUI, States DEF InitRegistration, InitRecovery
  <2> QED BY <1>1, <2>1 DEF TokenTypeOK, InitRegistration, InitRecovery
<1>2. ASSUME NEW f \in Flow, FlowExpires(f) PROVE TokenTypeOK'
  BY <1>2 DEF TokenTypeOK, FlowExpires, PassExpiry
<1>3. CASE UNCHANGED tokenVars
  BY <1>3 DEF TokenTypeOK, tokenVars
<1>4. ASSUME NEW r \in Request, Submit(r) PROVE TokenTypeOK'
  <2>1. PICK token \in Token, step \in PC : Arrive(r, token, step)
    BY <1>4 DEF Submit, SubmitRegistration, SubmitVerification, SubmitRecovery,
                SubmitLink, SubmitInitiate, SubmitCallback, Token, PC,
                TokenTypeOK
  <2> QED BY <2>1 DEF TokenTypeOK, Arrive, Goto
<1>5. ASSUME NEW r \in Request,
             \/ ReadRegistration(r) \/ ReadVerification(r)
             \/ ReadForRequest(r) \/ ReadForUse(r)
             \/ ReadForInitiate(r) \/ ReadForCallback(r)
      PROVE  TokenTypeOK'
  BY <1>5 DEF TokenTypeOK, ReadRegistration, ReadVerification, ReadForRequest,
              ReadForUse, ReadForInitiate, ReadForCallback, GetFlow, Goto, PC
<1>6. ASSUME NEW r \in Request, ReadRegistrationPolicy(r) PROVE TokenTypeOK'
  <2>1. draft' \in [Request -> Draft]
    BY <1>6, RequireVerificationAssumption
       DEF ReadRegistrationPolicy, TokenTypeOK, Draft
  <2> QED BY <1>6, <2>1 DEF TokenTypeOK, ReadRegistrationPolicy, Goto, PC
<1>7. ASSUME NEW r \in Request, CheckIdentifier(r) PROVE TokenTypeOK'
  <2>1. draft' \in [Request -> Draft]
    BY <1>7 DEF CheckIdentifier, TokenTypeOK, Draft
  <2> QED BY <1>7, <2>1 DEF TokenTypeOK, CheckIdentifier, Goto, PC
<1>8. ASSUME NEW r \in Request, LookupIdentity(r) PROVE TokenTypeOK'
  <2>1. /\ \A name \in Identifier : NamedByAny(name) \subseteq Identity
        /\ linked \subseteq Identity
    BY DEF NamedByAny, Named, TokenTypeOK, Credential
  <2> DEFINE found == (UNION {NamedByAny(name) : name \in Identifier})
                      \cup linked \cup {NoIdentity}
  <2>2. PICK i \in found : draft' = [draft EXCEPT ![r].identity = i]
    BY <1>8 DEF LookupIdentity
  <2>3. [draft[r] EXCEPT !.identity = i] \in Draft
    <3>1. \/ \E name \in Identifier : i \in NamedByAny(name)
          \/ i \in linked \/ i = NoIdentity
      OBVIOUS
    <3>2. i \in Owner
      BY <2>1, <3>1 DEF Owner
    <3> QED BY <3>2, Locals DEF Draft
  <2>4. draft' \in [Request -> Draft]
    BY <2>2, <2>3 DEF TokenTypeOK
  <2> QED BY <1>8, <2>4 DEF TokenTypeOK, LookupIdentity, Goto, PC
<1>9. ASSUME NEW r \in Request, Abandon(r) PROVE TokenTypeOK'
  BY <1>9, FinishTypes DEF TokenTypeOK, Abandon
<1>10. ASSUME NEW r \in Request, CreateAccount(r) PROVE TokenTypeOK'
  <2>1. draft' \in [Request -> Draft]
    <3>1. PICK i \in Identity : draft' = [draft EXCEPT ![r].identity = i]
      BY <1>10 DEF CreateAccount
    <3>2. [draft[r] EXCEPT !.identity = i] \in Draft
      BY Locals DEF Draft, Owner
    <3> QED BY <3>1, <3>2 DEF TokenTypeOK
  <2>2. accounts' \in [Identity -> AccountState]
    BY <1>10 DEF CreateAccount, CreateIdentity, InitialState, TokenTypeOK, AccountState
  <2>3. unverified' \subseteq Identity
    BY <1>10 DEF CreateAccount, TokenTypeOK
  <2> QED BY <1>10, <2>1, <2>2, <2>3 DEF TokenTypeOK, CreateAccount, Goto, PC
<1>11. ASSUME NEW r \in Request, AddCredential(r) PROVE TokenTypeOK'
  <2>1. draft[r].claim \in Method \X Identifier /\ draft[r].identity \in Identity
    BY <1>11 DEF AddCredential, TypeInv, WhereInv, Registering
  <2>2. \A names \in CredentialNames(draft[r].claim) : names \in SUBSET Identifier
    BY <2>1 DEF CredentialNames
  <2>3. draft[r].claim[1] \in Method
    BY <2>1
  <2>4. PICK names \in CredentialNames(draft[r].claim) :
          credentials' = credentials \cup
            {[identity |-> draft[r].identity, type |-> draft[r].claim[1],
              names |-> names]}
    BY <1>11 DEF AddCredential, CreateCredential
  <2>5. credentials' \subseteq Credential
    BY <2>1, <2>2, <2>3, <2>4 DEF TokenTypeOK, Credential
  <2> QED BY <1>11, <2>5 DEF TokenTypeOK, AddCredential, Goto, PC
<1>12. ASSUME NEW r \in Request, CompleteRegistration(r) PROVE TokenTypeOK'
  <2>1. flows' \in [Flow -> Row]
    BY <1>12, Locals, States, PlainIsUI, UpdateRecord DEF CompleteRegistration
  <2> QED
    BY <1>12, <2>1
       DEF TokenTypeOK, CompleteRegistration, AfterRegistration, Goto, PC
<1>13. ASSUME NEW r \in Request, NEW i \in Owner, NEW amr \in AMR,
              CreateSession(r, i, "aal1", amr)
       PROVE  sessions' \in [Request -> SessionOf(AMR)]
  BY <1>13 DEF CreateSession, TokenTypeOK, SessionOf, SessionState, AAL
<1>14. ASSUME NEW r \in Request, IssueRegistrationSession(r) PROVE TokenTypeOK'
  <2>1. sessions' \in [Request -> SessionOf(AMR)]
    BY <1>13, <1>14, Locals DEF IssueRegistrationSession, AMR
  <2> QED BY <1>14, <2>1, FinishTypes DEF TokenTypeOK, IssueRegistrationSession
<1>15. ASSUME NEW r \in Request, InitVerification(r) PROVE TokenTypeOK'
  <2>1. PICK f \in Flow :
          /\ CreateFlow(f, "verification", [Plain("verify") EXCEPT !.token = r])
          /\ target' = [target EXCEPT ![r] = f]
    BY <1>15 DEF InitVerification
  <2>2. flows' \in [Flow -> Row]
    BY <2>1, CreateRecord, PlainIsUI, States
  <2> QED BY <1>15, <2>1, <2>2 DEF TokenTypeOK, InitVerification, Goto, PC
<1>16. ASSUME NEW r \in Request, NEW i \in Owner, Send(r, i)
       PROVE  sent' \subseteq Request /\ issuedTo' \in [Request -> Owner]
  BY <1>16 DEF Send, TokenTypeOK
<1>17. ASSUME NEW r \in Request, NameOwner(r) PROVE TokenTypeOK'
  <2>1. flows' \in [Flow -> Row]
    BY <1>17, Locals, States, PlainIsUI, UpdateRecord DEF NameOwner
  <2>2. sent' \subseteq Request /\ issuedTo' \in [Request -> Owner]
    BY <1>16, <1>17, Locals DEF NameOwner
  <2> QED BY <1>17, <2>1, <2>2, FinishTypes DEF TokenTypeOK, NameOwner
<1>18. ASSUME NEW r \in Request,
              RefuseVerification(r) \/ RefuseLink(r) \/ MarkExpired(r)
       PROVE  TokenTypeOK'
  <2>1. flows' \in [Flow -> Row]
    BY <1>18, Locals, States, StateRecord DEF RefuseVerification, RefuseLink, MarkExpired
  <2> QED
    BY <1>18, <2>1, FinishTypes
       DEF TokenTypeOK, RefuseVerification, RefuseLink, MarkExpired
<1>19. ASSUME NEW r \in Request, Accept(r), given[r] # NoToken
       PROVE  accepted' \subseteq Acceptance
  <2>1. [request |-> r, token |-> given[r], type |-> copy[r].type] \in Acceptance
    BY <1>19, Locals DEF Acceptance, Token
  <2> QED BY <1>19, <2>1 DEF Accept, TokenTypeOK
<1>20. ASSUME NEW r \in Request, ActivateIdentity(r) \/ Reactivate(r)
       PROVE  TokenTypeOK'
  <2>1. accounts' \in [Identity -> AccountState]
    BY <1>20
       DEF ActivateIdentity, Reactivate, UpdateIdentityState, TokenTypeOK, AccountState
  <2>2. Accept(r) /\ given[r] # NoToken
    BY <1>20 DEF ActivateIdentity, Reactivate, Verifiable, Usable
  <2>3. accepted' \subseteq Acceptance
    BY <1>19, <2>2
  <2> QED BY <1>20, <2>1, <2>3 DEF TokenTypeOK, ActivateIdentity, Reactivate, Goto, PC
<1>21. ASSUME NEW r \in Request, CompleteVerification(r) \/ CompleteRecovery(r)
       PROVE  TokenTypeOK'
  <2>1. flows' \in [Flow -> Row]
    BY <1>21, Locals, States, PlainIsUI, UpdateRecord
       DEF CompleteVerification, CompleteRecovery
  <2> QED
    BY <1>21, <2>1, FinishTypes DEF TokenTypeOK, CompleteVerification, CompleteRecovery
<1>22. ASSUME NEW r \in Request, OfferToken(r) PROVE TokenTypeOK'
  <2>1. [Plain("pending_link") EXCEPT !.token = r, !.owner = TokenOwner(r)] \in UI
    BY Locals, States, PlainIsUI DEF UI, TokenOwner, Token
  <2>2. flows' \in [Flow -> Row]
    BY <1>22, <2>1, Locals, States, UpdateRecord DEF OfferToken
  <2>3. sent' \subseteq Request /\ issuedTo' \in [Request -> Owner]
    BY <1>16, <1>22, Locals DEF OfferToken
  <2> QED BY <1>22, <2>2, <2>3, FinishTypes DEF TokenTypeOK, OfferToken
<1>23. ASSUME NEW r \in Request, OfferUnstored(r) PROVE TokenTypeOK'
  <2>1. sent' \subseteq Request /\ issuedTo' \in [Request -> Owner]
    BY <1>16, <1>23 DEF OfferUnstored, Owner
  <2> QED BY <1>23, <2>1, FinishTypes DEF TokenTypeOK, OfferUnstored
<1>24. ASSUME NEW r \in Request, IssueRecoverySession(r) PROVE TokenTypeOK'
  <2>1. sessions' \in [Request -> SessionOf(AMR)]
    BY <1>13, <1>24, Locals DEF IssueRecoverySession, RecoveredIdentity, AMR
  <2> QED BY <1>24, <2>1 DEF TokenTypeOK, IssueRecoverySession, Goto, PC
<1>25. ASSUME NEW r \in Request, PersistAttempt(r) PROVE TokenTypeOK'
  <2>1. [copy[r].ui EXCEPT !.attempt = TRUE] \in UI
    BY Locals DEF UI
  <2>2. flows' \in [Flow -> Row]
    BY <1>25, <2>1, Locals, States, UpdateRecord DEF PersistAttempt
  <2> QED BY <1>25, <2>2, FinishTypes DEF TokenTypeOK, PersistAttempt
<1>26. ASSUME NEW r \in Request, FindSubject(r) \/ ProvisionIdentity(r)
       PROVE  TokenTypeOK'
  <2>1. PICK i \in Identity : draft' = [draft EXCEPT ![r].identity = i]
    BY <1>26 DEF FindSubject, ProvisionIdentity, TokenTypeOK
  <2>2. [draft[r] EXCEPT !.identity = i] \in Draft
    BY Locals DEF Draft, Owner
  <2>3. draft' \in [Request -> Draft]
    BY <2>1, <2>2 DEF TokenTypeOK
  <2>4. accounts' \in [Identity -> AccountState] /\ unverified' \subseteq Identity
    BY <1>26
       DEF FindSubject, ProvisionIdentity, CreateIdentity, TokenTypeOK, AccountState
  <2> QED BY <1>26, <2>3, <2>4 DEF TokenTypeOK, FindSubject, ProvisionIdentity, Goto, PC
<1>27. ASSUME NEW r \in Request, LinkSubject(r) PROVE TokenTypeOK'
  <2>1. draft[r].identity \in Identity
    BY <1>27 DEF LinkSubject, TypeInv, WhereInv, Registering
  <2> QED BY <1>27, <2>1 DEF TokenTypeOK, LinkSubject, Goto, PC
<1>28. ASSUME NEW r \in Request, IssueOidcSession(r) PROVE TokenTypeOK'
  <2>1. sessions' \in [Request -> SessionOf(AMR)]
    BY <1>13, <1>28, Locals DEF IssueOidcSession, AMR
  <2> QED BY <1>28, <2>1 DEF TokenTypeOK, IssueOidcSession, Goto, PC
<1>29. ASSUME NEW r \in Request, CompleteCallback(r) PROVE TokenTypeOK'
  <2>1. flows' \in [Flow -> Row]
    BY <1>29, Locals, States, PlainIsUI, UpdateRecord DEF CompleteCallback, CallbackUI
  <2> QED BY <1>29, <2>1, FinishTypes DEF TokenTypeOK, CompleteCallback
<1> QED
  BY ActsOrWorld, <1>1, <1>2, <1>3, <1>4, <1>5, <1>6, <1>7, <1>8, <1>9, <1>10,
     <1>11, <1>12, <1>14, <1>15, <1>17, <1>18, <1>20, <1>21, <1>22, <1>23, <1>24,
     <1>25, <1>26, <1>27, <1>28, <1>29
     DEF World, Reads, Steps

LEMMA WhereStep == TypeInv /\ [AccountsNext]_tokenVars => WhereInv'
<1> SUFFICES ASSUME TypeInv, [AccountsNext]_tokenVars PROVE WhereInv'
  OBVIOUS
<1> TokenTypeOK
  BY DEF TypeInv
<1> DEFINE Where(q) ==
      /\ pc[q] \in {"identity", "credential"} =>
           draft[q].claim \in Method \X Identifier
      /\ pc[q] \in Registering \cup Confirming => draft[q].identity \in Identity
      /\ pc[q] \in Recovering => copy[q].ui.owner \in Identity
      /\ Issued(q) => pc[q] \in {"recovered", "oidc_complete", "done"}
      /\ q \in sent => pc[q] = "done"
<1>0. \A q \in Request : Where(q)
  BY DEF TypeInv, WhereInv
<1>1. CASE World
  <2>1. sent' = sent
    BY <1>1 DEF World, InitRegistration, InitRecovery, FlowExpires, tokenVars, tokens
  <2> QED BY <1>0, <1>1, <2>1, WorldIsStill DEF Still, TypeInv, WhereInv, Issued,
     TokenTypeOK
<1>2. ASSUME NEW r \in Request, Reads(r) \/ Steps(r) PROVE WhereInv'
  <2>1. sent' \subseteq sent \cup {r}
    BY <1>2, ReadsOnly
       DEF Steps, CreateAccount, AddCredential, CompleteRegistration,
           IssueRegistrationSession, InitVerification, NameOwner, Send,
           RefuseVerification, ActivateIdentity, CompleteVerification,
           OfferToken, OfferUnstored, RefuseLink, Reactivate,
           IssueRecoverySession, CompleteRecovery, PersistAttempt,
           ProvisionIdentity, LinkSubject, IssueOidcSession, CompleteCallback,
           MarkExpired, tokens
  <2>2. ASSUME NEW q \in Request, q # r PROVE Where(q)'
    <3>1. Still(q) /\ Where(q)
      BY <1>0, <1>2, <2>2, OneMoves
    <3> QED BY <2>1, <2>2, <3>1 DEF Still, Issued
  <2>3. Where(r)'
    <3> USE DEF TokenTypeOK, Goto, Issued, tables, locals, tokens, Registering,
            Recovering, Confirming
    <3>0. Where(r)
      BY <1>0
    <3>1. CASE Submit(r)
      BY <3>0, <3>1 DEF Submit, SubmitRegistration, SubmitVerification,
                        SubmitRecovery, SubmitLink, SubmitInitiate,
                        SubmitCallback, Arrive
    <3>2. CASE ReadRegistration(r) \/ ReadVerification(r) \/ ReadForRequest(r)
               \/ ReadForUse(r) \/ ReadForInitiate(r) \/ ReadForCallback(r)
      BY <3>0, <3>2 DEF ReadRegistration, ReadVerification, ReadForRequest,
                        ReadForUse, ReadForInitiate, ReadForCallback, GetFlow
    <3>3. CASE ReadRegistrationPolicy(r) \/ LookupIdentity(r)
      BY <3>0, <3>3 DEF ReadRegistrationPolicy, LookupIdentity
    <3>4. CASE CheckIdentifier(r)
      BY <3>0, <3>4 DEF CheckIdentifier, Draft
    <3>5. CASE CreateAccount(r)
      BY <3>0, <3>5 DEF CreateAccount, Draft
    <3>6. CASE AddCredential(r)
      BY <3>0, <3>6 DEF AddCredential
    <3>7. CASE CompleteRegistration(r)
      BY <3>0, <3>7 DEF CompleteRegistration, AfterRegistration
    <3>8. CASE InitVerification(r)
      BY <3>0, <3>8 DEF InitVerification
    <3>9. CASE ActivateIdentity(r)
      BY <3>0, <3>9 DEF ActivateIdentity, Verifiable
    <3>10. CASE Reactivate(r)
      <4>1. copy[r].ui.owner \in Identity
        BY <3>10, Locals DEF Reactivate, Owner
      <4> QED BY <3>0, <3>10, <4>1 DEF Reactivate, Usable
    <3>11. CASE IssueRecoverySession(r)
      BY <3>0, <3>11 DEF IssueRecoverySession, CreateSession
    <3>12. CASE \/ Abandon(r) \/ IssueRegistrationSession(r) \/ NameOwner(r)
                \/ RefuseVerification(r) \/ CompleteVerification(r)
                \/ OfferToken(r) \/ OfferUnstored(r) \/ RefuseLink(r)
                \/ CompleteRecovery(r) \/ MarkExpired(r)
                \/ PersistAttempt(r) \/ CompleteCallback(r)
      <4>1. pc'[r] = "done"
        BY <3>12, FinishTypes
           DEF Abandon, IssueRegistrationSession, NameOwner,
               RefuseVerification, CompleteVerification, OfferToken,
               OfferUnstored, RefuseLink, CompleteRecovery, PersistAttempt,
               CompleteCallback, MarkExpired
      <4> QED BY <4>1
    <3>13. CASE FindSubject(r) \/ ProvisionIdentity(r)
      BY <3>0, <3>13 DEF FindSubject, ProvisionIdentity, Confirmed, Draft
    <3>14. CASE LinkSubject(r)
      BY <3>0, <3>14 DEF LinkSubject
    <3>15. CASE IssueOidcSession(r)
      BY <3>0, <3>15 DEF IssueOidcSession, CreateSession
    <3> QED
      BY <1>2, <3>1, <3>2, <3>3, <3>4, <3>5, <3>6, <3>7, <3>8, <3>9, <3>10, <3>11,
         <3>12, <3>13, <3>14, <3>15 DEF Reads, Steps
  <2>4. \A q \in Request : Where(q)'
    BY <2>2, <2>3
  <2>5. sent' \subseteq Request
    BY <2>1 DEF TokenTypeOK
  <2> QED BY <2>4, <2>5 DEF WhereInv
<1> QED BY <1>1, <1>2, ActsOrWorld

LEMMA TypeInvariant == AccountsSpec => []TypeInv
<1>1. TokenInit => TypeInv
  <2> SUFFICES ASSUME TokenInit PROVE TypeInv
    OBVIOUS
  <2>1. TokenTypeOK
    BY BlankIsRow, NoDraftIsDraft, ImportedAssumption, LinkedAssumption
       DEF TokenInit, TokenTypeOK, NoSession, SessionOf, SessionState, AAL, AMR, Owner,
           AccountState, PC, Token
  <2>2. WhereInv
    BY DEF TokenInit, WhereInv, Registering, Confirming, Recovering, Issued, NoSession
  <2> QED BY <2>1, <2>2 DEF TypeInv
<1>2. TypeInv /\ [AccountsNext]_tokenVars => TypeInv'
  BY TypeStep, WhereStep DEF TypeInv
<1> QED BY <1>1, <1>2, PTL DEF AccountsSpec

(* Every variable of a behaviour of Accounts keeps its type.               *)
THEOREM TokenTypeCorrect == AccountsSpec => []TokenTypeOK
<1>1. TypeInv => TokenTypeOK
  BY DEF TypeInv
<1> QED BY <1>1, TypeInvariant, PTL

-----------------------------------------------------------------------------
(* What a step writes into a flow row.                                     *)

Created(f) ==
  /\ ~ Exists(f)
  /\ flows'[f].state = "pending"
  /\ flows'[f].identity = NoIdentity
  /\ \/ flows'[f].type \in {"registration", "recovery"} /\ flows'[f].ui.token = NoToken
     \/ /\ flows'[f].type = "verification"
        /\ \E r \in Request : /\ InitVerification(r)
                              /\ target'[r] = f
                              /\ flows'[f].ui.token = r

\* What follows keeps the type.
Ended(f) ==
  /\ flows'[f].state \in {"failed", "expired"}
  /\ flows'[f].identity = flows[f].identity
  /\ flows'[f].ui = flows[f].ui

GivenOwner(f, r) ==
  /\ NameOwner(r)
  /\ flows'[f].state = "pending"
  /\ flows'[f].identity = draft[r].identity
  /\ flows'[f].ui.token = r

Offered(f, r) ==
  /\ OfferToken(r)
  /\ flows'[f].state = "pending"
  /\ flows'[f].ui.token = r
  /\ flows'[f].ui.owner = draft[r].identity

Completed(f, r) ==
  /\ flows'[f].state = "success"
  /\ flows'[f].ui.token = NoToken
  /\ \/ CompleteRegistration(r) /\ flows'[f].identity = draft[r].identity
     \/ CompleteVerification(r) /\ flows'[f].identity = copy[r].identity
     \/ CompleteRecovery(r) /\ flows'[f].identity = copy[r].ui.owner
     \/ CompleteCallback(r) /\ flows'[f].identity = draft[r].identity

\* The copy comes back, with an attempt.
TakenBack(f, r) ==
  /\ PersistAttempt(r)
  /\ flows'[f].state = "pending"
  /\ flows'[f].identity = copy[r].identity
  /\ flows'[f].ui.token = copy[r].ui.token
  /\ flows'[f].ui.owner = copy[r].ui.owner

Writes(f) ==
  \/ flows'[f] = flows[f]
  \/ Created(f)
  \/ /\ flows'[f].type = flows[f].type
     /\ \/ Ended(f)
        \/ \E r \in Request : /\ Exists(f)
                              /\ target[r] = f
                              /\ \/ GivenOwner(f, r) \/ Offered(f, r)
                                 \/ Completed(f, r)  \/ TakenBack(f, r)

LEMMA RowWrites ==
  TypeInv /\ [AccountsNext]_tokenVars => \A f \in Flow : Writes(f)
<1> SUFFICES ASSUME TypeInv, [AccountsNext]_tokenVars, NEW f \in Flow
             PROVE  Writes(f)
  OBVIOUS
<1> TokenTypeOK
  BY DEF TypeInv
<1>1. CASE flows' = flows
  BY <1>1 DEF Writes
<1>2. ASSUME NEW g \in Flow, InitRegistration(g) \/ InitRecovery(g)
      PROVE  Writes(f)
  <2>1. /\ ~ Exists(g)
        /\ flows'[g].state = "pending"
        /\ flows'[g].identity = NoIdentity
        /\ flows'[g].type \in {"registration", "recovery"}
        /\ flows'[g].ui.token = NoToken
        /\ f # g => flows'[f] = flows[f]
    BY <1>2, CreateRecord, PlainIsUI, States DEF InitRegistration, InitRecovery
  <2> QED BY <2>1 DEF Writes, Created
<1>3. ASSUME NEW r \in Request, InitVerification(r) PROVE Writes(f)
  <2> DEFINE ui == [Plain("verify") EXCEPT !.token = r]
  <2>1. ui \in UI /\ ui.token = r
    BY PlainIsUI, States
  <2>2. PICK g \in Flow :
          CreateFlow(g, "verification", ui) /\ target' = [target EXCEPT ![r] = g]
    BY <1>3 DEF InitVerification
  <2> HIDE DEF ui
  <2>3. /\ ~ Exists(g)
        /\ flows'[g].state = "pending"
        /\ flows'[g].identity = NoIdentity
        /\ flows'[g].type = "verification"
        /\ flows'[g].ui = ui
        /\ f # g => flows'[f] = flows[f]
    BY <2>1, <2>2, CreateRecord, States
  <2>4. target'[r] = g
    BY <2>2 DEF TokenTypeOK
  <2> QED BY <1>3, <2>1, <2>3, <2>4 DEF Writes, Created
<1>4. ASSUME NEW r \in Request, RefuseVerification(r) \/ RefuseLink(r) \/ MarkExpired(r)
      PROVE  Writes(f)
  <2>1. /\ flows'[target[r]].type = flows[target[r]].type
        /\ flows'[target[r]].identity = flows[target[r]].identity
        /\ flows'[target[r]].ui = flows[target[r]].ui
        /\ flows'[target[r]].state \in {"failed", "expired"}
        /\ f # target[r] => flows'[f] = flows[f]
    BY <1>4, Locals, States, StateRecord DEF RefuseVerification, RefuseLink, MarkExpired
  <2> QED BY <2>1 DEF Writes, Ended
<1>5. ASSUME NEW r \in Request, NameOwner(r) PROVE Writes(f)
  <2> DEFINE ui == [Plain("verify") EXCEPT !.token = r]
  <2>1. ui \in UI /\ ui.token = r
    BY PlainIsUI, States
  <2>2. UpdateFlow(target[r], "pending", draft[r].identity, ui)
    BY <1>5 DEF NameOwner
  <2> HIDE DEF ui
  <2>3. /\ Exists(target[r])
        /\ flows'[target[r]].type = flows[target[r]].type
        /\ flows'[target[r]].identity = draft[r].identity
        /\ flows'[target[r]].ui = ui
        /\ flows'[target[r]].state = "pending"
        /\ f # target[r] => flows'[f] = flows[f]
    BY <2>1, <2>2, Locals, States, UpdateRecord
  <2> QED BY <1>5, <2>1, <2>3 DEF Writes, GivenOwner
<1>6. ASSUME NEW r \in Request, OfferToken(r) PROVE Writes(f)
  <2> DEFINE ui == [Plain("pending_link") EXCEPT !.token = r, !.owner = TokenOwner(r)]
  <2>1. ui \in UI
    BY Locals, States, PlainIsUI DEF UI, TokenOwner, Token
  <2>2. UpdateFlow(target[r], "pending", draft[r].identity, ui)
    BY <1>6 DEF OfferToken
  <2>3. ui.token = r /\ ui.owner = draft[r].identity
    BY DEF TokenOwner, Plain
  <2> HIDE DEF ui
  <2>4. /\ Exists(target[r])
        /\ flows'[target[r]].type = flows[target[r]].type
        /\ flows'[target[r]].ui = ui
        /\ flows'[target[r]].state = "pending"
        /\ f # target[r] => flows'[f] = flows[f]
    BY <2>1, <2>2, Locals, States, UpdateRecord
  <2> QED BY <1>6, <2>3, <2>4 DEF Writes, Offered
<1>7. ASSUME NEW r \in Request, NEW i \in Owner,
             UpdateFlow(target[r], "success", i, Plain("complete"))
      PROVE  /\ Exists(target[r])
             /\ flows'[target[r]].type = flows[target[r]].type
             /\ flows'[target[r]].identity = i
             /\ flows'[target[r]].ui.token = NoToken
             /\ flows'[target[r]].state = "success"
             /\ f # target[r] => flows'[f] = flows[f]
  BY <1>7, Locals, States, PlainIsUI, UpdateRecord
<1>8. ASSUME NEW r \in Request,
             \/ CompleteRegistration(r) \/ CompleteVerification(r)
             \/ CompleteRecovery(r) \/ CompleteCallback(r)
      PROVE  Writes(f)
  <2>1. CASE CompleteRegistration(r)
    <3>1. UpdateFlow(target[r], "success", draft[r].identity, Plain("complete"))
      BY <2>1 DEF CompleteRegistration
    <3> QED BY <1>7, <2>1, <3>1, Locals DEF Writes, Completed
  <2>2. CASE CompleteVerification(r)
    <3>1. UpdateFlow(target[r], "success", copy[r].identity, Plain("complete"))
      BY <2>2 DEF CompleteVerification
    <3> QED BY <1>7, <2>2, <3>1, Locals DEF Writes, Completed
  <2>3. CASE CompleteRecovery(r)
    <3>1. UpdateFlow(target[r], "success", copy[r].ui.owner, Plain("complete"))
      BY <2>3 DEF CompleteRecovery
    <3> QED BY <1>7, <2>3, <3>1, Locals DEF Writes, Completed
  <2>4. CASE CompleteCallback(r)
    <3>1. UpdateFlow(target[r], "success", draft[r].identity, Plain("complete"))
      BY <2>4 DEF CompleteCallback, CallbackUI
    <3> QED BY <1>7, <2>4, <3>1, Locals DEF Writes, Completed
  <2> QED BY <1>8, <2>1, <2>2, <2>3, <2>4
<1>9. ASSUME NEW r \in Request,
             \/ Reads(r) \/ CreateAccount(r) \/ AddCredential(r)
             \/ IssueRegistrationSession(r) \/ ActivateIdentity(r)
             \/ OfferUnstored(r) \/ Reactivate(r) \/ IssueRecoverySession(r)
             \/ ProvisionIdentity(r) \/ LinkSubject(r) \/ IssueOidcSession(r)
      PROVE  flows' = flows
  BY <1>9, ReadsOnly
     DEF CreateAccount, AddCredential, IssueRegistrationSession, ActivateIdentity,
         OfferUnstored, Reactivate, IssueRecoverySession, ProvisionIdentity,
         LinkSubject, IssueOidcSession, tables
<1>10. CASE UNCHANGED tokenVars \/ \E g \in Flow : FlowExpires(g)
  BY <1>1, <1>10 DEF FlowExpires, tokenVars, tables
<1>11. ASSUME NEW r \in Request, PersistAttempt(r) PROVE Writes(f)
  <2> DEFINE ui == [copy[r].ui EXCEPT !.attempt = TRUE]
  <2>1. ui \in UI /\ ui.token = copy[r].ui.token /\ ui.owner = copy[r].ui.owner
    BY Locals DEF UI
  <2>2. UpdateFlow(target[r], "pending", copy[r].identity, ui)
    BY <1>11 DEF PersistAttempt
  <2> HIDE DEF ui
  <2>3. /\ Exists(target[r])
        /\ flows'[target[r]].type = flows[target[r]].type
        /\ flows'[target[r]].identity = copy[r].identity
        /\ flows'[target[r]].ui = ui
        /\ flows'[target[r]].state = "pending"
        /\ f # target[r] => flows'[f] = flows[f]
    BY <2>1, <2>2, Locals, States, UpdateRecord
  <2> QED BY <1>11, <2>1, <2>3 DEF Writes, TakenBack
<1> QED
  BY ActsOrWorld, <1>1, <1>2, <1>3, <1>4, <1>5, <1>6, <1>8, <1>9, <1>10, <1>11
     DEF World, Steps

(* Which statements write sessions and identities.                         *)
LEMMA Kinds ==
  <<>> # RecoveryAMR /\ <<>> # OidcAMR /\ RecoveryAMR # OidcAMR
  BY DEF RecoveryAMR, OidcAMR

LEMMA NewSession ==
  ASSUME TypeInv, [AccountsNext]_tokenVars, NEW r \in Request,
         ~ Issued(r), Issued(r)'
  PROVE  \/ IssueRegistrationSession(r) /\ sessions'[r].amr = <<>>
         \/ IssueRecoverySession(r) /\ sessions'[r].amr = RecoveryAMR
         \/ IssueOidcSession(r) /\ sessions'[r].amr = OidcAMR
<1> TokenTypeOK
  BY DEF TypeInv
<1>1. ~ Still(r)
  BY DEF Still, Issued
<1>2. Reads(r) \/ Steps(r)
  BY <1>1, ActsOrWorld, WorldIsStill, OneMoves
<1>3. sessions' # sessions
  BY DEF Issued
<1>4. IssueRegistrationSession(r) \/ IssueRecoverySession(r) \/ IssueOidcSession(r)
  BY <1>2, <1>3, ReadsOnly
     DEF Steps, CreateAccount, AddCredential, CompleteRegistration,
         InitVerification, NameOwner, RefuseVerification, ActivateIdentity,
         CompleteVerification, OfferToken, OfferUnstored, RefuseLink,
         Reactivate, CompleteRecovery, PersistAttempt, ProvisionIdentity,
         LinkSubject, CompleteCallback, MarkExpired, tables
<1>5. /\ IssueRegistrationSession(r) => sessions'[r].amr = <<>>
      /\ IssueRecoverySession(r) => sessions'[r].amr = RecoveryAMR
      /\ IssueOidcSession(r) => sessions'[r].amr = OidcAMR
  BY DEF IssueRegistrationSession, IssueRecoverySession, IssueOidcSession,
     CreateSession, TokenTypeOK
<1> QED BY <1>4, <1>5

\* An identity is created.
Creates(r) == CreateAccount(r) \/ ProvisionIdentity(r)

(* It was not there, and is its request's.                                 *)
LEMMA Creation ==
  ASSUME TokenTypeOK, NEW r \in Request, Creates(r)
  PROVE  \E i \in Identity, s \in {"active", "pending_verification"} :
           /\ accounts[i] = "absent"
           /\ accounts' = [accounts EXCEPT ![i] = s]
           /\ draft'[r].identity = i
           /\ draft'[r].verify = draft[r].verify
           /\ draft'[r].claim = draft[r].claim
           /\ s = "active" => unverified' = unverified \cup {i}
           /\ s # "active" => CreateAccount(r) /\ draft[r].verify
                              /\ unverified' = unverified
<1>1. CASE CreateAccount(r)
  <2>1. PICK i \in Identity :
          /\ CreateIdentity(i, InitialState(draft[r].verify))
          /\ draft' = [draft EXCEPT ![r].identity = i]
          /\ unverified' = IF draft[r].verify THEN unverified ELSE unverified \cup {i}
    BY <1>1 DEF CreateAccount
  <2>2. /\ draft'[r].identity = i
        /\ draft'[r].verify = draft[r].verify
        /\ draft'[r].claim = draft[r].claim
    BY <2>1 DEF TokenTypeOK, Draft
  <2> QED BY <1>1, <2>1, <2>2 DEF CreateIdentity, InitialState
<1>2. CASE ProvisionIdentity(r)
  <2>1. PICK i \in Identity :
          /\ CreateIdentity(i, "active")
          /\ draft' = [draft EXCEPT ![r].identity = i]
          /\ unverified' = unverified \cup {i}
    BY <1>2 DEF ProvisionIdentity
  <2>2. /\ draft'[r].identity = i
        /\ draft'[r].verify = draft[r].verify
        /\ draft'[r].claim = draft[r].claim
    BY <2>1 DEF TokenTypeOK, Draft
  <2> QED BY <2>1, <2>2 DEF CreateIdentity
<1> QED BY <1>1, <1>2 DEF Creates

LEMMA AccountWrites ==
  [AccountsNext]_tokenVars =>
    \/ accounts' = accounts
    \/ \E r \in Request : Creates(r) \/ ActivateIdentity(r) \/ Reactivate(r)
<1>1. World => accounts' = accounts
  BY DEF World, InitRegistration, InitRecovery, FlowExpires, tokenVars, tables
<1>2. ASSUME NEW r \in Request, Reads(r) \/ Steps(r)
      PROVE  \/ accounts' = accounts
             \/ Creates(r) \/ ActivateIdentity(r) \/ Reactivate(r)
  BY <1>2, ReadsOnly
     DEF Steps, Creates, AddCredential, CompleteRegistration, IssueRegistrationSession,
         InitVerification, NameOwner, RefuseVerification, CompleteVerification,
         OfferToken, OfferUnstored, RefuseLink, IssueRecoverySession,
         CompleteRecovery, PersistAttempt, LinkSubject, IssueOidcSession,
         CompleteCallback, MarkExpired, tables
<1> QED BY <1>1, <1>2, ActsOrWorld

-----------------------------------------------------------------------------
(* What only ever grows, and what a request that has a session keeps.      *)

Grows ==
  /\ sent \subseteq sent'
  /\ accepted \subseteq accepted'
  /\ unverified \subseteq unverified'
  /\ credentials \subseteq credentials'
  /\ linked \subseteq linked'
  /\ enrolledIdentities \subseteq enrolledIdentities'
  /\ \A i \in Identity : accounts[i] = "active" => accounts'[i] = "active"
  /\ \A t \in sent : issuedTo'[t] = issuedTo[t]
  /\ \A r \in Request : Issued(r) =>
       sessions'[r] = sessions[r] /\ target'[r] = target[r] /\ given'[r] = given[r]
  /\ \A f \in Flow : Exists(f) => Exists(f)' /\ flows'[f].type = flows[f].type

LEMMA StepGrows == TypeInv /\ [AccountsNext]_tokenVars => Grows
<1> SUFFICES ASSUME TypeInv, [AccountsNext]_tokenVars PROVE Grows
  OBVIOUS
<1> TokenTypeOK
  BY DEF TypeInv
<1> USE DEF tables, locals, tokens
<1> DEFINE More == credentials \subseteq credentials' /\ linked \subseteq linked'
<1>0. More => enrolledIdentities \subseteq enrolledIdentities'
  BY DEF enrolledIdentities
<1> HIDE DEF More
<1>1. \A f \in Flow : Exists(f) => Exists(f)' /\ flows'[f].type = flows[f].type
  BY RowWrites
     DEF Writes, Exists, Created, Ended, GivenOwner, Offered, Completed, TakenBack
<1>2. CASE World
  BY <1>0, <1>1, <1>2, WorldIsStill
     DEF World, InitRegistration, InitRecovery, FlowExpires, tokenVars, Grows, More
<1>3. ASSUME NEW r \in Request, Reads(r) PROVE Grows
  <2>1. UNCHANGED <<sessions, target, accounts, credentials, linked, sent,
                    issuedTo, accepted, unverified>>
    BY <1>3, ReadsOnly
  <2>2. Issued(r) => given'[r] = given[r]
    BY <1>3 DEF Reads, Submit, SubmitRegistration, SubmitVerification,
                SubmitRecovery, SubmitLink, SubmitInitiate, SubmitCallback,
                Arrive, ReadRegistration, ReadVerification, ReadForRequest,
                ReadForUse, GetFlow, ReadRegistrationPolicy, CheckIdentifier,
                LookupIdentity, ReadForInitiate, ReadForCallback, FindSubject,
                Abandon, TypeInv, WhereInv
  <2>3. \A q \in Request : q # r => Still(q)
    BY <1>3, OneMoves
  <2> QED BY <1>0, <1>1, <2>1, <2>2, <2>3 DEF Grows, Still, More
<1>4. ASSUME NEW r \in Request, Steps(r) PROVE Grows
  <2>1. /\ sent \subseteq sent'
        /\ accepted \subseteq accepted'
        /\ unverified \subseteq unverified'
        /\ More
        /\ given' = given
    BY <1>4 DEF More, Steps, CreateAccount, AddCredential, CreateCredential,
                CompleteRegistration, IssueRegistrationSession,
                InitVerification, NameOwner, Send, RefuseVerification,
                ActivateIdentity, Accept, CompleteVerification, OfferToken,
                OfferUnstored, RefuseLink, Reactivate, IssueRecoverySession,
                CompleteRecovery, PersistAttempt, ProvisionIdentity,
                LinkSubject, IssueOidcSession, CompleteCallback, MarkExpired
  <2>2. \A i \in Identity : accounts[i] = "active" => accounts'[i] = "active"
    BY <1>4 DEF Steps, CreateAccount, CreateIdentity, AddCredential,
                CompleteRegistration, IssueRegistrationSession,
                InitVerification, NameOwner, RefuseVerification,
                ActivateIdentity, UpdateIdentityState, CompleteVerification,
                OfferToken, OfferUnstored, RefuseLink, Reactivate,
                IssueRecoverySession, CompleteRecovery, PersistAttempt,
                ProvisionIdentity, LinkSubject, IssueOidcSession,
                CompleteCallback, MarkExpired, TokenTypeOK
  <2>3. pc[r] # "done"
    BY <1>4 DEF Steps, CreateAccount, AddCredential, CompleteRegistration,
                IssueRegistrationSession, InitVerification, NameOwner,
                RefuseVerification, ActivateIdentity, Verifiable,
                CompleteVerification, OfferToken, OfferUnstored, RefuseLink,
                Reactivate, Usable, IssueRecoverySession, CompleteRecovery,
                PersistAttempt, ProvisionIdentity, Confirmed, LinkSubject,
                IssueOidcSession, CompleteCallback, MarkExpired
  <2>4. \A q \in Request : q # r => Still(q)
    BY <1>4, OneMoves
  <2>5. \A t \in sent : issuedTo'[t] = issuedTo[t]
    BY <2>3, <2>4 DEF TypeInv, WhereInv, Still, TokenTypeOK
  <2>6. Issued(r) => pc[r] \in {"recovered", "oidc_complete"}
    BY <2>3 DEF TypeInv, WhereInv
  <2>7. pc[r] \in {"recovered", "oidc_complete"} => UNCHANGED <<sessions, target>>
    BY <1>4 DEF Steps, CreateAccount, AddCredential, CompleteRegistration,
                IssueRegistrationSession, InitVerification, NameOwner,
                RefuseVerification, ActivateIdentity, Verifiable,
                CompleteVerification, OfferToken, OfferUnstored, RefuseLink,
                Reactivate, Usable, IssueRecoverySession, CompleteRecovery,
                PersistAttempt, ProvisionIdentity, Confirmed, LinkSubject,
                IssueOidcSession, CompleteCallback, MarkExpired
  <2> QED
    BY <1>0, <1>1, <2>1, <2>2, <2>4, <2>5, <2>6, <2>7 DEF Grows, Still, More
<1> QED BY <1>2, <1>3, <1>4, ActsOrWorld

-----------------------------------------------------------------------------
(* Which flow a request is at, by where it is: the type of a row never     *)
(* changes, so the copy of a request has its flow's type.                  *)

AtRegistration == {"policy", "check", "identity", "credential", "complete"}
AtRecovery     == {"lookup", "offer", "use", "recovery_session", "recovered"}
AtVerification == {"verify", "verified"}
AtAnyFlow      == {"persist", "subject", "link"} \cup Confirming

PlaceOf(r) ==
  /\ pc[r] \in AtRegistration =>
       Exists(target[r]) /\ flows[target[r]].type = "registration"
  /\ pc[r] \in AtRecovery =>
       /\ Exists(target[r])
       /\ flows[target[r]].type = "recovery"
       /\ copy[r].type = "recovery"
  /\ pc[r] \in AtVerification =>
       /\ Exists(target[r])
       /\ flows[target[r]].type = "verification"
       /\ copy[r].type = "verification"
  /\ pc[r] \in AtAnyFlow =>
       Exists(target[r]) /\ copy[r].type = flows[target[r]].type
  /\ pc[r] = "owner" =>
       Exists(target[r]) /\ flows[target[r]].type = "verification"

PlaceInv ==
  /\ \A f \in Flow : ~ Exists(f) => flows[f] = Blank
  /\ \A r \in Request : PlaceOf(r)

LEMMA PlaceStep ==
  TypeInv /\ PlaceInv /\ [AccountsNext]_tokenVars => PlaceInv'
<1> SUFFICES ASSUME TypeInv, PlaceInv, [AccountsNext]_tokenVars PROVE PlaceInv'
  OBVIOUS
<1> TokenTypeOK /\ Grows
  BY StepGrows DEF TypeInv
<1> USE DEF AtRegistration, AtRecovery, AtVerification, AtAnyFlow, Confirming
<1>1. \A f \in Flow : ~ Exists(f)' => flows'[f] = Blank
  BY RowWrites
     DEF Writes, Exists, Created, Ended, GivenOwner, Offered, Completed, TakenBack,
         PlaceInv
<1>2. ASSUME NEW q \in Request, Still(q) PROVE PlaceOf(q)'
  <2>1. PlaceOf(q) /\ target[q] \in Flow
    BY Locals DEF PlaceInv
  <2>2. Exists(target[q]) =>
          /\ flows'[target[q]].state # "absent"
          /\ flows'[target[q]].type = flows[target[q]].type
    BY <2>1 DEF Grows, Exists
  <2> QED BY <1>2, <2>1, <2>2 DEF Still, PlaceOf, Exists
<1>3. ASSUME NEW r \in Request, InitVerification(r) PROVE PlaceOf(r)'
  <2>1. PICK f \in Flow :
          /\ CreateFlow(f, "verification", [Plain("verify") EXCEPT !.token = r])
          /\ target' = [target EXCEPT ![r] = f]
    BY <1>3 DEF InitVerification
  <2>2. flows'[f].state = "pending" /\ flows'[f].type = "verification"
    BY <2>1, CreateRecord, PlainIsUI, States
  <2>3. target'[r] = f /\ pc'[r] = "owner"
    BY <1>3, <2>1 DEF InitVerification, Goto, TokenTypeOK
  <2> QED BY <2>2, <2>3 DEF PlaceOf, Exists
<1>4. ASSUME NEW r \in Request, Reads(r) \/ Steps(r), ~ InitVerification(r)
      PROVE  PlaceOf(r)'
  <2> USE DEF TokenTypeOK, Goto, tables, locals, tokens
  <2>0. PlaceOf(r) /\ target[r] \in Flow
    BY Locals DEF PlaceInv
  <2>1. Exists(target[r]) =>
          /\ flows'[target[r]].state # "absent"
          /\ flows'[target[r]].type = flows[target[r]].type
    BY <2>0 DEF Grows, Exists
  <2>2. CASE Submit(r)
    BY <2>2 DEF Submit, SubmitRegistration, SubmitVerification, SubmitRecovery,
                SubmitLink, SubmitInitiate, SubmitCallback, Arrive, PlaceOf
  <2>3. CASE ReadRegistration(r) \/ ReadForRequest(r) \/ ReadForUse(r)
             \/ ReadVerification(r)
    BY <2>3 DEF ReadRegistration, ReadForRequest, ReadForUse, ReadVerification,
       GetFlow, PlaceOf, Exists
  <2>4. CASE ReadForInitiate(r) \/ ReadForCallback(r)
    BY <2>4 DEF ReadForInitiate, ReadForCallback, GetFlow, PlaceOf, Exists
  <2>5. CASE ReadRegistrationPolicy(r) \/ CheckIdentifier(r) \/ LookupIdentity(r)
    BY <2>0, <2>5 DEF ReadRegistrationPolicy, CheckIdentifier, LookupIdentity,
       PlaceOf, Exists
  <2>6. CASE CreateAccount(r) \/ AddCredential(r)
    BY <2>0, <2>1, <2>6 DEF CreateAccount, AddCredential, PlaceOf, Exists
  <2>7. CASE CompleteRegistration(r)
    BY <2>0, <2>1, <2>7
       DEF CompleteRegistration, AfterRegistration, PlaceOf, Exists
  <2>8. CASE ActivateIdentity(r)
    BY <2>0, <2>1, <2>8 DEF ActivateIdentity, Verifiable, PlaceOf, Exists
  <2>9. CASE Reactivate(r) \/ IssueRecoverySession(r)
    BY <2>0, <2>1, <2>9 DEF Reactivate, Usable, IssueRecoverySession, PlaceOf, Exists
  <2>10. CASE FindSubject(r) \/ ProvisionIdentity(r)
    BY <2>0, <2>1, <2>10 DEF FindSubject, ProvisionIdentity, Confirmed, PlaceOf, Exists
  <2>11. CASE LinkSubject(r) \/ IssueOidcSession(r)
    BY <2>0, <2>1, <2>11 DEF LinkSubject, IssueOidcSession, PlaceOf, Exists
  <2>12. CASE \/ Abandon(r) \/ IssueRegistrationSession(r) \/ NameOwner(r)
              \/ RefuseVerification(r) \/ CompleteVerification(r)
              \/ OfferToken(r) \/ OfferUnstored(r) \/ RefuseLink(r)
              \/ CompleteRecovery(r) \/ MarkExpired(r)
              \/ PersistAttempt(r) \/ CompleteCallback(r)
    <3>1. pc'[r] = "done"
      BY <2>12, FinishTypes
         DEF Abandon, IssueRegistrationSession, NameOwner, RefuseVerification,
             CompleteVerification, OfferToken, OfferUnstored, RefuseLink,
             CompleteRecovery, PersistAttempt, CompleteCallback, MarkExpired
    <3> QED BY <3>1 DEF PlaceOf
  <2> QED
    BY <1>4, <2>2, <2>3, <2>4, <2>5, <2>6, <2>7, <2>8, <2>9, <2>10, <2>11, <2>12
       DEF Reads, Steps
<1>5. \A r \in Request : PlaceOf(r)'
  BY <1>2, <1>3, <1>4, ActsOrWorld, OneMoves, WorldIsStill
<1> QED BY <1>1, <1>5 DEF PlaceInv

LEMMA PlaceInvariant == AccountsSpec => []PlaceInv
<1>1. TokenInit => PlaceInv
  BY DEF TokenInit, PlaceInv, PlaceOf, AtRegistration, AtRecovery, AtVerification,
     AtAnyFlow, Confirming
<1> QED BY <1>1, TypeInvariant, PlaceStep, PTL DEF AccountsSpec

-----------------------------------------------------------------------------
(* Whose a token is: what a row says of its token was true when the token  *)
(* was sent, and stays true in every copy of the row.                      *)

TokenSound(row, got, owner) ==
  row.ui.token # NoToken =>
    \/ /\ row.type = "verification"
       /\ row.identity # NoIdentity =>
            row.ui.token \in got /\ owner[row.ui.token] = row.identity
    \/ /\ row.type = "recovery"
       /\ row.ui.token \in got
       /\ owner[row.ui.token] = row.ui.owner

RowsSound   == \A f \in Flow : TokenSound(flows[f], sent, issuedTo)
CopiesSound == \A r \in Request : TokenSound(copy[r], sent, issuedTo)

TokenInv ==
  /\ RowsSound
  /\ CopiesSound
  /\ \A r \in Request : given[r] \in sent \cup {NoToken}
  /\ \A a \in accepted : a.token \in sent
  /\ \A r \in Request : pc[r] \in Recovering =>
       given[r] \in sent /\ issuedTo[given[r]] = copy[r].ui.owner

LEMMA SoundKept ==
  ASSUME Grows, NEW row, TokenSound(row, sent, issuedTo)
  PROVE  TokenSound(row, sent', issuedTo')
  BY DEF Grows, TokenSound

(* A copy is what was read, or nothing once its handler returned.          *)
LEMMA CopyMoves ==
  ASSUME TypeInv, [AccountsNext]_tokenVars, NEW r \in Request
  PROVE  copy'[r] \in {copy[r], flows[target[r]], Blank}
<1> TokenTypeOK
  BY DEF TypeInv
<1>1. CASE Still(r)
  BY <1>1 DEF Still
<1>2. CASE Reads(r)
  BY <1>2, FinishTypes
     DEF Reads, Submit, SubmitRegistration, SubmitVerification, SubmitRecovery,
         SubmitLink, SubmitInitiate, SubmitCallback, Arrive, ReadRegistration,
         ReadVerification, ReadForRequest, ReadForUse, GetFlow,
         ReadRegistrationPolicy, CheckIdentifier, LookupIdentity,
         ReadForInitiate, ReadForCallback, FindSubject, Abandon, TokenTypeOK
<1>3. CASE Steps(r)
  BY <1>3, FinishTypes
     DEF Steps, CreateAccount, AddCredential, CompleteRegistration,
         IssueRegistrationSession, InitVerification, NameOwner,
         RefuseVerification, ActivateIdentity, CompleteVerification,
         OfferToken, OfferUnstored, RefuseLink, Reactivate,
         IssueRecoverySession, CompleteRecovery, PersistAttempt,
         ProvisionIdentity, LinkSubject, IssueOidcSession, CompleteCallback,
         MarkExpired
<1> QED BY <1>1, <1>2, <1>3, ActsOrWorld, WorldIsStill, OneMoves

\* The token a request submitted is accepted.
Accepts(r) == ActivateIdentity(r) \/ Reactivate(r)

(* An accepted token was sent for the identity that is activated.          *)
LEMMA AcceptedIsSound ==
  ASSUME TypeInv, PlaceInv, TokenInv, NEW r \in Request
  PROVE  /\ ActivateIdentity(r) =>
              given[r] \in sent /\ issuedTo[given[r]] = copy[r].identity
         /\ Reactivate(r) =>
              given[r] \in sent /\ issuedTo[given[r]] = copy[r].ui.owner
<1>1. TokenSound(copy[r], sent, issuedTo) /\ PlaceOf(r)
  BY DEF TokenInv, CopiesSound, PlaceInv
<1>2. ASSUME ActivateIdentity(r)
      PROVE  given[r] \in sent /\ issuedTo[given[r]] = copy[r].identity
  BY <1>1, <1>2
     DEF ActivateIdentity, Verifiable, TokenSound, PlaceOf, AtVerification
<1>3. ASSUME Reactivate(r)
      PROVE  given[r] \in sent /\ issuedTo[given[r]] = copy[r].ui.owner
  BY <1>1, <1>3 DEF Reactivate, Usable, TokenSound, PlaceOf, AtRecovery
<1> QED BY <1>2, <1>3

LEMMA SentSoon ==
  ASSUME TokenTypeOK, NEW r \in Request, NameOwner(r) \/ OfferToken(r)
  PROVE  r \in sent' /\ issuedTo'[r] = draft[r].identity
  BY DEF NameOwner, OfferToken, Send, TokenTypeOK

LEMMA TokenStep ==
  TypeInv /\ PlaceInv /\ TokenInv /\ [AccountsNext]_tokenVars => TokenInv'
<1> SUFFICES ASSUME TypeInv, PlaceInv, TokenInv, [AccountsNext]_tokenVars
             PROVE  TokenInv'
  OBVIOUS
<1> TokenTypeOK /\ Grows
  BY StepGrows DEF TypeInv
<1>1. ASSUME NEW f \in Flow PROVE TokenSound(flows'[f], sent', issuedTo')
  <2>1. TokenSound(flows[f], sent', issuedTo')
    BY SoundKept DEF TokenInv, RowsSound
  <2>2. CASE flows'[f] = flows[f]
    BY <2>1, <2>2
  <2>3. CASE Created(f)
    BY <2>3 DEF Created, TokenSound
  <2>4. CASE Ended(f) /\ flows'[f].type = flows[f].type
    BY <2>1, <2>4 DEF Ended, TokenSound
  <2>5. ASSUME NEW r \in Request, target[r] = f, GivenOwner(f, r),
               flows'[f].type = flows[f].type
        PROVE  TokenSound(flows'[f], sent', issuedTo')
    <3>1. NameOwner(r) /\ flows[f].type = "verification"
      BY <2>5 DEF GivenOwner, NameOwner, PlaceInv, PlaceOf
    <3> QED BY <2>5, <3>1, SentSoon DEF GivenOwner, TokenSound
  <2>6. ASSUME NEW r \in Request, target[r] = f, Offered(f, r),
               flows'[f].type = flows[f].type
        PROVE  TokenSound(flows'[f], sent', issuedTo')
    <3>1. OfferToken(r) /\ flows[f].type = "recovery"
      BY <2>6 DEF Offered, OfferToken, PlaceInv, PlaceOf, AtRecovery
    <3> QED BY <2>6, <3>1, SentSoon DEF Offered, TokenSound
  <2>7. ASSUME NEW r \in Request, Completed(f, r)
        PROVE  TokenSound(flows'[f], sent', issuedTo')
    BY <2>7 DEF Completed, TokenSound
  <2>8. ASSUME NEW r \in Request, target[r] = f, TakenBack(f, r),
               flows'[f].type = flows[f].type
        PROVE  TokenSound(flows'[f], sent', issuedTo')
    <3>1. TokenSound(copy[r], sent', issuedTo')
      BY SoundKept DEF TokenInv, CopiesSound
    <3>2. copy[r].type = flows'[f].type
      BY <2>8 DEF TakenBack, PersistAttempt, PlaceInv, PlaceOf, AtAnyFlow
    <3> QED BY <2>8, <3>1, <3>2 DEF TakenBack, TokenSound
  <2> QED BY <2>2, <2>3, <2>4, <2>5, <2>6, <2>7, <2>8, RowWrites DEF Writes
<1>2. ASSUME NEW r \in Request PROVE TokenSound(copy'[r], sent', issuedTo')
  <2>1. TokenSound(copy[r], sent', issuedTo')
    BY SoundKept DEF TokenInv, CopiesSound
  <2>2. TokenSound(flows[target[r]], sent', issuedTo')
    BY SoundKept, Locals DEF TokenInv, RowsSound
  <2>3. TokenSound(Blank, sent', issuedTo')
    BY BlankIsRow DEF TokenSound
  <2> QED BY <2>1, <2>2, <2>3, CopyMoves
<1>3. ASSUME NEW r \in Request PROVE given'[r] \in sent' \cup {NoToken}
  <2>1. CASE Still(r)
    BY <2>1 DEF Still, TokenInv, Grows
  <2>2. CASE Submit(r)
    BY <2>2 DEF Submit, SubmitRegistration, SubmitVerification, SubmitRecovery,
                SubmitLink, SubmitInitiate, SubmitCallback, Arrive,
                TokenTypeOK, tokens
  <2>3. CASE Reads(r) /\ ~ Submit(r)
    BY <2>3 DEF Reads, ReadRegistration, ReadVerification, ReadForRequest,
                ReadForUse, GetFlow, ReadRegistrationPolicy, CheckIdentifier,
                LookupIdentity, ReadForInitiate, ReadForCallback, FindSubject,
                Abandon, TokenInv, Grows, tokens
  <2>4. CASE Steps(r)
    <3>1. given' = given
      BY <2>4 DEF Steps, CreateAccount, AddCredential, CompleteRegistration,
                  IssueRegistrationSession, InitVerification, NameOwner,
                  RefuseVerification, ActivateIdentity, CompleteVerification,
                  OfferToken, OfferUnstored, RefuseLink, Reactivate,
                  IssueRecoverySession, CompleteRecovery, PersistAttempt,
                  ProvisionIdentity, LinkSubject, IssueOidcSession,
                  CompleteCallback, MarkExpired
    <3> QED BY <3>1 DEF TokenInv, Grows
  <2> QED BY <2>1, <2>2, <2>3, <2>4, ActsOrWorld, WorldIsStill, OneMoves
<1>4. \A a \in accepted' : a.token \in sent'
  <2>1. CASE accepted' = accepted
    BY <2>1 DEF TokenInv, Grows
  <2>2. ASSUME NEW r \in Request, Accepts(r) PROVE \A a \in accepted' : a.token \in sent'
    <3>1. given[r] \in sent
      BY <2>2, AcceptedIsSound DEF Accepts
    <3>2. accepted' = accepted \cup {[request |-> r, token |-> given[r],
                                      type |-> copy[r].type]}
      BY <2>2 DEF Accepts, ActivateIdentity, Reactivate, Accept
    <3> QED BY <3>1, <3>2 DEF TokenInv, Grows
  <2>3. ASSUME NEW r \in Request, Reads(r) \/ Steps(r), ~ Accepts(r)
        PROVE  accepted' = accepted
    BY <2>3, ReadsOnly
       DEF Steps, Accepts, CreateAccount, AddCredential, CompleteRegistration,
           IssueRegistrationSession, InitVerification, NameOwner,
           RefuseVerification, CompleteVerification, OfferToken, OfferUnstored,
           RefuseLink, IssueRecoverySession, CompleteRecovery, PersistAttempt,
           ProvisionIdentity, LinkSubject, IssueOidcSession, CompleteCallback,
           MarkExpired, tokens
  <2>4. World => accepted' = accepted
    BY DEF World, InitRegistration, InitRecovery, FlowExpires, tokenVars, tokens
  <2> QED BY <2>1, <2>2, <2>3, <2>4, ActsOrWorld
<1>5. ASSUME NEW r \in Request, pc'[r] \in Recovering
      PROVE  given'[r] \in sent' /\ issuedTo'[given'[r]] = copy'[r].ui.owner
  <2>1. \/ /\ pc[r] \in Recovering
           /\ given'[r] = given[r] /\ copy'[r] = copy[r]
        \/ Reactivate(r) /\ given'[r] = given[r] /\ copy'[r] = copy[r]
    <3>1. CASE Still(r)
      BY <1>5, <3>1 DEF Still
    <3>2. CASE Reads(r)
      BY <1>5, <3>2, FinishTypes
         DEF Reads, Submit, SubmitRegistration, SubmitVerification,
             SubmitRecovery, SubmitLink, SubmitInitiate, SubmitCallback,
             Arrive, ReadRegistration, ReadVerification, ReadForRequest,
             ReadForUse, GetFlow, ReadRegistrationPolicy, CheckIdentifier,
             LookupIdentity, ReadForInitiate, ReadForCallback, FindSubject,
             Abandon, Goto, TokenTypeOK, Recovering
    <3>3. CASE Steps(r)
      BY <1>5, <3>3, FinishTypes
         DEF Steps, CreateAccount, AddCredential, CompleteRegistration,
             AfterRegistration, IssueRegistrationSession, InitVerification,
             NameOwner, RefuseVerification, ActivateIdentity,
             CompleteVerification, OfferToken, OfferUnstored, RefuseLink,
             Reactivate, IssueRecoverySession, CompleteRecovery,
             PersistAttempt, ProvisionIdentity, LinkSubject, IssueOidcSession,
             CompleteCallback, MarkExpired, Goto, TokenTypeOK, Recovering
    <3> QED BY <3>1, <3>2, <3>3, ActsOrWorld, WorldIsStill, OneMoves
  <2>2. given[r] \in sent /\ issuedTo[given[r]] = copy[r].ui.owner
    BY <2>1, AcceptedIsSound DEF TokenInv
  <2> QED BY <2>1, <2>2 DEF Grows
<1> QED
  BY <1>1, <1>2, <1>3, <1>4, <1>5 DEF TokenInv, RowsSound, CopiesSound

LEMMA TokenInvariant == AccountsSpec => []TokenInv
<1>1. TokenInit => TokenInv
  BY BlankIsRow
     DEF TokenInit, TokenInv, RowsSound, CopiesSound, TokenSound, Recovering
<1> QED
  BY <1>1, TypeInvariant, PlaceInvariant, TokenStep, PTL DEF AccountsSpec

(* However requests interleave, and whatever copies they write back, the   *)
(* token a verification or a recovery holds was made for whom it names.    *)
THEOREM TokensStay == AccountsSpec => []TokensStayWithTheirOwner
<1>1. TokenInv => TokensStayWithTheirOwner
  BY DEF TokenInv, RowsSound, TokenSound, TokensStayWithTheirOwner
<1> QED BY <1>1, TokenInvariant, PTL

(* A recovery session is the one of the identity its request's token was   *)
(* made for, however many emails were submitted to the flow meanwhile.     *)
THEOREM RecoverySessionsProved == AccountsSpec => []RecoverySessionsWereProved
<1> DEFINE Inv == RecoverySessionsWereProved
<1>1. TokenInit => Inv
  BY DEF TokenInit, RecoverySessionsWereProved, Issued, NoSession
<1>2. TypeInv /\ TokenInv /\ Inv /\ [AccountsNext]_tokenVars => Inv'
  <2> SUFFICES ASSUME TypeInv, TokenInv, Inv, [AccountsNext]_tokenVars,
                      NEW r \in Request, Issued(r)', sessions'[r].amr = RecoveryAMR
               PROVE  given'[r] \in sent' /\ issuedTo'[given'[r]] = sessions'[r].identity
    BY DEF RecoverySessionsWereProved
  <2> TokenTypeOK /\ Grows
    BY StepGrows DEF TypeInv
  <2>1. CASE Issued(r)
    BY <2>1 DEF Grows, RecoverySessionsWereProved
  <2>2. CASE IssueRecoverySession(r)
    <3>1. /\ given[r] \in sent /\ issuedTo[given[r]] = copy[r].ui.owner
          /\ given' = given /\ sent' = sent /\ issuedTo' = issuedTo
      BY <2>2 DEF IssueRecoverySession, TokenInv, Recovering, tokens
    <3>2. sessions'[r].identity = copy[r].ui.owner
      BY <2>2 DEF IssueRecoverySession, CreateSession, RecoveredIdentity, TokenTypeOK
    <3> QED BY <3>1, <3>2
  <2>3. ~ Issued(r) => IssueRecoverySession(r)
    BY NewSession, Kinds
  <2> QED BY <2>1, <2>2, <2>3
<1> QED BY <1>1, <1>2, TypeInvariant, TokenInvariant, PTL DEF AccountsSpec

(* Nobody becomes active without a token made for this very identity, a    *)
(* policy that asks for none, or an OIDC callback that creates the         *)
(* identity.                                                               *)
THEOREM ActiveProved == AccountsSpec => []ActiveAccountsWereProved
<1> DEFINE Inv == ActiveAccountsWereProved
<1>1. TokenInit => Inv
  BY DEF TokenInit, ActiveAccountsWereProved
<1>2. TypeInv /\ PlaceInv /\ TokenInv /\ Inv /\ [AccountsNext]_tokenVars => Inv'
  <2> SUFFICES ASSUME TypeInv, PlaceInv, TokenInv, Inv, [AccountsNext]_tokenVars,
                      NEW i \in Identity, accounts'[i] = "active"
               PROVE  i \in Before \cup unverified' \/ Proved(i)'
    BY DEF ActiveAccountsWereProved
  <2> TokenTypeOK /\ Grows
    BY StepGrows DEF TypeInv
  <2>1. CASE accounts[i] = "active"
    <3>1. Proved(i) => Proved(i)'
      BY DEF Proved, Grows, TokenInv
    <3> QED BY <2>1, <3>1 DEF ActiveAccountsWereProved, Grows
  <2>2. ASSUME NEW r \in Request, Accepts(r), accounts'[i] # accounts[i]
        PROVE  Proved(i)'
    <3> DEFINE a == [request |-> r, token |-> given[r], type |-> copy[r].type]
    <3>1. given[r] \in sent /\ issuedTo[given[r]] = i
      BY <2>2, AcceptedIsSound
         DEF Accepts, ActivateIdentity, Reactivate, UpdateIdentityState, TokenTypeOK
    <3>2. a \in accepted' /\ issuedTo' = issuedTo
      BY <2>2 DEF Accepts, ActivateIdentity, Reactivate, Accept
    <3>3. a.token = given[r]
      OBVIOUS
    <3> HIDE DEF a
    <3> QED BY <3>1, <3>2, <3>3 DEF Proved, TokenTypeOK
  <2>3. ASSUME NEW r \in Request, Creates(r), accounts'[i] # accounts[i]
        PROVE  i \in unverified'
    BY <2>3, Creation DEF TokenTypeOK
  <2>4. \/ accounts'[i] = accounts[i]
        \/ \E r \in Request : Accepts(r) \/ Creates(r)
    BY AccountWrites DEF Accepts
  <2> QED BY <2>1, <2>2, <2>3, <2>4
<1> QED
  BY <1>1, <1>2, TypeInvariant, PlaceInvariant, TokenInvariant, PTL DEF AccountsSpec

-----------------------------------------------------------------------------
(* Who is active when a session is inserted, and what a flow has when it   *)
(* is completed.                                                           *)

ActiveOf(r) ==
  /\ pc[r] \in {"credential", "complete", "session"} /\ ~ draft[r].verify =>
       accounts[draft[r].identity] = "active"
  /\ pc[r] = "session" => ~ draft[r].verify
  /\ pc[r] \in {"link"} \cup Confirming => accounts[draft[r].identity] = "active"
  /\ pc[r] \in Recovering => accounts[copy[r].ui.owner] = "active"

GivenOf(r) ==
  /\ pc[r] \in {"complete"} \cup Confirming =>
       draft[r].identity \in enrolledIdentities
  /\ pc[r] = "recovered" =>
       Issued(r) /\ sessions[r].identity = copy[r].ui.owner
  /\ pc[r] = "oidc_complete" =>
       Issued(r) /\ sessions[r].identity = draft[r].identity

GivenInv == \A r \in Request : ActiveOf(r) /\ GivenOf(r)

LEMMA GivenStep == TypeInv /\ GivenInv /\ [AccountsNext]_tokenVars => GivenInv'
<1> SUFFICES ASSUME TypeInv, GivenInv, [AccountsNext]_tokenVars PROVE GivenInv'
  OBVIOUS
<1> TokenTypeOK /\ Grows
  BY StepGrows DEF TypeInv
<1>1. ASSUME NEW q \in Request, Still(q) PROVE ActiveOf(q)' /\ GivenOf(q)'
  <2>1. ActiveOf(q) /\ GivenOf(q)
    BY DEF GivenInv
  <2>2. /\ pc[q] \in Registering \cup Confirming => draft[q].identity \in Identity
        /\ pc[q] \in Recovering => copy[q].ui.owner \in Identity
    BY DEF TypeInv, WhereInv
  <2>3. ActiveOf(q)'
    BY <1>1, <2>1, <2>2 DEF Still, ActiveOf, Grows, Registering
  <2>4. GivenOf(q)'
    BY <1>1, <2>1 DEF Still, GivenOf, Issued, Grows
  <2> QED BY <2>3, <2>4
<1>2. ASSUME NEW r \in Request, Reads(r) PROVE ActiveOf(r)' /\ GivenOf(r)'
  <2>1. CASE ~ FindSubject(r)
    <3>1. pc'[r] \notin {"credential", "complete", "session", "link"}
                         \cup Confirming \cup Recovering
      BY <1>2, <2>1, FinishTypes
         DEF Reads, Submit, SubmitRegistration, SubmitVerification,
             SubmitRecovery, SubmitLink, SubmitInitiate, SubmitCallback, Arrive,
             ReadRegistration, ReadVerification, ReadForRequest, ReadForUse,
             GetFlow, ReadRegistrationPolicy, CheckIdentifier, LookupIdentity,
             ReadForInitiate, ReadForCallback, Abandon, Goto, TokenTypeOK,
             Recovering, Confirming
    <3> QED BY <3>1 DEF ActiveOf, GivenOf, Recovering, Confirming
  <2>2. CASE FindSubject(r)
    <3>1. PICK i \in linked :
            accounts[i] = "active" /\ draft' = [draft EXCEPT ![r].identity = i]
      BY <2>2 DEF FindSubject
    <3>2. draft'[r].identity = i
      BY <3>1 DEF TokenTypeOK, Draft
    <3>3. pc'[r] = "oidc_session" /\ accounts' = accounts /\ linked' = linked
      BY <2>2 DEF FindSubject, Goto, tables, TokenTypeOK
    <3> QED
      BY <3>1, <3>2, <3>3
         DEF ActiveOf, GivenOf, Recovering, Confirming, enrolledIdentities
  <2> QED BY <2>1, <2>2
<1>3. ASSUME NEW r \in Request, Steps(r) PROVE ActiveOf(r)' /\ GivenOf(r)'
  <2> USE DEF TokenTypeOK, Goto, Recovering, Confirming
  <2>0. ActiveOf(r) /\ GivenOf(r)
    BY DEF GivenInv
  <2>1. CASE Creates(r)
    <3>1. \/ CreateAccount(r) /\ pc'[r] = "credential"
          \/ ProvisionIdentity(r) /\ pc'[r] = "link"
      BY <2>1 DEF Creates, CreateAccount, ProvisionIdentity
    <3>2. PICK i \in Identity, s \in {"active", "pending_verification"} :
            /\ accounts' = [accounts EXCEPT ![i] = s]
            /\ draft'[r].identity = i
            /\ draft'[r].verify = draft[r].verify
            /\ s # "active" => CreateAccount(r) /\ draft[r].verify
      BY <2>1, Creation
    <3>3. accounts'[i] = s
      BY <3>2
    <3>4. CreateAccount(r) => pc[r] = "identity"
      BY DEF CreateAccount
    <3>5. ProvisionIdentity(r) => pc[r] = "subject"
      BY DEF ProvisionIdentity, Confirmed
    <3> QED BY <3>1, <3>2, <3>3, <3>4, <3>5 DEF ActiveOf, GivenOf
  <2>2. CASE AddCredential(r)
    <3>1. PICK names \in CredentialNames(draft[r].claim) :
            credentials' = credentials \cup
              {[identity |-> draft[r].identity, type |-> draft[r].claim[1],
                names |-> names]}
      BY <2>2 DEF AddCredential, CreateCredential
    <3> DEFINE c == [identity |-> draft[r].identity, type |-> draft[r].claim[1],
                     names |-> names]
    <3>2. c \in credentials' /\ c.identity = draft[r].identity /\ draft' = draft
      BY <2>2, <3>1 DEF AddCredential
    <3> HIDE DEF c
    <3>3. draft'[r].identity \in enrolledIdentities'
      BY <3>2 DEF enrolledIdentities
    <3> QED BY <2>0, <2>2, <3>2, <3>3 DEF AddCredential, ActiveOf, GivenOf
  <2>3. CASE CompleteRegistration(r)
    BY <2>0, <2>3 DEF CompleteRegistration, AfterRegistration, ActiveOf, GivenOf
  <2>4. CASE Reactivate(r)
    <3>1. copy[r].ui.owner \in Identity
      BY <2>4, Locals DEF Reactivate, Owner
    <3> QED BY <2>4, <3>1 DEF Reactivate, UpdateIdentityState, ActiveOf, GivenOf
  <2>5. CASE IssueRecoverySession(r)
    BY <2>0, <2>5
       DEF IssueRecoverySession, RecoveredIdentity, CreateSession, Issued,
           ActiveOf, GivenOf
  <2>6. CASE InitVerification(r) \/ ActivateIdentity(r)
    BY <2>6 DEF InitVerification, ActivateIdentity, ActiveOf, GivenOf
  <2>7. CASE LinkSubject(r)
    <3>1. draft'[r].identity \in enrolledIdentities'
      BY <2>7 DEF LinkSubject, enrolledIdentities
    <3> QED BY <2>0, <2>7, <3>1 DEF LinkSubject, ActiveOf, GivenOf
  <2>8. CASE IssueOidcSession(r)
    <3>1. enrolledIdentities' = enrolledIdentities
      BY <2>8 DEF IssueOidcSession, enrolledIdentities
    <3> QED
      BY <2>0, <2>8, <3>1
         DEF IssueOidcSession, CreateSession, Issued, ActiveOf, GivenOf
  <2>9. CASE \/ IssueRegistrationSession(r) \/ NameOwner(r)
             \/ RefuseVerification(r) \/ CompleteVerification(r)
             \/ OfferToken(r) \/ OfferUnstored(r) \/ RefuseLink(r)
             \/ CompleteRecovery(r) \/ MarkExpired(r)
             \/ PersistAttempt(r) \/ CompleteCallback(r)
    <3>1. pc'[r] = "done"
      BY <2>9, FinishTypes
         DEF IssueRegistrationSession, NameOwner, RefuseVerification,
             CompleteVerification, OfferToken, OfferUnstored, RefuseLink,
             CompleteRecovery, PersistAttempt, CompleteCallback, MarkExpired
    <3> QED BY <3>1 DEF ActiveOf, GivenOf
  <2> QED
    BY <1>3, <2>1, <2>2, <2>3, <2>4, <2>5, <2>6, <2>7, <2>8, <2>9
       DEF Steps, Creates
<1> QED BY <1>1, <1>2, <1>3, ActsOrWorld, WorldIsStill, OneMoves DEF GivenInv

LEMMA GivenInvariant == AccountsSpec => []GivenInv
<1>1. TokenInit => GivenInv
  BY DEF TokenInit, GivenInv, ActiveOf, GivenOf, Recovering, Confirming
<1> QED BY <1>1, TypeInvariant, GivenStep, PTL DEF AccountsSpec

(* Registering, recovering and OIDC give sessions to active identities.    *)
THEOREM OnlyActiveAccounts == AccountsSpec => []SessionsAreForActiveAccounts
<1> DEFINE Inv == \A r \in Request : Issued(r) =>
      sessions[r].identity \in Identity /\ accounts[sessions[r].identity] = "active"
<1>1. TokenInit => Inv
  BY DEF TokenInit, Issued, NoSession
<1>2. TypeInv /\ GivenInv /\ Inv /\ [AccountsNext]_tokenVars => Inv'
  <2> SUFFICES ASSUME TypeInv, GivenInv, Inv, [AccountsNext]_tokenVars,
                      NEW r \in Request, Issued(r)'
               PROVE  /\ sessions'[r].identity \in Identity
                      /\ accounts'[sessions'[r].identity] = "active"
    OBVIOUS
  <2> TokenTypeOK /\ Grows /\ ActiveOf(r)
    BY StepGrows DEF TypeInv, GivenInv
  <2>1. CASE Issued(r)
    BY <2>1 DEF Grows
  <2>2. CASE IssueRegistrationSession(r)
    BY <2>2 DEF IssueRegistrationSession, CreateSession, TokenTypeOK, ActiveOf,
       TypeInv, WhereInv, Registering
  <2>3. CASE IssueRecoverySession(r)
    BY <2>3 DEF IssueRecoverySession, RecoveredIdentity, CreateSession,
       TokenTypeOK, ActiveOf, TypeInv, WhereInv, Recovering
  <2>4. CASE IssueOidcSession(r)
    BY <2>4 DEF IssueOidcSession, CreateSession, TokenTypeOK, ActiveOf,
       TypeInv, WhereInv, Confirming
  <2> QED BY <2>1, <2>2, <2>3, <2>4, NewSession
<1>3. Inv => SessionsAreForActiveAccounts
  BY DEF SessionsAreForActiveAccounts
<1> QED BY <1>1, <1>2, <1>3, TypeInvariant, GivenInvariant, PTL DEF AccountsSpec

(* What makes a flow of a type successful: its own engine, or a callback.  *)
LEMMA Successes ==
  ASSUME TypeInv, PlaceInv, [AccountsNext]_tokenVars, NEW f \in Flow,
         flows'[f].state = "success", flows'[f] # flows[f]
  PROVE  \E r \in Request :
           /\ target[r] = f
           /\ \/ /\ CompleteCallback(r)
                 /\ flows'[f].identity = draft[r].identity
              \/ /\ flows'[f].type = "registration"
                 /\ CompleteRegistration(r)
                 /\ flows'[f].identity = draft[r].identity
              \/ flows'[f].type = "verification" /\ CompleteVerification(r)
              \/ /\ flows'[f].type = "recovery"
                 /\ CompleteRecovery(r)
                 /\ flows'[f].identity = copy[r].ui.owner
<1>1. PICK r \in Request :
        target[r] = f /\ Completed(f, r) /\ flows'[f].type = flows[f].type
  BY RowWrites DEF Writes, Created, Ended, GivenOwner, Offered, TakenBack
<1>2. PlaceOf(r)
  BY DEF PlaceInv
<1> QED
  BY <1>1, <1>2 DEF Completed, CompleteRegistration, CompleteVerification,
     CompleteRecovery, PlaceOf, AtRegistration, AtVerification, AtRecovery

(* A registration marked successful names an identity with a credential.   *)
THEOREM RegisteredHaveCredentials ==
  AccountsSpec => []RegisteredAccountsHaveCredentials
<1> DEFINE Inv == RegisteredAccountsHaveCredentials
<1>1. TokenInit => Inv
  BY BlankIsRow DEF TokenInit, RegisteredAccountsHaveCredentials
<1>2. TypeInv /\ PlaceInv /\ GivenInv /\ Inv /\ [AccountsNext]_tokenVars => Inv'
  <2> SUFFICES ASSUME TypeInv, PlaceInv, GivenInv, Inv, [AccountsNext]_tokenVars,
                      NEW f \in Flow, flows'[f].type = "registration",
                      flows'[f].state = "success"
               PROVE  flows'[f].identity \in enrolledIdentities'
    BY DEF RegisteredAccountsHaveCredentials
  <2> Grows
    BY StepGrows
  <2>1. CASE flows'[f] = flows[f]
    BY <2>1 DEF RegisteredAccountsHaveCredentials, Grows
  <2>2. CASE flows'[f] # flows[f]
    <3>1. PICK r \in Request :
            /\ CompleteRegistration(r) \/ CompleteCallback(r)
            /\ flows'[f].identity = draft[r].identity
      BY <2>2, Successes
    <3>2. draft[r].identity \in enrolledIdentities
      BY <3>1 DEF CompleteRegistration, CompleteCallback, Confirming, GivenInv, GivenOf
    <3> QED BY <3>1, <3>2 DEF Grows
  <2> QED BY <2>1, <2>2
<1> QED
  BY <1>1, <1>2, TypeInvariant, PlaceInvariant, GivenInvariant, PTL DEF AccountsSpec

(* A recovery marked successful gave the identity it names a session.      *)
THEOREM RecoveredHaveSessions == AccountsSpec => []RecoveredFlowsGaveASession
<1> DEFINE Inv == RecoveredFlowsGaveASession
<1>1. TokenInit => Inv
  BY BlankIsRow DEF TokenInit, RecoveredFlowsGaveASession
<1>2. TypeInv /\ PlaceInv /\ GivenInv /\ Inv /\ [AccountsNext]_tokenVars => Inv'
  <2> SUFFICES ASSUME TypeInv, PlaceInv, GivenInv, Inv, [AccountsNext]_tokenVars,
                      NEW f \in Flow, flows'[f].type = "recovery",
                      flows'[f].state = "success"
               PROVE  \E r \in Request :
                        /\ target'[r] = f
                        /\ Issued(r)'
                        /\ sessions'[r].identity = flows'[f].identity
    BY DEF RecoveredFlowsGaveASession
  <2> Grows
    BY StepGrows
  <2>1. PICK r \in Request :
          target[r] = f /\ Issued(r) /\ sessions[r].identity = flows'[f].identity
    <3>1. CASE flows'[f] = flows[f]
      BY <3>1 DEF RecoveredFlowsGaveASession
    <3>2. CASE flows'[f] # flows[f]
      <4>1. PICK r \in Request :
              /\ target[r] = f
              /\ \/ CompleteRecovery(r) /\ flows'[f].identity = copy[r].ui.owner
                 \/ CompleteCallback(r) /\ flows'[f].identity = draft[r].identity
        BY <3>2, Successes
      <4> QED
        BY <4>1 DEF CompleteRecovery, CompleteCallback, GivenInv, GivenOf
    <3> QED BY <3>1, <3>2
  <2> QED BY <2>1 DEF Grows, Issued
<1> QED
  BY <1>1, <1>2, TypeInvariant, PlaceInvariant, GivenInvariant, PTL DEF AccountsSpec

-----------------------------------------------------------------------------
(* Whose an identifier is: where every method takes the identifier that    *)
(* was checked, the unique index finds what the check missed.  External    *)
(* methods name their credentials themselves, and the index, which         *)
(* compares whole arrays, does not find the overlap.                       *)

\* What was imported names one identity each.
Unambiguous ==
  \A c, d \in Imported :
    c.type = d.type /\ c.names \cap d.names # {} => c.identity = d.identity

\* No imported credential has this name.
Unclaimed(type, name) == \A c \in Imported : c.type = type => name \notin c.names

NameInv ==
  /\ Imported \subseteq credentials
  /\ \A c \in credentials \ Imported :
       \E name \in Identifier : c.names = {name} /\ Unclaimed(c.type, name)
  /\ \A c, d \in credentials \ Imported :
       c.type = d.type /\ c.names = d.names => c = d
  /\ \A r \in Request : pc[r] \in {"identity", "credential"} =>
       Unclaimed(draft[r].claim[1], draft[r].claim[2])

LEMMA NameStep ==
  ASSUME External = {}, TypeInv, NameInv, [AccountsNext]_tokenVars
  PROVE  NameInv'
<1> TokenTypeOK
  BY DEF TypeInv
<1>1. CASE credentials' = credentials
  <2>1. ASSUME NEW r \in Request, pc'[r] \in {"identity", "credential"}
        PROVE  Unclaimed(draft'[r].claim[1], draft'[r].claim[2])
    <3>1. CASE Still(r)
      BY <2>1, <3>1 DEF Still, NameInv
    <3>2. CASE CheckIdentifier(r)
      <4>1. PICK type \in Method, name \in Identifier :
              /\ Named(type, name) = {}
              /\ draft' = [draft EXCEPT ![r].claim = <<type, name>>]
        BY <3>2 DEF CheckIdentifier
      <4>2. draft'[r].claim = <<type, name>>
        BY <4>1 DEF TokenTypeOK, Draft
      <4>3. Unclaimed(type, name)
        BY <4>1 DEF Named, NameInv, Unclaimed
      <4> QED BY <4>2, <4>3
    <3>3. CASE Reads(r) /\ ~ CheckIdentifier(r)
      BY <2>1, <3>3, FinishTypes
         DEF Reads, Submit, SubmitRegistration, SubmitVerification,
             SubmitRecovery, SubmitLink, SubmitInitiate, SubmitCallback,
             Arrive, ReadRegistration, ReadVerification, ReadForRequest,
             ReadForUse, GetFlow, ReadRegistrationPolicy, LookupIdentity,
             ReadForInitiate, ReadForCallback, FindSubject, Abandon, Goto,
             TokenTypeOK
    <3>4. CASE CreateAccount(r)
      <4>1. Unclaimed(draft[r].claim[1], draft[r].claim[2])
        BY <3>4 DEF CreateAccount, NameInv
      <4>2. draft'[r].claim = draft[r].claim
        BY <3>4 DEF CreateAccount, TokenTypeOK, Draft
      <4> QED BY <4>1, <4>2
    <3>5. CASE Steps(r) /\ ~ CreateAccount(r)
      BY <2>1, <3>5, FinishTypes
         DEF Steps, AddCredential, CompleteRegistration, AfterRegistration,
             IssueRegistrationSession, InitVerification, NameOwner,
             RefuseVerification, ActivateIdentity, CompleteVerification,
             OfferToken, OfferUnstored, RefuseLink, Reactivate,
             IssueRecoverySession, CompleteRecovery, PersistAttempt,
             ProvisionIdentity, LinkSubject, IssueOidcSession,
             CompleteCallback, MarkExpired, Goto, TokenTypeOK
    <3> QED BY <3>1, <3>2, <3>3, <3>4, <3>5, ActsOrWorld, WorldIsStill, OneMoves
  <2> QED BY <1>1, <2>1 DEF NameInv
<1>2. ASSUME NEW r \in Request, AddCredential(r) PROVE NameInv'
  <2>1. /\ draft[r].claim[1] \in Method
        /\ draft[r].claim[2] \in Identifier
        /\ Unclaimed(draft[r].claim[1], draft[r].claim[2])
    BY <1>2 DEF AddCredential, TypeInv, WhereInv, NameInv
  <2> DEFINE new == [identity |-> draft[r].identity, type |-> draft[r].claim[1],
                     names |-> {draft[r].claim[2]}]
  <2>2. /\ \A c \in credentials :
             ~ (c.type = draft[r].claim[1] /\ c.names = {draft[r].claim[2]})
        /\ credentials' = credentials \cup {new}
    BY <1>2 DEF AddCredential, CredentialNames, CreateCredential
  <2>3. new.type = draft[r].claim[1] /\ new.names = {draft[r].claim[2]}
    OBVIOUS
  <2> HIDE DEF new
  <2>4. Imported \subseteq credentials'
    BY <2>2 DEF NameInv
  <2>5. \A c \in credentials' \ Imported :
          \E name \in Identifier : c.names = {name} /\ Unclaimed(c.type, name)
    BY <2>1, <2>2, <2>3 DEF NameInv
  <2>6. \A c, d \in credentials' \ Imported :
          c.type = d.type /\ c.names = d.names => c = d
    BY <2>2, <2>3 DEF NameInv
  <2>7. \A q \in Request : pc'[q] \in {"identity", "credential"} =>
          Unclaimed(draft'[q].claim[1], draft'[q].claim[2])
    BY <1>2 DEF AddCredential, Goto, TokenTypeOK, NameInv
  <2> QED BY <2>4, <2>5, <2>6, <2>7 DEF NameInv
<1>3. credentials' = credentials \/ \E r \in Request : AddCredential(r)
  <2>1. World => credentials' = credentials
    BY DEF World, InitRegistration, InitRecovery, FlowExpires, tokenVars, tables
  <2>2. ASSUME NEW r \in Request, Reads(r) \/ Steps(r), ~ AddCredential(r)
        PROVE  credentials' = credentials
    BY <2>2, ReadsOnly
       DEF Steps, CreateAccount, CompleteRegistration,
           IssueRegistrationSession, InitVerification, NameOwner,
           RefuseVerification, ActivateIdentity, CompleteVerification,
           OfferToken, OfferUnstored, RefuseLink, Reactivate,
           IssueRecoverySession, CompleteRecovery, PersistAttempt,
           ProvisionIdentity, LinkSubject, IssueOidcSession, CompleteCallback,
           MarkExpired, tables
  <2> QED BY <2>1, <2>2, ActsOrWorld
<1> QED BY <1>1, <1>2, <1>3

(* With no external method, an identifier names one identity, however many *)
(* requests pass the check before one of them inserts.                     *)
THEOREM OneIdentityPerName ==
  ASSUME External = {}, Unambiguous
  PROVE  AccountsSpec => []IdentifiersNameOneIdentity
<1>1. TokenInit => NameInv
  BY DEF TokenInit, NameInv
<1>2. TypeInv /\ NameInv /\ [AccountsNext]_tokenVars => NameInv'
  BY NameStep
<1>3. TypeInv /\ NameInv => IdentifiersNameOneIdentity
  <2> SUFFICES ASSUME NameInv, NEW type \in Method, NEW name \in Identifier,
                      NEW c \in credentials, NEW d \in credentials,
                      c.type = type, d.type = type, name \in c.names, name \in d.names
               PROVE  c.identity = d.identity
    BY DEF IdentifiersNameOneIdentity, Named
  <2>1. CASE c \in Imported /\ d \in Imported
    BY <2>1 DEF Unambiguous
  <2>2. CASE c \notin Imported /\ d \notin Imported
    BY <2>2 DEF NameInv
  <2>3. ~ (c \in Imported /\ d \notin Imported)
    BY DEF NameInv, Unclaimed
  <2>4. ~ (c \notin Imported /\ d \in Imported)
    BY DEF NameInv, Unclaimed
  <2> QED BY <2>1, <2>2, <2>3, <2>4
<1> QED BY <1>1, <1>2, <1>3, TypeInvariant, PTL DEF AccountsSpec
=============================================================================
