------------------------------ MODULE OidcProofs ------------------------------
(***************************************************************************)
(* Proofs about OidcLogin for any set of requests, flows, identities,      *)
(* providers and subjects, whichever providers check a code verifier.      *)
(***************************************************************************)
EXTENDS OidcLogin, TLAPS

-----------------------------------------------------------------------------
(* Types, and where a request is when it has what.                         *)

\* A callback that has redeemed its code.
Redeemed == {"lookup", "load", "provision", "link", "session", "complete"}

\* A callback that has a code.
Calling == {"get_callback", "configure", "exchange"} \cup Redeemed

WhereInv ==
  \A r \in Request :
    /\ pc[r] \in {"get_initiate", "provider", "persist"} => wanted[r] \in Provider
    /\ pc[r] \in Calling \/ Issued(r) => code[r] \in Code
    /\ pc[r] \in {"load", "link", "session", "complete"} => owner[r] \in Identity
    /\ Issued(r) => pc[r] \in {"complete", "done"}

TypeInv == OidcTypeOK /\ WhereInv

LEMMA PlainIsUI ==
  ASSUME NEW phase \in {"none", "first_factor", "second_factor", "verify", "complete"}
  PROVE  /\ Plain(phase) \in UI
         /\ [Plain(phase) EXCEPT !.oidc = TRUE] \in UI
         /\ Plain(phase).attempt = NoAttempt
         /\ [Plain(phase) EXCEPT !.oidc = TRUE].attempt = NoAttempt
         /\ ~ Plain(phase).oidc
         /\ [Plain(phase) EXCEPT !.oidc = TRUE].oidc
  BY DEF Plain, UI

LEMMA BlankIsRow ==
  /\ Blank \in RowOf(UI)
  /\ Blank.ui.attempt = NoAttempt
  /\ ~ Blank.ui.oidc
  /\ Blank.state = "absent"
  BY PlainIsUI DEF Blank, NoRow, RowOf, FlowType, FlowState, Owner

(* An attempt laid over the ui of a copy.                                  *)
LEMMA AttemptUI ==
  ASSUME NEW old \in UI, NEW p \in Provider, NEW r \in Request
  PROVE  /\ [old EXCEPT !.provider = p, !.attempt = r] \in UI
         /\ [old EXCEPT !.provider = p, !.attempt = r].provider = p
         /\ [old EXCEPT !.provider = p, !.attempt = r].attempt = r
         /\ [old EXCEPT !.provider = p, !.attempt = r].oidc = old.oidc
  BY DEF UI

(* What a write of a flow row leaves.                                      *)
LEMMA FlowsRecord ==
  ASSUME OidcTypeOK, NEW f \in Flow, NEW state \in FlowState, NEW i \in Owner,
         NEW ui \in UI
  PROVE  /\ UpdateFlow(f, state, i, ui) =>
              /\ flows' \in [Flow -> RowOf(UI)]
              /\ flows'[f].identity = i
              /\ flows'[f].state = state
              /\ flows'[f].ui = ui
              /\ \A g \in Flow : g # f => flows'[g] = flows[g]
         /\ UpdateFlowState(f, state) =>
              /\ flows' \in [Flow -> RowOf(UI)]
              /\ flows'[f].identity = flows[f].identity
              /\ flows'[f].state = state
              /\ flows'[f].ui = flows[f].ui
              /\ \A g \in Flow : g # f => flows'[g] = flows[g]
<1>1. ASSUME UpdateFlow(f, state, i, ui)
      PROVE  /\ flows' \in [Flow -> RowOf(UI)]
             /\ flows'[f].identity = i
             /\ flows'[f].state = state
             /\ flows'[f].ui = ui
             /\ \A g \in Flow : g # f => flows'[g] = flows[g]
  <2>1. [type |-> flows[f].type, state |-> state, identity |-> i, ui |-> ui]
          \in RowOf(UI)
    BY DEF OidcTypeOK, RowOf
  <2> QED BY <1>1, <2>1 DEF UpdateFlow, OidcTypeOK
<1>2. ASSUME UpdateFlowState(f, state)
      PROVE  /\ flows' \in [Flow -> RowOf(UI)]
             /\ flows'[f].identity = flows[f].identity
             /\ flows'[f].state = state
             /\ flows'[f].ui = flows[f].ui
             /\ \A g \in Flow : g # f => flows'[g] = flows[g]
  BY <1>2 DEF UpdateFlowState, OidcTypeOK, RowOf
<1> QED BY <1>1, <1>2

LEMMA CreateRecord ==
  ASSUME OidcTypeOK, NEW f \in Flow, NEW type \in FlowType, NEW ui \in UI,
         CreateFlow(f, type, ui)
  PROVE  /\ flows' \in [Flow -> RowOf(UI)]
         /\ flows'[f].ui = ui
         /\ flows'[f].state = "pending"
         /\ \A g \in Flow : g # f => flows'[g] = flows[g]
  BY DEF CreateFlow, OidcTypeOK, RowOf, FlowState, Owner

\* What a request has, and the session it inserted.
Still(r) ==
  /\ pc'[r] = pc[r]
  /\ copy'[r] = copy[r]
  /\ wanted'[r] = wanted[r]
  /\ code'[r] = code[r]
  /\ owner'[r] = owner[r]
  /\ gone'[r] = gone[r]
  /\ sessions'[r] = sessions[r]

\* A step of no request.
World ==
  \/ \E f \in Flow : InitAnyFlow(f) \/ FlowExpires(f)
  \/ \E p \in Provider : SetEnabled(p) \/ DeleteProvider(p)
  \/ \E i \in Identity : ActivateElsewhere(i)
  \/ \E a \in started : Authorize(a)
  \/ UNCHANGED oidcVars

LEMMA WorldIsStill == World => \A r \in Request : Still(r)
  BY DEF World, Still, InitAnyFlow, FlowExpires, SetEnabled, DeleteProvider,
     ActivateElsewhere, Authorize, oidcVars, oidcTables, oidcLocals, oidcWorld

(* Nobody moves but the request whose step it is, and that one keeps       *)
(* what it came with.                                                      *)
LEMMA OneMoves ==
  ASSUME OidcTypeOK, NEW r \in Request, SubmitOidc(r) \/ ServeOidc(r)
  PROVE  /\ \A q \in Request : q # r => Still(q)
         /\ ServeOidc(r) =>
              /\ wanted' = wanted
              /\ code' = code
              /\ gone' = gone
<1> USE DEF OidcTypeOK, Still, oidcTables, oidcLocals, oidcWorld, Goto, Finish
<1>1. CASE SubmitOidc(r)
  BY <1>1 DEF SubmitOidc, SubmitInitiate, SubmitCallback, SubmitElsewhere,
     Arrive, ServeOidc, ReadForInitiate, ReadForCallback, ReadElsewhere, GetFlow,
     PickProvider, PersistAttempt, LoadProvider, ExchangeCode, LookupSubject,
     LoadIdentity, ProvisionIdentity, LinkSubject, IssueOidcSession,
     CompleteCallback, WriteElsewhere, MarkExpired, Abandon
<1>2. CASE ReadForInitiate(r) \/ ReadForCallback(r) \/ ReadElsewhere(r)
  BY <1>2 DEF ReadForInitiate, ReadForCallback, ReadElsewhere, GetFlow
<1>3. CASE PickProvider(r) \/ PersistAttempt(r) \/ LoadProvider(r) \/ ExchangeCode(r)
  BY <1>3 DEF PickProvider, PersistAttempt, LoadProvider, ExchangeCode
<1>4. CASE LookupSubject(r) \/ LoadIdentity(r) \/ ProvisionIdentity(r)
           \/ LinkSubject(r)
  BY <1>4 DEF LookupSubject, LoadIdentity, ProvisionIdentity, LinkSubject
<1>5. CASE IssueOidcSession(r)
  BY <1>5 DEF IssueOidcSession, CreateSession
<1>6. CASE CompleteCallback(r) \/ WriteElsewhere(r) \/ MarkExpired(r) \/ Abandon(r)
  BY <1>6 DEF CompleteCallback, WriteElsewhere, MarkExpired, Abandon
<1> QED BY <1>1, <1>2, <1>3, <1>4, <1>5, <1>6 DEF ServeOidc

LEMMA TypeStep == TypeInv /\ [OidcNext]_oidcVars => OidcTypeOK'
<1> SUFFICES ASSUME TypeInv, [OidcNext]_oidcVars PROVE OidcTypeOK'
  OBVIOUS
<1> OidcTypeOK
  BY DEF TypeInv
<1> USE DEF oidcTables, oidcLocals, oidcWorld
<1>1. ASSUME NEW f \in Flow, InitAnyFlow(f) PROVE OidcTypeOK'
  <2>1. flows' \in [Flow -> RowOf(UI)]
    BY <1>1, CreateRecord, PlainIsUI DEF InitAnyFlow, FlowType
  <2> QED BY <1>1, <2>1 DEF OidcTypeOK, InitAnyFlow
<1>2. ASSUME NEW f \in Flow, FlowExpires(f) PROVE OidcTypeOK'
  BY <1>2 DEF OidcTypeOK, FlowExpires, PassExpiry
<1>3. ASSUME NEW p \in Provider, SetEnabled(p) \/ DeleteProvider(p)
      PROVE  OidcTypeOK'
  BY <1>3 DEF OidcTypeOK, SetEnabled, DeleteProvider, ProviderState
<1>4. ASSUME NEW i \in Identity, ActivateElsewhere(i) PROVE OidcTypeOK'
  BY <1>4 DEF OidcTypeOK, ActivateElsewhere, UpdateIdentityState, AccountState
<1>5. ASSUME NEW a \in started, Authorize(a) PROVE OidcTypeOK'
  <2>1. a.attempt \in Request /\ a.provider \in Provider
    BY DEF OidcTypeOK, Attempt
  <2>2. granted' \subseteq Code
    BY <1>5, <2>1 DEF OidcTypeOK, Authorize, Code
  <2> QED BY <1>5, <2>2 DEF OidcTypeOK, Authorize
<1>6. ASSUME NEW r \in Request, SubmitOidc(r) PROVE OidcTypeOK'
  <2>1. PICK step \in PC : Arrive(r, step)
    BY <1>6 DEF SubmitOidc, SubmitInitiate, SubmitCallback, SubmitElsewhere, PC
  <2>2. wanted' \in [Request -> Provider \cup {NoProvider}]
    BY <1>6 DEF OidcTypeOK, SubmitOidc, SubmitInitiate, SubmitCallback, SubmitElsewhere
  <2>3. code' \in [Request -> Code \cup {NoCode}]
    BY <1>6 DEF OidcTypeOK, SubmitOidc, SubmitInitiate, SubmitCallback, SubmitElsewhere
  <2>4. gone' \in [Request -> SUBSET Provider]
    BY <2>1 DEF OidcTypeOK, Arrive
  <2>5. pc' \in [Request -> PC]
    BY <2>1 DEF OidcTypeOK, Arrive, Goto
  <2> QED BY <2>1, <2>2, <2>3, <2>4, <2>5 DEF OidcTypeOK, Arrive
<1>7. ASSUME NEW r \in Request,
             ReadForInitiate(r) \/ ReadForCallback(r) \/ ReadElsewhere(r)
      PROVE  OidcTypeOK'
  BY <1>7 DEF OidcTypeOK, ReadForInitiate, ReadForCallback, ReadElsewhere,
     GetFlow, Goto, PC
<1>8. ASSUME NEW r \in Request,
             PickProvider(r) \/ LoadProvider(r) \/ ExchangeCode(r) \/ LoadIdentity(r)
      PROVE  OidcTypeOK'
  BY <1>8 DEF OidcTypeOK, PickProvider, LoadProvider, ExchangeCode, LoadIdentity,
     Goto, PC
<1>9. ASSUME NEW r \in Request, Finish(r)
      PROVE  /\ pc' \in [Request -> PC]
             /\ copy' \in [Request -> RowOf(UI)]
             /\ owner' \in [Request -> Owner]
  BY <1>9, BlankIsRow DEF OidcTypeOK, Finish, Goto, PC, Owner
<1>10. ASSUME NEW r \in Request
       PROVE  /\ copy[r].identity \in Owner
              /\ copy[r].ui \in UI
              /\ target[r] \in Flow
              /\ owner[r] \in Owner
  BY DEF OidcTypeOK, RowOf
<1>11. {"pending", "success", "failed", "expired"} \subseteq FlowState
  BY DEF FlowState
<1>12. ASSUME NEW r \in Request, PersistAttempt(r) PROVE OidcTypeOK'
  <2>1. wanted[r] \in Provider
    BY <1>12 DEF PersistAttempt, TypeInv, WhereInv
  <2>2. flows' \in [Flow -> RowOf(UI)]
    BY <1>10, <1>11, <1>12, <2>1, AttemptUI, FlowsRecord DEF PersistAttempt
  <2>3. started' \subseteq Attempt
    BY <1>10, <1>12, <2>1 DEF PersistAttempt, OidcTypeOK, Attempt
  <2> QED BY <1>9, <1>12, <2>2, <2>3 DEF OidcTypeOK, PersistAttempt
<1>13. ASSUME NEW r \in Request, MarkExpired(r) PROVE OidcTypeOK'
  <2>1. flows' \in [Flow -> RowOf(UI)]
    BY <1>10, <1>11, <1>13, FlowsRecord DEF MarkExpired
  <2> QED BY <1>9, <1>13, <2>1 DEF OidcTypeOK, MarkExpired
<1>14. ASSUME NEW r \in Request, LookupSubject(r) PROVE OidcTypeOK'
  <2>1. Named(oidc, SubjectOf(code[r])) \subseteq Identity
    BY DEF Named, OidcTypeOK, Credential
  <2>2. owner' \in [Request -> Owner]
    BY <1>14, <2>1 DEF OidcTypeOK, LookupSubject, Owner
  <2>3. pc' \in [Request -> PC]
    BY <1>14 DEF OidcTypeOK, LookupSubject, Goto, PC
  <2> QED BY <1>14, <2>2, <2>3 DEF OidcTypeOK, LookupSubject
<1>15. ASSUME NEW r \in Request, ProvisionIdentity(r) PROVE OidcTypeOK'
  <2>1. accounts' \in [Identity -> AccountState]
    BY <1>15 DEF OidcTypeOK, ProvisionIdentity, CreateIdentity, AccountState
  <2>2. owner' \in [Request -> Owner]
    BY <1>15 DEF OidcTypeOK, ProvisionIdentity, Owner
  <2>3. pc' \in [Request -> PC]
    BY <1>15 DEF OidcTypeOK, ProvisionIdentity, Goto, PC
  <2> QED BY <1>15, <2>1, <2>2, <2>3 DEF OidcTypeOK, ProvisionIdentity
<1>16. ASSUME NEW r \in Request, LinkSubject(r) PROVE OidcTypeOK'
  <2>1. owner[r] \in Identity /\ code[r] \in Code
    BY <1>16 DEF LinkSubject, TypeInv, WhereInv, Calling, Redeemed
  <2>2. SubjectOf(code[r]) \in Identifier /\ oidc \in Method
    BY <2>1, SubjectAssumption DEF SubjectOf, Code
  <2>3. credentials' \subseteq Credential
    BY <1>16, <2>1, <2>2 DEF LinkSubject, CreateCredential, OidcTypeOK, Credential
  <2> QED BY <1>16, <2>3 DEF OidcTypeOK, LinkSubject, Goto, PC
<1>17. ASSUME NEW r \in Request, IssueOidcSession(r) PROVE OidcTypeOK'
  <2>1. sessions' \in [Request -> SessionOf({<<>>, AMR})]
    BY <1>10, <1>17
       DEF IssueOidcSession, CreateSession, OidcTypeOK, SessionOf, SessionState, AAL
  <2> QED BY <1>17, <2>1 DEF OidcTypeOK, IssueOidcSession, Goto, PC
<1>18. ASSUME NEW r \in Request, CompleteCallback(r) PROVE OidcTypeOK'
  <2>1. flows' \in [Flow -> RowOf(UI)]
    BY <1>10, <1>11, <1>18, PlainIsUI, FlowsRecord DEF CompleteCallback, CallbackOwner
  <2> QED BY <1>9, <1>18, <2>1 DEF OidcTypeOK, CompleteCallback
<1>19. ASSUME NEW r \in Request, WriteElsewhere(r) PROVE OidcTypeOK'
  <2>1. \/ \E state \in FlowState, i \in Owner, ui \in UI :
             UpdateFlow(target[r], state, i, ui)
        \/ UpdateFlowState(target[r], "failed")
    BY <1>10, <1>11, <1>19, PlainIsUI DEF WriteElsewhere, Owner
  <2>2. flows' \in [Flow -> RowOf(UI)]
    BY <1>10, <1>11, <2>1, FlowsRecord, PlainIsUI DEF Owner
  <2> QED BY <1>9, <1>19, <2>2 DEF OidcTypeOK, WriteElsewhere
<1>20. ASSUME NEW r \in Request, Abandon(r) PROVE OidcTypeOK'
  BY <1>9, <1>20 DEF OidcTypeOK, Abandon
<1>21. CASE UNCHANGED oidcVars
  BY <1>21 DEF OidcTypeOK, oidcVars
<1> QED
  BY <1>1, <1>2, <1>3, <1>4, <1>5, <1>6, <1>7, <1>8, <1>12, <1>13, <1>14, <1>15,
     <1>16, <1>17, <1>18, <1>19, <1>20, <1>21 DEF OidcNext, ServeOidc

LEMMA WhereStep == TypeInv /\ [OidcNext]_oidcVars => WhereInv'
<1> SUFFICES ASSUME TypeInv, [OidcNext]_oidcVars PROVE WhereInv'
  OBVIOUS
<1> OidcTypeOK
  BY DEF TypeInv
<1> USE DEF Calling, Redeemed
<1>1. CASE World
  BY <1>1, WorldIsStill DEF Still, TypeInv, WhereInv, Issued
<1>2. ASSUME NEW r \in Request, SubmitOidc(r) \/ ServeOidc(r) PROVE WhereInv'
  <2> DEFINE Where(q) ==
        /\ pc[q] \in {"get_initiate", "provider", "persist"} => wanted[q] \in Provider
        /\ pc[q] \in Calling \/ Issued(q) => code[q] \in Code
        /\ pc[q] \in {"load", "link", "session", "complete"} => owner[q] \in Identity
        /\ Issued(q) => pc[q] \in {"complete", "done"}
  <2>1. Where(r)
    BY DEF TypeInv, WhereInv
  <2>2. ASSUME NEW q \in Request, q # r PROVE Where(q)'
    <3>1. Still(q) /\ Where(q)
      BY <1>2, <2>2, OneMoves DEF TypeInv, WhereInv
    <3> QED BY <3>1 DEF Still, Issued
  <2>3. Where(r)'
    <3> USE DEF OidcTypeOK, Goto, Finish, Issued, oidcTables, oidcLocals, oidcWorld
    <3>1. CASE SubmitOidc(r)
      BY <2>1, <3>1 DEF SubmitOidc, SubmitInitiate, SubmitCallback,
         SubmitElsewhere, Arrive
    <3>2. CASE ReadForInitiate(r) \/ ReadForCallback(r) \/ ReadElsewhere(r)
      BY <2>1, <3>2 DEF ReadForInitiate, ReadForCallback, ReadElsewhere, GetFlow
    <3>3. CASE PickProvider(r) \/ LoadProvider(r) \/ ExchangeCode(r)
               \/ LoadIdentity(r)
      BY <2>1, <3>3 DEF PickProvider, LoadProvider, ExchangeCode, LoadIdentity
    <3>4. CASE LookupSubject(r)
      <4>1. Named(oidc, SubjectOf(code[r])) \subseteq Identity
        BY DEF Named, Credential
      <4> QED BY <2>1, <3>4, <4>1 DEF LookupSubject
    <3>5. CASE ProvisionIdentity(r)
      BY <2>1, <3>5 DEF ProvisionIdentity
    <3>6. CASE LinkSubject(r)
      BY <2>1, <3>6 DEF LinkSubject
    <3>7. CASE IssueOidcSession(r)
      BY <2>1, <3>7 DEF IssueOidcSession, CreateSession
    <3>8. CASE PersistAttempt(r) \/ CompleteCallback(r) \/ WriteElsewhere(r)
               \/ MarkExpired(r) \/ Abandon(r)
      BY <2>1, <3>8 DEF PersistAttempt, CompleteCallback, WriteElsewhere,
         MarkExpired, Abandon
    <3> QED
      BY <1>2, <3>1, <3>2, <3>3, <3>4, <3>5, <3>6, <3>7, <3>8 DEF ServeOidc
  <2> QED BY <2>2, <2>3 DEF WhereInv
<1> QED BY <1>1, <1>2 DEF OidcNext, World

LEMMA TypeInvariant == OidcSpec => []TypeInv
<1>1. OidcInit => TypeInv
  <2> SUFFICES ASSUME OidcInit PROVE TypeInv
    OBVIOUS
  <2>1. credentials \subseteq Credential
    BY OidcImportAssumption DEF OidcInit
  <2>2. accounts \in [Identity -> AccountState]
    BY DEF OidcInit, AccountState
  <2>3. OidcTypeOK
    BY <2>1, <2>2, BlankIsRow
       DEF OidcInit, OidcTypeOK, NoSession, SessionOf, SessionState, AAL, Owner,
           ProviderState, PC
  <2>4. WhereInv
    BY DEF OidcInit, WhereInv, Issued, NoSession, Calling, Redeemed
  <2> QED BY <2>3, <2>4 DEF TypeInv
<1>2. TypeInv /\ [OidcNext]_oidcVars => TypeInv'
  BY TypeStep, WhereStep DEF TypeInv
<1> QED BY <1>1, <1>2, PTL DEF OidcSpec

(* Every variable of a behaviour of OidcLogin keeps its type.              *)
THEOREM OidcTypeCorrect == OidcSpec => []OidcTypeOK
<1>1. TypeInv => OidcTypeOK
  BY DEF TypeInv
<1> QED BY <1>1, TypeInvariant, PTL

-----------------------------------------------------------------------------
(* What only ever grows, and what a request keeps.                         *)

Grows ==
  /\ target' = target
  /\ started \subseteq started'
  /\ credentials \subseteq credentials'
  /\ \A i \in Identity : accounts[i] = "active" => accounts'[i] = "active"
  /\ \A p \in Provider : providers[p] = "deleted" => providers'[p] = "deleted"
  /\ \A r \in Request : Issued(r) => sessions'[r] = sessions[r]
  /\ \A r \in Request : pc[r] # "idle" => code'[r] = code[r] /\ gone'[r] = gone[r]

LEMMA StepGrows == TypeInv /\ [OidcNext]_oidcVars => Grows
<1> SUFFICES ASSUME TypeInv, [OidcNext]_oidcVars PROVE Grows
  OBVIOUS
<1> OidcTypeOK
  BY DEF TypeInv
<1> USE DEF oidcTables, oidcLocals, oidcWorld
<1>1. CASE World
  <2>1. \A r \in Request : Still(r)
    BY <1>1, WorldIsStill
  <2>2. /\ target' = target
        /\ started \subseteq started'
        /\ credentials \subseteq credentials'
    BY <1>1 DEF World, InitAnyFlow, FlowExpires, SetEnabled, DeleteProvider,
       ActivateElsewhere, Authorize, oidcVars
  <2>3. \A i \in Identity : accounts[i] = "active" => accounts'[i] = "active"
    BY <1>1 DEF World, InitAnyFlow, FlowExpires, SetEnabled, DeleteProvider,
       ActivateElsewhere, UpdateIdentityState, Authorize, oidcVars, OidcTypeOK
  <2>4. \A p \in Provider : providers[p] = "deleted" => providers'[p] = "deleted"
    BY <1>1 DEF World, InitAnyFlow, FlowExpires, SetEnabled, DeleteProvider,
       ActivateElsewhere, Authorize, oidcVars, OidcTypeOK
  <2> QED BY <2>1, <2>2, <2>3, <2>4 DEF Grows, Still
<1>2. ASSUME NEW r \in Request, SubmitOidc(r) \/ ServeOidc(r) PROVE Grows
  <2>1. \A q \in Request : q # r => Still(q)
    BY <1>2, OneMoves
  <2>2. /\ target' = target
        /\ started \subseteq started'
        /\ credentials \subseteq credentials'
        /\ providers' = providers
        /\ \A i \in Identity : accounts[i] = "active" => accounts'[i] = "active"
    BY <1>2 DEF SubmitOidc, SubmitInitiate, SubmitCallback, SubmitElsewhere,
       Arrive, ServeOidc, ReadForInitiate, ReadForCallback, ReadElsewhere,
       GetFlow, PickProvider, PersistAttempt, LoadProvider, ExchangeCode,
       LookupSubject, LoadIdentity, ProvisionIdentity, CreateIdentity,
       LinkSubject, CreateCredential, IssueOidcSession, CompleteCallback,
       WriteElsewhere, MarkExpired, Abandon, OidcTypeOK
  <2>3. Issued(r) => ~ IssueOidcSession(r)
    BY DEF TypeInv, WhereInv, IssueOidcSession
  <2>4. IssueOidcSession(r) \/ sessions' = sessions
    BY <1>2 DEF SubmitOidc, SubmitInitiate, SubmitCallback, SubmitElsewhere,
       Arrive, ServeOidc, ReadForInitiate, ReadForCallback, ReadElsewhere,
       GetFlow, PickProvider, PersistAttempt, LoadProvider, ExchangeCode,
       LookupSubject, LoadIdentity, ProvisionIdentity, LinkSubject,
       CompleteCallback, WriteElsewhere, MarkExpired, Abandon
  <2>5. pc[r] # "idle" => ~ SubmitOidc(r)
    BY DEF SubmitOidc, SubmitInitiate, SubmitCallback, SubmitElsewhere, Arrive
  <2>6. pc[r] # "idle" => code'[r] = code[r] /\ gone'[r] = gone[r]
    BY <1>2, <2>5, OneMoves
  <2> QED BY <2>1, <2>2, <2>3, <2>4, <2>6 DEF Grows, Still
<1> QED BY <1>1, <1>2 DEF OidcNext, World

-----------------------------------------------------------------------------
(* What a step writes into a flow row.                                     *)

Writes(f) ==
  \/ flows'[f] = flows[f]
  \/ /\ flows'[f].ui = flows[f].ui
     /\ flows'[f].identity = flows[f].identity
     /\ flows'[f].state \in {"expired", "failed"}
  \/ ~ flows'[f].ui.oidc /\ flows'[f].ui.attempt = NoAttempt
  \/ \E r \in Request : target[r] = f /\ flows'[f].ui = copy[r].ui
  \/ \E r \in Request :
       /\ target[r] = f
       /\ flows'[f].ui.attempt = r
       /\ flows'[f].ui.provider = wanted[r]
       /\ flows'[f].ui.oidc = copy[r].ui.oidc
       /\ started' = started \cup {[attempt |-> r, provider |-> wanted[r], flow |-> f]}
  \/ \E r \in Request :
       /\ pc[r] = "complete"
       /\ target[r] = f
       /\ flows'[f].state = "success"
       /\ flows'[f].identity = owner[r]
       /\ flows'[f].ui.attempt = NoAttempt

LEMMA RowWrites ==
  TypeInv /\ [OidcNext]_oidcVars => \A f \in Flow : Writes(f)
<1> SUFFICES ASSUME TypeInv, [OidcNext]_oidcVars, NEW f \in Flow PROVE Writes(f)
  OBVIOUS
<1> OidcTypeOK
  BY DEF TypeInv
<1> USE DEF oidcTables, oidcLocals, oidcWorld
<1>1. CASE flows' = flows
  BY <1>1 DEF Writes
<1>2. ASSUME NEW r \in Request
      PROVE  /\ copy[r].identity \in Owner
             /\ copy[r].ui \in UI
             /\ target[r] \in Flow
             /\ owner[r] \in Owner
  BY DEF OidcTypeOK, RowOf
<1>3. {"pending", "success", "failed", "expired"} \subseteq FlowState
  BY DEF FlowState
<1>4. ASSUME NEW g \in Flow, InitAnyFlow(g) PROVE Writes(f)
  <2>1. /\ flows'[g].ui.attempt = NoAttempt /\ ~ flows'[g].ui.oidc
        /\ f # g => flows'[f] = flows[f]
    BY <1>4, CreateRecord, PlainIsUI DEF InitAnyFlow, FlowType
  <2> QED BY <2>1 DEF Writes
<1>5. ASSUME NEW r \in Request, PersistAttempt(r) PROVE Writes(f)
  <2>1. wanted[r] \in Provider
    BY <1>5 DEF PersistAttempt, TypeInv, WhereInv
  <2> DEFINE ui == [copy[r].ui EXCEPT !.provider = wanted[r], !.attempt = r]
  <2>2. /\ ui \in UI
        /\ ui.provider = wanted[r]
        /\ ui.attempt = r
        /\ ui.oidc = copy[r].ui.oidc
    <3>1. copy[r].ui \in UI
      BY <1>2
    <3> QED BY <2>1, <3>1 DEF UI
  <2>3. UpdateFlow(target[r], "pending", copy[r].identity, ui)
    BY <1>5 DEF PersistAttempt
  <2> HIDE DEF ui
  <2>4. /\ flows'[target[r]].ui = ui
        /\ f # target[r] => flows'[f] = flows[f]
    BY <1>2, <1>3, <2>2, <2>3, FlowsRecord
  <2> QED BY <1>5, <2>2, <2>4 DEF Writes, PersistAttempt
<1>6. ASSUME NEW r \in Request, UpdateFlowState(target[r], "expired")
                                \/ UpdateFlowState(target[r], "failed")
      PROVE  Writes(f)
  <2>1. /\ flows'[target[r]].ui = flows[target[r]].ui
        /\ flows'[target[r]].identity = flows[target[r]].identity
        /\ flows'[target[r]].state \in {"expired", "failed"}
        /\ f # target[r] => flows'[f] = flows[f]
    BY <1>2, <1>3, <1>6 DEF UpdateFlowState, OidcTypeOK, RowOf
  <2> QED BY <2>1 DEF Writes
<1>7. ASSUME NEW r \in Request, CompleteCallback(r) PROVE Writes(f)
  <2> DEFINE ui == [Plain("complete") EXCEPT !.oidc = TRUE]
  <2>1. ui \in UI /\ ui.attempt = NoAttempt
    BY PlainIsUI
  <2>2. UpdateFlow(target[r], "success", owner[r], ui)
    BY <1>7 DEF CompleteCallback, CallbackOwner
  <2> HIDE DEF ui
  <2>3. /\ flows'[target[r]].state = "success"
        /\ flows'[target[r]].identity = owner[r]
        /\ flows'[target[r]].ui = ui
        /\ f # target[r] => flows'[f] = flows[f]
    BY <1>2, <1>3, <2>1, <2>2, FlowsRecord
  <2> QED BY <1>7, <2>1, <2>3 DEF Writes, CompleteCallback
<1>8. ASSUME NEW r \in Request, WriteElsewhere(r) PROVE Writes(f)
  <2>1. CASE UpdateFlow(target[r], "pending", copy[r].identity, copy[r].ui)
    <3>1. /\ flows'[target[r]].ui = copy[r].ui
          /\ f # target[r] => flows'[f] = flows[f]
      BY <1>2, <1>3, <2>1, FlowsRecord
    <3> QED BY <3>1 DEF Writes
  <2>2. ASSUME NEW state \in FlowState, NEW i \in Owner,
               NEW phase \in {"second_factor", "complete", "verify"},
               UpdateFlow(target[r], state, i, Plain(phase))
        PROVE  Writes(f)
    <3>1. /\ flows'[target[r]].ui.attempt = NoAttempt /\ ~ flows'[target[r]].ui.oidc
          /\ f # target[r] => flows'[f] = flows[f]
      BY <1>2, <2>2, PlainIsUI, FlowsRecord
    <3> QED BY <3>1 DEF Writes
  <2> QED BY <1>2, <1>3, <1>6, <1>8, <2>1, <2>2 DEF WriteElsewhere, Owner
<1>9. ASSUME NEW r \in Request,
             \/ SubmitOidc(r) \/ ReadForInitiate(r) \/ ReadForCallback(r)
             \/ ReadElsewhere(r) \/ PickProvider(r) \/ LoadProvider(r)
             \/ ExchangeCode(r) \/ LookupSubject(r) \/ LoadIdentity(r)
             \/ ProvisionIdentity(r) \/ LinkSubject(r) \/ IssueOidcSession(r)
             \/ Abandon(r)
      PROVE  flows' = flows
  BY <1>9 DEF SubmitOidc, SubmitInitiate, SubmitCallback, SubmitElsewhere, Arrive,
     ReadForInitiate, ReadForCallback, ReadElsewhere, GetFlow, PickProvider,
     LoadProvider, ExchangeCode, LookupSubject, LoadIdentity, ProvisionIdentity,
     LinkSubject, IssueOidcSession, Abandon
<1>10. ASSUME NEW r \in Request, MarkExpired(r) PROVE Writes(f)
  BY <1>6, <1>10 DEF MarkExpired
<1>11. CASE World /\ ~ \E g \in Flow : InitAnyFlow(g)
  BY <1>1, <1>11 DEF World, FlowExpires, SetEnabled, DeleteProvider,
     ActivateElsewhere, Authorize, oidcVars
<1> QED
  BY <1>1, <1>4, <1>5, <1>7, <1>8, <1>9, <1>10, <1>11 DEF OidcNext, World, ServeOidc

-----------------------------------------------------------------------------
(* Attempts: a row or a copy of it holds none, or one that was started on  *)
(* that very flow, so a code redeemed against a copy belongs to its flow.  *)

RowSound(f, row) ==
  row.ui.attempt # NoAttempt =>
    [attempt |-> row.ui.attempt, provider |-> row.ui.provider, flow |-> f] \in started

StartedHere(r) ==
  [attempt |-> code[r].attempt, provider |-> code[r].provider,
   flow |-> target[r]] \in started

AttemptInv ==
  /\ \A f \in Flow : RowSound(f, flows[f])
  /\ \A r \in Request : RowSound(target[r], copy[r])
  /\ \A r \in Request : pc[r] \in Redeemed \/ Issued(r) => StartedHere(r)

LEMMA AttemptStep ==
  TypeInv /\ AttemptInv /\ [OidcNext]_oidcVars => AttemptInv'
<1> SUFFICES ASSUME TypeInv, AttemptInv, [OidcNext]_oidcVars PROVE AttemptInv'
  OBVIOUS
<1> OidcTypeOK /\ Grows
  BY StepGrows DEF TypeInv
<1>1. \A f \in Flow : RowSound(f, flows[f])'
  BY RowWrites DEF Writes, RowSound, AttemptInv, Grows
<1>2. ASSUME NEW r \in Request, Still(r)
      PROVE  /\ RowSound(target[r], copy[r])'
             /\ pc'[r] \in Redeemed \/ Issued(r)' => StartedHere(r)'
  BY <1>2 DEF Still, RowSound, StartedHere, Issued, AttemptInv, Grows
<1>3. ASSUME NEW r \in Request, SubmitOidc(r) \/ ServeOidc(r)
      PROVE  /\ RowSound(target[r], copy[r])'
             /\ pc'[r] \in Redeemed \/ Issued(r)' => StartedHere(r)'
  <2> USE DEF OidcTypeOK, Goto, Finish, oidcTables, oidcLocals, oidcWorld
  <2>0. target[r] \in Flow
    OBVIOUS
  <2>1. RowSound(target[r], copy[r])'
    <3>1. \/ copy'[r] = copy[r]
          \/ copy'[r] = Blank
          \/ copy'[r] = flows[target[r]]
      BY <1>3 DEF SubmitOidc, SubmitInitiate, SubmitCallback, SubmitElsewhere,
         Arrive, ServeOidc, ReadForInitiate, ReadForCallback, ReadElsewhere,
         GetFlow, PickProvider, PersistAttempt, LoadProvider, ExchangeCode,
         LookupSubject, LoadIdentity, ProvisionIdentity, LinkSubject,
         IssueOidcSession, CompleteCallback, WriteElsewhere, MarkExpired, Abandon
    <3> QED BY <2>0, <3>1, BlankIsRow DEF RowSound, AttemptInv, Grows
  <2>2. CASE pc[r] \in Redeemed \/ Issued(r)
    <3>1. StartedHere(r) /\ pc[r] # "idle"
      BY <2>2 DEF AttemptInv, TypeInv, WhereInv, Redeemed
    <3> QED BY <2>1, <3>1 DEF StartedHere, Grows
  <2>3. CASE ExchangeCode(r)
    <3>1. code[r] \in Code /\ code[r].attempt # NoAttempt
      BY <2>3, NoAttemptAssumption
         DEF ExchangeCode, TypeInv, WhereInv, Calling, Redeemed, Code
    <3>2. StartedHere(r)
      BY <2>3, <3>1 DEF ExchangeCode, Redeems, NonceMatches, AttemptInv, RowSound,
         StartedHere
    <3> QED BY <2>1, <2>3, <3>2 DEF ExchangeCode, StartedHere
  <2>4. CASE ~ (pc[r] \in Redeemed \/ Issued(r)) /\ ~ ExchangeCode(r)
    <3>1. sessions' = sessions /\ pc'[r] \notin Redeemed
      BY <1>3, <2>4
         DEF SubmitOidc, SubmitInitiate, SubmitCallback, SubmitElsewhere, Arrive,
             ServeOidc, ReadForInitiate, ReadForCallback, ReadElsewhere, GetFlow,
             PickProvider, PersistAttempt, LoadProvider, LookupSubject,
             LoadIdentity, ProvisionIdentity, LinkSubject, IssueOidcSession,
             CompleteCallback, WriteElsewhere, MarkExpired, Abandon, Redeemed
    <3> QED BY <2>1, <2>4, <3>1 DEF Issued
  <2> QED BY <2>2, <2>3, <2>4
<1>4. \A r \in Request : Still(r) \/ SubmitOidc(r) \/ ServeOidc(r)
  BY OneMoves, WorldIsStill DEF OidcNext, World
<1> QED BY <1>1, <1>2, <1>3, <1>4 DEF AttemptInv

LEMMA AttemptInvariant == OidcSpec => []AttemptInv
<1>1. OidcInit => AttemptInv
  BY BlankIsRow
     DEF OidcInit, AttemptInv, RowSound, Issued, NoSession, Redeemed
<1> QED BY <1>1, TypeInvariant, AttemptStep, PTL DEF OidcSpec

(* However attempts overwrite each other and copies are written back, a    *)
(* session comes from an attempt of the flow and provider it was begun at. *)
THEOREM AttemptsMatch == OidcSpec => []SessionsMatchTheirAttempt
<1>1. AttemptInv => SessionsMatchTheirAttempt
  BY DEF AttemptInv, SessionsMatchTheirAttempt, StartedHere
<1> QED BY <1>1, AttemptInvariant, PTL

-----------------------------------------------------------------------------
(* Providers: what was deleted before a callback came is still deleted     *)
(* when the callback reads the provider.                                   *)

GoneInv ==
  \A r \in Request :
    /\ \A p \in gone[r] : providers[p] = "deleted"
    /\ pc[r] = "exchange" => copy[r].ui.provider \notin gone[r]
    /\ pc[r] \in Redeemed \/ Issued(r) => code[r].provider \notin gone[r]

LEMMA GoneStep == TypeInv /\ GoneInv /\ [OidcNext]_oidcVars => GoneInv'
<1> SUFFICES ASSUME TypeInv, GoneInv, [OidcNext]_oidcVars, NEW r \in Request
             PROVE  /\ \A p \in gone'[r] : providers'[p] = "deleted"
                    /\ pc'[r] = "exchange" => copy'[r].ui.provider \notin gone'[r]
                    /\ pc'[r] \in Redeemed \/ Issued(r)' =>
                         code'[r].provider \notin gone'[r]
  BY DEF GoneInv, Issued
<1> OidcTypeOK /\ Grows
  BY StepGrows DEF TypeInv
<1>0. gone[r] \subseteq Provider
  BY DEF OidcTypeOK
<1>1. CASE Still(r)
  BY <1>0, <1>1 DEF Still, GoneInv, Grows, Issued
<1>2. CASE SubmitOidc(r)
  <2>1. pc[r] = "idle" /\ ~ Issued(r) /\ sessions' = sessions /\ providers' = providers
    BY <1>2 DEF SubmitOidc, SubmitInitiate, SubmitCallback, SubmitElsewhere,
       Arrive, oidcTables, TypeInv, WhereInv
  <2>2. pc'[r] \in {"get_initiate", "get_callback", "get_elsewhere"}
    BY <1>2 DEF SubmitOidc, SubmitInitiate, SubmitCallback, SubmitElsewhere,
       Arrive, Goto, OidcTypeOK
  <2>3. gone'[r] = {p \in Provider : providers[p] = "deleted"}
    BY <1>2 DEF SubmitOidc, SubmitInitiate, SubmitCallback, SubmitElsewhere,
       Arrive, OidcTypeOK
  <2> QED BY <2>1, <2>2, <2>3 DEF Issued, Redeemed
<1>3. CASE ServeOidc(r)
  <2> USE DEF Goto, Finish, oidcTables, oidcLocals, oidcWorld
  <2>0. gone'[r] = gone[r] /\ code'[r] = code[r]
    BY <1>3, OneMoves
  <2>1. \A p \in gone'[r] : providers'[p] = "deleted"
    BY <1>0, <2>0 DEF GoneInv, Grows
  <2>2. CASE LoadProvider(r)
    BY <2>0, <2>1, <2>2 DEF LoadProvider, Configured, GoneInv, OidcTypeOK, Issued,
       Redeemed
  <2>3. CASE ExchangeCode(r)
    BY <2>0, <2>1, <2>3 DEF ExchangeCode, Redeems, GoneInv, OidcTypeOK
  <2>4. CASE pc[r] \in Redeemed
    <3>1. pc'[r] # "exchange"
      BY <1>3, <2>4
         DEF ServeOidc, ReadForInitiate, ReadForCallback, ReadElsewhere, GetFlow,
             PickProvider, PersistAttempt, LoadProvider, ExchangeCode,
             LookupSubject, LoadIdentity, ProvisionIdentity, LinkSubject,
             IssueOidcSession, CompleteCallback, WriteElsewhere, MarkExpired,
             Abandon, Redeemed, OidcTypeOK
    <3> QED BY <2>0, <2>1, <2>4, <3>1 DEF GoneInv
  <2>5. CASE pc[r] \notin Redeemed /\ ~ LoadProvider(r) /\ ~ ExchangeCode(r)
    <3>1. sessions' = sessions /\ pc'[r] \notin Redeemed \cup {"exchange"}
      BY <1>3, <2>5
         DEF ServeOidc, ReadForInitiate, ReadForCallback, ReadElsewhere, GetFlow,
             PickProvider, PersistAttempt, LookupSubject, LoadIdentity,
             ProvisionIdentity, LinkSubject, IssueOidcSession, CompleteCallback,
             WriteElsewhere, MarkExpired, Abandon, Redeemed, OidcTypeOK
    <3> QED BY <2>0, <2>1, <3>1 DEF GoneInv, Issued
  <2> QED BY <2>2, <2>3, <2>4, <2>5
<1> QED
  BY <1>1, <1>2, <1>3, OneMoves, WorldIsStill DEF OidcNext, World

LEMMA GoneInvariant == OidcSpec => []GoneInv
<1>1. OidcInit => GoneInv
  BY DEF OidcInit, GoneInv, Issued, NoSession, Redeemed
<1> QED BY <1>1, TypeInvariant, GoneStep, PTL DEF OidcSpec

(* Whatever a flow row or a copy still names, a callback that comes after  *)
(* its provider was deleted gets no session.                               *)
THEOREM DeletedStayOut == OidcSpec => []DeletedProvidersLogNobodyIn
<1>1. GoneInv => DeletedProvidersLogNobodyIn
  BY DEF GoneInv, DeletedProvidersLogNobodyIn
<1> QED BY <1>1, GoneInvariant, PTL

-----------------------------------------------------------------------------
(* Subjects: every credential names one subject, and no two the same; who  *)
(* is to get a session, or has one, is linked to the subject of its code.  *)

LinkedTo(r, i) ==
  \E c \in credentials : c.names = {SubjectOf(code[r])} /\ c.identity = i

SubjectInv ==
  /\ \A c \in credentials : \E subject \in Identifier : c.names = {subject}
  /\ \A c, d \in credentials : c.names = d.names => c = d
  /\ \A r \in Request : pc[r] \in {"load", "session", "complete"} =>
       LinkedTo(r, owner[r])
  /\ \A r \in Request : Issued(r) => LinkedTo(r, sessions[r].identity)

LEMMA SubjectStep ==
  TypeInv /\ SubjectInv /\ [OidcNext]_oidcVars => SubjectInv'
<1> SUFFICES ASSUME TypeInv, SubjectInv, [OidcNext]_oidcVars PROVE SubjectInv'
  OBVIOUS
<1> OidcTypeOK /\ Grows
  BY StepGrows DEF TypeInv
<1> USE DEF oidcTables, oidcLocals, oidcWorld
<1>1. /\ \A c \in credentials' : \E subject \in Identifier : c.names = {subject}
      /\ \A c, d \in credentials' : c.names = d.names => c = d
  <2>1. CASE credentials' = credentials
    BY <2>1 DEF SubjectInv
  <2>2. ASSUME NEW r \in Request, LinkSubject(r)
        PROVE  /\ \A c \in credentials' : \E subject \in Identifier : c.names = {subject}
               /\ \A c, d \in credentials' : c.names = d.names => c = d
    <3> DEFINE new == [identity |-> owner[r], type |-> oidc,
                       names |-> {SubjectOf(code[r])}]
    <3>1. SubjectOf(code[r]) \in Identifier
      <4>1. code[r] \in Code
        BY <2>2 DEF LinkSubject, TypeInv, WhereInv, Calling, Redeemed
      <4> QED BY <4>1, SubjectAssumption DEF SubjectOf, Code
    <3>2. credentials' = credentials \cup {new}
      BY <2>2 DEF LinkSubject, CreateCredential
    <3>3. \A c \in credentials : c.type = oidc
      BY SubjectAssumption DEF OidcTypeOK, Credential
    <3>4. \A c \in credentials : c.names # new.names
      BY <2>2, <3>3 DEF LinkSubject, CreateCredential
    <3> QED BY <3>1, <3>2, <3>4 DEF SubjectInv
  <2>3. ASSUME NEW r \in Request, SubmitOidc(r) \/ ServeOidc(r), ~ LinkSubject(r)
        PROVE  credentials' = credentials
    BY <2>3 DEF SubmitOidc, SubmitInitiate, SubmitCallback, SubmitElsewhere,
       Arrive, ServeOidc, ReadForInitiate, ReadForCallback, ReadElsewhere,
       GetFlow, PickProvider, PersistAttempt, LoadProvider, ExchangeCode,
       LookupSubject, LoadIdentity, ProvisionIdentity, IssueOidcSession,
       CompleteCallback, WriteElsewhere, MarkExpired, Abandon
  <2>4. World => credentials' = credentials
    BY DEF World, InitAnyFlow, FlowExpires, SetEnabled, DeleteProvider,
       ActivateElsewhere, Authorize, oidcVars
  <2> QED BY <2>1, <2>2, <2>3, <2>4 DEF OidcNext, World
<1>2. ASSUME NEW r \in Request, code'[r] = code[r]
      PROVE  /\ LinkedTo(r, owner[r]) /\ owner'[r] = owner[r] =>
                  LinkedTo(r, owner[r])'
             /\ LinkedTo(r, sessions[r].identity) /\ sessions'[r] = sessions[r] =>
                  LinkedTo(r, sessions[r].identity)'
  BY <1>2 DEF LinkedTo, Grows
<1> DEFINE Linked(q) ==
      /\ pc[q] \in {"load", "session", "complete"} => LinkedTo(q, owner[q])
      /\ Issued(q) => LinkedTo(q, sessions[q].identity)
<1>3. ASSUME NEW r \in Request, Still(r) PROVE Linked(r)'
  BY <1>2, <1>3 DEF Still, SubjectInv, Issued
<1>4. ASSUME NEW r \in Request, SubmitOidc(r) \/ ServeOidc(r) PROVE Linked(r)'
  <2>1. CASE SubmitOidc(r)
    BY <2>1 DEF SubmitOidc, SubmitInitiate, SubmitCallback, SubmitElsewhere, Arrive,
       Goto, OidcTypeOK, Issued, TypeInv, WhereInv
  <2>2. CASE ServeOidc(r)
    <3>0. code'[r] = code[r]
      BY <2>2, OneMoves
    <3> USE DEF OidcTypeOK, Goto, Finish
    <3>1. CASE LookupSubject(r)
      <4>1. \A i \in Named(oidc, SubjectOf(code[r])) : LinkedTo(r, i)
        BY DEF Named, LinkedTo, SubjectInv
      <4>2. ~ Issued(r)
        BY <3>1 DEF LookupSubject, TypeInv, WhereInv
      <4> QED BY <3>1, <4>1, <4>2 DEF LookupSubject, LinkedTo, Issued
    <3>2. CASE LinkSubject(r)
      <4>1. ~ Issued(r)
        BY <3>2 DEF LinkSubject, TypeInv, WhereInv
      <4> DEFINE new == [identity |-> owner[r], type |-> oidc,
                         names |-> {SubjectOf(code[r])}]
      <4>2. new \in credentials' /\ owner'[r] = owner[r]
        BY <3>2 DEF LinkSubject, CreateCredential
      <4>3. LinkedTo(r, owner[r])'
        BY <3>0, <4>2 DEF LinkedTo
      <4> QED BY <3>2, <4>1, <4>3 DEF LinkSubject, Issued
    <3>3. CASE LoadIdentity(r)
      BY <3>3 DEF LoadIdentity, SubjectInv, Issued, LinkedTo
    <3>4. CASE IssueOidcSession(r)
      BY <3>4 DEF IssueOidcSession, CreateSession, SubjectInv, Issued, LinkedTo
    <3>5. CASE ~ LookupSubject(r) /\ ~ LinkSubject(r) /\ ~ LoadIdentity(r)
               /\ ~ IssueOidcSession(r)
      <4>1. sessions' = sessions /\ pc'[r] \notin {"load", "session", "complete"}
        BY <2>2, <3>5
           DEF ServeOidc, ReadForInitiate, ReadForCallback, ReadElsewhere, GetFlow,
               PickProvider, PersistAttempt, LoadProvider, ExchangeCode,
               ProvisionIdentity, CompleteCallback, WriteElsewhere, MarkExpired,
               Abandon
      <4> QED BY <1>2, <3>0, <4>1 DEF SubjectInv, Issued
    <3> QED BY <3>1, <3>2, <3>3, <3>4, <3>5
  <2> QED BY <1>4, <2>1, <2>2
<1>5. \A r \in Request : Still(r) \/ SubmitOidc(r) \/ ServeOidc(r)
  BY OneMoves, WorldIsStill DEF OidcNext, World
<1>6. \A r \in Request : Linked(r)'
  BY <1>3, <1>4, <1>5
<1> QED BY <1>1, <1>6 DEF SubjectInv

LEMMA SubjectInvariant == OidcSpec => []SubjectInv
<1>1. OidcInit => SubjectInv
  BY OidcImportAssumption DEF OidcInit, SubjectInv, Issued, NoSession
<1> QED BY <1>1, TypeInvariant, SubjectStep, PTL DEF OidcSpec

(* However many first callbacks find a subject unlinked, it stays the      *)
(* identity of everybody who has a session through it.                     *)
THEOREM SubjectsStay == OidcSpec => []SubjectsKeepTheirIdentity
<1>1. TypeInv /\ SubjectInv => SubjectsKeepTheirIdentity
  <2> SUFFICES ASSUME TypeInv, SubjectInv, NEW r \in Request, Issued(r)
               PROVE  Named(oidc, SubjectOf(code[r])) = {sessions[r].identity}
    BY DEF SubjectsKeepTheirIdentity
  <2>1. PICK c \in credentials : /\ c.names = {SubjectOf(code[r])}
                                 /\ c.identity = sessions[r].identity
    BY DEF SubjectInv, LinkedTo
  <2>2. \A d \in credentials : d.type = oidc
    BY SubjectAssumption DEF TypeInv, OidcTypeOK, Credential
  <2>3. \A d \in credentials : SubjectOf(code[r]) \in d.names => d = c
    BY <2>1 DEF SubjectInv
  <2> QED BY <2>1, <2>2, <2>3 DEF Named
<1> QED BY <1>1, TypeInvariant, SubjectInvariant, PTL

-----------------------------------------------------------------------------
(* Accounts: nobody deactivates an identity, so what LoadIdentity saw      *)
(* still holds when the session is inserted, and ever after.               *)

ActiveInv ==
  \A r \in Request :
    /\ pc[r] \in {"link", "session", "complete"} => accounts[owner[r]] = "active"
    /\ Issued(r) => /\ sessions[r].identity \in Identity
                    /\ accounts[sessions[r].identity] = "active"

LEMMA ActiveStep == TypeInv /\ ActiveInv /\ [OidcNext]_oidcVars => ActiveInv'
<1> DEFINE Active(q) ==
      /\ pc[q] \in {"link", "session", "complete"} => accounts[owner[q]] = "active"
      /\ Issued(q) => /\ sessions[q].identity \in Identity
                      /\ accounts[sessions[q].identity] = "active"
<1> SUFFICES ASSUME TypeInv, ActiveInv, [OidcNext]_oidcVars, NEW r \in Request
             PROVE  Active(r)'
  BY DEF ActiveInv
<1> OidcTypeOK /\ Grows
  BY StepGrows DEF TypeInv
<1>0. Active(r)
  BY DEF ActiveInv
<1>1. pc[r] \in {"load", "link", "session", "complete"} => owner[r] \in Identity
  BY DEF TypeInv, WhereInv
<1>2. CASE Still(r)
  BY <1>0, <1>1, <1>2 DEF Still, Issued, Grows
<1>3. CASE SubmitOidc(r)
  BY <1>3 DEF SubmitOidc, SubmitInitiate, SubmitCallback, SubmitElsewhere, Arrive,
     Goto, OidcTypeOK, Issued, TypeInv, WhereInv, oidcTables
<1>4. CASE ServeOidc(r)
  <2> USE DEF OidcTypeOK, Goto, Finish, oidcTables, oidcLocals
  <2>1. CASE LoadIdentity(r)
    BY <1>0, <2>1 DEF LoadIdentity, MayLogIn, Issued
  <2>2. CASE ProvisionIdentity(r)
    BY <2>2 DEF ProvisionIdentity, CreateIdentity, Issued, TypeInv, WhereInv
  <2>3. CASE LinkSubject(r)
    BY <1>0, <2>3 DEF LinkSubject, Issued
  <2>4. CASE IssueOidcSession(r)
    BY <1>0, <1>1, <2>4 DEF IssueOidcSession, CreateSession, Issued
  <2>5. CASE ~ LoadIdentity(r) /\ ~ ProvisionIdentity(r) /\ ~ LinkSubject(r)
             /\ ~ IssueOidcSession(r)
    <3>1. /\ sessions' = sessions /\ accounts' = accounts
          /\ pc'[r] \notin {"link", "session", "complete"}
      BY <1>4, <2>5
         DEF ServeOidc, ReadForInitiate, ReadForCallback, ReadElsewhere, GetFlow,
             PickProvider, PersistAttempt, LoadProvider, ExchangeCode,
             LookupSubject, CompleteCallback, WriteElsewhere, MarkExpired, Abandon
    <3> QED BY <1>0, <3>1 DEF Issued
  <2> QED BY <2>1, <2>2, <2>3, <2>4, <2>5
<1> QED BY <1>2, <1>3, <1>4, OneMoves, WorldIsStill DEF OidcNext, World

LEMMA ActiveInvariant == OidcSpec => []ActiveInv
<1>1. OidcInit => ActiveInv
  BY DEF OidcInit, ActiveInv, Issued, NoSession
<1> QED BY <1>1, TypeInvariant, ActiveStep, PTL DEF OidcSpec

(* No identity that waits for its verification has a session through a     *)
(* provider.                                                               *)
THEOREM OnlyActiveOnes == OidcSpec => []SessionsAreForActiveIdentities
<1>1. ActiveInv => SessionsAreForActiveIdentities
  BY DEF ActiveInv, SessionsAreForActiveIdentities
<1> QED BY <1>1, ActiveInvariant, PTL

-----------------------------------------------------------------------------
(* Completed callbacks.  A row that a callback completed is not pending    *)
(* again, so no copy of it is ever taken and written back.                 *)

Gave(f, i) ==
  \E r \in Request : target[r] = f /\ Issued(r) /\ sessions[r].identity = i

CompleteInv ==
  /\ \A r \in Request : ~ copy[r].ui.oidc
  /\ \A r \in Request : pc[r] = "complete" =>
       Issued(r) /\ sessions[r].identity = owner[r]
  /\ \A f \in Flow : flows[f].ui.oidc =>
       flows[f].state # "pending" /\ Gave(f, flows[f].identity)

LEMMA CompleteStep ==
  TypeInv /\ CompleteInv /\ [OidcNext]_oidcVars => CompleteInv'
<1> SUFFICES ASSUME TypeInv, CompleteInv, [OidcNext]_oidcVars PROVE CompleteInv'
  OBVIOUS
<1> OidcTypeOK /\ Grows
  BY StepGrows DEF TypeInv
<1>1. ASSUME NEW f \in Flow, flows'[f].ui.oidc
      PROVE  flows'[f].state # "pending" /\ Gave(f, flows[f].identity)'
  <2>1. \/ flows'[f] = flows[f]
        \/ /\ flows'[f].ui = flows[f].ui
           /\ flows'[f].identity = flows[f].identity
           /\ flows'[f].state \in {"expired", "failed"}
        \/ \E r \in Request :
             /\ pc[r] = "complete"
             /\ target[r] = f
             /\ flows'[f].state = "success"
             /\ flows'[f].identity = owner[r]
    BY <1>1, RowWrites DEF Writes, CompleteInv
  <2>2. /\ flows'[f].state # "pending"
        /\ Gave(f, flows'[f].identity)
    BY <1>1, <2>1 DEF CompleteInv, Gave
  <2>3. PICK r \in Request : /\ target[r] = f
                             /\ Issued(r)
                             /\ sessions[r].identity = flows'[f].identity
    BY <2>2 DEF Gave
  <2>4. target'[r] = f /\ Issued(r)' /\ sessions'[r].identity = flows'[f].identity
    BY <2>3 DEF Grows, Issued
  <2> QED BY <2>2, <2>4 DEF Gave
<1>2. ASSUME NEW r \in Request, Still(r)
      PROVE  /\ ~ copy'[r].ui.oidc
             /\ pc'[r] = "complete" => Issued(r)' /\ sessions'[r].identity = owner'[r]
  BY <1>2 DEF Still, Issued, CompleteInv
<1>3. ASSUME NEW r \in Request, SubmitOidc(r) \/ ServeOidc(r)
      PROVE  /\ ~ copy'[r].ui.oidc
             /\ pc'[r] = "complete" => Issued(r)' /\ sessions'[r].identity = owner'[r]
  <2> USE DEF OidcTypeOK, Goto, Finish, oidcTables, oidcLocals
  <2>1. ~ copy'[r].ui.oidc
    <3>1. \/ copy'[r] = copy[r]
          \/ copy'[r] = Blank
          \/ copy'[r] = flows[target[r]] /\ flows[target[r]].state = "pending"
      BY <1>3 DEF SubmitOidc, SubmitInitiate, SubmitCallback, SubmitElsewhere,
         Arrive, ServeOidc, ReadForInitiate, ReadForCallback, ReadElsewhere,
         GetFlow, PickProvider, PersistAttempt, LoadProvider, ExchangeCode,
         LookupSubject, LoadIdentity, ProvisionIdentity, LinkSubject,
         IssueOidcSession, CompleteCallback, WriteElsewhere, MarkExpired, Abandon
    <3> QED BY <3>1, BlankIsRow DEF CompleteInv
  <2>2. CASE IssueOidcSession(r)
    BY <2>1, <2>2 DEF IssueOidcSession, CreateSession, Issued
  <2>3. CASE ~ IssueOidcSession(r)
    <3>1. pc'[r] # "complete"
      BY <1>3, <2>3
         DEF SubmitOidc, SubmitInitiate, SubmitCallback, SubmitElsewhere, Arrive,
             ServeOidc, ReadForInitiate, ReadForCallback, ReadElsewhere, GetFlow,
             PickProvider, PersistAttempt, LoadProvider, ExchangeCode,
             LookupSubject, LoadIdentity, ProvisionIdentity, LinkSubject,
             CompleteCallback, WriteElsewhere, MarkExpired, Abandon
    <3> QED BY <2>1, <3>1
  <2> QED BY <2>2, <2>3
<1>4. \A r \in Request : Still(r) \/ SubmitOidc(r) \/ ServeOidc(r)
  BY OneMoves, WorldIsStill DEF OidcNext, World
<1> QED BY <1>1, <1>2, <1>3, <1>4 DEF CompleteInv

LEMMA CompleteInvariant == OidcSpec => []CompleteInv
<1>1. OidcInit => CompleteInv
  BY BlankIsRow DEF OidcInit, CompleteInv
<1> QED BY <1>1, TypeInvariant, CompleteStep, PTL DEF OidcSpec

(* Although the insert of the session and the completion of the flow are   *)
(* two statements, a flow a callback completed gave its owner a session.   *)
THEOREM CallbacksGive == OidcSpec => []CompletedCallbacksGaveASession
<1>1. CompleteInv => CompletedCallbacksGaveASession
  BY DEF CompleteInv, Gave, CompletedCallbacksGaveASession
<1> QED BY <1>1, CompleteInvariant, PTL

-----------------------------------------------------------------------------
(* The refinement of OidcPromise needs two more invariants.  First: whoever*)
(* has begun an attempt has returned, so it is begun once; and a callback  *)
(* carries a code that was granted.                                        *)

OnceInv ==
  /\ \A a \in started : pc[a.attempt] = "done"
  /\ \A r \in Request : pc[r] \in Calling \/ Issued(r) => code[r] \in granted

\* What the steps of a request do to what OnceInv speaks of.
LEMMA RequestOnce ==
  ASSUME TypeInv, NEW r \in Request, SubmitOidc(r) \/ ServeOidc(r)
  PROVE  /\ granted' = granted
         /\ pc[r] # "done"
         /\ \/ started' = started
            \/ /\ PersistAttempt(r)
               /\ pc'[r] = "done"
               /\ started' = started \cup {[attempt |-> r, provider |-> wanted[r],
                                            flow |-> target[r]]}
         /\ pc'[r] \in Calling =>
              \/ pc[r] \in Calling /\ code'[r] = code[r]
              \/ code'[r] \in granted
         /\ Issued(r)' => pc[r] \in Calling \/ Issued(r)
         /\ Issued(r)' => code'[r] = code[r]
<1> OidcTypeOK
  BY DEF TypeInv
<1> USE DEF OidcTypeOK, Goto, Finish, oidcTables, oidcLocals, oidcWorld,
            Calling, Redeemed
<1>1. CASE SubmitOidc(r)
  BY <1>1 DEF SubmitOidc, SubmitInitiate, SubmitCallback, SubmitElsewhere, Arrive,
     Issued, TypeInv, WhereInv
<1>2. CASE ServeOidc(r)
  <2>0. code'[r] = code[r]
    BY <1>2, OneMoves
  <2>1. CASE ReadForInitiate(r) \/ ReadForCallback(r) \/ ReadElsewhere(r)
    BY <2>0, <2>1 DEF ReadForInitiate, ReadForCallback, ReadElsewhere, GetFlow, Issued
  <2>2. CASE PickProvider(r) \/ LoadProvider(r) \/ ExchangeCode(r) \/ LoadIdentity(r)
    BY <2>0, <2>2 DEF PickProvider, LoadProvider, ExchangeCode, LoadIdentity, Issued
  <2>3. CASE LookupSubject(r) \/ ProvisionIdentity(r) \/ LinkSubject(r)
    BY <2>0, <2>3 DEF LookupSubject, ProvisionIdentity, LinkSubject, Issued
  <2>4. CASE IssueOidcSession(r)
    BY <2>0, <2>4 DEF IssueOidcSession
  <2>5. CASE PersistAttempt(r)
    BY <2>0, <2>5 DEF PersistAttempt, Issued
  <2>6. CASE CompleteCallback(r) \/ WriteElsewhere(r) \/ MarkExpired(r) \/ Abandon(r)
    BY <2>0, <2>6 DEF CompleteCallback, WriteElsewhere, MarkExpired, Abandon, Issued
  <2> QED BY <1>2, <2>1, <2>2, <2>3, <2>4, <2>5, <2>6 DEF ServeOidc
<1> QED BY <1>1, <1>2

LEMMA WorldOnce ==
  World => started' = started /\ granted \subseteq granted'
  BY DEF World, InitAnyFlow, FlowExpires, SetEnabled, DeleteProvider,
     ActivateElsewhere, Authorize, oidcVars, oidcTables, oidcLocals, oidcWorld

LEMMA OnceStep == TypeInv /\ OnceInv /\ [OidcNext]_oidcVars => OnceInv'
<1> SUFFICES ASSUME TypeInv, OnceInv, [OidcNext]_oidcVars PROVE OnceInv'
  OBVIOUS
<1> OidcTypeOK
  BY DEF TypeInv
<1>1. \A a \in started : a.attempt \in Request
  BY DEF OidcTypeOK, Attempt
<1>2. CASE World
  <2>1. \A r \in Request : Still(r)
    BY <1>2, WorldIsStill
  <2> QED BY <1>1, <1>2, <2>1, WorldOnce DEF OnceInv, Still, Issued
<1>3. ASSUME NEW r \in Request, SubmitOidc(r) \/ ServeOidc(r) PROVE OnceInv'
  <2>1. \A q \in Request : q # r => Still(q)
    BY <1>3, OneMoves
  <2>2. \A a \in started : a.attempt # r
    BY <1>3, RequestOnce DEF OnceInv
  <2>3. \A a \in started' : pc'[a.attempt] = "done"
    <3>1. \A a \in started : pc'[a.attempt] = "done"
      BY <1>1, <2>1, <2>2 DEF OnceInv, Still
    <3> QED BY <1>3, <3>1, RequestOnce
  <2>4. ASSUME NEW q \in Request, pc'[q] \in Calling \/ Issued(q)'
        PROVE  code'[q] \in granted'
    <3>1. granted' = granted
      BY <1>3, RequestOnce
    <3>2. CASE q # r
      BY <2>1, <2>4, <3>1, <3>2 DEF OnceInv, Still, Issued
    <3>3. CASE q = r
      BY <1>3, <2>4, <3>1, <3>3, RequestOnce DEF OnceInv
    <3> QED BY <3>2, <3>3
  <2> QED BY <2>3, <2>4 DEF OnceInv
<1> QED BY <1>2, <1>3 DEF OidcNext, World

LEMMA OnceInvariant == OidcSpec => []OnceInv
<1>1. OidcInit => OnceInv
  BY DEF OidcInit, OnceInv, Issued, NoSession, Calling, Redeemed
<1> QED BY <1>1, TypeInvariant, OnceStep, PTL DEF OidcSpec

(* Second: whoever is about to be linked has no link, and is one request's *)
(* newcomer.  Nobody without an account has a link.                        *)

NewcomerInv ==
  /\ \A c \in credentials : accounts[c.identity] # "absent"
  /\ \A r \in Request : pc[r] = "link" =>
       /\ \A c \in credentials : c.identity # owner[r]
       /\ \A q \in Request : pc[q] = "link" /\ owner[q] = owner[r] => q = r

(* The steps that matter to it are two.                                    *)
LEMMA NewcomerQuiet ==
  ASSUME TypeInv, NEW r \in Request, SubmitOidc(r) \/ ServeOidc(r),
         ~ ProvisionIdentity(r), ~ LinkSubject(r)
  PROVE  /\ accounts' = accounts
         /\ credentials' = credentials
         /\ pc'[r] # "link"
<1> OidcTypeOK
  BY DEF TypeInv
<1> QED
  BY DEF SubmitOidc, SubmitInitiate, SubmitCallback, SubmitElsewhere, Arrive,
     ServeOidc, ReadForInitiate, ReadForCallback, ReadElsewhere, GetFlow,
     PickProvider, PersistAttempt, LoadProvider, ExchangeCode, LookupSubject,
     LoadIdentity, IssueOidcSession, CompleteCallback, WriteElsewhere,
     MarkExpired, Abandon, OidcTypeOK, Goto, Finish, oidcTables

LEMMA NewcomerStep ==
  TypeInv /\ ActiveInv /\ NewcomerInv /\ [OidcNext]_oidcVars => NewcomerInv'
<1> SUFFICES ASSUME TypeInv, ActiveInv, NewcomerInv, [OidcNext]_oidcVars
             PROVE  NewcomerInv'
  OBVIOUS
<1> OidcTypeOK
  BY DEF TypeInv
<1>0. \A c \in credentials : c.identity \in Identity
  BY DEF OidcTypeOK, Credential
<1>1. CASE World
  <2>1. \A r \in Request : Still(r)
    BY <1>1, WorldIsStill
  <2>2. credentials' = credentials
    BY <1>1 DEF World, InitAnyFlow, FlowExpires, SetEnabled, DeleteProvider,
       ActivateElsewhere, Authorize, oidcVars, oidcTables
  <2>3. \A i \in Identity : accounts[i] # "absent" => accounts'[i] # "absent"
    BY <1>1 DEF World, InitAnyFlow, FlowExpires, SetEnabled, DeleteProvider,
       ActivateElsewhere, UpdateIdentityState, Authorize, oidcVars, oidcTables,
       OidcTypeOK
  <2> QED BY <1>0, <2>1, <2>2, <2>3 DEF NewcomerInv, Still
<1>2. ASSUME NEW r \in Request, SubmitOidc(r) \/ ServeOidc(r) PROVE NewcomerInv'
  <2>1. \A q \in Request : q # r => Still(q)
    BY <1>2, OneMoves
  <2>2. CASE ProvisionIdentity(r)
    <3>1. PICK i \in Identity : /\ accounts[i] = "absent"
                                /\ accounts' = [accounts EXCEPT ![i] = "active"]
                                /\ owner'[r] = i
      BY <2>2 DEF ProvisionIdentity, CreateIdentity, OidcTypeOK
    <3>2. credentials' = credentials /\ pc'[r] = "link"
      BY <2>2 DEF ProvisionIdentity, Goto, OidcTypeOK
    <3>3. \A j \in Identity : accounts[j] # "absent" => accounts'[j] # "absent"
      BY <3>1 DEF OidcTypeOK
    <3>4. \A c \in credentials : c.identity # i
      BY <3>1 DEF NewcomerInv
    <3>5. \A q \in Request : pc[q] = "link" => owner[q] # i
      BY <3>1 DEF ActiveInv
    <3>6. ASSUME NEW q \in Request, q # r, pc'[q] = "link"
          PROVE  /\ owner'[q] # i
                 /\ \A c \in credentials' : c.identity # owner'[q]
                 /\ \A p \in Request : pc'[p] = "link" /\ owner'[p] = owner'[q] => p = q
      <4>1. pc[q] = "link" /\ owner'[q] = owner[q]
        BY <2>1, <3>6 DEF Still
      <4>2. ASSUME NEW p \in Request, p # r, pc'[p] = "link", owner'[p] = owner'[q]
            PROVE  p = q
        BY <2>1, <4>1, <4>2 DEF NewcomerInv, Still
      <4> QED BY <3>1, <3>2, <3>5, <4>1, <4>2 DEF NewcomerInv
    <3> QED BY <1>0, <3>1, <3>2, <3>3, <3>4, <3>6 DEF NewcomerInv
  <2>3. CASE LinkSubject(r)
    <3> DEFINE new == [identity |-> owner[r], type |-> oidc,
                       names |-> {SubjectOf(code[r])}]
    <3>1. credentials' = credentials \cup {new} /\ accounts' = accounts
      BY <2>3 DEF LinkSubject, CreateCredential
    <3>2. new.identity = owner[r]
      OBVIOUS
    <3> HIDE DEF new
    <3>3. pc[r] = "link" /\ pc'[r] # "link" /\ accounts[owner[r]] # "absent"
      BY <2>3 DEF LinkSubject, Goto, OidcTypeOK, ActiveInv
    <3>4. ASSUME NEW q \in Request, pc'[q] = "link"
          PROVE  /\ q # r
                 /\ pc[q] = "link"
                 /\ owner'[q] = owner[q]
      BY <2>1, <3>3, <3>4 DEF Still
    <3> QED BY <3>1, <3>2, <3>3, <3>4 DEF NewcomerInv
  <2>4. CASE ~ ProvisionIdentity(r) /\ ~ LinkSubject(r)
    <3>1. accounts' = accounts /\ credentials' = credentials /\ pc'[r] # "link"
      BY <1>2, <2>4, NewcomerQuiet
    <3> QED BY <2>1, <3>1 DEF NewcomerInv, Still
  <2> QED BY <2>2, <2>3, <2>4
<1> QED BY <1>1, <1>2 DEF OidcNext, World

LEMMA NewcomerInvariant == OidcSpec => []NewcomerInv
<1>1. OidcInit => NewcomerInv
  <2> SUFFICES ASSUME OidcInit PROVE NewcomerInv
    OBVIOUS
  <2>1. credentials \subseteq Credential
    BY OidcImportAssumption DEF OidcInit
  <2>2. ASSUME NEW c \in credentials PROVE accounts[c.identity] # "absent"
    BY <2>1 DEF OidcInit, Credential
  <2> QED BY <2>2 DEF OidcInit, NewcomerInv
<1> QED BY <1>1, TypeInvariant, ActiveInvariant, NewcomerStep, PTL DEF OidcSpec

-----------------------------------------------------------------------------
(* OidcLogin implements OidcPromise: a step is one legal step of the       *)
(* promise, or does not show.                                              *)

SessionBy(r) ==
  [request |-> r, flow |-> target[r], code |-> code[r],
   identity |-> sessions[r].identity]

LEMMA SessionImages == oidcSessions = {SessionBy(r) : r \in {q \in Request : Issued(q)}}
  BY DEF oidcSessions, SessionBy

(* The sessions change only with their rows: a request keeps its code.     *)
LEMMA SameOidcSessions ==
  ASSUME OidcTypeOK, WhereInv, Grows, sessions' = sessions
  PROVE  oidcSessions' = oidcSessions
<1>1. \A r \in Request : Issued(r)' <=> Issued(r)
  BY DEF Issued
<1>2. \A r \in Request : Issued(r) => code'[r] = code[r]
  BY DEF Grows, WhereInv
<1>3. target' = target
  BY DEF Grows
<1> QED BY <1>1, <1>2, <1>3 DEF oidcSessions

LEMMA SameLinks ==
  ASSUME credentials' = credentials
  PROVE  links' = links
  BY DEF links, Named

(* Whose credential names a subject is linked to it, and nobody else.      *)
LEMMA LinksAreCredentials ==
  ASSUME TypeInv, SubjectInv, NEW subject \in Identifier, NEW i \in Identity
  PROVE  [subject |-> subject, identity |-> i] \in links <=>
           \E c \in credentials : c.names = {subject} /\ c.identity = i
<1>1. \A c \in credentials : c.type = oidc
  BY SubjectAssumption DEF TypeInv, OidcTypeOK, Credential
<1>2. \A c \in credentials : subject \in c.names <=> c.names = {subject}
  BY DEF SubjectInv
<1>3. i \in Named(oidc, subject) <=>
        \E c \in credentials : c.names = {subject} /\ c.identity = i
  BY <1>1, <1>2 DEF Named
<1> QED BY <1>3 DEF links

LEMMA LinkShape ==
  ASSUME NEW l \in links
  PROVE  /\ l.subject \in Identifier
         /\ l.identity \in Identity
         /\ l = [subject |-> l.subject, identity |-> l.identity]
  BY DEF links

(* What a step that inserts neither a credential nor a session leaves.     *)
LEMMA QuietShows ==
  ASSUME TypeInv, Grows,
         UNCHANGED <<accounts, credentials, started, granted, sessions>>
  PROVE  UNCHANGED Promise!vars
  BY SameLinks, SameOidcSessions DEF TypeInv, Promise!vars

LEMMA StartShows ==
  ASSUME TypeInv, OnceInv, Grows, NEW r \in Request, PersistAttempt(r)
  PROVE  \E a \in Promise!Attempt : Promise!Start(a)
<1> OidcTypeOK
  BY DEF TypeInv
<1> DEFINE a == [attempt |-> r, provider |-> wanted[r], flow |-> target[r]]
<1>1. a \in Promise!Attempt
  BY DEF PersistAttempt, TypeInv, WhereInv, OidcTypeOK, Promise!Attempt
<1>2. \A b \in started : b.attempt # r
  BY DEF PersistAttempt, OnceInv
<1>3. started' = started \cup {a}
  BY DEF PersistAttempt
<1>4. UNCHANGED <<accounts, credentials, granted, sessions>>
  BY DEF PersistAttempt
<1>5. UNCHANGED <<links, oidcSessions>>
  BY <1>4, SameLinks, SameOidcSessions DEF TypeInv
<1>6. a.attempt = r
  OBVIOUS
<1> HIDE DEF a
<1>7. Promise!Start(a)
  BY <1>2, <1>3, <1>4, <1>5, <1>6 DEF Promise!Start
<1> QED BY <1>1, <1>7

(* The code a callback carries when its request is past the exchange.      *)
LEMMA CodeHeld ==
  ASSUME TypeInv, OnceInv, NEW r \in Request, pc[r] \in Redeemed
  PROVE  /\ code[r] \in Code
         /\ code[r] \in granted
         /\ SubjectOf(code[r]) \in Identifier
         /\ SubjectOf(code[r]) = Promise!SubjectOf(code[r])
<1>1. code[r] \in Code /\ code[r] \in granted
  BY DEF TypeInv, WhereInv, OnceInv, Calling
<1> QED BY <1>1, SubjectAssumption DEF SubjectOf, Code, Promise!SubjectOf

LEMMA ProvisionShows ==
  ASSUME TypeInv, OnceInv, Grows, NEW r \in Request, ProvisionIdentity(r)
  PROVE  \E i \in Identity, c \in granted : Promise!Provision(i, c)
<1>1. code[r] \in granted
  BY CodeHeld DEF ProvisionIdentity, Redeemed
<1>2. PICK i \in Identity : CreateIdentity(i, "active")
  BY DEF ProvisionIdentity
<1>3. UNCHANGED <<credentials, started, granted, sessions>>
  BY DEF ProvisionIdentity, oidcWorld
<1>4. UNCHANGED <<links, oidcSessions>>
  BY <1>3, SameLinks, SameOidcSessions DEF TypeInv
<1>5. Promise!Provision(i, code[r])
  BY <1>1, <1>2, <1>3, <1>4 DEF CreateIdentity, Promise!Provision
<1> QED BY <1>1, <1>5

(* The unique index compares whole arrays, but every array is one subject; *)
(* and the newcomer is nobody else's.                                      *)
LEMMA LinkShows ==
  ASSUME TypeInv, OnceInv, ActiveInv, SubjectInv, SubjectInv', TypeInv',
         NewcomerInv, Grows, NEW r \in Request, LinkSubject(r)
  PROVE  \E i \in Identity, c \in granted : Promise!LinkUp(i, c)
<1> DEFINE new == [identity |-> owner[r], type |-> oidc,
                   names |-> {SubjectOf(code[r])}]
           link == [subject |-> SubjectOf(code[r]), identity |-> owner[r]]
<1>1. /\ code[r] \in granted
      /\ SubjectOf(code[r]) \in Identifier
      /\ SubjectOf(code[r]) = Promise!SubjectOf(code[r])
  BY CodeHeld DEF LinkSubject, Redeemed
<1>2. owner[r] \in Identity /\ accounts[owner[r]] = "active"
  BY DEF LinkSubject, TypeInv, WhereInv, ActiveInv
<1>3. credentials' = credentials \cup {new}
  BY DEF LinkSubject, CreateCredential
<1>4. \A c \in credentials : c.names # {SubjectOf(code[r])}
  <2>1. \A c \in credentials : c.type = oidc
    BY SubjectAssumption DEF TypeInv, OidcTypeOK, Credential
  <2> QED BY <2>1 DEF LinkSubject, CreateCredential
<1>5. \A c \in credentials : c.identity # owner[r]
  BY DEF LinkSubject, NewcomerInv
<1>6. ASSUME NEW l \in links
      PROVE  l.subject # SubjectOf(code[r]) /\ l.identity # owner[r]
  <2>1. \E c \in credentials : c.names = {l.subject} /\ c.identity = l.identity
    BY <1>6, LinkShape, LinksAreCredentials
  <2> QED BY <1>4, <1>5, <2>1
<1>7. links' = links \cup {link}
  <2>1. new.names = {SubjectOf(code[r])} /\ new.identity = owner[r]
    OBVIOUS
  <2>2. ASSUME NEW subject \in Identifier, NEW i \in Identity
        PROVE  [subject |-> subject, identity |-> i] \in links' <=>
                 \/ [subject |-> subject, identity |-> i] \in links
                 \/ subject = SubjectOf(code[r]) /\ i = owner[r]
    <3>1. [subject |-> subject, identity |-> i] \in links <=>
            \E c \in credentials : c.names = {subject} /\ c.identity = i
      BY LinksAreCredentials
    <3>2. [subject |-> subject, identity |-> i] \in links' <=>
            \E c \in credentials' : c.names = {subject} /\ c.identity = i
      <4>1. \A c \in credentials' : c.type = oidc
        BY SubjectAssumption DEF TypeInv, OidcTypeOK, Credential
      <4>2. \A c \in credentials' : subject \in c.names <=> c.names = {subject}
        BY DEF SubjectInv
      <4>3. i \in {c.identity : c \in {d \in credentials' :
                                         d.type = oidc /\ subject \in d.names}} <=>
              \E c \in credentials' : c.names = {subject} /\ c.identity = i
        BY <4>1, <4>2
      <4> QED BY <4>3 DEF links, Named
    <3> HIDE DEF new
    <3> QED BY <1>3, <2>1, <3>1, <3>2
  <2>3. links \cup links' \subseteq [subject : Identifier, identity : Identity]
    BY DEF links
  <2>4. link \in [subject : Identifier, identity : Identity]
    BY <1>1, <1>2
  <2>5. ASSUME NEW l \in [subject : Identifier, identity : Identity]
        PROVE  l \in links' <=> l \in links \/ l = link
    <3>1. /\ l.subject \in Identifier /\ l.identity \in Identity
          /\ l = [subject |-> l.subject, identity |-> l.identity]
      OBVIOUS
    <3>2. l = link <=> l.subject = SubjectOf(code[r]) /\ l.identity = owner[r]
      BY <3>1
    <3> QED BY <2>2, <3>1, <3>2
  <2> HIDE DEF link
  <2> QED BY <2>3, <2>4, <2>5
<1>8. UNCHANGED <<accounts, started, granted, sessions>>
  BY DEF LinkSubject, oidcWorld
<1>9. oidcSessions' = oidcSessions
  BY <1>8, SameOidcSessions DEF TypeInv
<1>10. Promise!LinkUp(owner[r], code[r])
  BY <1>1, <1>2, <1>6, <1>7, <1>8, <1>9 DEF Promise!LinkUp
<1> QED BY <1>1, <1>2, <1>10

(* The flow of the callback is the flow of the attempt, and who gets the   *)
(* session is who the subject is linked to.                                *)
LEMMA IssueShows ==
  ASSUME TypeInv, OnceInv, AttemptInv, ActiveInv, SubjectInv, Grows,
         NEW r \in Request, IssueOidcSession(r)
  PROVE  \E i \in Identity, c \in granted, f \in Flow : Promise!Issue(r, f, c, i)
<1> OidcTypeOK
  BY DEF TypeInv
<1>1. /\ code[r] \in granted
      /\ SubjectOf(code[r]) \in Identifier
      /\ SubjectOf(code[r]) = Promise!SubjectOf(code[r])
  BY CodeHeld DEF IssueOidcSession, Redeemed
<1>2. /\ owner[r] \in Identity
      /\ accounts[owner[r]] = "active"
      /\ target[r] \in Flow
      /\ ~ Issued(r)
  BY DEF IssueOidcSession, TypeInv, WhereInv, ActiveInv, OidcTypeOK
<1>3. Promise!Begun(code[r], target[r]) \in started
  BY DEF IssueOidcSession, AttemptInv, StartedHere, Redeemed, Promise!Begun
<1>4. [subject |-> SubjectOf(code[r]), identity |-> owner[r]] \in links
  <2>1. LinkedTo(r, owner[r])
    BY DEF IssueOidcSession, SubjectInv
  <2> QED BY <1>1, <1>2, <2>1, LinksAreCredentials DEF LinkedTo
<1>5. \A s \in oidcSessions : s.request # r
  BY <1>2 DEF oidcSessions
<1>6. UNCHANGED <<accounts, credentials, started, granted, target, code>>
  BY DEF IssueOidcSession, oidcWorld
<1>7. links' = links
  BY <1>6, SameLinks
<1>8. oidcSessions' = oidcSessions \cup
        {[request |-> r, flow |-> target[r], code |-> code[r],
          identity |-> owner[r]]}
  <2>1. /\ Issued(r)'
        /\ sessions'[r].identity = owner[r]
        /\ \A q \in Request : q # r => sessions'[q] = sessions[q]
    BY DEF IssueOidcSession, CreateSession, Issued, OidcTypeOK
  <2>2. \A q \in Request : q # r => (Issued(q)' <=> Issued(q))
    BY <2>1 DEF Issued
  <2>3. \A q \in Request : q # r => SessionBy(q)' = SessionBy(q)
    BY <1>6, <2>1 DEF SessionBy
  <2>4. SessionBy(r)' = [request |-> r, flow |-> target[r], code |-> code[r],
                         identity |-> owner[r]]
    BY <1>6, <2>1 DEF SessionBy
  <2>5. oidcSessions' = {SessionBy(q)' : q \in {p \in Request : Issued(p)'}}
    BY DEF oidcSessions, SessionBy
  <2> HIDE DEF SessionBy
  <2> QED BY <1>2, <2>1, <2>2, <2>3, <2>4, <2>5, SessionImages
<1>9. Promise!Issue(r, target[r], code[r], owner[r])
  BY <1>1, <1>2, <1>3, <1>4, <1>5, <1>6, <1>7, <1>8 DEF Promise!Issue
<1> QED BY <1>1, <1>2, <1>9

LEMMA ServingShows ==
  ASSUME TypeInv, TypeInv', OnceInv, AttemptInv, ActiveInv, SubjectInv,
         SubjectInv', NewcomerInv, Grows, NEW r \in Request,
         SubmitOidc(r) \/ ServeOidc(r)
  PROVE  [Promise!Next]_(Promise!vars)
<1>1. CASE PersistAttempt(r)
  BY <1>1, StartShows DEF Promise!Next
<1>2. CASE ProvisionIdentity(r)
  BY <1>2, ProvisionShows DEF Promise!Next
<1>3. CASE LinkSubject(r)
  BY <1>3, LinkShows DEF Promise!Next
<1>4. CASE IssueOidcSession(r)
  BY <1>4, IssueShows DEF Promise!Next
<1>5. CASE /\ ~ PersistAttempt(r) /\ ~ ProvisionIdentity(r)
           /\ ~ LinkSubject(r)    /\ ~ IssueOidcSession(r)
  <2>1. UNCHANGED <<accounts, credentials, started, granted, sessions>>
    BY <1>5 DEF SubmitOidc, SubmitInitiate, SubmitCallback, SubmitElsewhere,
       Arrive, ServeOidc, ReadForInitiate, ReadForCallback, ReadElsewhere,
       GetFlow, PickProvider, LoadProvider, ExchangeCode, LookupSubject,
       LoadIdentity, CompleteCallback, WriteElsewhere, MarkExpired, Abandon,
       oidcTables, oidcWorld
  <2> QED BY <2>1, QuietShows
<1> QED BY <1>1, <1>2, <1>3, <1>4, <1>5

LEMMA WorldShows ==
  ASSUME TypeInv, Grows, World
  PROVE  [Promise!Next]_(Promise!vars)
<1> USE DEF oidcTables, oidcLocals, oidcWorld
<1>1. CASE \E i \in Identity : ActivateElsewhere(i)
  <2>1. PICK i \in Identity : ActivateElsewhere(i)
    BY <1>1
  <2>2. UNCHANGED <<links, oidcSessions>>
    BY <2>1, SameLinks, SameOidcSessions DEF ActivateElsewhere, TypeInv
  <2>3. Promise!Activate(i)
    BY <2>1, <2>2 DEF ActivateElsewhere, UpdateIdentityState, Promise!Activate
  <2> QED BY <2>3 DEF Promise!Next
<1>2. CASE \E a \in started : Authorize(a)
  <2>1. PICK a \in started : Authorize(a)
    BY <1>2
  <2>2. PICK s \in Subject : granted' = granted \cup
          {[attempt |-> a.attempt, provider |-> a.provider, subject |-> s]}
    BY <2>1 DEF Authorize
  <2>3. UNCHANGED <<links, oidcSessions>>
    BY <2>1, SameLinks, SameOidcSessions DEF Authorize, TypeInv
  <2>4. Promise!Grant(a, s)
    BY <2>1, <2>2, <2>3 DEF Authorize, Promise!Grant
  <2> QED BY <2>4 DEF Promise!Next
<1>3. CASE \/ \E f \in Flow : InitAnyFlow(f) \/ FlowExpires(f)
           \/ \E p \in Provider : SetEnabled(p) \/ DeleteProvider(p)
           \/ UNCHANGED oidcVars
  <2>1. UNCHANGED <<accounts, credentials, started, granted, sessions>>
    BY <1>3 DEF InitAnyFlow, FlowExpires, SetEnabled, DeleteProvider, oidcVars
  <2> QED BY <2>1, QuietShows
<1> QED BY <1>1, <1>2, <1>3 DEF World

(* Whoever a migration linked has an account, and nobody else.             *)
LEMMA InitShows == OidcInit /\ TypeInv /\ SubjectInv => Promise!Init
<1> SUFFICES ASSUME OidcInit, TypeInv, SubjectInv PROVE Promise!Init
  OBVIOUS
<1>1. links \subseteq Promise!Link
  BY SubjectAssumption DEF links, Promise!Link
<1>2. ASSUME NEW l \in links
      PROVE  \E c \in credentials : c.names = {l.subject} /\ c.identity = l.identity
  BY <1>2, LinkShape, LinksAreCredentials
<1>3. ASSUME NEW l \in links, NEW m \in links, l.subject = m.subject PROVE l = m
  <2>1. PICK c \in credentials : c.names = {l.subject} /\ c.identity = l.identity
    BY <1>2
  <2>2. PICK d \in credentials : d.names = {m.subject} /\ d.identity = m.identity
    BY <1>2
  <2>3. l.identity = m.identity
    BY <1>3, <2>1, <2>2 DEF SubjectInv
  <2> QED BY <1>3, <2>3, LinkShape
<1>4. ASSUME NEW i \in Identity
      PROVE  accounts[i] = "absent" <=> \A l \in links : l.identity # i
  <2>1. accounts[i] = "absent" <=> \A c \in credentials : c.identity # i
    BY DEF OidcInit
  <2>2. ASSUME NEW c \in credentials, c.identity = i
        PROVE  \E l \in links : l.identity = i
    <3>1. PICK subject \in Identifier : c.names = {subject}
      BY DEF SubjectInv
    <3>2. [subject |-> subject, identity |-> i] \in links
      BY <2>2, <3>1, LinksAreCredentials
    <3> QED BY <3>2
  <2> QED BY <1>2, <2>1, <2>2
<1>5. oidcSessions = {}
  BY DEF OidcInit, oidcSessions, Issued, NoSession
<1> QED BY <1>1, <1>3, <1>4, <1>5 DEF OidcInit, Promise!Init

PromiseInv ==
  /\ TypeInv /\ OnceInv /\ AttemptInv /\ ActiveInv /\ SubjectInv /\ NewcomerInv

LEMMA OidcRefines ==
  PromiseInv /\ [OidcNext]_oidcVars => [Promise!Next]_(Promise!vars)
<1> SUFFICES ASSUME PromiseInv, [OidcNext]_oidcVars
             PROVE  [Promise!Next]_(Promise!vars)
  OBVIOUS
<1>1. Grows /\ TypeInv' /\ SubjectInv'
  BY StepGrows, TypeStep, WhereStep, SubjectStep DEF TypeInv, PromiseInv
<1>2. CASE World
  BY <1>1, <1>2, WorldShows DEF PromiseInv
<1>3. ASSUME NEW r \in Request, SubmitOidc(r) \/ ServeOidc(r)
      PROVE  [Promise!Next]_(Promise!vars)
  BY <1>1, <1>3, ServingShows DEF PromiseInv
<1> QED BY <1>2, <1>3 DEF OidcNext, World

(* With any number of requests and statements in between, of one's own and *)
(* of others, a code is good in the flow of its attempt only, every subject*)
(* stays one identity, and no account that has a link gets another.        *)
THEOREM OidcKeepsThePromise == OidcSpec => KeepsTheOidcPromise
<1>1. OidcSpec => OidcInit
  BY DEF OidcSpec
<1> QED
  BY <1>1, OidcRefines, InitShows, TypeInvariant, OnceInvariant, AttemptInvariant,
     ActiveInvariant, SubjectInvariant, NewcomerInvariant, PTL
     DEF OidcSpec, KeepsTheOidcPromise, Promise!Spec, PromiseInv
=============================================================================
