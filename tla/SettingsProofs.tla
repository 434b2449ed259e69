---------------------------- MODULE SettingsProofs ----------------------------
(***************************************************************************)
(* Proofs about Settings for any set of requests, flows, sessions,         *)
(* identities and identifiers.                                             *)
(***************************************************************************)
EXTENDS Settings, TLAPS

-----------------------------------------------------------------------------
(* Types.                                                                  *)

\* A session is somebody's, and a request about to write traits has read them.
TypeInv ==
  /\ SettingsTypeOK
  /\ \A s \in Session : sessions[s].identity \in Identity
  /\ \A r \in Request : pc[r] = "write" => known[r] \in Traits

LEMMA BlankIsRow == Blank \in Row
  BY DEF Blank, NoRow, Row, RowOf, UI, FlowType, FlowState, Owner

(* A request has a session, and its session an identity.                   *)
LEMMA CallerIsSomebody ==
  ASSUME TypeInv, NEW r \in Request
  PROVE  /\ token[r] \in Session
         /\ target[r] \in Flow
         /\ Caller(r) \in Identity
         /\ Caller(r) # NoIdentity
         /\ Caller(r) \in Owner
  BY NoIdentityAssumption DEF TypeInv, SettingsTypeOK, Caller, Owner

(* What was submitted, over traits, gives traits.                          *)
LEMMA MergeTypes ==
  ASSUME NEW r \in Request, NEW changes \in Changes, known[r] \in Traits
  PROVE  Merge(r, changes) \in Traits
<1>1. PICK fields \in SUBSET Field : changes \in [fields -> Identifier]
  BY DEF Changes
<1> QED BY <1>1 DEF Merge, Traits

(* A handler that moves on, or returns, keeps its locals well typed.       *)
LEMMA GotoTypes ==
  ASSUME SettingsTypeOK, NEW r \in Request, NEW step \in PC, Goto(r, step)
  PROVE  /\ pc' \in [Request -> PC]
         /\ pc'[r] = step
         /\ \A q \in Request : q # r => pc'[q] = pc[q]
  BY DEF SettingsTypeOK, Goto

LEMMA FinishTypes ==
  ASSUME TypeInv, NEW r \in Request, Finish(r)
  PROVE  /\ pc' \in [Request -> PC]
         /\ pc'[r] = "done"
         /\ \A q \in Request : q # r => pc'[q] = pc[q]
         /\ copy' \in [Request -> Row]
         /\ known' \in [Request -> Traits \cup {NoTraits}]
         /\ names' \in [Request -> SUBSET Identifier]
         /\ \A q \in Request : pc'[q] = "write" => known'[q] \in Traits
<1>1. "done" \in PC
  BY DEF PC
<1>2. Goto(r, "done") /\ SettingsTypeOK
  BY DEF Finish, TypeInv
<1> QED
  BY <1>1, <1>2, GotoTypes, BlankIsRow DEF TypeInv, SettingsTypeOK, Finish

(* Writing a flow row keeps the table well typed.                          *)
LEMMA UpdateTypes ==
  ASSUME SettingsTypeOK, NEW f \in Flow, NEW state \in FlowState,
         NEW i \in Owner, NEW ui \in UI, UpdateFlow(f, state, i, ui)
  PROVE  flows' \in [Flow -> Row]
  BY DEF SettingsTypeOK, UpdateFlow, Row, RowOf

LEMMA TypeStep == TypeInv /\ [SettingsNext]_settingsVars => TypeInv'
<1> SUFFICES ASSUME TypeInv, [SettingsNext]_settingsVars PROVE TypeInv'
  OBVIOUS
<1> USE DEF tables, locals, marks
<1> SettingsTypeOK
  BY DEF TypeInv
<1>1. ASSUME NEW f \in Flow, FlowExpires(f) PROVE TypeInv'
  BY <1>1 DEF TypeInv, SettingsTypeOK, FlowExpires, PassExpiry
<1>2. ASSUME NEW s \in Session, SessionEnds(s) PROVE TypeInv'
  BY <1>2 DEF TypeInv, SettingsTypeOK, SessionEnds
<1>3. ASSUME NEW s \in Session, Logout(s) PROVE TypeInv'
  <2>1. sessions' \in [Session -> Sessions!SessionOf(AMR)]
    BY <1>3 DEF Logout, Sessions!RevokeByToken, SettingsTypeOK,
       Sessions!SessionOf, Sessions!SessionState
  <2>2. \A t \in Session : sessions'[t].identity = sessions[t].identity
    BY <1>3 DEF Logout, Sessions!RevokeByToken, SettingsTypeOK,
       Sessions!SessionOf
  <2> QED BY <1>3, <2>1, <2>2 DEF TypeInv, SettingsTypeOK, Logout
<1>4. ASSUME NEW r \in Request, Arrive(r) PROVE TypeInv'
  BY <1>4 DEF TypeInv, SettingsTypeOK, Arrive, Goto, PC
<1>5. ASSUME NEW r \in Request, RequireSession(r) PROVE TypeInv'
  BY <1>5 DEF TypeInv, SettingsTypeOK, RequireSession, Goto, PC
<1>6. ASSUME NEW r \in Request, CreateSettingsFlow(r) PROVE TypeInv'
  <2>1. PICK f \in Flow : /\ CreateFlow(f, "settings", "settings")
                          /\ target' = [target EXCEPT ![r] = f]
    BY <1>6 DEF CreateSettingsFlow
  <2>2. flows' \in [Flow -> Row]
    BY <2>1 DEF CreateFlow, SettingsTypeOK, Row, RowOf, FlowType, FlowState,
       Owner, UI
  <2>3. target' \in [Request -> Flow]
    BY <2>1 DEF SettingsTypeOK
  <2> QED
    BY <1>6, <2>2, <2>3 DEF TypeInv, SettingsTypeOK, CreateSettingsFlow, Goto, PC
<1>7. ASSUME NEW r \in Request, NameOwner(r) PROVE TypeInv'
  <2>1. flows' \in [Flow -> Row]
    BY <1>7, CallerIsSomebody, UpdateTypes DEF NameOwner, FlowState, UI
  <2> QED BY <1>7, <2>1, FinishTypes DEF TypeInv, SettingsTypeOK, NameOwner
<1>8. ASSUME NEW r \in Request, GetSettingsFlow(r) PROVE TypeInv'
  BY <1>8 DEF TypeInv, SettingsTypeOK, GetSettingsFlow, Goto, PC
<1>9. ASSUME NEW r \in Request, ViewFlow(r) PROVE TypeInv'
  BY <1>9 DEF TypeInv, SettingsTypeOK, ViewFlow, Goto, PC
<1>10. ASSUME NEW r \in Request, MarkExpired(r) PROVE TypeInv'
  <2>1. flows' \in [Flow -> Row]
    <3>1. target[r] \in Flow /\ flows[target[r]] \in Row
      BY DEF TypeInv, SettingsTypeOK
    <3>2. [flows[target[r]] EXCEPT !.state = "expired"] \in Row
      BY <3>1 DEF Row, RowOf, FlowState
    <3> QED
      BY <1>10, <3>1, <3>2 DEF MarkExpired, UpdateFlowState, TypeInv, SettingsTypeOK
  <2> QED BY <1>10, <2>1, FinishTypes DEF TypeInv, SettingsTypeOK, MarkExpired
<1>11. ASSUME NEW r \in Request, LoadTraits(r) PROVE TypeInv'
  <2>1. traits[Caller(r)] \in Traits
    BY CallerIsSomebody DEF SettingsTypeOK
  <2> QED BY <1>11, <2>1 DEF TypeInv, SettingsTypeOK, LoadTraits, Goto, PC
<1>12. ASSUME NEW r \in Request, NEW changes \in Changes, WriteTraits(r, changes)
       PROVE  TypeInv'
  <2>1. Merge(r, changes) \in Traits
    BY <1>12, MergeTypes DEF TypeInv, WriteTraits
  <2> QED
    BY <1>12, <2>1 DEF TypeInv, SettingsTypeOK, WriteTraits, Goto, PC
<1>13. ASSUME NEW r \in Request, LookupCredential(r) PROVE TypeInv'
  <2>1. \A c \in credentials : c.names \in SUBSET Identifier
    BY DEF SettingsTypeOK, Credential
  <2> QED
    BY <1>13, <2>1 DEF TypeInv, SettingsTypeOK, LookupCredential, PasswordsOf,
       Goto, PC
<1>14. ASSUME NEW r \in Request, FallBackToEmail(r) PROVE TypeInv'
  <2>1. traits[Caller(r)]["email"] \in Identifier
    BY CallerIsSomebody DEF SettingsTypeOK, Traits, Field
  <2> QED
    BY <1>14, <2>1 DEF TypeInv, SettingsTypeOK, FallBackToEmail, Goto, PC
<1>15. ASSUME NEW r \in Request, UpsertPassword(r) PROVE TypeInv'
  <2>1. credentials' \subseteq Credential
    BY <1>15, CallerIsSomebody, PasswordAssumption
       DEF SettingsTypeOK, UpsertPassword, Credential
  <2>2. \A c \in Clash(r) : c.identity \in Identity
    BY DEF Clash, SettingsTypeOK, Credential
  <2>3. replaced' \subseteq [by : Identity, of : Identity]
    BY <1>15, <2>2, CallerIsSomebody DEF SettingsTypeOK, UpsertPassword
  <2> QED
    BY <1>15, <2>1, <2>3 DEF TypeInv, SettingsTypeOK, UpsertPassword, Goto, PC
<1>16. ASSUME NEW r \in Request, CompleteSettings(r) PROVE TypeInv'
  <2>1. flows' \in [Flow -> Row]
    BY <1>16, CallerIsSomebody, UpdateTypes DEF CompleteSettings, FlowState, UI
  <2> QED BY <1>16, <2>1, FinishTypes DEF TypeInv, SettingsTypeOK, CompleteSettings
<1>17. ASSUME NEW r \in Request, Abandon(r) PROVE TypeInv'
  BY <1>17, FinishTypes DEF TypeInv, SettingsTypeOK, Abandon
<1>18. ASSUME NEW r \in Request, ReadForInitiate(r) \/ ReadForCallback(r)
       PROVE  TypeInv'
  <2>1. flows[target[r]] \in Row
    BY DEF SettingsTypeOK
  <2> QED
    BY <1>18, <2>1 DEF TypeInv, SettingsTypeOK, ReadForInitiate, ReadForCallback,
       ReadFlow, Goto, PC
<1>19. ASSUME NEW r \in Request, PersistAttempt(r) PROVE TypeInv'
  <2>1. copy[r].identity \in Owner /\ target[r] \in Flow
    BY DEF SettingsTypeOK, Row, RowOf
  <2>2. flows' \in [Flow -> Row]
    BY <1>19, <2>1, UpdateTypes DEF PersistAttempt, FlowState, UI
  <2> QED BY <1>19, <2>2, FinishTypes DEF TypeInv, SettingsTypeOK, PersistAttempt
<1>20. ASSUME NEW r \in Request, CompleteCallback(r) PROVE TypeInv'
  <2>1. flows' \in [Flow -> Row]
    BY <1>20, CallerIsSomebody, UpdateTypes DEF CompleteCallback, FlowState, UI, Owner
  <2> QED BY <1>20, <2>1, FinishTypes DEF TypeInv, SettingsTypeOK, CompleteCallback
<1>21. CASE UNCHANGED settingsVars
  BY <1>21 DEF TypeInv, SettingsTypeOK, settingsVars
<1> QED
  BY <1>1, <1>2, <1>3, <1>4, <1>5, <1>6, <1>7, <1>8, <1>9, <1>10, <1>11, <1>12,
     <1>13, <1>14, <1>15, <1>16, <1>17, <1>18, <1>19, <1>20, <1>21
     DEF SettingsNext, Serve

LEMMA TypeInvariant == SettingsSpec => []TypeInv
<1>1. SettingsInit => TypeInv
  BY BlankIsRow, ImportedAssumption, NoIdentityAssumption
     DEF SettingsInit, TypeInv, SettingsTypeOK, PC, AMR, AccountState,
         Sessions!SessionOf, Sessions!SessionState, Sessions!AAL, Sessions!Owner
<1> QED BY <1>1, TypeStep, PTL DEF SettingsSpec

(* Every variable of a behaviour of Settings keeps its type.               *)
THEOREM SettingsTypeCorrect == SettingsSpec => []SettingsTypeOK
<1>1. TypeInv => SettingsTypeOK
  BY DEF TypeInv
<1> QED BY <1>1, TypeInvariant, PTL

-----------------------------------------------------------------------------
(* What no step takes back: a session keeps its identity, and a dead one   *)
(* does not come back.                                                     *)

Keeps ==
  /\ token' = token
  /\ \A s \in Session : Alive(s)' => Alive(s)
  /\ \A r \in Request : Caller(r)' = Caller(r)

LEMMA StepKeeps == TypeInv /\ [SettingsNext]_settingsVars => Keeps
<1> SUFFICES ASSUME TypeInv, [SettingsNext]_settingsVars PROVE Keeps
  OBVIOUS
<1> USE DEF tables, locals, marks, Keeps, Caller, Alive
<1>1. CASE token' = token /\ sessions' = sessions /\ ended \subseteq ended'
  BY <1>1
<1>2. ASSUME NEW s \in Session, Logout(s) PROVE Keeps
  BY <1>2 DEF Logout, Sessions!RevokeByToken, TypeInv, SettingsTypeOK,
     Sessions!SessionOf
<1>3. ASSUME NEW s \in Session, SessionEnds(s) PROVE Keeps
  BY <1>1, <1>3 DEF SessionEnds
<1>4. ASSUME NEW f \in Flow, FlowExpires(f) PROVE Keeps
  BY <1>1, <1>4 DEF FlowExpires
<1>5. ASSUME NEW r \in Request, Arrive(r) \/ Serve(r) PROVE Keeps
  BY <1>1, <1>5
     DEF Arrive, Serve, RequireSession, CreateSettingsFlow, NameOwner,
         GetSettingsFlow, MarkExpired, LoadTraits, WriteTraits,
         LookupCredential, FallBackToEmail, UpsertPassword, CompleteSettings,
         ViewFlow, ReadForInitiate, ReadForCallback, ReadFlow, PersistAttempt,
         CompleteCallback, Abandon
<1>6. CASE UNCHANGED settingsVars
  BY <1>1, <1>6 DEF settingsVars
<1> QED BY <1>2, <1>3, <1>4, <1>5, <1>6 DEF SettingsNext

-----------------------------------------------------------------------------
(* Sessions.                                                               *)

\* A request with a dead session never gets past the check of its session,
\* and one that has changed something is about to complete its flow, or gone.
ShutInv ==
  /\ \A r \in shut : /\ ~ Alive(token[r])
                     /\ pc[r] \in {"init", "submit", "view", "expire", "done",
                                  "get_initiate", "persist", "get_callback",
                                  "callback"}
  /\ \A r \in effects : pc[r] \in {"complete", "done"}
  /\ \A r \in Request : pc[r] = "complete" => r \in effects
  /\ DeadSessionsChangeNothing

(* Where a step takes a request.                                           *)
LEMMA ServeMoves ==
  ASSUME TypeInv, NEW r \in Request, Serve(r)
  PROVE  /\ \A q \in Request : q # r => pc'[q] = pc[q]
         /\ shut' = shut
         /\ \/ /\ effects' = effects
               /\ \/ pc'[r] = "done"
                  \/ pc[r] = "init"   /\ pc'[r] = "create" /\ Alive(token[r])
                  \/ pc[r] = "submit" /\ pc'[r] = "get"    /\ Alive(token[r])
                  \/ pc[r] = "create" /\ pc'[r] = "owner"
                  \/ pc[r] = "get"    /\ pc'[r] \in {"expire", "load", "lookup"}
                  \/ pc[r] = "view"   /\ pc'[r] = "expire"
                  \/ pc[r] = "load"   /\ pc'[r] = "write"
                  \/ pc[r] = "lookup" /\ pc'[r] \in {"email", "upsert"}
                  \/ pc[r] = "email"  /\ pc'[r] = "upsert"
                  \/ pc[r] = "get_initiate" /\ pc'[r] \in {"expire", "persist"}
                  \/ pc[r] = "get_callback" /\ pc'[r] \in {"expire", "callback"}
            \/ /\ effects' = effects \cup {r}
               /\ pc[r] \in {"write", "upsert"}
               /\ pc'[r] = "complete"
<1> USE DEF tables, locals, marks, TypeInv, SettingsTypeOK, Goto, Finish
<1>1. CASE \/ NameOwner(r) \/ MarkExpired(r) \/ CompleteSettings(r)
           \/ PersistAttempt(r) \/ CompleteCallback(r) \/ Abandon(r)
  BY <1>1 DEF NameOwner, MarkExpired, CompleteSettings, PersistAttempt,
     CompleteCallback, Abandon
<1>2. CASE RequireSession(r)
  BY <1>2 DEF RequireSession, TokenAccepted
<1>3. CASE CreateSettingsFlow(r) \/ GetSettingsFlow(r) \/ ViewFlow(r)
  BY <1>3 DEF CreateSettingsFlow, GetSettingsFlow, ViewFlow
<1>4. CASE LoadTraits(r) \/ LookupCredential(r) \/ FallBackToEmail(r)
  BY <1>4 DEF LoadTraits, LookupCredential, FallBackToEmail
<1>5. CASE \E changes \in Changes : WriteTraits(r, changes)
  BY <1>5 DEF WriteTraits
<1>6. CASE UpsertPassword(r)
  BY <1>6 DEF UpsertPassword
<1>7. CASE ReadForInitiate(r) \/ ReadForCallback(r)
  BY <1>7 DEF ReadForInitiate, ReadForCallback, ReadFlow
<1> QED BY <1>1, <1>2, <1>3, <1>4, <1>5, <1>6, <1>7 DEF Serve

LEMMA ShutStep ==
  TypeInv /\ ShutInv /\ [SettingsNext]_settingsVars => ShutInv'
<1> SUFFICES ASSUME TypeInv, ShutInv, [SettingsNext]_settingsVars PROVE ShutInv'
  OBVIOUS
<1> Keeps
  BY StepKeeps
<1>1. shut \subseteq Request /\ effects \subseteq Request /\ token \in [Request -> Session]
  BY DEF TypeInv, SettingsTypeOK
<1>2. \A q \in Request : Alive(token[q])' => Alive(token[q])
  BY <1>1 DEF Keeps, Alive
<1>3. CASE UNCHANGED <<pc, shut, effects>>
  BY <1>1, <1>2, <1>3 DEF ShutInv, DeadSessionsChangeNothing
<1>4. ASSUME NEW r \in Request, Arrive(r) PROVE ShutInv'
  <2>1. pc[r] = "idle" /\ r \notin shut /\ r \notin effects /\ effects' = effects
    BY <1>4 DEF Arrive, ShutInv
  <2>2. pc'[r] \in {"init", "submit", "view", "get_initiate", "get_callback"}
    BY <1>4 DEF Arrive, Goto, TypeInv, SettingsTypeOK
  <2>3. \A q \in Request : q # r => pc'[q] = pc[q]
    BY <1>4 DEF Arrive, Goto, TypeInv, SettingsTypeOK
  <2>4. shut' = shut \/ (shut' = shut \cup {r} /\ ~ Alive(token[r]))
    BY <1>4 DEF Arrive
  <2> QED
    BY <1>1, <1>2, <2>1, <2>2, <2>3, <2>4 DEF ShutInv, DeadSessionsChangeNothing
<1>5. ASSUME NEW r \in Request, Serve(r) PROVE ShutInv'
  BY <1>1, <1>2, <1>5, ServeMoves DEF ShutInv, DeadSessionsChangeNothing
<1>6. ASSUME NEW f \in Flow, FlowExpires(f) PROVE ShutInv'
  BY <1>3, <1>6 DEF FlowExpires, locals, marks
<1>7. ASSUME NEW s \in Session, SessionEnds(s) \/ Logout(s) PROVE ShutInv'
  BY <1>3, <1>7 DEF SessionEnds, Logout, locals, marks
<1>8. CASE UNCHANGED settingsVars
  BY <1>3, <1>8 DEF settingsVars, locals, marks
<1> QED BY <1>4, <1>5, <1>6, <1>7, <1>8 DEF SettingsNext

LEMMA ShutInvariant == SettingsSpec => []ShutInv
<1>1. SettingsInit => ShutInv
  BY DEF SettingsInit, ShutInv, DeadSessionsChangeNothing
<1> QED BY <1>1, TypeInvariant, ShutStep, PTL DEF SettingsSpec

(* However the check of the session, a logout, the end of the session and  *)
(* the writes interleave, who came with a dead session changes nothing.    *)
THEOREM DeadSessionsAreHarmless == SettingsSpec => []DeadSessionsChangeNothing
<1>1. ShutInv => DeadSessionsChangeNothing
  BY DEF ShutInv
<1> QED BY <1>1, ShutInvariant, PTL

-----------------------------------------------------------------------------
(* Whose a flow is.                                                        *)

\* A request past the check of the owner.
Bound == {"load", "write", "lookup", "email", "upsert", "complete"}

\* A request that has changed something through its flow, or still may.
Holds(r) == r \in effects \/ pc[r] \in Bound \cup {"owner"}

\* Identity i can have changed something through flow f, or can still come to:
\* a submission needs a pending row of i's, and the writes that make a row
\* pending are those of the request that opened it and of stale copies.
Claims(f, i) ==
  \/ flows[f].state = "pending" /\ flows[f].identity = i
  \/ \E r \in Request : target[r] = f /\ Holds(r) /\ Caller(r) = i
  \/ \E r \in Request : target[r] = f /\ pc[r] = "persist" /\ copy[r].identity = i

ClaimInv ==
  /\ \A f \in Flow, i \in Identity : Claims(f, i) => Exists(f)
  /\ \A f \in Flow, i, j \in Identity : Claims(f, i) /\ Claims(f, j) => i = j

(* A step that gives nobody a claim keeps the invariant.                   *)
LEMMA NoNewClaim ==
  ASSUME ClaimInv,
         \A f \in Flow, i \in Identity : Claims(f, i)' => Claims(f, i),
         \A f \in Flow : Exists(f) => Exists(f)'
  PROVE  ClaimInv'
  BY DEF ClaimInv

LEMMA FlowsRecord ==
  ASSUME TypeInv, NEW f \in Flow, NEW state \in FlowState, NEW i \in Owner,
         NEW ui \in UI, UpdateFlow(f, state, i, ui)
  PROVE  /\ Exists(f)
         /\ flows'[f].identity = i
         /\ flows'[f].state = state
         /\ flows'[f].ui = ui
         /\ \A g \in Flow : g # f => flows'[g] = flows[g]
  BY DEF UpdateFlow, TypeInv, SettingsTypeOK, Row, RowOf

LEMMA ExpiryRecords ==
  ASSUME TypeInv, NEW r \in Request, MarkExpired(r)
  PROVE  /\ flows'[target[r]].state = "expired"
         /\ \A g \in Flow : g # target[r] => flows'[g] = flows[g]
  BY DEF MarkExpired, UpdateFlowState, TypeInv, SettingsTypeOK, Row, RowOf

LEMMA CallbackRecords ==
  ASSUME TypeInv, NEW r \in Request, CompleteCallback(r)
  PROVE  /\ flows'[target[r]].state = "success"
         /\ flows'[target[r]].ui = "oidc"
         /\ \A g \in Flow : g # target[r] => flows'[g] = flows[g]
<1>1. PICK i \in Identity : UpdateFlow(target[r], "success", i, "oidc")
  BY DEF CompleteCallback
<1>2. /\ target[r] \in Flow
      /\ i \in Owner
      /\ "success" \in FlowState
      /\ "oidc" \in UI
  BY CallerIsSomebody DEF Owner, FlowState, UI
<1> QED BY <1>1, <1>2, FlowsRecord

(* What a request does to its own flow gives nobody a claim, if it leaves  *)
(* the row pending only for who had one, and the request holds only what   *)
(* it held or may have.                                                    *)
LEMMA OwnFlowClaims ==
  ASSUME TypeInv, ClaimInv, Keeps, NEW r \in Request,
         target' = target,
         \A g \in Flow : g # target[r] => flows'[g] = flows[g],
         flows'[target[r]].state # "absent" \/ flows' = flows,
         \A i \in Identity :
           flows'[target[r]].state = "pending" /\ flows'[target[r]].identity = i =>
             Claims(target[r], i),
         \A q \in Request : q # r =>
           /\ pc'[q] = pc[q]
           /\ copy'[q] = copy[q]
           /\ q \in effects' => q \in effects,
         Holds(r)' => Claims(target[r], Caller(r)),
         pc'[r] = "persist" =>
           \A i \in Identity : copy'[r].identity = i => Claims(target[r], i)
  PROVE  ClaimInv'
<1>1. target \in [Request -> Flow]
  BY DEF TypeInv, SettingsTypeOK
<1>2. ASSUME NEW f \in Flow, NEW i \in Identity, Claims(f, i)'
      PROVE  Claims(f, i)
  <2>1. CASE flows'[f].state = "pending" /\ flows'[f].identity = i
    BY <2>1 DEF Claims
  <2>2. ASSUME NEW q \in Request, target[q] = f, Holds(q)', Caller(q) = i
        PROVE  Claims(f, i)
    <3>1. CASE q = r
      BY <2>2, <3>1
    <3>2. CASE q # r
      BY <2>2, <3>2 DEF Holds, Claims
    <3> QED BY <3>1, <3>2
  <2>3. ASSUME NEW q \in Request, target[q] = f, pc'[q] = "persist",
               copy'[q].identity = i
        PROVE  Claims(f, i)
    <3>1. CASE q = r
      BY <2>3, <3>1
    <3>2. CASE q # r
      BY <2>3, <3>2 DEF Claims
    <3> QED BY <3>1, <3>2
  <2> QED BY <1>2, <2>1, <2>2, <2>3 DEF Claims, Keeps
<1>3. \A f \in Flow : Exists(f) => Exists(f)'
  BY <1>1 DEF Exists
<1> QED BY <1>2, <1>3, NoNewClaim

(* The request that opens a flow is the first to have a claim on it.       *)
LEMMA CreateClaims ==
  ASSUME TypeInv, ShutInv, ClaimInv, Keeps, NEW r \in Request,
         CreateSettingsFlow(r)
  PROVE  ClaimInv'
<1>1. PICK f \in Flow : /\ CreateFlow(f, "settings", "settings")
                        /\ target' = [target EXCEPT ![r] = f]
  BY DEF CreateSettingsFlow
<1>2. /\ ~ Exists(f)
      /\ flows'[f].identity = NoIdentity
      /\ flows'[f].state = "pending"
      /\ \A g \in Flow : g # f => flows'[g] = flows[g]
  BY <1>1 DEF CreateFlow, TypeInv, SettingsTypeOK
<1>3. /\ pc[r] = "create"
      /\ pc'[r] = "owner"
      /\ \A q \in Request : q # r => pc'[q] = pc[q] /\ target'[q] = target[q]
      /\ target'[r] = f
      /\ UNCHANGED <<copy, effects>>
  BY <1>1 DEF CreateSettingsFlow, Goto, TypeInv, SettingsTypeOK, locals, marks
<1>4. ASSUME NEW i \in Identity, Claims(f, i)'
      PROVE  i = Caller(r)
  <2>1. ~ Claims(f, i)
    BY <1>2 DEF ClaimInv
  <2>2. i # NoIdentity
    BY NoIdentityAssumption
  <2> QED
    BY <1>2, <1>3, <1>4, <2>1, <2>2 DEF Claims, Holds, Keeps
<1>5. ASSUME NEW g \in Flow, g # f, NEW i \in Identity, Claims(g, i)'
      PROVE  Claims(g, i)
  BY <1>2, <1>3, <1>5 DEF Claims, Holds, Keeps
<1>6. Exists(f)' /\ \A g \in Flow : g # f => (Exists(g)' <=> Exists(g))
  BY <1>2 DEF Exists
<1> QED BY <1>4, <1>5, <1>6 DEF ClaimInv

LEMMA ClaimStep ==
  TypeInv /\ ShutInv /\ ClaimInv /\ [SettingsNext]_settingsVars => ClaimInv'
<1> SUFFICES ASSUME TypeInv, ShutInv, ClaimInv, [SettingsNext]_settingsVars
             PROVE  ClaimInv'
  OBVIOUS
<1> Keeps
  BY StepKeeps
<1> USE DEF tables, locals, marks
<1>0. /\ target \in [Request -> Flow]
      /\ pc \in [Request -> PC]
      /\ copy \in [Request -> Row]
      /\ flows \in [Flow -> Row]
      /\ "owner" \notin Bound
  BY DEF TypeInv, SettingsTypeOK, Bound
<1>1. CASE UNCHANGED <<flows, target, copy, pc, effects>>
  BY <1>1, NoNewClaim DEF Claims, Holds, Keeps, Exists
<1>2. \A r \in Request : /\ Holds(r) => Claims(target[r], Caller(r))
                         /\ target[r] \in Flow /\ Caller(r) \in Identity
                         /\ Exists(target[r]) <=> flows[target[r]].state # "absent"
  BY CallerIsSomebody DEF Claims, Exists
<1>3. ASSUME NEW r \in Request,
             \/ Arrive(r) \/ RequireSession(r) \/ ViewFlow(r) \/ Abandon(r)
             \/ LoadTraits(r) \/ LookupCredential(r) \/ FallBackToEmail(r)
             \/ UpsertPassword(r) \/ ReadForCallback(r)
             \/ \E changes \in Changes : WriteTraits(r, changes)
      PROVE  ClaimInv'
  <2>1. UNCHANGED <<flows, target>>
    BY <1>3 DEF Arrive, RequireSession, ViewFlow, Abandon, LoadTraits,
       LookupCredential, FallBackToEmail, UpsertPassword, ReadForCallback,
       ReadFlow, WriteTraits
  <2>2. \A q \in Request : q # r =>
          /\ pc'[q] = pc[q]
          /\ copy'[q] = copy[q]
          /\ q \in effects' => q \in effects
    BY <1>0, <1>3
       DEF Arrive, RequireSession, ViewFlow, Abandon, LoadTraits,
           LookupCredential, FallBackToEmail, UpsertPassword, ReadForCallback,
           ReadFlow, WriteTraits, Finish, Goto
  <2>3. pc'[r] # "persist" /\ (Holds(r)' => Holds(r))
    BY <1>0, <1>3
       DEF Arrive, RequireSession, ViewFlow, Abandon, LoadTraits,
           LookupCredential, FallBackToEmail, UpsertPassword, ReadForCallback,
           ReadFlow, WriteTraits, Finish, Goto, Holds, Bound
  <2>4. \A i \in Identity :
          flows'[target[r]].state = "pending" /\ flows'[target[r]].identity = i =>
            Claims(target[r], i)
    BY <2>1 DEF Claims
  <2> QED BY <1>2, <2>1, <2>2, <2>3, <2>4, OwnFlowClaims
<1>4. ASSUME NEW r \in Request, GetSettingsFlow(r) PROVE ClaimInv'
  <2>1. UNCHANGED <<flows, target, copy, effects>>
    BY <1>4 DEF GetSettingsFlow
  <2>2. \A q \in Request : q # r => pc'[q] = pc[q]
    BY <1>0, <1>4 DEF GetSettingsFlow, Goto
  <2>3. pc'[r] \in {"expire", "load", "lookup"}
    BY <1>0, <1>4 DEF GetSettingsFlow, Goto
  <2>4. CASE pc'[r] = "expire"
    BY <1>2, <2>1, <2>2, <2>4, OwnFlowClaims DEF Claims, Holds, Bound
  <2>5. CASE pc'[r] # "expire"
    <3>1. flows[target[r]].state = "pending" /\ flows[target[r]].identity = Caller(r)
      BY <1>0, <1>4, <2>5 DEF GetSettingsFlow, BelongsTo, Goto
    <3>2. Claims(target[r], Caller(r))
      BY <3>1 DEF Claims
    <3>3. pc'[r] # "persist"
      BY <2>3
    <3> QED BY <1>2, <2>1, <2>2, <3>2, <3>3, OwnFlowClaims DEF Claims
  <2> QED BY <2>4, <2>5
<1>5. ASSUME NEW r \in Request, ReadForInitiate(r) PROVE ClaimInv'
  <2>1. UNCHANGED <<flows, target, effects>>
    BY <1>5 DEF ReadForInitiate, ReadFlow
  <2>2. \A q \in Request : q # r => pc'[q] = pc[q] /\ copy'[q] = copy[q]
    BY <1>0, <1>5 DEF ReadForInitiate, ReadFlow, Goto
  <2>3. Holds(r)' => Holds(r)
    BY <1>0, <1>5 DEF ReadForInitiate, ReadFlow, Goto, Holds, Bound
  <2>4. pc'[r] = "persist" => /\ flows[target[r]].state = "pending"
                              /\ copy'[r].identity = flows[target[r]].identity
    BY <1>0, <1>5 DEF ReadForInitiate, ReadFlow, Goto
  <2> QED BY <1>2, <2>1, <2>2, <2>3, <2>4, OwnFlowClaims DEF Claims
<1>6. ASSUME NEW r \in Request,
             \/ NameOwner(r) \/ CompleteSettings(r)
             \/ PersistAttempt(r) \/ CompleteCallback(r)
      PROVE  ClaimInv'
  <2>1. /\ Exists(target[r])'
        /\ \A g \in Flow : g # target[r] => flows'[g] = flows[g]
        /\ flows'[target[r]].state = "pending" =>
             \/ pc[r] = "owner" /\ flows'[target[r]].identity = Caller(r)
             \/ pc[r] = "persist" /\ flows'[target[r]].identity = copy[r].identity
    <3>1. copy[r].identity \in Owner
      BY <1>0 DEF Row, RowOf
    <3>2. CASE NameOwner(r)
      BY <3>2, CallerIsSomebody, FlowsRecord DEF NameOwner, FlowState, UI, Exists
    <3>3. CASE CompleteSettings(r)
      BY <3>3, CallerIsSomebody, FlowsRecord
         DEF CompleteSettings, FlowState, UI, Exists
    <3>4. CASE PersistAttempt(r)
      BY <3>1, <3>4, <1>2, FlowsRecord DEF PersistAttempt, FlowState, UI, Exists
    <3>5. CASE CompleteCallback(r)
      BY <3>5, CallbackRecords DEF CompleteCallback, Exists
    <3> QED BY <1>6, <3>2, <3>3, <3>4, <3>5
  <2>2. UNCHANGED <<target, effects>> /\ Finish(r)
    BY <1>6 DEF NameOwner, CompleteSettings, PersistAttempt, CompleteCallback
  <2>3. \A q \in Request : q # r => pc'[q] = pc[q] /\ copy'[q] = copy[q]
    BY <1>0, <2>2 DEF Finish, Goto
  <2>4. pc'[r] = "done" /\ (Holds(r)' => Holds(r))
    BY <1>0, <2>2 DEF Finish, Goto, Holds, Bound
  <2>5. \A i \in Identity :
          flows'[target[r]].state = "pending" /\ flows'[target[r]].identity = i =>
            Claims(target[r], i)
    BY <2>1 DEF Claims, Holds
  <2> QED BY <1>2, <2>1, <2>2, <2>3, <2>4, <2>5, OwnFlowClaims DEF Exists
<1>7. ASSUME NEW r \in Request, MarkExpired(r) PROVE ClaimInv'
  <2>1. /\ flows'[target[r]].state = "expired"
        /\ \A g \in Flow : g # target[r] => flows'[g] = flows[g]
    BY <1>7, ExpiryRecords
  <2>2. UNCHANGED <<target, effects>> /\ Finish(r)
    BY <1>7 DEF MarkExpired
  <2>3. \A q \in Request : q # r => pc'[q] = pc[q] /\ copy'[q] = copy[q]
    BY <1>0, <2>2 DEF Finish, Goto
  <2>4. pc'[r] = "done" /\ (Holds(r)' => Holds(r))
    BY <1>0, <2>2 DEF Finish, Goto, Holds, Bound
  <2> QED BY <1>2, <2>1, <2>2, <2>3, <2>4, OwnFlowClaims
<1>8. ASSUME NEW r \in Request, CreateSettingsFlow(r) PROVE ClaimInv'
  BY <1>8, CreateClaims
<1>9. ASSUME NEW f \in Flow, FlowExpires(f) PROVE ClaimInv'
  BY <1>1, <1>9 DEF FlowExpires
<1>10. ASSUME NEW s \in Session, SessionEnds(s) \/ Logout(s) PROVE ClaimInv'
  BY <1>1, <1>10 DEF SessionEnds, Logout
<1>11. CASE UNCHANGED settingsVars
  BY <1>1, <1>11 DEF settingsVars
<1> QED
  BY <1>3, <1>4, <1>5, <1>6, <1>7, <1>8, <1>9, <1>10, <1>11
     DEF SettingsNext, Serve

LEMMA ClaimInvariant == SettingsSpec => []ClaimInv
<1>1. SettingsInit => ClaimInv
  BY DEF SettingsInit, ClaimInv, Claims, Holds, Bound, Blank, NoRow
<1> QED BY <1>1, TypeInvariant, ShutInvariant, ClaimStep, PTL DEF SettingsSpec

(* However submissions with several sessions, OIDC logins and callbacks    *)
(* interleave on one flow, whatever is changed through it is changed for   *)
(* one identity.                                                           *)
THEOREM FlowsServeOneIdentity == SettingsSpec => []OneIdentityPerFlow
<1>1. TypeInv /\ ClaimInv => OneIdentityPerFlow
  <2> SUFFICES ASSUME TypeInv, ClaimInv, NEW q \in effects, NEW r \in effects,
                      target[q] = target[r]
               PROVE  Caller(q) = Caller(r)
    BY DEF OneIdentityPerFlow
  <2>1. q \in Request /\ r \in Request
    BY DEF TypeInv, SettingsTypeOK
  <2>2. Caller(q) \in Identity /\ Caller(r) \in Identity /\ target[r] \in Flow
    BY <2>1, CallerIsSomebody
  <2>3. Claims(target[r], Caller(q)) /\ Claims(target[r], Caller(r))
    BY <2>1 DEF Claims, Holds
  <2> QED BY <2>2, <2>3 DEF ClaimInv
<1> QED BY <1>1, TypeInvariant, ClaimInvariant, PTL

-----------------------------------------------------------------------------
(* Success.                                                                *)

\* A change that has been made stays made, through the same flow.
LEMMA EffectsStay ==
  ASSUME TypeInv, ShutInv, [SettingsNext]_settingsVars
  PROVE  effects \subseteq effects' /\ \A r \in effects : target'[r] = target[r]
<1> USE DEF tables, locals, marks
<1>0. effects \subseteq Request /\ target \in [Request -> Flow]
  BY DEF TypeInv, SettingsTypeOK
<1>1. CASE UNCHANGED target /\ effects \subseteq effects'
  BY <1>1
<1>2. ASSUME NEW r \in Request, CreateSettingsFlow(r)
      PROVE  effects' = effects /\ \A q \in effects : target'[q] = target[q]
  BY <1>0, <1>2 DEF CreateSettingsFlow, ShutInv
<1>3. ASSUME NEW r \in Request, Arrive(r) \/ Serve(r), ~ CreateSettingsFlow(r)
      PROVE  UNCHANGED target /\ effects \subseteq effects'
  BY <1>3
     DEF Arrive, Serve, RequireSession, NameOwner, GetSettingsFlow,
         MarkExpired, LoadTraits, WriteTraits, LookupCredential,
         FallBackToEmail, UpsertPassword, CompleteSettings, ViewFlow,
         ReadForInitiate, ReadForCallback, ReadFlow, PersistAttempt,
         CompleteCallback, Abandon
<1>4. ASSUME NEW g \in Flow, FlowExpires(g)
      PROVE  UNCHANGED target /\ effects \subseteq effects'
  BY <1>4 DEF FlowExpires
<1>5. ASSUME NEW s \in Session, SessionEnds(s) \/ Logout(s)
      PROVE  UNCHANGED target /\ effects \subseteq effects'
  BY <1>5 DEF SessionEnds, Logout
<1>6. CASE UNCHANGED settingsVars
  BY <1>1, <1>6 DEF settingsVars
<1> QED BY <1>1, <1>2, <1>3, <1>4, <1>5, <1>6 DEF SettingsNext

(* A flow is successful only as it was, or by the write that ends a        *)
(* submission, or by a callback.                                           *)
LEMMA SuccessOnlyBySubmission ==
  ASSUME TypeInv, [SettingsNext]_settingsVars, NEW f \in Flow,
         flows'[f].state = "success"
  PROVE  \/ flows'[f] = flows[f]
         \/ flows'[f].ui = "oidc"
         \/ \E r \in Request : CompleteSettings(r) /\ target[r] = f
<1> USE DEF tables, locals, marks
<1>0. target \in [Request -> Flow] /\ copy \in [Request -> Row]
  BY DEF TypeInv, SettingsTypeOK
<1>1. CASE flows' = flows
  BY <1>1
<1>2. ASSUME NEW r \in Request, CompleteSettings(r), f # target[r]
      PROVE  flows'[f] = flows[f]
  BY <1>2, CallerIsSomebody, FlowsRecord DEF CompleteSettings, FlowState, UI
<1>3. ASSUME NEW r \in Request, CompleteCallback(r)
      PROVE  flows'[f] = flows[f] \/ flows'[f].ui = "oidc"
  BY <1>3, CallbackRecords
<1>4. ASSUME NEW r \in Request, CreateSettingsFlow(r)
      PROVE  flows'[f] = flows[f]
  BY <1>4 DEF CreateSettingsFlow, CreateFlow, TypeInv, SettingsTypeOK
<1>5. ASSUME NEW r \in Request, NameOwner(r) \/ PersistAttempt(r)
      PROVE  flows'[f] = flows[f]
  <2>1. copy[r].identity \in Owner
    BY <1>0 DEF Row, RowOf
  <2> QED
    BY <1>0, <1>5, <2>1, CallerIsSomebody, FlowsRecord
       DEF NameOwner, PersistAttempt, FlowState, UI
<1>6. ASSUME NEW r \in Request, MarkExpired(r)
      PROVE  flows'[f] = flows[f]
  BY <1>6, ExpiryRecords
<1>7. ASSUME NEW r \in Request,
             \/ Arrive(r) \/ RequireSession(r) \/ ViewFlow(r) \/ Abandon(r)
             \/ GetSettingsFlow(r) \/ LoadTraits(r) \/ LookupCredential(r)
             \/ FallBackToEmail(r) \/ UpsertPassword(r)
             \/ ReadForInitiate(r) \/ ReadForCallback(r)
             \/ \E changes \in Changes : WriteTraits(r, changes)
      PROVE  flows' = flows
  BY <1>7 DEF Arrive, RequireSession, ViewFlow, Abandon, GetSettingsFlow,
     LoadTraits, LookupCredential, FallBackToEmail, UpsertPassword,
     ReadForInitiate, ReadForCallback, ReadFlow, WriteTraits
<1>8. ASSUME NEW s \in Session, SessionEnds(s) \/ Logout(s) PROVE flows' = flows
  BY <1>8 DEF SessionEnds, Logout
<1>9. ASSUME NEW g \in Flow, FlowExpires(g) PROVE flows' = flows
  BY <1>9 DEF FlowExpires
<1>10. CASE UNCHANGED settingsVars
  BY <1>1, <1>10 DEF settingsVars
<1> QED
  BY <1>1, <1>2, <1>3, <1>4, <1>5, <1>6, <1>7, <1>8, <1>9, <1>10
     DEF SettingsNext, Serve

LEMMA SuccessStep ==
  /\ TypeInv /\ ShutInv /\ SuccessMeansChanged
  /\ [SettingsNext]_settingsVars
  => SuccessMeansChanged'
<1> SUFFICES ASSUME TypeInv, ShutInv, SuccessMeansChanged,
                    [SettingsNext]_settingsVars,
                    NEW f \in Flow, flows'[f].state = "success",
                    flows'[f].ui # "oidc"
             PROVE  \E r \in effects' :
                      target'[r] = f /\ Caller(r)' = flows'[f].identity
  BY DEF SuccessMeansChanged, Caller
<1> Keeps
  BY StepKeeps
<1>0. effects \subseteq Request
  BY DEF TypeInv, SettingsTypeOK
<1>1. effects \subseteq effects' /\ \A r \in effects : target'[r] = target[r]
  BY EffectsStay
<1>2. CASE flows'[f] = flows[f]
  <2> PICK r \in effects : target[r] = f /\ Caller(r) = flows[f].identity
    BY <1>2 DEF SuccessMeansChanged
  <2> QED BY <1>0, <1>1, <1>2 DEF Keeps
<1>3. ASSUME NEW r \in Request, CompleteSettings(r), target[r] = f
      PROVE  \E q \in effects' : target'[q] = f /\ Caller(q)' = flows'[f].identity
  <2>1. flows'[f].identity = Caller(r)
    BY <1>3, CallerIsSomebody, FlowsRecord DEF CompleteSettings, FlowState, UI
  <2>2. r \in effects
    BY <1>3 DEF CompleteSettings, ShutInv
  <2> QED BY <1>1, <1>3, <2>1, <2>2 DEF Keeps
<1> QED BY <1>2, <1>3, SuccessOnlyBySubmission

(* However stale the copies the other requests write back, a flow marked   *)
(* successful by a submission changed the traits or the credential of the  *)
(* one it names.                                                           *)
THEOREM SuccessIsEarned == SettingsSpec => []SuccessMeansChanged
<1>1. SettingsInit => SuccessMeansChanged
  BY DEF SettingsInit, SuccessMeansChanged, Blank, NoRow
<1> QED
  BY <1>1, TypeInvariant, ShutInvariant, SuccessStep, PTL DEF SettingsSpec
=============================================================================
