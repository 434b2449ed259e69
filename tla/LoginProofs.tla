----------------------------- MODULE LoginProofs -----------------------------
(***************************************************************************)
(* Proofs about Login for any set of requests, flows, identities, methods  *)
(* and policies.                                                           *)
(***************************************************************************)
EXTENDS Login, Integers, SequenceTheorems, TLAPS

-----------------------------------------------------------------------------
(* Types.                                                                  *)

LEMMA BlankIsRow == Blank \in Row
  BY DEF Blank, NoRow, FreshUI, Row, RowOf, UI, Phase, FlowType, FlowState,
         Owner

LEMMA NoResultIsResult == NoResult \in Result
  BY DEF NoResult, Result, Owner, AAL

LEMMA ZeroPolicyIsPolicy == ZeroPolicy \in LoginPolicy
  BY DEF ZeroPolicy, LoginPolicy

LEMMA PhaseStepIsPC == \A phase : PhaseStep(phase) \in {"first", "second", "done"}
  BY DEF PhaseStep

(* A handler that returns leaves its locals well typed.                    *)
LEMMA FinishTypes ==
  ASSUME LoginTypeOK, NEW r \in Request, Finish(r)
  PROVE  /\ pc' \in [Request -> PC]
         /\ copy' \in [Request -> Row]
         /\ pol' \in [Request -> LoginPolicy]
         /\ result' \in [Request -> Result]
  BY BlankIsRow, NoResultIsResult, ZeroPolicyIsPolicy
     DEF LoginTypeOK, Finish, Goto, PC

(* Writing a flow row keeps the table well typed.                          *)
LEMMA UpdateTypes ==
  ASSUME LoginTypeOK, NEW f \in Flow, NEW state \in FlowState,
         NEW i \in Owner, NEW ui \in UI, UpdateFlow(f, state, i, ui)
  PROVE  flows' \in [Flow -> Row]
  BY DEF LoginTypeOK, UpdateFlow, Row, RowOf

LEMMA FreshUIIsUI == ASSUME NEW phase \in Phase PROVE FreshUI(phase) \in UI
  BY DEF FreshUI, UI

LEMMA TypeStep == LoginTypeOK /\ [LoginNext]_loginVars => LoginTypeOK'
<1> SUFFICES ASSUME LoginTypeOK, [LoginNext]_loginVars PROVE LoginTypeOK'
  OBVIOUS
<1> USE DEF store, local, history
<1>1. ASSUME NEW f \in Flow, InitFlow(f) PROVE LoginTypeOK'
  BY <1>1, FreshUIIsUI DEF LoginTypeOK, InitFlow, CreateFlow, Row, RowOf, FlowType,
     FlowState, Owner, Phase
<1>2. ASSUME NEW f \in Flow, InitForeignFlow(f) PROVE LoginTypeOK'
  BY <1>2, FreshUIIsUI DEF LoginTypeOK, InitForeignFlow, CreateFlow, Row, RowOf,
     FlowType, FlowState, Owner, Phase
<1>3. ASSUME NEW f \in Flow, FlowExpires(f) PROVE LoginTypeOK'
  BY <1>3 DEF LoginTypeOK, FlowExpires, PassExpiry
<1>4. CASE UpsertPolicy
  BY <1>4 DEF LoginTypeOK, UpsertPolicy
<1>5. ASSUME NEW r \in Request, Submit(r) PROVE LoginTypeOK'
  BY <1>5 DEF LoginTypeOK, Submit, Goto, PC
<1>6. ASSUME NEW r \in Request, GetPending(r) PROVE LoginTypeOK'
  BY <1>6 DEF LoginTypeOK, GetPending, Goto, PC
<1>7. ASSUME NEW r \in Request, GetLapsed(r) PROVE LoginTypeOK'
  BY <1>7 DEF LoginTypeOK, GetLapsed, Goto, PC
<1>8. ASSUME NEW r \in Request, MarkExpired(r) PROVE LoginTypeOK'
  <2>1. flows' \in [Flow -> Row]
    BY <1>8 DEF MarkExpired, UpdateFlowState, LoginTypeOK, Row, RowOf, FlowState
  <2> QED BY <1>8, <2>1, FinishTypes DEF MarkExpired, LoginTypeOK
<1>9. ASSUME NEW r \in Request, GetPolicy(r) PROVE LoginTypeOK'
  <2>1. CASE PhaseStep(copy[r].ui.phase) = "done"
    BY <1>9, <2>1, FinishTypes DEF GetPolicy, LoginTypeOK
  <2>2. CASE PhaseStep(copy[r].ui.phase) # "done"
    <3>1. pc' \in [Request -> PC]
      BY <1>9, <2>2, PhaseStepIsPC DEF GetPolicy, LoginTypeOK, Goto, PC
    <3>2. pol' \in [Request -> LoginPolicy]
      BY <1>9, <2>2, PolicyAssumption DEF GetPolicy, LoginTypeOK
    <3> QED BY <1>9, <2>2, <3>1, <3>2 DEF GetPolicy, LoginTypeOK
  <2> QED BY <2>1, <2>2
<1>10. ASSUME NEW r \in Request, PassFirstFactor(r) PROVE LoginTypeOK'
  <2> PICK c \in FirstCredentials(r) :
        /\ passed' = passed \cup {Pass(target[r], c[1], c[2], "first")}
        /\ result' = [result EXCEPT ![r] =
             [identity |-> c[1], aal |-> "aal1", amr |-> <<c[2]>>]]
    BY <1>10 DEF PassFirstFactor
  <2>1. c[1] \in Identity /\ c[2] \in Method
    BY EnrolledAssumption DEF FirstCredentials
  <2>2. passed' \subseteq Passes
    BY <2>1 DEF LoginTypeOK, Pass, Passes
  <2>3. result' \in [Request -> Result]
    BY <2>1 DEF LoginTypeOK, Result, Owner, AAL
  <2>4. pc' \in [Request -> PC]
    BY <1>10 DEF PassFirstFactor, Goto, LoginTypeOK, AfterFirstFactor, PC
  <2> QED BY <1>10, <2>2, <2>3, <2>4 DEF PassFirstFactor, LoginTypeOK
<1>11. ASSUME NEW r \in Request, PassSecondFactor(r) PROVE LoginTypeOK'
  <2> PICK c \in SecondCredentials(r) :
        /\ passed' = passed \cup {Pass(target[r], c[1], c[2], "second")}
        /\ result' = [result EXCEPT ![r] =
             [identity |-> copy[r].identity, aal |-> "aal2",
              amr |-> Append(copy[r].ui.amr, c[2])]]
    BY <1>11 DEF PassSecondFactor
  <2>1. c[1] \in Identity /\ c[2] \in Method
    BY EnrolledAssumption DEF SecondCredentials
  <2>2. passed' \subseteq Passes
    BY <2>1 DEF LoginTypeOK, Pass, Passes
  <2>3. copy[r].identity \in Owner /\ copy[r].ui.amr \in Seq(Method)
    BY DEF LoginTypeOK, Row, RowOf, UI
  <2>4. Append(copy[r].ui.amr, c[2]) \in Seq(Method)
    BY <2>1, <2>3
  <2>5. result' \in [Request -> Result]
    BY <2>3, <2>4 DEF LoginTypeOK, Result, AAL
  <2>6. pc' \in [Request -> PC]
    BY <1>11 DEF PassSecondFactor, Goto, LoginTypeOK, PC
  <2> QED BY <1>11, <2>2, <2>5, <2>6 DEF PassSecondFactor, LoginTypeOK
<1>12. ASSUME NEW r \in Request, RefuseFactor(r) PROVE LoginTypeOK'
  BY <1>12 DEF LoginTypeOK, RefuseFactor, Goto, PC
<1>13. ASSUME NEW r \in Request, AppendFlowError(r) PROVE LoginTypeOK'
  <2>1. copy[r].identity \in Owner /\ copy[r].ui \in UI /\ target[r] \in Flow
    BY DEF LoginTypeOK, Row, RowOf
  <2>2. flows' \in [Flow -> Row]
    BY <1>13, <2>1, UpdateTypes DEF AppendFlowError, FlowState
  <2> QED BY <1>13, <2>2, FinishTypes DEF AppendFlowError, LoginTypeOK
<1>14. ASSUME NEW r \in Request, AdvanceToSecondFactor(r) PROVE LoginTypeOK'
  <2>1. /\ AcceptedOwner(r) \in Owner /\ target[r] \in Flow
        /\ [phase |-> "second_factor", amr |-> result[r].amr] \in UI
    BY DEF LoginTypeOK, Result, UI, Phase, AcceptedOwner
  <2>2. flows' \in [Flow -> Row]
    BY <1>14, <2>1, UpdateTypes DEF AdvanceToSecondFactor, FlowState
  <2> QED BY <1>14, <2>2, FinishTypes DEF AdvanceToSecondFactor, LoginTypeOK
<1>15. ASSUME NEW r \in Request, CompleteLogin(r) PROVE LoginTypeOK'
  <2>1. /\ AcceptedOwner(r) \in Owner /\ target[r] \in Flow
        /\ [phase |-> "complete", amr |-> result[r].amr] \in UI
    BY DEF LoginTypeOK, Result, UI, Phase, AcceptedOwner
  <2>2. flows' \in [Flow -> Row]
    BY <1>15, <2>1, UpdateTypes DEF CompleteLogin, FlowState
  <2>3. pc' \in [Request -> PC]
    BY <1>15 DEF CompleteLogin, Goto, LoginTypeOK, PC
  <2> QED BY <1>15, <2>2, <2>3 DEF CompleteLogin, LoginTypeOK
<1>16. ASSUME NEW r \in Request, IssueSession(r) PROVE LoginTypeOK'
  <2>1. sessions' \in [Request -> SessionOf(Seq(Method))]
    BY <1>16 DEF IssueSession, CreateSession, SubmittedIdentity, LoginTypeOK,
       Result, SessionOf, SessionState
  <2>2. CASE Finish(r)
    BY <1>16, <2>1, <2>2, FinishTypes DEF IssueSession, LoginTypeOK
  <2>3. CASE Goto(r, "hydra") /\ UNCHANGED <<copy, pol, result>>
    BY <1>16, <2>1, <2>3 DEF IssueSession, LoginTypeOK, Goto, PC
  <2> QED BY <1>16, <2>2, <2>3 DEF IssueSession
<1>17. ASSUME NEW r \in Request, AcceptLoginRequest(r) PROVE LoginTypeOK'
  <2>1. hydra' \subseteq [request : Request, identity : Owner, aal : AAL]
    BY <1>17 DEF AcceptLoginRequest, SubmittedIdentity, LoginTypeOK, Result
  <2> QED BY <1>17, <2>1, FinishTypes DEF AcceptLoginRequest, LoginTypeOK
<1>18. ASSUME NEW r \in Request, Abandon(r) PROVE LoginTypeOK'
  BY <1>18, FinishTypes DEF Abandon, LoginTypeOK
<1>19. ASSUME NEW r \in Request, Logout(r) PROVE LoginTypeOK'
  BY <1>19 DEF Logout, RevokeByToken, LoginTypeOK, SessionOf, SessionState
<1>20. CASE UNCHANGED loginVars
  BY <1>20 DEF loginVars, LoginTypeOK
<1> QED
  BY <1>1, <1>2, <1>3, <1>4, <1>5, <1>6, <1>7, <1>8, <1>9, <1>10, <1>11, <1>12,
     <1>13, <1>14, <1>15, <1>16, <1>17, <1>18, <1>19, <1>20 DEF LoginNext, Serve

(* Every variable of a behaviour of Login keeps its type.                  *)
THEOREM LoginTypeCorrect == LoginSpec => []LoginTypeOK
<1>1. LoginInit => LoginTypeOK
  BY BlankIsRow, NoResultIsResult, ZeroPolicyIsPolicy
     DEF LoginInit, LoginTypeOK, PC, NoSession, SessionOf, SessionState, Owner,
         AAL
<1> QED BY <1>1, TypeStep, PTL DEF LoginSpec

-----------------------------------------------------------------------------
(* What only ever grows.                                                   *)

Grows ==
  /\ passed \subseteq passed'
  /\ inForce \subseteq inForce'
  /\ overdue \subseteq overdue'
  /\ target' = target
  /\ \A f \in Flow : Exists(f) => Exists(f)' /\ flows'[f].type = flows[f].type

LEMMA FlowsGrow ==
  ASSUME LoginTypeOK,
         \/ flows' = flows
         \/ \E f \in Flow, type \in FlowType, ui \in UI : CreateFlow(f, type, ui)
         \/ \E f \in Flow, state \in FlowState \ {"absent"}, i \in Owner, ui \in UI :
              UpdateFlow(f, state, i, ui)
         \/ \E f \in Flow, state \in FlowState \ {"absent"} :
              UpdateFlowState(f, state)
  PROVE  \A f \in Flow : Exists(f) => Exists(f)' /\ flows'[f].type = flows[f].type
<1>1. CASE flows' = flows
  BY <1>1 DEF Exists
<1>2. ASSUME NEW f \in Flow, NEW type \in FlowType, NEW ui \in UI,
             CreateFlow(f, type, ui)
      PROVE  \A g \in Flow : Exists(g) => Exists(g)' /\ flows'[g].type = flows[g].type
  BY <1>2 DEF LoginTypeOK, Exists, CreateFlow
<1>3. ASSUME NEW f \in Flow, NEW state \in FlowState \ {"absent"},
             NEW i \in Owner, NEW ui \in UI, UpdateFlow(f, state, i, ui)
      PROVE  \A g \in Flow : Exists(g) => Exists(g)' /\ flows'[g].type = flows[g].type
  BY <1>3 DEF LoginTypeOK, Exists, UpdateFlow
<1>4. ASSUME NEW f \in Flow, NEW state \in FlowState \ {"absent"},
             UpdateFlowState(f, state)
      PROVE  \A g \in Flow : Exists(g) => Exists(g)' /\ flows'[g].type = flows[g].type
  BY <1>4 DEF LoginTypeOK, Exists, UpdateFlowState, Row, RowOf
<1> QED
  BY <1>1, <1>2, <1>3, <1>4

LEMMA StepGrows == LoginTypeOK /\ [LoginNext]_loginVars => Grows
<1> SUFFICES ASSUME LoginTypeOK, [LoginNext]_loginVars PROVE Grows
  OBVIOUS
<1> USE DEF store, local, history, Grows
<1>1. ASSUME NEW f \in Flow, InitFlow(f) \/ InitForeignFlow(f) PROVE Grows
  <2>1. \E type \in FlowType, ui \in UI : CreateFlow(f, type, ui)
    BY <1>1, FreshUIIsUI DEF InitFlow, InitForeignFlow, FlowType, Phase
  <2> QED BY <1>1, <2>1, FlowsGrow DEF InitFlow, InitForeignFlow
<1>2. ASSUME NEW r \in Request,
             \/ MarkExpired(r) \/ AppendFlowError(r)
             \/ AdvanceToSecondFactor(r) \/ CompleteLogin(r)
      PROVE  Grows
  <2>1. /\ target[r] \in Flow /\ copy[r].identity \in Owner /\ copy[r].ui \in UI
        /\ AcceptedOwner(r) \in Owner
        /\ [phase |-> "second_factor", amr |-> result[r].amr] \in UI
        /\ [phase |-> "complete", amr |-> result[r].amr] \in UI
    BY DEF LoginTypeOK, Row, RowOf, Result, UI, Phase, AcceptedOwner
  <2>2. {"pending", "success", "expired"} \subseteq FlowState \ {"absent"}
    BY DEF FlowState
  <2>3. CASE MarkExpired(r)
    BY <2>1, <2>2, <2>3, FlowsGrow DEF MarkExpired
  <2>4. CASE AppendFlowError(r)
    BY <2>1, <2>2, <2>4, FlowsGrow DEF AppendFlowError
  <2>5. CASE AdvanceToSecondFactor(r)
    BY <2>1, <2>2, <2>5, FlowsGrow DEF AdvanceToSecondFactor
  <2>6. CASE CompleteLogin(r)
    BY <2>1, <2>2, <2>6, FlowsGrow DEF CompleteLogin
  <2> QED BY <1>2, <2>3, <2>4, <2>5, <2>6
<1>3. CASE UNCHANGED <<flows, target>> /\ passed \subseteq passed'
           /\ inForce \subseteq inForce' /\ overdue \subseteq overdue'
  BY <1>3 DEF Exists
<1>4. CASE UpsertPolicy
  BY <1>3, <1>4 DEF UpsertPolicy
<1>5. ASSUME NEW f \in Flow, FlowExpires(f) PROVE Grows
  BY <1>3, <1>5 DEF FlowExpires, PassExpiry
<1>6. ASSUME NEW r \in Request,
             \/ Submit(r) \/ GetPending(r) \/ GetLapsed(r) \/ GetPolicy(r)
             \/ PassFirstFactor(r) \/ PassSecondFactor(r) \/ RefuseFactor(r)
             \/ IssueSession(r) \/ AcceptLoginRequest(r) \/ Abandon(r)
             \/ Logout(r)
      PROVE  Grows
  BY <1>3, <1>6 DEF Submit, GetPending, GetLapsed, GetPolicy, PassFirstFactor,
     PassSecondFactor, RefuseFactor, IssueSession, AcceptLoginRequest, Abandon,
     Logout
<1>7. CASE UNCHANGED loginVars
  BY <1>3, <1>7 DEF loginVars
<1> QED
  BY <1>1, <1>2, <1>4, <1>5, <1>6, <1>7 DEF LoginNext, Serve

(* Nothing that was earned is lost.                                        *)
LEMMA EarnedForGood ==
  ASSUME Grows, NEW f, NEW i, NEW aal, NEW amr
  PROVE  /\ OneFactor(f, i, amr) => OneFactor(f, i, amr)'
         /\ TwoFactors(f, i, amr) => TwoFactors(f, i, amr)'
         /\ Earned(f, i, aal, amr) => Earned(f, i, aal, amr)'
  BY DEF Grows, OneFactor, TwoFactors, Earned, Passed

LEMMA RowSoundForGood ==
  ASSUME Grows, NEW f, NEW row
  PROVE  RowSound(f, row) => RowSound(f, row)'
  BY EarnedForGood DEF RowSound

-----------------------------------------------------------------------------
(* The requests.                                                           *)

RequestSound(r) == CopySound(r) /\ ResultSound(r) /\ SessionSound(r) /\ LateSound(r)

(* A request that does not move keeps what it has.                         *)
LEMMA StillSound ==
  ASSUME LoginTypeOK, Grows, NEW q \in Request, RequestSound(q),
         pc'[q] = pc[q], copy'[q] = copy[q], pol'[q] = pol[q],
         result'[q] = result[q],
         \/ sessions'[q] = sessions[q]
         \/ /\ Issued(q) /\ Issued(q)'
            /\ sessions'[q].identity = sessions[q].identity
            /\ sessions'[q].aal = sessions[q].aal
            /\ sessions'[q].amr = sessions[q].amr,
         q \in late' => q \in late
  PROVE  RequestSound(q)'
<1>1. target[q] \in Flow /\ target'[q] = target[q]
  BY DEF LoginTypeOK, Grows
<1>2. CopySound(q)'
  <2>1. RowSound(target[q], copy[q]) => RowSound(target[q], copy[q])'
    BY <1>1, RowSoundForGood DEF Grows, RowSound, OneFactor, Passed
  <2> QED BY <1>1, <2>1 DEF RequestSound, CopySound, Grows
<1>3. ResultSound(q)'
  BY <1>1 DEF RequestSound, ResultSound, Earned, OneFactor, TwoFactors, Passed,
     Grows
<1>4. SessionSound(q)'
  BY <1>1 DEF RequestSound, SessionSound, Earned, OneFactor, TwoFactors, Passed,
     Grows, Issued
<1>5. LateSound(q)'
  BY <1>1 DEF RequestSound, LateSound, Grows
<1> QED BY <1>2, <1>3, <1>4, <1>5 DEF RequestSound

(* A request whose handler returns keeps its session, if it has one.       *)
LEMMA FinishedSound ==
  ASSUME LoginTypeOK, Grows, NEW r \in Request, RequestSound(r), Finish(r),
         sessions'[r] = sessions[r], r \in late' => r \in late
  PROVE  RequestSound(r)'
<1>1. target[r] \in Flow /\ target'[r] = target[r] /\ pc'[r] = "done"
  BY DEF LoginTypeOK, Grows, Finish, Goto
<1>2. CopySound(r)' /\ ResultSound(r)'
  BY <1>1 DEF CopySound, ResultSound, Holding, Submitting
<1>3. SessionSound(r)'
  BY <1>1 DEF RequestSound, SessionSound, Earned, OneFactor, TwoFactors, Passed,
     Grows, Issued
<1>4. LateSound(r)'
  BY <1>1 DEF RequestSound, LateSound, Grows
<1> QED BY <1>2, <1>3, <1>4 DEF RequestSound

(* Of the others, a step of r changes nothing.                             *)
LEMMA OthersStandStill ==
  ASSUME LoginTypeOK, NEW r \in Request, NEW q \in Request, q # r,
         Submit(r) \/ Serve(r) \/ Logout(r)
  PROVE  /\ pc'[q] = pc[q] /\ copy'[q] = copy[q] /\ pol'[q] = pol[q]
         /\ result'[q] = result[q] /\ sessions'[q] = sessions[q]
         /\ q \in late' => q \in late
  BY DEF LoginTypeOK, Serve, Submit, GetPending, GetLapsed, MarkExpired,
     GetPolicy, PassFirstFactor, PassSecondFactor, RefuseFactor,
     AppendFlowError, AdvanceToSecondFactor, CompleteLogin, IssueSession,
     AcceptLoginRequest, Abandon, Logout, Finish, Goto, CreateSession,
     RevokeByToken, UpdateFlow, UpdateFlowState, store, local, history

(* A pair is what Append makes of a sequence of length one.                *)
LEMMA AppendMakesPair ==
  ASSUME NEW S, NEW s \in Seq(S), NEW t \in Seq(S), NEW n \in S
  PROVE  Len(s) = 1 /\ Len(t) = 2 /\ t[1] = s[1] /\ t[2] = n
           => Append(s, n) = t
<1>1. /\ Append(s, n) \in Seq(S)
      /\ Len(Append(s, n)) = Len(s) + 1
      /\ \A i \in 1 .. Len(s) : Append(s, n)[i] = s[i]
      /\ Append(s, n)[Len(s) + 1] = n
  BY SMT
<1> SUFFICES ASSUME Len(s) = 1, Len(t) = 2, t[1] = s[1], t[2] = n
             PROVE  Append(s, n) = t
  OBVIOUS
<1> DEFINE b == Append(s, n)
<1> HIDE DEF b
<1>2. b \in Seq(S) /\ Len(b) = 2 /\ b[1] = s[1] /\ b[2] = n
  <2>1. /\ b \in Seq(S)
        /\ Len(b) = Len(s) + 1
        /\ \A i \in 1 .. Len(s) : b[i] = s[i]
        /\ b[Len(s) + 1] = n
    BY <1>1, Zenon DEF b
  <2> QED BY <2>1
<1>3. \A i \in 1 .. 2 : b[i] = t[i]
  BY <1>2
<1>4. \A a \in Seq(S) : Len(a) = Len(t) /\ (\A i \in 1 .. Len(t) : a[i] = t[i]) => a = t
  BY SeqEqual
<1>5. b = t
  BY <1>2, <1>3, <1>4
<1> QED BY <1>5, Zenon DEF b

(* What submitSecondFactor records: the first method, then the second.     *)
LEMMA AppendToOne ==
  ASSUME NEW S, NEW m \in S, NEW n \in S
  PROVE  Append(<<m>>, n) = <<m, n>>
<1>1. /\ <<m>> \in Seq(S) /\ Len(<<m>>) = 1 /\ <<m>>[1] = m
      /\ <<m, n>> \in Seq(S) /\ Len(<<m, n>>) = 2
      /\ <<m, n>>[1] = m /\ <<m, n>>[2] = n
  OBVIOUS
<1> QED BY <1>1, AppendMakesPair, Zenon

LEMMA MoverStaysSound ==
  ASSUME LoginInv, Grows, NEW r \in Request,
         Submit(r) \/ Serve(r) \/ Logout(r)
  PROVE  RequestSound(r)'
<1> USE DEF store, local, history
<1>0. /\ LoginTypeOK /\ RequestSound(r) /\ RowSound(target[r], flows[target[r]])
      /\ target[r] \in Flow /\ target'[r] = target[r]
  BY DEF LoginInv, RequestSound, RowsSound, LoginTypeOK, Grows
<1>1. CASE Submit(r)
  <2>1. pc[r] = "idle" /\ pc'[r] = "get"
    BY <1>0, <1>1 DEF Submit, Goto, LoginTypeOK
  <2>2. CopySound(r)' /\ ResultSound(r)' /\ SessionSound(r)'
    BY <1>0, <1>1, <2>1 DEF Submit, CopySound, ResultSound, SessionSound,
       RequestSound, Holding, Submitting, Issued
  <2>3. LateSound(r)'
    BY <1>0, <1>1, <2>1 DEF Submit, LateSound, RequestSound
  <2> QED BY <2>2, <2>3 DEF RequestSound
<1>2. CASE GetPending(r)
  <2>1. pc[r] = "get" /\ pc'[r] = "policy" /\ copy'[r] = flows[target[r]]
    BY <1>0, <1>2 DEF GetPending, Goto, LoginTypeOK
  <2>2. CopySound(r)'
    BY <1>0, <1>2, <2>1 DEF GetPending, CopySound, Holding, Submitting,
       RowSound, OneFactor, Passed, Exists
  <2>3. ResultSound(r)' /\ SessionSound(r)'
    BY <1>0, <1>2, <2>1 DEF GetPending, ResultSound, SessionSound,
       RequestSound, Issued
  <2>4. LateSound(r)'
    BY <1>0, <1>2, <2>1 DEF GetPending, LateSound, RequestSound, Lapsed
  <2> QED BY <2>2, <2>3, <2>4 DEF RequestSound
<1>3. CASE GetLapsed(r)
  <2>1. pc[r] = "get" /\ pc'[r] = "expire"
    BY <1>0, <1>3 DEF GetLapsed, Goto, LoginTypeOK
  <2>2. CopySound(r)'
    BY <1>0, <1>3, <2>1 DEF GetLapsed, CopySound, Holding, Submitting, Exists,
       Lapsed
  <2>3. ResultSound(r)' /\ SessionSound(r)' /\ LateSound(r)'
    BY <1>0, <1>3, <2>1 DEF GetLapsed, ResultSound, SessionSound, LateSound,
       RequestSound, Issued
  <2> QED BY <2>2, <2>3 DEF RequestSound
<1>4. CASE GetPolicy(r)
  <2>1. CASE Finish(r)
    BY <1>0, <1>4, <2>1, FinishedSound DEF GetPolicy
  <2>2. CASE ~ Finish(r)
    <3>1. /\ pc[r] = "policy" /\ copy'[r] = copy[r] /\ pol'[r] = policy
          /\ \/ pc'[r] = "first" /\ copy[r].ui.phase = "first_factor"
             \/ pc'[r] = "second" /\ copy[r].ui.phase = "second_factor"
      BY <1>0, <1>4, <2>2 DEF GetPolicy, Goto, LoginTypeOK, PhaseStep
    <3>2. copy[r].type = "login"
      BY <1>0, <3>1 DEF RequestSound, CopySound, Holding, RowSound, FreshUI
    <3>3. policy \in inForce'
      BY <1>0, <1>4 DEF LoginInv, PolicyInForce, GetPolicy
    <3>4. CopySound(r)'
      BY <1>0, <1>4, <3>1, <3>2, <3>3 DEF GetPolicy, CopySound, Holding,
         Submitting, RowSound, OneFactor, Passed, Exists, RequestSound
    <3>5. ResultSound(r)' /\ SessionSound(r)' /\ LateSound(r)'
      BY <1>0, <1>4, <3>1 DEF GetPolicy, ResultSound, SessionSound, LateSound,
         RequestSound, Issued
    <3> QED BY <3>4, <3>5 DEF RequestSound
  <2> QED BY <2>1, <2>2
<1>5. CASE PassFirstFactor(r)
  <2> PICK c \in FirstCredentials(r) :
        /\ passed' = passed \cup {Pass(target[r], c[1], c[2], "first")}
        /\ result' = [result EXCEPT ![r] =
             [identity |-> c[1], aal |-> "aal1", amr |-> <<c[2]>>]]
    BY <1>5 DEF PassFirstFactor
  <2>1. c[1] \in Identity /\ c[2] \in Method
    BY EnrolledAssumption DEF FirstCredentials
  <2>2. /\ pc[r] = "first" /\ copy'[r] = copy[r]
        /\ \/ pc'[r] = "advance"
           \/ pc'[r] = "complete" /\ ~ DemandsSecond(pol[r])
        /\ result'[r] = [identity |-> c[1], aal |-> "aal1", amr |-> <<c[2]>>]
    BY <1>0, <1>5 DEF PassFirstFactor, Goto, LoginTypeOK, AfterFirstFactor
  <2>3. OneFactor(target[r], c[1], <<c[2]>>)'
    BY <2>1, <1>0 DEF OneFactor, Passed
  <2>4. CopySound(r)'
    BY <1>0, <1>5, <2>2 DEF PassFirstFactor, CopySound, Holding, Submitting,
       RowSound, OneFactor, Passed, Exists, RequestSound
  <2>5. pol[r] \in inForce' /\ pol' = pol
    BY <1>0, <1>5, <2>2 DEF PassFirstFactor, RequestSound, CopySound
  <2>6. ResultSound(r)'
    BY <1>0, <2>2, <2>3, <2>5 DEF ResultSound, Earned
  <2>7. SessionSound(r)' /\ LateSound(r)'
    BY <1>0, <1>5, <2>2 DEF PassFirstFactor, SessionSound, LateSound,
       RequestSound, Issued
  <2> QED BY <2>4, <2>6, <2>7 DEF RequestSound
<1>6. CASE PassSecondFactor(r)
  <2> PICK c \in SecondCredentials(r) :
        /\ passed' = passed \cup {Pass(target[r], c[1], c[2], "second")}
        /\ result' = [result EXCEPT ![r] =
             [identity |-> copy[r].identity, aal |-> "aal2",
              amr |-> Append(copy[r].ui.amr, c[2])]]
    BY <1>6 DEF PassSecondFactor
  <2>1. c[1] = copy[r].identity /\ c[2] \in Method
    BY EnrolledAssumption DEF SecondCredentials
  <2>2. /\ pc[r] = "second" /\ copy'[r] = copy[r] /\ pc'[r] = "complete"
        /\ result'[r] = [identity |-> copy[r].identity, aal |-> "aal2",
                         amr |-> Append(copy[r].ui.amr, c[2])]
    BY <1>0, <1>6 DEF PassSecondFactor, Goto, LoginTypeOK
  <2>3. OneFactor(target[r], copy[r].identity, copy[r].ui.amr)
    BY <1>0, <2>2 DEF RequestSound, CopySound, RowSound, Holding
  <2>4. PICK m \in Method : copy[r].ui.amr = <<m>> /\
             Passed(target[r], copy[r].identity, m, "first")
    BY <2>3 DEF OneFactor
  <2>5. Append(copy[r].ui.amr, c[2]) = <<m, c[2]>>
    BY <2>1, <2>4, AppendToOne
  <2>6. TwoFactors(target[r], copy[r].identity, <<m, c[2]>>)'
    BY <1>0, <2>1, <2>2, <2>4 DEF TwoFactors, Passed
  <2>7. CopySound(r)'
    BY <1>0, <1>6, <2>2 DEF PassSecondFactor, CopySound, Holding, Submitting,
       RowSound, OneFactor, Passed, Exists, RequestSound
  <2>8. ResultSound(r)'
    BY <1>0, <2>2, <2>5, <2>6 DEF ResultSound, Earned
  <2>9. SessionSound(r)' /\ LateSound(r)'
    BY <1>0, <1>6, <2>2 DEF PassSecondFactor, SessionSound, LateSound,
       RequestSound, Issued
  <2> QED BY <2>7, <2>8, <2>9 DEF RequestSound
<1>7. CASE RefuseFactor(r)
  <2>1. pc[r] \in {"first", "second"} /\ pc'[r] = "reject" /\ copy'[r] = copy[r]
    BY <1>0, <1>7 DEF RefuseFactor, Goto, LoginTypeOK
  <2>2. CopySound(r)'
    BY <1>0, <1>7, <2>1 DEF RefuseFactor, CopySound, Holding, Submitting,
       RowSound, OneFactor, Passed, Exists, RequestSound
  <2>3. ResultSound(r)' /\ SessionSound(r)' /\ LateSound(r)'
    BY <1>0, <1>7, <2>1 DEF RefuseFactor, ResultSound, SessionSound, LateSound,
       RequestSound, Issued
  <2> QED BY <2>2, <2>3 DEF RequestSound
<1>8. CASE CompleteLogin(r)
  <2>1. /\ pc[r] = "complete" /\ pc'[r] = "session" /\ copy'[r] = copy[r]
        /\ result'[r] = result[r]
    BY <1>0, <1>8 DEF CompleteLogin, Goto, LoginTypeOK
  <2>2. CopySound(r)'
    BY <1>0, <1>8, <2>1 DEF CompleteLogin, CopySound, Holding, Submitting,
       RowSound, OneFactor, Passed, RequestSound, Grows
  <2>3. ResultSound(r)'
    BY <1>0, <1>8, <2>1 DEF CompleteLogin, ResultSound, RequestSound, Earned,
       OneFactor, TwoFactors, Passed
  <2>4. SessionSound(r)' /\ LateSound(r)'
    BY <1>0, <1>8, <2>1 DEF CompleteLogin, SessionSound, LateSound,
       RequestSound, Issued
  <2> QED BY <2>2, <2>3, <2>4 DEF RequestSound
<1>9. CASE IssueSession(r)
  <2>1. /\ pc[r] = "session" /\ pc'[r] \in {"hydra", "done"}
        /\ sessions'[r] = [state |-> "active", identity |-> result[r].identity,
                           aal |-> result[r].aal, amr |-> result[r].amr]
        /\ pc'[r] = "hydra" => copy'[r] = copy[r] /\ result'[r] = result[r]
    BY <1>0, <1>9 DEF IssueSession, Goto, Finish, LoginTypeOK, CreateSession,
       SubmittedIdentity
  <2>2. Earned(target[r], result[r].identity, result[r].aal, result[r].amr)
    BY <1>0, <2>1 DEF RequestSound, ResultSound
  <2>3. SessionSound(r)'
    BY <1>0, <1>9, <2>1, <2>2 DEF IssueSession, SessionSound, Earned, OneFactor,
       TwoFactors, Passed, Issued
  <2>4. CopySound(r)'
    BY <1>0, <1>9, <2>1 DEF IssueSession, CopySound, Holding, Submitting,
       RowSound, OneFactor, Passed, Exists, RequestSound
  <2>5. ResultSound(r)'
    BY <1>0, <1>9, <2>1, <2>2 DEF IssueSession, ResultSound, Earned, OneFactor,
       TwoFactors, Passed
  <2>6. LateSound(r)'
    BY <1>0, <1>9, <2>1 DEF IssueSession, LateSound, RequestSound
  <2> QED BY <2>3, <2>4, <2>5, <2>6 DEF RequestSound
<1>10. CASE Finish(r) /\ UNCHANGED <<sessions, late>>
  BY <1>0, <1>10, FinishedSound
<1>11. CASE Logout(r)
  <2>1. sessions[r] \in SessionOf(Seq(Method))
    BY DEF LoginInv, LoginTypeOK
  <2>2. sessions' = [sessions EXCEPT ![r].state = "revoked"] /\ Issued(r)
    BY <1>11 DEF Logout, RevokeByToken
  <2>3. /\ sessions'[r].state = "revoked"
        /\ sessions'[r].identity = sessions[r].identity
        /\ sessions'[r].aal = sessions[r].aal
        /\ sessions'[r].amr = sessions[r].amr
    BY <1>0, <2>1, <2>2 DEF LoginTypeOK, SessionOf
  <2>4. Issued(r)'
    BY <2>3 DEF Issued
  <2>5. UNCHANGED <<local, late>>
    BY <1>11 DEF Logout
  <2> QED BY <1>0, <2>2, <2>3, <2>4, <2>5, StillSound
<1> QED
  BY <1>1, <1>2, <1>3, <1>4, <1>5, <1>6, <1>7, <1>8, <1>9, <1>10, <1>11
     DEF Serve, MarkExpired, AppendFlowError, AdvanceToSecondFactor,
         AcceptLoginRequest, Abandon

LEMMA RequestsStep ==
  ASSUME LoginInv, [LoginNext]_loginVars
  PROVE  \A q \in Request : RequestSound(q)'
<1>1. LoginTypeOK /\ Grows
  BY StepGrows DEF LoginInv
<1> SUFFICES ASSUME NEW q \in Request PROVE RequestSound(q)'
  OBVIOUS
<1>2. RequestSound(q)
  BY DEF LoginInv, RequestSound
<1>3. CASE \E r \in Request : Submit(r) \/ Serve(r) \/ Logout(r)
  <2> PICK r \in Request : Submit(r) \/ Serve(r) \/ Logout(r)
    BY <1>3
  <2>1. CASE q = r
    BY <1>1, <2>1, MoverStaysSound
  <2>2. CASE q # r
    <3>1. /\ pc'[q] = pc[q] /\ copy'[q] = copy[q] /\ pol'[q] = pol[q]
          /\ result'[q] = result[q] /\ sessions'[q] = sessions[q]
          /\ q \in late' => q \in late
      BY <1>1, <2>2, OthersStandStill
    <3> QED BY <1>1, <1>2, <3>1, StillSound
  <2> QED BY <2>1, <2>2
<1>4. CASE UNCHANGED <<local, sessions, late>>
  BY <1>1, <1>2, <1>4, StillSound DEF local
<1>5. ASSUME NEW f \in Flow, InitFlow(f) \/ InitForeignFlow(f) \/ FlowExpires(f)
      PROVE  UNCHANGED <<local, sessions, late>>
  BY <1>5 DEF InitFlow, InitForeignFlow, FlowExpires, history
<1>6. CASE UpsertPolicy
  BY <1>4, <1>6 DEF UpsertPolicy
<1>7. CASE UNCHANGED loginVars
  BY <1>4, <1>7 DEF loginVars, store, history
<1> QED BY <1>3, <1>4, <1>5, <1>6, <1>7 DEF LoginNext

-----------------------------------------------------------------------------
(* The rows.                                                               *)

\* What the invariant says of one row.
RowOK(f) ==
  /\ RowSound(f, flows[f])
  /\ flows[f].state = "success" =>
       \E m \in Method : Passed(f, flows[f].identity, m, "first")

(* A row that no statement writes stays as good as it was.                 *)
LEMMA UnwrittenRow ==
  ASSUME Grows, NEW f \in Flow, RowOK(f), flows'[f] = flows[f]
  PROVE  RowOK(f)'
<1>1. RowSound(f, flows[f])'
  BY RowSoundForGood DEF RowOK, RowSound, Grows, OneFactor, Passed
<1> QED BY <1>1 DEF RowOK, Passed, Grows

(* One statement writes at most one row, and only of the flow named.       *)
LEMMA RowsStep ==
  ASSUME LoginInv, [LoginNext]_loginVars
  PROVE  \A f \in Flow : RowOK(f)'
<1> USE DEF store, local, history
<1>1. LoginTypeOK /\ Grows /\ \A f \in Flow : RowOK(f)
  BY StepGrows DEF LoginInv, RowsSound, SuccessHasOwner, RowOK
<1> SUFFICES ASSUME NEW g \in Flow PROVE RowOK(g)'
  OBVIOUS
<1>2. CASE flows'[g] = flows[g]
  BY <1>1, <1>2, UnwrittenRow
<1>3. ASSUME NEW f \in Flow, InitFlow(f) \/ InitForeignFlow(f)
      PROVE  RowOK(g)'
  <2>1. CASE g = f
    BY <1>1, <1>3, <2>1 DEF InitFlow, InitForeignFlow, CreateFlow, RowOK,
       RowSound, LoginTypeOK, FreshUI
  <2>2. CASE g # f
    BY <1>1, <1>2, <1>3, <2>2 DEF InitFlow, InitForeignFlow, CreateFlow, LoginTypeOK
  <2> QED BY <2>1, <2>2
<1>4. ASSUME NEW r \in Request,
             \/ MarkExpired(r) \/ AppendFlowError(r)
             \/ AdvanceToSecondFactor(r) \/ CompleteLogin(r),
             g # target[r]
      PROVE  RowOK(g)'
  BY <1>1, <1>2, <1>4 DEF MarkExpired, AppendFlowError, AdvanceToSecondFactor,
     CompleteLogin, UpdateFlow, UpdateFlowState, LoginTypeOK
<1>5. ASSUME NEW r \in Request, MarkExpired(r), g = target[r]
      PROVE  RowOK(g)'
  <2>1. /\ flows'[g].state = "expired" /\ flows'[g].type = flows[g].type
        /\ flows'[g].identity = flows[g].identity /\ flows'[g].ui = flows[g].ui
    BY <1>1, <1>5 DEF MarkExpired, UpdateFlowState, LoginTypeOK, Row, RowOf
  <2>2. passed' = passed
    BY <1>5 DEF MarkExpired
  <2> QED BY <1>1, <2>1, <2>2 DEF RowOK, RowSound, OneFactor, Passed
<1>6. ASSUME NEW r \in Request, AppendFlowError(r), g = target[r]
      PROVE  RowOK(g)'
  <2>1. /\ pc[r] = "reject"
        /\ flows'[g].state = "pending" /\ flows'[g].type = flows[g].type
        /\ flows'[g].identity = copy[r].identity /\ flows'[g].ui = copy[r].ui
    BY <1>1, <1>6 DEF AppendFlowError, UpdateFlow, LoginTypeOK
  <2>2. RowSound(g, copy[r]) /\ copy[r].type = flows[g].type
    BY <1>6, <2>1 DEF LoginInv, CopySound, Holding
  <2>3. passed' = passed
    BY <1>6 DEF AppendFlowError
  <2> QED BY <2>1, <2>2, <2>3 DEF RowOK, RowSound, OneFactor, Passed
<1>7. ASSUME NEW r \in Request, AdvanceToSecondFactor(r), g = target[r]
      PROVE  RowOK(g)'
  <2>1. /\ pc[r] = "advance"
        /\ flows'[g].state = "pending" /\ flows'[g].type = flows[g].type
        /\ flows'[g].identity = result[r].identity
        /\ flows'[g].ui = [phase |-> "second_factor", amr |-> result[r].amr]
    BY <1>1, <1>7 DEF AdvanceToSecondFactor, AcceptedOwner, UpdateFlow, LoginTypeOK
  <2>2. /\ copy[r].type = "login" /\ copy[r].type = flows[g].type
        /\ OneFactor(g, result[r].identity, result[r].amr)
    BY <1>7, <2>1 DEF LoginInv, CopySound, ResultSound, Holding, Submitting
  <2>3. result[r].identity \in Identity
    BY <1>1, <2>2 DEF OneFactor, Passed, Pass, Passes, LoginTypeOK
  <2>4. passed' = passed
    BY <1>7 DEF AdvanceToSecondFactor
  <2> QED BY <2>1, <2>2, <2>3, <2>4, NoIdentityAssumption
          DEF RowOK, RowSound, OneFactor, Passed
<1>8. ASSUME NEW r \in Request, CompleteLogin(r), g = target[r]
      PROVE  RowOK(g)'
  <2>1. /\ pc[r] = "complete"
        /\ flows'[g].state = "success" /\ flows'[g].type = flows[g].type
        /\ flows'[g].identity = result[r].identity
        /\ flows'[g].ui.phase = "complete"
    BY <1>1, <1>8 DEF CompleteLogin, AcceptedOwner, UpdateFlow, LoginTypeOK
  <2>2. /\ copy[r].type = "login" /\ copy[r].type = flows[g].type
        /\ Earned(g, result[r].identity, result[r].aal, result[r].amr)
    BY <1>8, <2>1 DEF LoginInv, CopySound, ResultSound, Holding, Submitting
  <2>3. \E m \in Method : Passed(g, result[r].identity, m, "first")
    BY <1>1, <2>2 DEF Earned, OneFactor, TwoFactors, LoginTypeOK, Result, AAL
  <2>4. passed' = passed
    BY <1>8 DEF CompleteLogin
  <2> QED BY <2>1, <2>2, <2>3, <2>4 DEF RowOK, RowSound, Passed
<1>9. CASE flows' = flows
  BY <1>2, <1>9
<1>10. CASE UpsertPolicy
  BY <1>9, <1>10 DEF UpsertPolicy
<1>11. ASSUME NEW f \in Flow, FlowExpires(f) PROVE flows' = flows
  BY <1>11 DEF FlowExpires
<1>12. ASSUME NEW r \in Request,
             \/ Submit(r) \/ GetPending(r) \/ GetLapsed(r) \/ GetPolicy(r)
             \/ PassFirstFactor(r) \/ PassSecondFactor(r) \/ RefuseFactor(r)
             \/ IssueSession(r) \/ AcceptLoginRequest(r) \/ Abandon(r)
             \/ Logout(r)
      PROVE  flows' = flows
  BY <1>12 DEF Submit, GetPending, GetLapsed, GetPolicy, PassFirstFactor,
     PassSecondFactor, RefuseFactor, IssueSession, AcceptLoginRequest, Abandon,
     Logout
<1>13. CASE UNCHANGED loginVars
  BY <1>9, <1>13 DEF loginVars
<1> QED
  BY <1>3, <1>4, <1>5, <1>6, <1>7, <1>8, <1>9, <1>10, <1>11, <1>12, <1>13
     DEF LoginNext, Serve

-----------------------------------------------------------------------------
(* What was passed, what Hydra was told, and who came too late.            *)

(* A factor that was passed belongs to a login flow and was allowed.       *)
LEMMA PassesStep ==
  ASSUME LoginInv, [LoginNext]_loginVars
  PROVE  PassesSound' /\ FactorsWereAllowed'
<1> USE DEF store, local, history
<1>1. LoginTypeOK /\ Grows /\ PassesSound /\ FactorsWereAllowed
  BY StepGrows DEF LoginInv
<1>2. \A p \in passed : p.flow \in Flow
  BY <1>1 DEF LoginTypeOK, Passes
<1>3. ASSUME NEW p,
             \/ p \in passed
             \/ /\ p.flow \in Flow /\ Exists(p.flow)
                /\ flows[p.flow].type = "login"
                /\ \E q \in inForce :
                     p.method \in IF p.factor = "first" THEN q.firsts ELSE q.seconds
      PROVE  /\ Exists(p.flow)' /\ flows'[p.flow].type = "login"
             /\ \E q \in inForce' :
                  p.method \in IF p.factor = "first" THEN q.firsts ELSE q.seconds
  BY <1>1, <1>2, <1>3 DEF PassesSound, FactorsWereAllowed, Grows
<1>4. CASE passed' = passed
  BY <1>3, <1>4 DEF PassesSound, FactorsWereAllowed
<1>5. ASSUME NEW r \in Request, PassFirstFactor(r) \/ PassSecondFactor(r)
      PROVE  PassesSound' /\ FactorsWereAllowed'
  <2>1. /\ target[r] \in Flow /\ Exists(target[r])
        /\ flows[target[r]].type = "login" /\ pol[r] \in inForce
    BY <1>1, <1>5 DEF LoginInv, CopySound, PassFirstFactor, PassSecondFactor,
       LoginTypeOK, Holding, Submitting
  <2>2. CASE PassFirstFactor(r)
    <3> PICK c \in FirstCredentials(r) :
          passed' = passed \cup {Pass(target[r], c[1], c[2], "first")}
      BY <2>2 DEF PassFirstFactor
    <3>1. c[2] \in pol[r].firsts
      BY DEF FirstCredentials
    <3> QED BY <1>3, <2>1, <3>1 DEF PassesSound, FactorsWereAllowed, Pass
  <2>3. CASE PassSecondFactor(r)
    <3> PICK c \in SecondCredentials(r) :
          passed' = passed \cup {Pass(target[r], c[1], c[2], "second")}
      BY <2>3 DEF PassSecondFactor
    <3>1. c[2] \in pol[r].seconds
      BY DEF SecondCredentials
    <3> QED BY <1>3, <2>1, <3>1 DEF PassesSound, FactorsWereAllowed, Pass
  <2> QED BY <1>5, <2>2, <2>3
<1>6. ASSUME NEW f \in Flow, InitFlow(f) \/ InitForeignFlow(f) \/ FlowExpires(f)
      PROVE  passed' = passed
  BY <1>6 DEF InitFlow, InitForeignFlow, FlowExpires
<1>7. ASSUME NEW r \in Request,
             \/ Submit(r) \/ GetPending(r) \/ GetLapsed(r) \/ MarkExpired(r)
             \/ GetPolicy(r) \/ RefuseFactor(r) \/ AppendFlowError(r)
             \/ AdvanceToSecondFactor(r) \/ CompleteLogin(r) \/ IssueSession(r)
             \/ AcceptLoginRequest(r) \/ Abandon(r) \/ Logout(r)
      PROVE  passed' = passed
  BY <1>7 DEF Submit, GetPending, GetLapsed, MarkExpired, GetPolicy,
     RefuseFactor, AppendFlowError, AdvanceToSecondFactor, CompleteLogin,
     IssueSession, AcceptLoginRequest, Abandon, Logout
<1>8. CASE UpsertPolicy \/ UNCHANGED loginVars
  BY <1>4, <1>8 DEF UpsertPolicy, loginVars
<1> QED BY <1>4, <1>5, <1>6, <1>7, <1>8 DEF LoginNext, Serve

(* What Hydra was told stays true of the session rows.                     *)
LEMMA HydraStep ==
  ASSUME LoginInv, [LoginNext]_loginVars
  PROVE  HydraAcceptsIssuedLogins'
<1> USE DEF store, local, history
<1>1. LoginTypeOK /\ HydraAcceptsIssuedLogins
  BY DEF LoginInv
<1>2. \A g \in hydra : g.request \in Request
  BY <1>1 DEF LoginTypeOK
<1>3. CASE UNCHANGED <<hydra, sessions>>
  BY <1>1, <1>3 DEF HydraAcceptsIssuedLogins, Issued
<1>4. ASSUME NEW r \in Request, IssueSession(r)
      PROVE  HydraAcceptsIssuedLogins'
  <2>1. ~ Issued(r)
    BY <1>4 DEF LoginInv, SessionSound, IssueSession
  <2>2. hydra' = hydra /\ \A q \in Request \ {r} : sessions'[q] = sessions[q]
    BY <1>1, <1>4 DEF IssueSession, CreateSession, LoginTypeOK
  <2> QED BY <1>1, <1>2, <2>1, <2>2 DEF HydraAcceptsIssuedLogins, Issued
<1>5. ASSUME NEW r \in Request, AcceptLoginRequest(r)
      PROVE  HydraAcceptsIssuedLogins'
  <2>1. /\ Issued(r) /\ sessions[r].identity = result[r].identity
        /\ sessions[r].aal = result[r].aal
    BY <1>5 DEF LoginInv, SessionSound, AcceptLoginRequest
  <2> QED BY <1>1, <1>5, <2>1 DEF AcceptLoginRequest, SubmittedIdentity,
          HydraAcceptsIssuedLogins, Issued
<1>6. ASSUME NEW r \in Request, Logout(r)
      PROVE  HydraAcceptsIssuedLogins'
  <2>1. /\ hydra' = hydra
        /\ \A q \in Request : /\ Issued(q) => Issued(q)'
                              /\ sessions'[q].identity = sessions[q].identity
                              /\ sessions'[q].aal = sessions[q].aal
    BY <1>1, <1>6 DEF Logout, RevokeByToken, LoginTypeOK, SessionOf, Issued
  <2> QED BY <1>1, <1>2, <2>1 DEF HydraAcceptsIssuedLogins
<1>7. ASSUME NEW f \in Flow, InitFlow(f) \/ InitForeignFlow(f) \/ FlowExpires(f)
      PROVE  UNCHANGED <<hydra, sessions>>
  BY <1>7 DEF InitFlow, InitForeignFlow, FlowExpires
<1>8. ASSUME NEW r \in Request,
             \/ Submit(r) \/ GetPending(r) \/ GetLapsed(r) \/ MarkExpired(r)
             \/ GetPolicy(r) \/ PassFirstFactor(r) \/ PassSecondFactor(r)
             \/ RefuseFactor(r) \/ AppendFlowError(r)
             \/ AdvanceToSecondFactor(r) \/ CompleteLogin(r) \/ Abandon(r)
      PROVE  UNCHANGED <<hydra, sessions>>
  BY <1>8 DEF Submit, GetPending, GetLapsed, MarkExpired, GetPolicy,
     PassFirstFactor, PassSecondFactor, RefuseFactor, AppendFlowError,
     AdvanceToSecondFactor, CompleteLogin, Abandon
<1>9. CASE UpsertPolicy \/ UNCHANGED loginVars
  BY <1>3, <1>9 DEF UpsertPolicy, loginVars
<1> QED BY <1>3, <1>4, <1>5, <1>6, <1>7, <1>8, <1>9 DEF LoginNext, Serve

(* The policy that is stored has, at some time, been stored.               *)
LEMMA PolicyStep ==
  ASSUME LoginInv, [LoginNext]_loginVars
  PROVE  PolicyInForce'
<1>1. Grows /\ policy \in inForce
  BY StepGrows DEF LoginInv, PolicyInForce
<1>2. policy' = policy \/ UpsertPolicy
  BY DEF LoginNext, Serve, loginVars, store, InitFlow, InitForeignFlow,
     FlowExpires, Submit, GetPending, GetLapsed, MarkExpired, GetPolicy,
     PassFirstFactor, PassSecondFactor, RefuseFactor, AppendFlowError,
     AdvanceToSecondFactor, CompleteLogin, IssueSession, AcceptLoginRequest,
     Abandon, Logout
<1> QED BY <1>1, <1>2 DEF Grows, PolicyInForce, UpsertPolicy

-----------------------------------------------------------------------------
(* The invariant.                                                          *)

LEMMA InvInit == LoginInit => LoginInv
<1> SUFFICES ASSUME LoginInit PROVE LoginInv
  OBVIOUS
<1>1. LoginTypeOK
  BY BlankIsRow, NoResultIsResult, ZeroPolicyIsPolicy
     DEF LoginInit, LoginTypeOK, PC, NoSession, SessionOf, SessionState, Owner,
         AAL
<1>2. RowsSound /\ SuccessHasOwner
  BY DEF LoginInit, RowsSound, RowSound, SuccessHasOwner, Blank, NoRow, FreshUI
<1>3. /\ PolicyInForce /\ PassesSound /\ FactorsWereAllowed
      /\ HydraAcceptsIssuedLogins /\ LateRequestsGetNothing
  BY DEF LoginInit, PolicyInForce, PassesSound, FactorsWereAllowed,
     HydraAcceptsIssuedLogins, LateRequestsGetNothing
<1>4. ASSUME NEW r \in Request
      PROVE  CopySound(r) /\ ResultSound(r) /\ SessionSound(r) /\ LateSound(r)
  BY DEF LoginInit, CopySound, ResultSound, SessionSound, LateSound, Holding,
     Submitting, Issued, NoSession
<1> QED BY <1>1, <1>2, <1>3, <1>4 DEF LoginInv

(* A late request never reaches the step that inserts a session.           *)
LEMMA LateStep ==
  ASSUME LoginInv, [LoginNext]_loginVars
  PROVE  LateRequestsGetNothing'
<1> USE DEF store, local, history
<1>1. /\ LoginTypeOK /\ LateRequestsGetNothing
      /\ \A r \in Request : SessionSound(r) /\ LateSound(r)
  BY DEF LoginInv
<1>2. late \subseteq Request
  BY <1>1 DEF LoginTypeOK
<1>3. CASE UNCHANGED <<late, sessions>>
  BY <1>1, <1>3 DEF LateRequestsGetNothing, Issued
<1>4. ASSUME NEW r \in Request, Submit(r) PROVE LateRequestsGetNothing'
  <2>1. ~ Issued(r)
    BY <1>1, <1>4 DEF SessionSound, Submit
  <2> QED BY <1>1, <1>4, <2>1 DEF Submit, LateRequestsGetNothing, Issued
<1>5. ASSUME NEW r \in Request, IssueSession(r) PROVE LateRequestsGetNothing'
  <2>1. r \notin late
    BY <1>1, <1>5 DEF LateSound, IssueSession
  <2>2. late' = late /\ \A q \in Request \ {r} : sessions'[q] = sessions[q]
    BY <1>1, <1>5 DEF IssueSession, CreateSession, LoginTypeOK
  <2> QED BY <1>1, <1>2, <2>1, <2>2 DEF LateRequestsGetNothing, Issued
<1>6. ASSUME NEW r \in Request, Logout(r) PROVE LateRequestsGetNothing'
  <2>1. Issued(r) /\ late' = late /\ \A q \in Request \ {r} : sessions'[q] = sessions[q]
    BY <1>1, <1>6 DEF Logout, RevokeByToken, LoginTypeOK
  <2> QED BY <1>1, <1>2, <2>1 DEF LateRequestsGetNothing, Issued
<1>7. ASSUME NEW f \in Flow, InitFlow(f) \/ InitForeignFlow(f) \/ FlowExpires(f)
      PROVE  UNCHANGED <<late, sessions>>
  BY <1>7 DEF InitFlow, InitForeignFlow, FlowExpires
<1>8. ASSUME NEW r \in Request,
             \/ GetPending(r) \/ GetLapsed(r) \/ MarkExpired(r)
             \/ GetPolicy(r) \/ PassFirstFactor(r) \/ PassSecondFactor(r)
             \/ RefuseFactor(r) \/ AppendFlowError(r)
             \/ AdvanceToSecondFactor(r) \/ CompleteLogin(r)
             \/ AcceptLoginRequest(r) \/ Abandon(r)
      PROVE  UNCHANGED <<late, sessions>>
  BY <1>8 DEF GetPending, GetLapsed, MarkExpired, GetPolicy, PassFirstFactor,
     PassSecondFactor, RefuseFactor, AppendFlowError, AdvanceToSecondFactor,
     CompleteLogin, AcceptLoginRequest, Abandon
<1>9. CASE UpsertPolicy \/ UNCHANGED loginVars
  BY <1>3, <1>9 DEF UpsertPolicy, loginVars
<1> QED BY <1>3, <1>4, <1>5, <1>6, <1>7, <1>8, <1>9 DEF LoginNext, Serve

LEMMA InvStep == LoginInv /\ [LoginNext]_loginVars => LoginInv'
<1> SUFFICES ASSUME LoginInv, [LoginNext]_loginVars PROVE LoginInv'
  OBVIOUS
<1>1. LoginTypeOK'
  BY TypeStep DEF LoginInv
<1>2. RowsSound' /\ SuccessHasOwner'
  BY RowsStep DEF RowsSound, SuccessHasOwner, RowOK
<1>3. \A r \in Request : CopySound(r)' /\ ResultSound(r)' /\ SessionSound(r)'
                         /\ LateSound(r)'
  BY RequestsStep DEF RequestSound
<1> QED BY <1>1, <1>2, <1>3, PassesStep, HydraStep, PolicyStep, LateStep
        DEF LoginInv

(* The strengthening that carries every safety property of Login: what is  *)
(* demanded of a row is demanded of every copy of it that a request may    *)
(* still write back.                                                       *)
THEOREM LoginInvariant == LoginSpec => []LoginInv
  BY InvInit, InvStep, PTL DEF LoginSpec

(* An aal2 session takes both factors, passed by its own identity in its   *)
(* own flow.                                                               *)
THEOREM AAL2Sound == LoginSpec => []AAL2NeedsBothFactors
<1>1. LoginInv => AAL2NeedsBothFactors
  BY DEF LoginInv, SessionSound, Earned, AAL2NeedsBothFactors
<1> QED BY <1>1, LoginInvariant, PTL

(* No aal1 session while every policy demands a second factor.             *)
THEOREM AAL1Sound == LoginSpec => []AAL1OnlyWithoutMFA
<1>1. LoginInv => AAL1OnlyWithoutMFA
  BY DEF LoginInv, SessionSound, Earned, AAL1OnlyWithoutMFA
<1> QED BY <1>1, LoginInvariant, PTL

(* A row that waits for a second factor names who passed the first.        *)
THEOREM WaitingRowsSound == LoginSpec => []WaitingRowsNameTheirOwner
<1>1. LoginInv => WaitingRowsNameTheirOwner
  BY DEF LoginInv, RowsSound, RowSound, WaitingRowsNameTheirOwner
<1> QED BY <1>1, LoginInvariant, PTL

(* SubmitFlow neither authenticates anyone in nor writes to a flow of      *)
(* another engine.                                                         *)
THEOREM ForeignFlowsSound == LoginSpec => []ForeignFlowsAreLeftAlone
<1>1. LoginInv => ForeignFlowsAreLeftAlone
  BY DEF LoginInv, RowsSound, RowSound, PassesSound, ForeignFlowsAreLeftAlone
<1> QED BY <1>1, LoginInvariant, PTL

(* A request submitted after expires_at never gets a session.              *)
THEOREM LateRequestsSound == LoginSpec => []LateRequestsGetNothing
<1>1. LoginInv => LateRequestsGetNothing
  BY DEF LoginInv
<1> QED BY <1>1, LoginInvariant, PTL

(* Hydra is told only of logins whose session row exists and agrees.       *)
THEOREM HydraSound == LoginSpec => []HydraAcceptsIssuedLogins
<1>1. LoginInv => HydraAcceptsIssuedLogins
  BY DEF LoginInv
<1> QED BY <1>1, LoginInvariant, PTL

(* A flow marked successful names an identity that passed its first factor,*)
(* whatever stale copies are written over the row.                         *)
THEOREM SuccessSound == LoginSpec => []SuccessHasOwner
<1>1. LoginInv => SuccessHasOwner
  BY DEF LoginInv
<1> QED BY <1>1, LoginInvariant, PTL

(* A factor counts only if some policy that was in force allowed it there. *)
THEOREM FactorsSound == LoginSpec => []FactorsWereAllowed
<1>1. LoginInv => FactorsWereAllowed
  BY DEF LoginInv
<1> QED BY <1>1, LoginInvariant, PTL

-----------------------------------------------------------------------------
(* Login implements LoginPromise: a step of a request is one legal step of *)
(* the promise, or does not show.  First the sessions as the promise sees  *)
(* them.                                                                   *)

IssuedBy(r) ==
  [request |-> r, flow |-> target[r], identity |-> sessions[r].identity,
   aal |-> sessions[r].aal, amr |-> sessions[r].amr]

(* They change only with the rows of sessions.                             *)
LEMMA SameSessions ==
  ASSUME LoginTypeOK, target' = target,
         \A r \in Request : /\ Issued(r)' <=> Issued(r)
                            /\ sessions'[r].identity = sessions[r].identity
                            /\ sessions'[r].aal = sessions[r].aal
                            /\ sessions'[r].amr = sessions[r].amr
  PROVE  issuedSessions' = issuedSessions
  BY DEF issuedSessions

LEMMA RowsUntouched ==
  ASSUME LoginTypeOK, UNCHANGED <<sessions, target>>
  PROVE  issuedSessions' = issuedSessions
  BY SameSessions DEF Issued

(* Logging out leaves the session that was issued where it is.             *)
LEMMA LogoutKeepsSessions ==
  ASSUME LoginTypeOK, NEW r \in Request, Logout(r)
  PROVE  issuedSessions' = issuedSessions
<1>1. target' = target
  BY DEF Logout
<1>2. ASSUME NEW q \in Request
      PROVE  /\ Issued(q)' <=> Issued(q)
             /\ sessions'[q].identity = sessions[q].identity
             /\ sessions'[q].aal = sessions[q].aal
             /\ sessions'[q].amr = sessions[q].amr
  BY DEF Logout, RevokeByToken, Issued, LoginTypeOK, SessionOf
<1> QED BY <1>1, <1>2, SameSessions

(* A statement inserts one more.                                           *)
LEMMA OneMoreSession ==
  ASSUME LoginTypeOK, NEW r \in Request, IssueSession(r), ~ Issued(r)
  PROVE  issuedSessions' = issuedSessions \cup
           {[request |-> r, flow |-> target[r], identity |-> result[r].identity,
             aal |-> result[r].aal, amr |-> result[r].amr]}
<1> DEFINE new == [request |-> r, flow |-> target[r],
                   identity |-> result[r].identity, aal |-> result[r].aal,
                   amr |-> result[r].amr]
<1>1. /\ target' = target
      /\ sessions' = [sessions EXCEPT ![r] =
           [state |-> "active", identity |-> result[r].identity,
            aal |-> result[r].aal, amr |-> result[r].amr]]
  BY DEF IssueSession, CreateSession, SubmittedIdentity
<1>2. Issued(r)' /\ IssuedBy(r)' = new
  BY <1>1 DEF Issued, IssuedBy, LoginTypeOK
<1>3. ASSUME NEW q \in Request \ {r}
      PROVE  (Issued(q)' <=> Issued(q)) /\ IssuedBy(q)' = IssuedBy(q)
  BY <1>1 DEF Issued, IssuedBy, LoginTypeOK
<1>4. issuedSessions = {IssuedBy(q) : q \in {p \in Request : Issued(p)}}
  BY DEF issuedSessions, IssuedBy
<1>5. issuedSessions' = {IssuedBy(q)' : q \in {p \in Request : Issued(p)'}}
  BY DEF issuedSessions, IssuedBy, Issued
<1>6. {p \in Request : Issued(p)'} = {p \in Request : Issued(p)} \cup {r}
  BY <1>2, <1>3
<1> HIDE DEF new
<1>7. issuedSessions' = issuedSessions \cup {new}
  BY <1>2, <1>3, <1>4, <1>5, <1>6
<1> QED BY <1>7 DEF new

-----------------------------------------------------------------------------
(* The steps that show.                                                    *)

LEMMA FirstFactorShows ==
  ASSUME LoginInv, NEW r \in Request, PassFirstFactor(r)
  PROVE  Promise!Next
<1>1. LoginTypeOK /\ CopySound(r)
  BY DEF LoginInv
<1>2. issuedSessions' = issuedSessions
  BY <1>1, RowsUntouched DEF PassFirstFactor, store
<1>3. PICK c \in FirstCredentials(r) :
        passed' = passed \cup {Pass(target[r], c[1], c[2], "first")}
  BY DEF PassFirstFactor
<1>4. /\ target[r] \in Flow /\ c[1] \in Identity /\ c[2] \in Method
      /\ c[2] \in pol[r].firsts
  BY <1>1, EnrolledAssumption DEF FirstCredentials, LoginTypeOK
<1>5. pol[r] \in inForce
  BY <1>1 DEF CopySound, PassFirstFactor
<1>6. Promise!PassFirst(target[r], c[1], c[2])
  BY <1>2, <1>3, <1>4, <1>5 DEF Promise!PassFirst, Promise!Pass, Pass,
     PassFirstFactor
<1> QED BY <1>4, <1>6 DEF Promise!Next

LEMMA SecondFactorShows ==
  ASSUME LoginInv, NEW r \in Request, PassSecondFactor(r)
  PROVE  Promise!Next
<1>1. LoginTypeOK /\ CopySound(r)
  BY DEF LoginInv
<1>2. issuedSessions' = issuedSessions
  BY <1>1, RowsUntouched DEF PassSecondFactor, store
<1>3. PICK c \in SecondCredentials(r) :
        passed' = passed \cup {Pass(target[r], c[1], c[2], "second")}
  BY DEF PassSecondFactor
<1>4. /\ target[r] \in Flow /\ c[1] \in Identity /\ c[2] \in Method
      /\ c[1] = copy[r].identity /\ c[2] \in pol[r].seconds
  BY <1>1, EnrolledAssumption DEF SecondCredentials, LoginTypeOK
<1>5. pol[r] \in inForce /\ OneFactor(target[r], c[1], copy[r].ui.amr)
  BY <1>1, <1>4 DEF CopySound, RowSound, PassSecondFactor, Holding
<1>6. \E n \in Method : Pass(target[r], c[1], n, "first") \in passed
  BY <1>5 DEF OneFactor, Passed
<1>7. Promise!PassSecond(target[r], c[1], c[2])
  BY <1>2, <1>3, <1>4, <1>5, <1>6 DEF Promise!PassSecond, Promise!Pass, Pass,
     PassSecondFactor
<1> QED BY <1>4, <1>7 DEF Promise!Next

LEMMA SessionShows ==
  ASSUME LoginInv, NEW r \in Request, IssueSession(r)
  PROVE  Promise!Next
<1> DEFINE f == target[r]
           i == result[r].identity
           aal == result[r].aal
           amr == result[r].amr
<1>1. /\ LoginTypeOK /\ SessionSound(r) /\ ResultSound(r) /\ pc[r] = "session"
  BY DEF LoginInv, IssueSession
<1>2. ~ Issued(r)
  BY <1>1 DEF SessionSound
<1>3. Earned(f, i, aal, amr)
  BY <1>1 DEF ResultSound
<1>4. f \in Flow /\ aal \in {"aal1", "aal2"}
  BY <1>1 DEF LoginTypeOK, Result, AAL
<1>5. \A s \in issuedSessions : s.request # r
  BY <1>2 DEF issuedSessions
<1>6. Promise!Issue(r, f, i, aal, amr)
  BY <1>1, <1>2, <1>5, OneMoreSession DEF Promise!Issue, Promise!Session,
     IssueSession, history
<1> HIDE DEF f, i, aal, amr
<1>7. passed \subseteq Passes
  BY <1>1 DEF LoginTypeOK
<1>8. CASE aal = "aal1"
  <2>1. PICK m \in Method : amr = <<m>> /\ Pass(f, i, m, "first") \in passed
    BY <1>3, <1>8 DEF Earned, OneFactor, Passed
  <2>2. i \in Identity
    BY <1>7, <2>1 DEF Pass, Passes
  <2>3. Promise!IssueAAL1(r, f, i, m)
    BY <1>3, <1>6, <1>8, <2>1 DEF Promise!IssueAAL1, Promise!Pass, Pass, Earned,
       Promise!DemandsSecond, DemandsSecond
  <2> QED BY <1>4, <2>2, <2>3 DEF Promise!Next
<1>9. CASE aal = "aal2"
  <2>1. PICK m \in Method, n \in Method :
          /\ amr = <<m, n>>
          /\ Pass(f, i, m, "first") \in passed
          /\ Pass(f, i, n, "second") \in passed
    BY <1>3, <1>9 DEF Earned, TwoFactors, Passed
  <2>2. i \in Identity
    BY <1>7, <2>1 DEF Pass, Passes
  <2>3. Promise!IssueAAL2(r, f, i, m, n)
    BY <1>6, <1>9, <2>1 DEF Promise!IssueAAL2, Promise!Pass, Pass
  <2> QED BY <1>4, <2>2, <2>3 DEF Promise!Next
<1> QED BY <1>4, <1>8, <1>9

LEMMA PolicyShows ==
  ASSUME LoginInv, UpsertPolicy
  PROVE  Promise!Next
<1>1. issuedSessions' = issuedSessions
  BY RowsUntouched DEF LoginInv, UpsertPolicy
<1> QED BY <1>1 DEF UpsertPolicy, Promise!ChangePolicy, Promise!Next

-----------------------------------------------------------------------------
LEMMA LoginRefines ==
  LoginInv /\ [LoginNext]_loginVars => [Promise!Next]_(Promise!vars)
<1> SUFFICES ASSUME LoginInv, [LoginNext]_loginVars
             PROVE  [Promise!Next]_(Promise!vars)
  OBVIOUS
<1> USE DEF Promise!vars
<1>1. LoginTypeOK
  BY DEF LoginInv
<1>2. CASE UNCHANGED <<sessions, target, passed, inForce>>
  BY <1>1, <1>2, RowsUntouched
<1>3. ASSUME NEW f \in Flow, InitFlow(f) \/ InitForeignFlow(f) \/ FlowExpires(f)
      PROVE  UNCHANGED <<sessions, target, passed, inForce>>
  BY <1>3 DEF InitFlow, InitForeignFlow, FlowExpires, history
<1>4. ASSUME NEW r \in Request,
             \/ Submit(r) \/ GetPending(r) \/ GetLapsed(r) \/ MarkExpired(r)
             \/ GetPolicy(r) \/ RefuseFactor(r) \/ AppendFlowError(r)
             \/ AdvanceToSecondFactor(r) \/ CompleteLogin(r)
             \/ AcceptLoginRequest(r) \/ Abandon(r)
      PROVE  UNCHANGED <<sessions, target, passed, inForce>>
  BY <1>4 DEF Submit, GetPending, GetLapsed, MarkExpired, GetPolicy,
     RefuseFactor, AppendFlowError, AdvanceToSecondFactor, CompleteLogin,
     AcceptLoginRequest, Abandon, store, history
<1>5. ASSUME NEW r \in Request, Logout(r)
      PROVE  UNCHANGED Promise!vars
  BY <1>1, <1>5, LogoutKeepsSessions DEF Logout, history
<1>6. CASE UNCHANGED loginVars
  BY <1>2, <1>6 DEF loginVars, store, history
<1> QED
  BY <1>2, <1>3, <1>4, <1>5, <1>6, FirstFactorShows, SecondFactorShows,
     SessionShows, PolicyShows DEF LoginNext, Serve

(* Whatever the interleaving of requests, policy changes, failures and     *)
(* logouts, login does nothing that LoginPromise does not allow.           *)
THEOREM LoginKeepsThePromise == LoginSpec => KeepsThePromise
<1>1. LoginInit => Promise!Init
  BY DEF LoginInit, Promise!Init, issuedSessions, Issued, NoSession
<1> QED BY <1>1, LoginRefines, LoginInvariant, PTL
        DEF LoginSpec, KeepsThePromise, Promise!Spec
=============================================================================
