----------------------------- MODULE LoginPromise -----------------------------
(***************************************************************************)
(* What login promises, with no requests, rows or statements: factors are  *)
(* passed in a flow, and a session is issued to an identity that passed    *)
(* what some policy that has been in force asks for.  Login implements it. *)
(***************************************************************************)
EXTENDS Ids, Sequences

CONSTANTS Flow, Request, Method, Policy

VARIABLES
  passed,      \* who passed which factor in which flow
  issued,      \* the sessions, with the flow each one comes from
  inForce      \* the policies that have been in force

vars == <<passed, issued, inForce>>

DemandsSecond(p) == p.mfa /\ p.seconds # {}

Pass(f, i, m, factor) == [flow |-> f, identity |-> i, method |-> m,
                          factor |-> factor]

Session(r, f, i, aal, amr) == [request |-> r, flow |-> f, identity |-> i,
                               aal |-> aal, amr |-> amr]

Init ==
  /\ passed = {}
  /\ issued = {}
  /\ \E p \in Policy : inForce = {p}

PassFirst(f, i, m) ==
  /\ \E p \in inForce : m \in p.firsts
  /\ passed' = passed \cup {Pass(f, i, m, "first")}
  /\ UNCHANGED <<issued, inForce>>

\* Nobody is asked for a second factor before having passed a first one.
PassSecond(f, i, m) ==
  /\ \E n \in Method : Pass(f, i, n, "first") \in passed
  /\ \E p \in inForce : m \in p.seconds
  /\ passed' = passed \cup {Pass(f, i, m, "second")}
  /\ UNCHANGED <<issued, inForce>>

\* A request gets at most one session.
Issue(r, f, i, aal, amr) ==
  /\ \A s \in issued : s.request # r
  /\ issued' = issued \cup {Session(r, f, i, aal, amr)}
  /\ UNCHANGED <<passed, inForce>>

IssueAAL1(r, f, i, m) ==
  /\ Pass(f, i, m, "first") \in passed
  /\ \E p \in inForce : ~ DemandsSecond(p)
  /\ Issue(r, f, i, "aal1", <<m>>)

IssueAAL2(r, f, i, m, n) ==
  /\ Pass(f, i, m, "first") \in passed
  /\ Pass(f, i, n, "second") \in passed
  /\ Issue(r, f, i, "aal2", <<m, n>>)

ChangePolicy ==
  /\ \E p \in Policy : inForce' = inForce \cup {p}
  /\ UNCHANGED <<passed, issued>>

Next ==
  \/ ChangePolicy
  \/ \E f \in Flow, i \in Identity, m \in Method :
       \/ PassFirst(f, i, m)
       \/ PassSecond(f, i, m)
       \/ \E r \in Request :
            IssueAAL1(r, f, i, m) \/ \E n \in Method : IssueAAL2(r, f, i, m, n)

Spec == Init /\ [][Next]_vars
=============================================================================
