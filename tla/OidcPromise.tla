----------------------------- MODULE OidcPromise -----------------------------
(***************************************************************************)
(* What login through a provider promises, with no rows, no statements and *)
(* no failures: an attempt is started once, for one flow and one provider; *)
(* a code is granted for a started attempt; a subject is linked once, to   *)
(* an identity made for it; and a session is issued in the flow of the     *)
(* attempt, to the identity of the subject.  OidcLogin implements it.      *)
(***************************************************************************)
EXTENDS Ids

CONSTANTS Flow, Request, Provider, Subject

VARIABLES
  accounts,    \* accounts[i]: the state of identity i
  linked,      \* which subject is which identity
  started,     \* the attempts
  granted,     \* the codes
  issued       \* the sessions

vars == <<accounts, linked, started, granted, issued>>

Attempt == [attempt : Request, provider : Provider, flow : Flow]
Link    == [subject : Provider \X Subject, identity : Identity]

SubjectOf(c) == <<c.provider, c.subject>>

Begun(c, f) == [attempt |-> c.attempt, provider |-> c.provider, flow |-> f]

\* Who was imported with a link has an account; nobody else has.
Init ==
  /\ linked \subseteq Link
  /\ \A l, m \in linked : l.subject = m.subject => l = m
  /\ \A i \in Identity : accounts[i] = "absent" <=> \A l \in linked : l.identity # i
  /\ started = {} /\ granted = {} /\ issued = {}

\* Elsewhere, by a verification or a recovery.
Activate(i) ==
  /\ accounts[i] = "pending_verification"
  /\ accounts' = [accounts EXCEPT ![i] = "active"]
  /\ UNCHANGED <<linked, started, granted, issued>>

\* An attempt is never begun again, on another flow or provider.
Start(a) ==
  /\ \A b \in started : b.attempt # a.attempt
  /\ started' = started \cup {a}
  /\ UNCHANGED <<accounts, linked, granted, issued>>

Grant(a, s) ==
  /\ a \in started
  /\ granted' = granted \cup
       {[attempt |-> a.attempt, provider |-> a.provider, subject |-> s]}
  /\ UNCHANGED <<accounts, linked, started, issued>>

\* Only somebody who has just signed in for the first time needs an account.
Provision(i, c) ==
  /\ c \in granted
  /\ accounts[i] = "absent"
  /\ accounts' = [accounts EXCEPT ![i] = "active"]
  /\ UNCHANGED <<linked, started, granted, issued>>

\* Neither the subject nor the identity has a link already: no subject is
\* ever added to an account that is somebody's.
LinkUp(i, c) ==
  /\ c \in granted
  /\ accounts[i] = "active"
  /\ \A l \in linked : l.subject # SubjectOf(c) /\ l.identity # i
  /\ linked' = linked \cup {[subject |-> SubjectOf(c), identity |-> i]}
  /\ UNCHANGED <<accounts, started, granted, issued>>

\* A code is of use in the flow of its attempt only, and a request gets at
\* most one session.
Issue(r, f, c, i) ==
  /\ c \in granted
  /\ Begun(c, f) \in started
  /\ [subject |-> SubjectOf(c), identity |-> i] \in linked
  /\ accounts[i] = "active"
  /\ \A s \in issued : s.request # r
  /\ issued' = issued \cup
       {[request |-> r, flow |-> f, code |-> c, identity |-> i]}
  /\ UNCHANGED <<accounts, linked, started, granted>>

Next ==
  \/ \E i \in Identity : Activate(i)
  \/ \E a \in Attempt : Start(a)
  \/ \E a \in started, s \in Subject : Grant(a, s)
  \/ \E i \in Identity, c \in granted :
       \/ Provision(i, c)
       \/ LinkUp(i, c)
       \/ \E r \in Request, f \in Flow : Issue(r, f, c, i)

Spec == Init /\ [][Next]_vars
=============================================================================
