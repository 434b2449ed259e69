--------------------------- MODULE AccountsPromise ---------------------------
(***************************************************************************)
(* What registering, verifying and recovering promise, with no rows, no    *)
(* statements and no failures: an account is created and enrolled once, a  *)
(* token goes to somebody enrolled and is of use in its own flow only, and *)
(* nobody is activated or gets a session but by a token made for them, by  *)
(* registering where that is enough, or through an identity provider, by   *)
(* which only the active get one.  Accounts implements it.                 *)
(***************************************************************************)
EXTENDS Ids

CONSTANTS Flow, Request

VARIABLES
  accounts,    \* accounts[i]: the state of identity i
  enrolled,    \* the identities with a credential
  open,        \* the identities that registering was enough for
  offered,     \* the tokens: of which flow, and whom each was made for
  redeemed,    \* which request redeemed which of them
  issued       \* the sessions

vars == <<accounts, enrolled, open, offered, redeemed, issued>>

Offer == [token : Request, flow : Flow, type : {"verification", "recovery"},
          identity : Owner]

Init ==
  /\ enrolled \subseteq Identity
  /\ accounts = [i \in Identity |-> IF i \in enrolled THEN "active" ELSE "absent"]
  /\ open = {} /\ offered = {} /\ redeemed = {} /\ issued = {}

Create(i) ==
  /\ accounts[i] = "absent"
  /\ \/ /\ accounts' = [accounts EXCEPT ![i] = "active"]
        /\ open' = open \cup {i}
     \/ /\ accounts' = [accounts EXCEPT ![i] = "pending_verification"]
        /\ UNCHANGED open
  /\ UNCHANGED <<enrolled, offered, redeemed, issued>>

Enroll(i) ==
  /\ accounts[i] # "absent"
  /\ i \notin enrolled
  /\ enrolled' = enrolled \cup {i}
  /\ UNCHANGED <<accounts, open, offered, redeemed, issued>>

\* A token is made once, for somebody who has a credential or for nobody.
MakeToken(o) ==
  /\ o.identity \in enrolled \cup {NoIdentity}
  /\ \A p \in offered : p.token # o.token
  /\ offered' = offered \cup {o}
  /\ UNCHANGED <<accounts, enrolled, open, redeemed, issued>>

\* Two requests may redeem one token, but none redeems two.
Redeem(r, o) ==
  /\ o \in offered
  /\ o.identity # NoIdentity
  /\ \A d \in redeemed : d.request # r
  /\ accounts' = [accounts EXCEPT ![o.identity] = "active"]
  /\ redeemed' = redeemed \cup {[request |-> r, offer |-> o]}
  /\ UNCHANGED <<enrolled, open, offered, issued>>

\* A request gets at most one session.
Issue(r, i, kind) ==
  /\ \A s \in issued : s.request # r
  /\ issued' = issued \cup {[request |-> r, identity |-> i, kind |-> kind]}
  /\ UNCHANGED <<accounts, enrolled, open, offered, redeemed>>

\* An identity gets at most one session by registering.
IssueRegistered(r, i) ==
  /\ i \in open \cap enrolled
  /\ \A s \in issued : ~ (s.identity = i /\ s.kind = "registration")
  /\ Issue(r, i, "registration")

\* The request itself redeemed the token.
IssueRecovered(r, o) ==
  /\ [request |-> r, offer |-> o] \in redeemed
  /\ o.type = "recovery"
  /\ Issue(r, o.identity, "recovery")

\* Whose subject the provider confirms: OidcPromise's.
IssueByProvider(r, i) ==
  /\ i \in enrolled
  /\ accounts[i] = "active"
  /\ Issue(r, i, "provider")

Next ==
  \/ \E i \in Identity : Create(i) \/ Enroll(i)
  \/ \E o \in Offer : MakeToken(o)
  \/ \E r \in Request, o \in Offer : Redeem(r, o) \/ IssueRecovered(r, o)
  \/ \E r \in Request, i \in Identity : IssueRegistered(r, i) \/ IssueByProvider(r, i)

Spec == Init /\ [][Next]_vars
=============================================================================
