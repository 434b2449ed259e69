------------------------------- MODULE MCLogin -------------------------------
(***************************************************************************)
(* Small instances of Login for TLC.                                       *)
(***************************************************************************)
EXTENDS Login, TLC

\* The authenticators: a password, and a one-time code that an operator may
\* allow in either position.
CONSTANTS password, otp

MCMethod == {password, otp}

\* Everybody is enrolled in both methods.
MCEnrolled == Identity \X MCMethod

OnePhase  == [mfa |-> FALSE, firsts |-> {password}, seconds |-> {otp}]
TwoPhases == [mfa |-> TRUE,  firsts |-> {password}, seconds |-> {otp}]
NoSeconds == [mfa |-> TRUE,  firsts |-> MCMethod,   seconds |-> {}]

MCPolicies == {OnePhase, TwoPhases, NoSeconds}

Interchangeable == Permutations(Request) \cup Permutations(Identity)
=============================================================================
