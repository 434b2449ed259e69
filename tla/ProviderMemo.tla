---------------------------- MODULE ProviderMemo ----------------------------
(***************************************************************************)
(* What the provider cache of internal/oidc promises: asking for an issuer *)
(* either fails, or finds the provider everybody gets for that issuer, or  *)
(* loads it because nobody has it yet.  Each is one indivisible step.      *)
(***************************************************************************)
CONSTANTS
  Request,     \* the goroutines that ask; each asks once
  Issuer,      \* issuer URLs
  Nobody       \* no provider: a missing map entry, a nil *Provider

VARIABLES
  wants,       \* wants[r]: the issuer r asks for
  cache,       \* cache[i]: the provider of i, named by the request that loaded it
  got          \* got[r]: the provider r was given

vars == <<wants, cache, got>>

Init ==
  /\ wants \in [Request -> Issuer]
  /\ cache = [i \in Issuer |-> Nobody]
  /\ got = [r \in Request |-> Nobody]

Find(r) ==
  /\ cache[wants[r]] # Nobody
  /\ got[r] = Nobody
  /\ got' = [got EXCEPT ![r] = cache[wants[r]]]
  /\ UNCHANGED <<wants, cache>>

Load(r) ==
  /\ cache[wants[r]] = Nobody
  /\ got[r] = Nobody
  /\ cache' = [cache EXCEPT ![wants[r]] = r]
  /\ got' = [got EXCEPT ![r] = r]
  /\ UNCHANGED wants

Next == \E r \in Request : Find(r) \/ Load(r)

Spec == Init /\ [][Next]_vars
=============================================================================
