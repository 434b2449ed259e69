--------------------------- MODULE MCProviderCache ---------------------------
(***************************************************************************)
(* Small instances of ProviderCache for TLC.                               *)
(***************************************************************************)
EXTENDS ProviderCache, TLC

Interchangeable == Permutations(Request) \cup Permutations(Issuer)
=============================================================================
