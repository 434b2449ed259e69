------------------------------- MODULE MCOidc -------------------------------
(***************************************************************************)
(* Small instances of OidcLogin for TLC.                                   *)
(***************************************************************************)
EXTENDS OidcLogin, TLC

CONSTANTS google, sam, alice

Subjects == Provider \X Subject

\* Alice came with a migration, linked to Google's sam.
AliceAtGoogle ==
  {[identity |-> alice, type |-> oidc, names |-> {<<google, sam>>}]}

Interchangeable == Permutations(Request) \cup Permutations(Flow)
=============================================================================
