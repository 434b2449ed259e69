----------------------------- MODULE MCAccounts -----------------------------
(***************************************************************************)
(* Small instances of Accounts for TLC.                                    *)
(***************************************************************************)
EXTENDS Accounts, TLC

CONSTANTS alice, bob, password, device, email, phone

Nobody == {}

\* Two accounts, one with an email and one with a phone number.
TwoAccounts ==
  {[identity |-> alice, type |-> password, names |-> {email}],
   [identity |-> bob,   type |-> password, names |-> {phone}]}

RequestsAlike == Permutations(Request)
RequestsAndIdentitiesAlike == Permutations(Request) \cup Permutations(Identity)
=============================================================================
