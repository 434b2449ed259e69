------------------------------ MODULE MCSettings ------------------------------
(***************************************************************************)
(* Small instances of Settings for TLC.                                    *)
(***************************************************************************)
EXTENDS Settings, TLC

CONSTANTS alice, bob, home, work

AliceHasOne == {[identity |-> alice, type |-> password, names |-> {home}]}
BobHasOne   == {[identity |-> bob,   type |-> password, names |-> {work}]}

RequestsAlike == Permutations(Request)
=============================================================================
