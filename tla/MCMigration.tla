----------------------------- MODULE MCMigration -----------------------------
(***************************************************************************)
(* Small instances of Migration for TLC.                                   *)
(***************************************************************************)
EXTENDS Migration, TLC

CONSTANTS ann, ben, annsMail, corp, lab, old, sam, annsToken

Ids       == Newcomer \cup (Run \X Person)
Names     == Email \cup (ProviderRow \X Subject)
Passwords == [k \in Person |-> IF k = ann THEN {annsMail} ELSE {}]
Holders   == [t \in Token |-> ann]

\* Ann's hash is not Enroll's.
Hashes    == [k \in Person |-> IF k = ann THEN "argon2id" ELSE "bcrypt"]

\* Ann has a link to one of two providers of a kind, and one to a provider that
\* kratos.yml has no more; Ben has the same subject at the other.
Entries == [k \in Person |-> IF k = ann THEN {<<corp, sam>>, <<old, sam>>}
                                         ELSE {<<lab, sam>>}]
InOrder == [p \in Configured |-> IF p = corp THEN 1 ELSE 2]
Kinds   == [p \in KratosProvider |-> IF p = old THEN "google" ELSE "generic"]

Interchangeable == Permutations(Run)

\* Newcomers ask for Ann's password identifier, or come from the provider.
Asked == {<<password, annsMail>>} \cup {<<oidc, <<<<m, corp>>, sam>>>> : m \in Run}

\* Rows that runs inserted, not those made by hand.
RowsOfRuns == Run \X {corp}
=============================================================================
