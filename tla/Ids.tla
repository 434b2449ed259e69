--------------------------------- MODULE Ids ---------------------------------
(***************************************************************************)
(* The identifiers shared by the tables of the identity provider.          *)
(***************************************************************************)
CONSTANTS
  Identity,    \* identity ids, the UUIDs of table identities
  NoIdentity   \* identity_id IS NULL, a nil *uuid.UUID

ASSUME NoIdentityAssumption == NoIdentity \notin Identity

Owner == Identity \cup {NoIdentity}
=============================================================================
