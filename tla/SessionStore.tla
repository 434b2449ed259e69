---------------------------- MODULE SessionStore ----------------------------
(***************************************************************************)
(* The table sessions and the statements of internal/session/store.go.     *)
(* A row is named by the request that inserts it: every handler inserts at *)
(* most one, with a fresh random token.  Session expiry is a guard of      *)
(* GetByToken only and is not needed by the flows that create sessions.    *)
(***************************************************************************)
EXTENDS Ids

CONSTANT Request   \* HTTP requests, each served by a goroutine of its own

VARIABLE sessions   \* sessions[r]: the row request r inserted

AAL == {"aal1", "aal2"}

\* "absent": not inserted; "revoked": active = false.
SessionState == {"absent", "active", "revoked"}

SessionOf(AMR) == [state : SessionState, identity : Owner,
                   aal : AAL, amr : AMR]

NoSession(amr) == [state |-> "absent", identity |-> NoIdentity,
                             aal |-> "aal1", amr |-> amr]

Issued(r) == sessions[r].state # "absent"

(* store.Create                                                            *)
CreateSession(r, identity, aal, amr) ==
  sessions' = [sessions EXCEPT ![r] = [state |-> "active",
                 identity |-> identity, aal |-> aal, amr |-> amr]]

(* store.RevokeByToken, the whole of DELETE /sessions/whoami: a no-op on a *)
(* revoked row, an error on a missing one.                                 *)
RevokeByToken(r) ==
  /\ Issued(r)
  /\ sessions' = [sessions EXCEPT ![r].state = "revoked"]
=============================================================================
