------------------------------ MODULE FlowStore ------------------------------
(***************************************************************************)
(* The table self_service_flows and the statements internal/flow/store.go  *)
(* runs against it.  Every self-service engine (login, registration,       *)
(* verification, recovery, settings, OIDC) keeps its progress in one row   *)
(* per flow.  There is no transaction anywhere: each operator below is one *)
(* auto-committed SQL statement, and an engine that reads a row and later  *)
(* writes it works on a copy that other requests may have overtaken.       *)
(*                                                                         *)
(* One tenant is modelled: every statement is keyed by (tenant_id, id).    *)
(* The ui column is a value the engines choose; see RowOf.                 *)
(***************************************************************************)
EXTENDS Ids

CONSTANT Flow   \* flow ids, the UUIDs the database generates

VARIABLES
  flows,       \* flows[f]: the row with id f
  overdue      \* the flows whose expires_at has passed

FlowType  == {"login", "registration", "recovery", "settings", "verification"}

\* "absent": the row has not been inserted.  Rows are never deleted.
FlowState == {"absent", "pending", "success", "failed", "expired"}

\* Rows whose ui column ranges over UI.
RowOf(UI) == [type : FlowType, state : FlowState, identity : Owner, ui : UI]

NoRow(ui) == [type |-> "login", state |-> "absent",
              identity |-> NoIdentity, ui |-> ui]

Exists(f) == flows[f].state # "absent"

-----------------------------------------------------------------------------
(* store.Create: INSERT ... RETURNING; state pending, identity_id NULL.    *)
CreateFlow(f, type, ui) ==
  /\ ~ Exists(f)
  /\ flows' = [flows EXCEPT ![f] = [type |-> type, state |-> "pending",
                                    identity |-> NoIdentity, ui |-> ui]]

\* Slip, no behaviour of the code: only the state column is looked at.
SlipLapsedByState(f) == flows[f].state = "expired"

(* store.Get answers ErrExpired for a pending row past its expires_at, and *)
(* only then runs UpdateState(expired), as a second statement.             *)
Lapsed(f) == flows[f].state = "pending" /\ f \in overdue

(* store.Update: overwrites state, identity_id and ui together, whatever   *)
(* they hold now; 0 rows affected (a missing row) is an error.             *)
UpdateFlow(f, state, identity, ui) ==
  /\ Exists(f)
  /\ flows' = [flows EXCEPT ![f] = [type |-> flows[f].type, state |-> state,
                                    identity |-> identity, ui |-> ui]]

(* store.UpdateState: overwrites the state column alone, whatever it holds.*)
UpdateFlowState(f, state) ==
  flows' = [flows EXCEPT ![f].state = state]

(* The clock passes expires_at.                                            *)
PassExpiry(f) ==
  /\ Exists(f)
  /\ f \notin overdue
  /\ overdue' = overdue \cup {f}
=============================================================================
