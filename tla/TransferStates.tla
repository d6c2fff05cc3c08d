--------------------------- MODULE TransferStates ---------------------------
(***************************************************************************)
(* The status values of a transfer and the edges the desktop server calls  *)
(* legal (internal/transfer/state_machine.go).  Constant-level only: the   *)
(* modules that move a status EXTEND this one.                             *)
(***************************************************************************)

Status == { "created", "waiting_accept", "preparing", "transferring", "paused",
            "retrying", "verifying", "completed", "failed", "cancelled",
            "rejected" }

\* Status.IsTerminal
Terminal == { "completed", "failed", "cancelled", "rejected" }

ValidTransitions ==
  ({"created"} \X {"waiting_accept", "cancelled", "preparing"}) \union
  ({"waiting_accept"} \X {"preparing", "rejected", "cancelled", "failed"}) \union
  ({"preparing"} \X {"transferring", "failed", "cancelled"}) \union
  ({"transferring"} \X {"paused", "verifying", "failed", "cancelled", "retrying"}) \union
  ({"paused"} \X {"transferring", "cancelled", "failed"}) \union
  ({"retrying"} \X {"transferring", "failed", "cancelled"}) \union
  ({"verifying"} \X {"completed", "failed", "cancelled"}) \union
  ({"failed"} \X {"retrying"})

\* A self-transition is legal; Advance(from, to) succeeds exactly when this holds.
CanTransition(from, to) == from = to \/ <<from, to>> \in ValidTransitions

=============================================================================
