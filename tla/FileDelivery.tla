---------------------------- MODULE FileDelivery ----------------------------
(***************************************************************************)
(* What either direction promises about one batch of files, stated without *)
(* requests, database rows, staging files or a network: a file is          *)
(* delivered at most once and, once delivered, whole and for good; and the *)
(* batch is reported complete only after every file of it has been         *)
(* delivered.                                                              *)
(*                                                                         *)
(* InboundTransfer implements this specification, its files standing in    *)
(* the download directory (Delivery there), and so does OutboundTransfer,  *)
(* its files kept by the phone (Sending there).                            *)
(***************************************************************************)

VARIABLES
  batch,              \* the files to deliver
  delivered,          \* those that stand, whole, where they were sent
  reported            \* whether the batch is recorded as completed

vars == <<batch, delivered, reported>>

Init == delivered = {} /\ reported = FALSE

\* One more file reaches its destination with every chunk in it.
Deliver(f) ==
  /\ f \notin delivered
  /\ delivered' = delivered \union {f}
  /\ UNCHANGED <<batch, reported>>

\* The batch is recorded as completed.
Report ==
  /\ delivered = batch
  /\ reported' = TRUE
  /\ UNCHANGED <<batch, delivered>>

\* The record of the batch may be overwritten by a later decision (a cancel, a
\* failure report) or deleted; what was delivered stays.
Withdraw ==
  /\ reported
  /\ reported' = FALSE
  /\ UNCHANGED <<batch, delivered>>

Next == (\E f \in batch : Deliver(f)) \/ Report \/ Withdraw

Spec == Init /\ [][Next]_vars

=============================================================================
