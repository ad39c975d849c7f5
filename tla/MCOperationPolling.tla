------------------------- MODULE MCOperationPolling -------------------------
(* Instance of OperationPolling for TLC. *)
EXTENDS OperationPolling
=============================================================================
