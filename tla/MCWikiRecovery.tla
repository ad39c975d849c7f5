--------------------------- MODULE MCWikiRecovery ---------------------------
(* Instance of WikiRecovery for TLC. *)
EXTENDS WikiRecovery
=============================================================================
