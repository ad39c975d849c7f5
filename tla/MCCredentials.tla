---------------------------- MODULE MCCredentials ----------------------------
(* Instance of Credentials for TLC. *)
EXTENDS Credentials
=============================================================================
