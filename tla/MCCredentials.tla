--------------------------- MODULE MCCredentials ---------------------------
(* Instances of Credentials for TLC: all its parameters are numbers. *)
EXTENDS Credentials
=============================================================================
