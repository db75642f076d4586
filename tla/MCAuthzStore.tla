---------------------------- MODULE MCAuthzStore ----------------------------
(* Instances of AuthzStore for TLC. *)
EXTENDS AuthzStore

MCNames == {"rowfilters", "renamed"}
MCModels == {"m1", "m2"}
=============================================================================
