---------------------------- MODULE MCAuthManager ----------------------------
(* A small instance of AuthManager. *)
EXTENDS AuthManager
=============================================================================
