---------------------------- MODULE MCTokenAuth ----------------------------
(* TokenAuth on a small instance. *)
EXTENDS TokenAuth
=============================================================================
