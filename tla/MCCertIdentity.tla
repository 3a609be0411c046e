--------------------------- MODULE MCCertIdentity ---------------------------
(* CertIdentity with two operators. *)
EXTENDS CertIdentity

CONSTANTS c1, c2
=============================================================================
