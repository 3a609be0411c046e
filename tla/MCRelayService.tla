--------------------------- MODULE MCRelayService ---------------------------
(* RelayService on small instances. *)
EXTENDS RelayService
=============================================================================
