--------------------------- MODULE MCRelayRunner ----------------------------
(* RelayRunner with a Duration of six bits and a cap of twelve units: an    *)
(* interval of 17 seconds overflows, one of 8 lies above the cap.           *)
EXTENDS RelayRunner
=============================================================================
