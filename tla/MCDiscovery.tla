----------------------------- MODULE MCDiscovery -----------------------------
(* Discovery for TLC: three containers, two of them MSSQL, of which two may  *)
(* be inspected at a time, and two databases, one with its file in another   *)
(* spelling.                                                                 *)
EXTENDS Discovery, TLC

LowerCase == "Sales" :> "sales" @@ "sales" :> "sales" @@ "hr" :> "hr"
=============================================================================
