---------------------------- MODULE MCMSSQLStore ----------------------------
(* MSSQLStore on small instances. *)
EXTENDS MSSQLStore, TLC

CONSTANTS a, b, c

\* An inventory left by a version that stored plaintext passwords.
OneLegacyEntry == <<[c |-> a, pw |-> CHOOSE p \in Passwords : TRUE, k |-> Plain]>>

\* Nothing distinguishes the handlers, nor the containers without a legacy entry.
Symmetry == Permutations(Handlers) \cup Permutations(Containers \ {a})
=============================================================================
