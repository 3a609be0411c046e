----------------------------- MODULE AtomicFile -----------------------------
(***************************************************************************)
(* What WriteFilePreserveOwner promises its callers: the file at a path is *)
(* a register.  A call either replaces the value and reports success, or   *)
(* leaves the value alone; a reader always finds a value somebody wrote.   *)
(***************************************************************************)
CONSTANTS
  Writers,   \* processes that replace the file
  Values,    \* what can be written
  Missing    \* the file does not exist

VARIABLES
  value,     \* what a reader finds
  pending,   \* pending[w]: the values that w is writing, one or none
  outcome    \* outcome[w]: what the last call of w returned

vars == <<value, pending, outcome>>

Outcomes == {"none", "ok", "error"}

Init ==
  /\ value \in Values \cup {Missing}
  /\ pending = [w \in Writers |-> {}]
  /\ outcome = [w \in Writers |-> "none"]

Begin(w, v) ==
  /\ pending[w] = {}
  /\ pending' = [pending EXCEPT ![w] = {v}]
  /\ outcome' = [outcome EXCEPT ![w] = "none"]
  /\ UNCHANGED value

\* The new value appears and the call has succeeded, in one step.
Commit(w) ==
  /\ pending[w] # {}
  /\ value' \in pending[w]
  /\ pending' = [pending EXCEPT ![w] = {}]
  /\ outcome' = [outcome EXCEPT ![w] = "ok"]

\* The call fails, or its process dies, and the value stays.
Abort(w) ==
  /\ pending[w] # {}
  /\ pending' = [pending EXCEPT ![w] = {}]
  /\ \E o \in {"none", "error"} : outcome' = [outcome EXCEPT ![w] = o]
  /\ UNCHANGED value

Next == \E w \in Writers : (\E v \in Values : Begin(w, v)) \/ Commit(w) \/ Abort(w)

Spec == Init /\ [][Next]_vars
=============================================================================
