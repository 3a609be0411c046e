---------------------------- MODULE InventoryMap ----------------------------
(***************************************************************************)
(* What the MSSQL inventory promises: a bounded map from containers to     *)
(* credentials with atomic Save and Remove.  Only calls of two processes   *)
(* that overlap (raced) may do something else.                             *)
(***************************************************************************)
EXTENDS Naturals, FiniteSets

CONSTANTS
  Procs,        \* callers
  Containers,
  Passwords,
  MaxEntries,
  NoPassword, NoOp

VARIABLES
  store,     \* store[c]: the password kept for container c, or NoPassword
  pending,   \* pending[p]: the call in progress, or NoOp
  outcome,   \* outcome[p]: what p's call returned, if it ended just now
  raced      \* raced[p]: p's call overlaps one of another process

vars == <<outcome, pending, store>>

Ops == [kind : {"save"}, c : Containers, pw : Passwords]
         \cup [kind : {"remove"}, c : Containers, pw : {NoPassword}]

Stored == {c \in Containers : store[c] # NoPassword}

Silence == [p \in Procs |-> "none"]

Init ==
  /\ store \in [Containers -> Passwords \cup {NoPassword}]
  /\ pending = [p \in Procs |-> NoOp]
  /\ outcome = Silence

Call(p, o) ==
  /\ pending[p] = NoOp
  /\ pending' = [pending EXCEPT ![p] = o]
  /\ outcome' = Silence
  /\ UNCHANGED store

\* Nobody returns.
Tick == outcome' = Silence /\ UNCHANGED <<pending, store>>

Return(p, res) ==
  /\ pending[p] # NoOp
  /\ pending' = [pending EXCEPT ![p] = NoOp]
  /\ outcome' = [Silence EXCEPT ![p] = res]

\* A new container needs room.
Save(p) ==
  /\ Return(p, "ok")
  /\ pending[p].kind = "save"
  /\ pending[p].c \in Stored \/ Cardinality(Stored) < MaxEntries
  /\ store' = [store EXCEPT ![pending[p].c] = pending[p].pw]

Remove(p) ==
  /\ Return(p, "ok")
  /\ pending[p].kind = "remove"
  /\ pending[p].c \in Stored
  /\ store' = [store EXCEPT ![pending[p].c] = NoPassword]

Full(p) ==
  /\ Return(p, "full")
  /\ pending[p].kind = "save"
  /\ pending[p].c \notin Stored /\ Cardinality(Stored) >= MaxEntries
  /\ UNCHANGED store

NotFound(p) ==
  /\ Return(p, "notfound")
  /\ pending[p].kind = "remove"
  /\ pending[p].c \notin Stored
  /\ UNCHANGED store

\* An error changes nothing.
Fail(p) ==
  /\ Return(p, "error")
  /\ UNCHANGED store

\* A process dies with all its calls.
Die(P) ==
  /\ pending' = [p \in Procs |-> IF p \in P THEN NoOp ELSE pending[p]]
  /\ outcome' = Silence
  /\ UNCHANGED store

\* All that is known of a call that overlaps one of another process.
Race(p) ==
  /\ raced[p]
  /\ \E res \in {"ok", "full", "notfound"} : Return(p, res)
  /\ store' \in [Containers -> Passwords \cup {NoPassword}]

Next ==
  \/ Tick
  \/ \E p \in Procs :
       \/ \E o \in Ops : Call(p, o)
       \/ Save(p) \/ Remove(p) \/ Full(p) \/ NotFound(p) \/ Fail(p) \/ Race(p)
  \/ \E P \in SUBSET Procs : Die(P)

Spec == Init /\ [][Next]_vars
=============================================================================
