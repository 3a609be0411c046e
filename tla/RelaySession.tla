---------------------------- MODULE RelaySession ----------------------------
(***************************************************************************)
(* What Runner.Run of internal/relay/relay.go promises to the process that *)
(* calls it: rounds of requests with one relay token, each begun while the *)
(* token's expiry has not passed, until a request is rejected, a round may *)
(* not begin or a rest is interrupted.  RelayRunner implements this, and   *)
(* RelayService is built on it.                                            *)
(***************************************************************************)
VARIABLES
  phase,     \* where the session is; requests are sent in "round"
  result,    \* what it ended with
  expired,   \* the stored expiry of the token has passed
  revoked,   \* the backend rejects the token
  cancelled  \* the process was told to stop

session_vars == <<phase, result>>
world_vars   == <<expired, revoked, cancelled>>
vars         == <<session_vars, world_vars>>

Phases  == {"starting", "checking", "round", "resting", "over"}
Results == {"none", "incomplete", "expired", "rejected", "cancelled"}

Init ==
  /\ phase = "starting" /\ result = "none"
  /\ expired \in BOOLEAN /\ revoked \in BOOLEAN /\ cancelled = FALSE

Goto(from, to) ==
  /\ phase = from /\ phase' = to
  /\ UNCHANGED <<result, world_vars>>

End(from, why) ==
  /\ phase = from /\ phase' = "over"
  /\ result' = why
  /\ UNCHANGED world_vars

Begin      == Goto("starting", "checking")
Incomplete == End("starting", "incomplete")

\* Mutant: an expired token is left for the backend to reject.
EnterRound_Unchecked == Goto("checking", "round")

EnterRound == ~expired /\ Goto("checking", "round")
Expired    == expired /\ End("checking", "expired")

\* The requests are answered, or fail for want of an answer.
LeaveRound == Goto("round", "resting")

\* Mutant: a 401 is a failure like any other.
Rejected_Retried == revoked /\ Goto("round", "resting")

Rejected == revoked /\ End("round", "rejected")

Wake      == Goto("resting", "checking")
Cancelled == cancelled /\ End("resting", "cancelled")

Step ==
  \/ Begin \/ Incomplete \/ EnterRound \/ Expired
  \/ LeaveRound \/ Rejected \/ Wake \/ Cancelled

\* Time passes, the backend loses trust, somebody stops the process; no way back.
World ==
  /\ expired => expired'
  /\ revoked => revoked'
  /\ cancelled => cancelled'
  /\ UNCHANGED session_vars

Next == Step \/ World

\* No phase lasts, and a stop is not overlooked in every rest.
Spec == Init /\ [][Next]_vars /\ WF_vars(Step) /\ SF_vars(Cancelled)
=============================================================================
