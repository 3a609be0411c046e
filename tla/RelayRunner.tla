---------------------------- MODULE RelayRunner -----------------------------
(***************************************************************************)
(* Runner.Run of internal/relay/relay.go: the loop that pushes snapshots   *)
(* to the backend.  Each round checks the relay token's expiry, fetches    *)
(* the settings when enough pushes have passed, pushes a snapshot and      *)
(* sleeps: the push interval, or an exponential backoff after a failure.   *)
(* The token may expire, the backend may revoke it or fail, and the        *)
(* process may be told to stop (context cancelled), at any moment.  A      *)
(* token without an expiry is one that never takes the step Expire.        *)
(*                                                                         *)
(* A time.Duration is a signed word of nanoseconds: arithmetic wraps.      *)
(***************************************************************************)
EXTENDS Integers

CONSTANTS
  DefaultSeconds, DefaultRefresh,  \* DefaultSettings
  Seconds, Refreshes,   \* values the backend may send for the two settings
  Second,               \* time.Second, in units of Duration
  Cap,                  \* maxPushFailureBackoff
  Half,                 \* a Duration is in -Half .. Half - 1
  MaxFailures           \* the history counter failures saturates here

ASSUME SettingsAssumption ==
  /\ Seconds \subseteq Nat \ {0} /\ DefaultSeconds \in Nat \ {0}
  /\ Refreshes \subseteq Nat \ {0} /\ DefaultRefresh \in Nat \ {0}
ASSUME WidthAssumption ==
  /\ Half \in Nat /\ Cap \in Nat \ {0} /\ Second \in Nat \ {0}
  /\ 2 * Cap < Half
  /\ DefaultSeconds * Second < Half

\* Powers of two.
Power[n \in 0..MaxFailures] == IF n = 0 THEN 1 ELSE 2 * Power[n - 1]

ASSUME FailuresAssumption == MaxFailures \in Nat \ {0} /\ Power[MaxFailures - 1] >= Cap

VARIABLES
  pc,        \* where Run is; a request is in flight in "fetch" and "push"
  result,    \* what Run returned
  interval,  \* settings.SnapshotPushInterval
  refresh,   \* settings.SettingsRefreshEvery
  since,     \* pushesSinceSettings
  backoff,   \* pushFailureBackoff
  delay,     \* the delay of the current sleep
  expired,   \* the token's expiry has passed
  revoked,   \* the backend rejects the token
  cancelled, \* the context is cancelled
  rejected,  \* an answer was 401 (history)
  late,      \* requests sent after the expiry (history)
  pushes,    \* pushes since the settings were last asked for (history)
  failures,  \* pushes failed in a row (history)
  base       \* the interval when the first of them failed (history)

setting_vars == <<interval, refresh>>
world_vars   == <<expired, revoked, cancelled>>
streak_vars  == <<failures, base>>
vars == <<pc, result, setting_vars, since, backoff, delay, world_vars,
          rejected, late, pushes, streak_vars>>

Durations == (-Half)..(Half - 1)
Wrap(x)   == ((x + Half) % (2 * Half)) - Half

TypeOK ==
  /\ pc \in {"start", "check", "round", "fetch", "push", "sleep", "ready", "done"}
  /\ result \in {"none", "incomplete", "expired", "rejected", "cancelled"}
  /\ (pc = "done") <=> (result # "none")
  /\ interval \in Durations
  /\ refresh \in Refreshes \cup {DefaultRefresh}
  /\ since \in Nat
  /\ backoff \in Durations /\ backoff <= Cap
  /\ delay \in Durations
  /\ expired \in BOOLEAN /\ revoked \in BOOLEAN /\ cancelled \in BOOLEAN
  /\ rejected \in BOOLEAN
  /\ late \in Nat /\ pushes \in Nat
  /\ failures \in 0..MaxFailures /\ base \in Durations

Init ==
  /\ pc = "start" /\ result = "none"
  /\ interval = DefaultSeconds * Second
  /\ refresh = DefaultRefresh
  /\ since = DefaultRefresh
  /\ backoff = 0 /\ delay = 0
  /\ expired \in BOOLEAN /\ revoked \in BOOLEAN
  /\ cancelled = FALSE
  /\ rejected = FALSE /\ late = 0 /\ pushes = 0
  /\ failures = 0 /\ base = 0

-----------------------------------------------------------------------------
(* A round: the expiry, the settings. *)

Finish(r) == pc' = "done" /\ result' = r

\* A backend URL, a server id and a token are required.
Start ==
  /\ pc = "start"
  /\ \/ pc' = "check" /\ UNCHANGED result
     \/ Finish("incomplete")
  /\ UNCHANGED <<setting_vars, since, backoff, delay, world_vars, rejected,
                 late, pushes, streak_vars>>

\* requireValidRelayToken, once a round.
CheckFails ==
  /\ pc = "check"
  /\ expired
  /\ Finish("expired")
  /\ UNCHANGED <<setting_vars, since, backoff, delay, world_vars, rejected,
                 late, pushes, streak_vars>>

\* Mutant: a valid token is asked for only before the settings are.
CheckPasses_OnRefresh ==
  /\ pc = "check"
  /\ expired => since < refresh
  /\ pc' = "round"
  /\ UNCHANGED <<result, setting_vars, since, backoff, delay, world_vars, rejected,
                 late, pushes, streak_vars>>

CheckPasses ==
  /\ pc = "check"
  /\ ~expired
  /\ pc' = "round"
  /\ UNCHANGED <<result, setting_vars, since, backoff, delay, world_vars, rejected,
                 late, pushes, streak_vars>>

\* The expiry may have passed since the check.
Late == IF expired THEN late + 1 ELSE late

SendFetch ==
  /\ pc = "round"
  /\ since >= refresh
  /\ pc' = "fetch"
  /\ late' = Late
  /\ UNCHANGED <<result, setting_vars, since, backoff, delay, world_vars, rejected,
                 pushes, streak_vars>>

SendPush ==
  /\ pc = "round"
  /\ since < refresh
  /\ pc' = "push"
  /\ late' = Late
  /\ pushes' = pushes + 1
  /\ UNCHANGED <<result, setting_vars, since, backoff, delay, world_vars, rejected,
                 streak_vars>>

\* Whatever the settings request brought, the snapshot is pushed next.
PushAfterFetch ==
  /\ pc' = "push"
  /\ since' = 0
  /\ late' = Late
  /\ pushes' = 1

\* SettingsFromMap: a positive value replaces the setting, anything else keeps it.
Fetched ==
  /\ pc = "fetch"
  /\ ~revoked
  /\ interval' \in {interval} \cup {Wrap(s * Second) : s \in Seconds}
  /\ refresh' \in {refresh} \cup Refreshes
  /\ PushAfterFetch
  /\ UNCHANGED <<result, backoff, delay, world_vars, rejected, streak_vars>>

\* The backend is down, slow or wrong, or the context is cancelled.
FetchFails ==
  /\ pc = "fetch"
  /\ PushAfterFetch
  /\ UNCHANGED <<result, setting_vars, backoff, delay, world_vars, rejected, streak_vars>>

\* Mutant: a 401 on the settings is one more failure to fetch them.
FetchRejected_Logged ==
  /\ pc = "fetch"
  /\ revoked
  /\ rejected' = TRUE
  /\ PushAfterFetch
  /\ UNCHANGED <<result, setting_vars, backoff, delay, world_vars, streak_vars>>

FetchRejected ==
  /\ pc = "fetch"
  /\ revoked
  /\ rejected' = TRUE
  /\ Finish("rejected")
  /\ UNCHANGED <<setting_vars, since, backoff, delay, world_vars, late, pushes, streak_vars>>

-----------------------------------------------------------------------------
(* The push and the sleep. *)

Doubled == Wrap(2 * backoff)

\* Mutant: no restart from the interval.
NextBackoff_NoBase == IF Doubled > Cap THEN Cap ELSE Doubled

\* nextPushDelay after a failure.
NextBackoff ==
  LET next == IF Doubled <= 0 THEN interval ELSE Doubled
  IN IF next > Cap THEN Cap ELSE next

\* Mutant: the backoff survives a success.
Pushed_KeepsBackoff ==
  /\ pc = "push"
  /\ ~revoked
  /\ delay' = interval
  /\ since' = since + 1
  /\ failures' = 0 /\ base' = 0
  /\ pc' = "sleep"
  /\ UNCHANGED <<result, setting_vars, backoff, world_vars, rejected, late, pushes>>

Pushed ==
  /\ pc = "push"
  /\ ~revoked
  /\ backoff' = 0
  /\ delay' = interval
  /\ since' = since + 1
  /\ failures' = 0 /\ base' = 0
  /\ pc' = "sleep"
  /\ UNCHANGED <<result, setting_vars, world_vars, rejected, late, pushes>>

OneMoreFailure ==
  /\ failures' = IF failures < MaxFailures THEN failures + 1 ELSE failures
  /\ base' = IF failures = 0 THEN interval ELSE base

\* Mutant: only the pushes that arrive are counted.
PushFails_Uncounted ==
  /\ pc = "push"
  /\ backoff' = NextBackoff
  /\ delay' = NextBackoff
  /\ OneMoreFailure
  /\ pc' = "sleep"
  /\ UNCHANGED <<result, setting_vars, since, world_vars, rejected, late, pushes>>

PushFails ==
  /\ pc = "push"
  /\ backoff' = NextBackoff
  /\ delay' = NextBackoff
  /\ since' = since + 1
  /\ OneMoreFailure
  /\ pc' = "sleep"
  /\ UNCHANGED <<result, setting_vars, world_vars, rejected, late, pushes>>

PushRejected ==
  /\ pc = "push"
  /\ revoked
  /\ rejected' = TRUE
  /\ Finish("rejected")
  /\ UNCHANGED <<setting_vars, since, backoff, delay, world_vars, late, pushes, streak_vars>>

\* Mutant: a delay that is not positive is taken for "no timer".
TimerFires_Positive ==
  /\ pc = "sleep"
  /\ ~cancelled /\ delay > 0
  /\ pc' = "ready"
  /\ UNCHANGED <<result, setting_vars, since, backoff, delay, world_vars, rejected,
                 late, pushes, streak_vars>>

\* sleepContext: the timer fires; once cancelled only a timer already due does.
TimerFires ==
  /\ pc = "sleep"
  /\ ~cancelled \/ delay <= 0
  /\ pc' = "ready"
  /\ UNCHANGED <<result, setting_vars, since, backoff, delay, world_vars, rejected,
                 late, pushes, streak_vars>>

\* select with both channels ready takes either.
WakeUp ==
  /\ pc = "ready"
  /\ pc' = "check"
  /\ delay' = 0
  /\ UNCHANGED <<result, setting_vars, since, backoff, world_vars, rejected,
                 late, pushes, streak_vars>>

\* Mutant: the sleep after a failed push is a time.Sleep.
StopSleeping_NotInBackoff ==
  /\ pc \in {"sleep", "ready"}
  /\ cancelled
  /\ failures = 0
  /\ Finish("cancelled")
  /\ UNCHANGED <<setting_vars, since, backoff, delay, world_vars, rejected,
                 late, pushes, streak_vars>>

StopSleeping ==
  /\ pc \in {"sleep", "ready"}
  /\ cancelled
  /\ Finish("cancelled")
  /\ UNCHANGED <<setting_vars, since, backoff, delay, world_vars, rejected,
                 late, pushes, streak_vars>>

-----------------------------------------------------------------------------
(* The world. *)

run_vars == <<pc, result, setting_vars, since, backoff, delay, rejected, late,
              pushes, streak_vars>>

Expire == ~expired /\ expired' = TRUE /\ UNCHANGED <<run_vars, revoked, cancelled>>
Revoke == ~revoked /\ revoked' = TRUE /\ UNCHANGED <<run_vars, expired, cancelled>>

\* SIGTERM or SIGINT.
Cancel == ~cancelled /\ cancelled' = TRUE /\ UNCHANGED <<run_vars, expired, revoked>>

Loop ==
  \/ Start \/ CheckFails \/ CheckPasses \/ SendFetch \/ SendPush
  \/ Fetched \/ FetchFails \/ FetchRejected
  \/ Pushed \/ PushFails \/ PushRejected
  \/ TimerFires \/ WakeUp \/ StopSleeping

Next == Loop \/ Expire \/ Revoke \/ Cancel

\* Every request ends (the client has a timeout), timers fire, and select does
\* not ignore a closed Done channel forever.
Spec == Init /\ [][Next]_vars /\ WF_vars(Loop) /\ SF_vars(StopSleeping)

-----------------------------------------------------------------------------
(* Properties. *)

\* The token is good for one round: a 401, on either request, ends Run, and
\* at most the two requests of the round in progress follow the expiry.
TokenUseEnds ==
  /\ rejected => pc = "done"
  /\ late <= 2

\* However many pushes fail and whatever the backend changes the settings to,
\* at most settings.SettingsRefreshEvery pushes go without asking for them.
SettingsKeptFresh == pushes <= refresh

Least(a, b) == IF a <= b THEN a ELSE b

\* The n-th failure in a row waits 2^(n-1) times the interval at the first of
\* them, at most Cap, though the settings may change in between; a success
\* starts over.
BackoffLaw ==
  pc = "sleep" =>
    /\ failures = 0 => delay = interval
    /\ failures > 0 /\ base > 0 => delay = Least(Cap, base * Power[failures - 1])

\* A positive interval never makes a hot loop, not even after an interval
\* that overflowed had its part in the backoff.
NoHotLoop == pc \in {"sleep", "ready"} /\ interval > 0 => delay > 0

\* No setting cuts the agent off from the next one: as long as Run lives it asks
\* for the settings again, with an interval that overflowed to a hot loop, with a
\* changed cadence, and while every push fails and backs off.  This is the only
\* cure of a non-positive interval, which NoHotLoop leaves out.
SettingsAskedAgain == []<>(pc \in {"fetch", "done"})

\* Run keeps the promise that the relay service is built on: only rounds begun
\* in time, an end at the first 401, and, told to stop or with an expired token,
\* a return in the end - also while the backend is failing, and from any sleep.
Session == INSTANCE RelaySession WITH
  phase <- CASE pc = "start" -> "starting"
             [] pc = "check" -> "checking"
             [] pc \in {"round", "fetch", "push"} -> "round"
             [] pc \in {"sleep", "ready"} -> "resting"
             [] pc = "done" -> "over"

KeepsItsPromise == Session!Spec
=============================================================================
