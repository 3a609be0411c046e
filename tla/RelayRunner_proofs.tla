------------------------- MODULE RelayRunner_proofs -------------------------
(***************************************************************************)
(* Safety of the push loop for any settings, width of a Duration and cap.  *)
(* TokenUseEnds and SettingsKeptFresh bound counters that several rounds   *)
(* add to; IInv says how far each may have come at every step of a round.  *)
(* StreakInv carries the backoff through a streak of failures.  The last   *)
(* theorem is the safety part of the refinement of RelaySession.           *)
(***************************************************************************)
EXTENDS RelayRunner, TLAPS, NaturalsInduction, WellFoundedInduction

\* A request is late only in the round in which the token expired.
LateInv ==
  /\ late > 0 => expired
  /\ pc \in {"start", "round"} => late = 0
  /\ pc = "fetch" => late <= 1
  /\ late <= 2

\* pushesSinceSettings is never behind the pushes it counts; the one in
\* flight is counted when it has ended.
PaceInv ==
  /\ pushes <= refresh
  /\ pushes <= since + 1
  /\ pc \notin {"push", "fetch", "done"} => pushes <= since

RejectedInv == rejected => pc = "done"

IInv == LateInv /\ PaceInv /\ RejectedInv /\ NoHotLoop
-----------------------------------------------------------------------------

\* A remainder lies below its divisor.
LEMMA ModRange ==
  ASSUME NEW a \in Int, NEW n \in Nat \ {0}
  PROVE  a % n \in 0..(n - 1)
OBVIOUS

\* Duration arithmetic stays within the word.
LEMMA WrapRange ==
  ASSUME NEW x \in Int
  PROVE  Wrap(x) \in Durations
<1>1. Half \in Nat \ {0}
  BY WidthAssumption DEF WidthAssumption
<1>2. 2 * Half \in Nat \ {0} /\ x + Half \in Int
  BY <1>1
<1> DEFINE m == (x + Half) % (2 * Half)
<1>3. m \in 0..(2 * Half - 1)
  BY <1>2, ModRange
<1>4. m - Half \in (-Half)..(Half - 1)
  <2> HIDE DEF m
  <2> QED BY <1>1, <1>3
<1> QED BY <1>4 DEF Wrap, Durations

LEMMA NextBackoffRange ==
  ASSUME TypeOK
  PROVE  /\ NextBackoff \in Durations /\ NextBackoff <= Cap
         /\ interval > 0 => NextBackoff > 0
<1>1. backoff \in Int /\ interval \in Durations
  BY DEF TypeOK, Durations
<1>2. Doubled \in Durations
  BY <1>1, WrapRange DEF Doubled
<1>3. Half \in Nat /\ Cap \in Nat \ {0} /\ Cap < Half
  BY WidthAssumption DEF WidthAssumption
<1> QED BY <1>1, <1>2, <1>3 DEF NextBackoff, Durations

LEMMA DefaultInterval == DefaultSeconds * Second \in Durations
<1>1. DefaultSeconds \in Nat /\ Second \in Nat /\ Half \in Nat
  BY SettingsAssumption, WidthAssumption DEF SettingsAssumption, WidthAssumption
<1>2. DefaultSeconds * Second \in Nat
  BY <1>1
<1>3. DefaultSeconds * Second < Half
  BY WidthAssumption DEF WidthAssumption
<1> QED BY <1>1, <1>2, <1>3 DEF Durations

\* Whatever the backend sends is a Duration and a positive refresh rate.
LEMMA FetchedTypes ==
  ASSUME TypeOK, Fetched
  PROVE  interval' \in Durations /\ refresh' \in Refreshes \cup {DefaultRefresh}
<1>1. \A s \in Seconds : Wrap(s * Second) \in Durations
  <2> SUFFICES ASSUME NEW s \in Seconds PROVE Wrap(s * Second) \in Durations
    OBVIOUS
  <2>1. s * Second \in Int
    BY SettingsAssumption, WidthAssumption DEF SettingsAssumption, WidthAssumption
  <2> QED BY <2>1, WrapRange
<1> QED BY <1>1 DEF Fetched, TypeOK

LEMMA RefreshPositive == \A r \in Refreshes \cup {DefaultRefresh} : r \in Nat \ {0}
BY SettingsAssumption DEF SettingsAssumption
-----------------------------------------------------------------------------

\* The type invariant: intervals and delays stay words, the backoff below its cap.
THEOREM TypeCorrect == Spec => []TypeOK
<1>1. Init => TypeOK
  <2>1. Half \in Nat \ {0} /\ 0 \in Durations
    BY WidthAssumption DEF WidthAssumption, Durations
  <2>2. Cap \in Nat /\ DefaultRefresh \in Nat /\ MaxFailures \in Nat
    BY SettingsAssumption, WidthAssumption, FailuresAssumption
       DEF SettingsAssumption, WidthAssumption, FailuresAssumption
  <2> SUFFICES ASSUME Init PROVE TypeOK
    OBVIOUS
  <2>3. interval \in Durations
    BY DefaultInterval DEF Init
  <2>4. /\ backoff \in Durations /\ backoff <= Cap /\ delay \in Durations
        /\ failures \in 0..MaxFailures /\ base \in Durations
    BY <2>1, <2>2 DEF Init
  <2>5. /\ refresh \in Refreshes \cup {DefaultRefresh}
        /\ since \in Nat /\ late \in Nat /\ pushes \in Nat
    BY <2>2 DEF Init
  <2> QED BY <2>3, <2>4, <2>5 DEF Init, TypeOK
<1>2. TypeOK /\ [Next]_vars => TypeOK'
  <2> SUFFICES ASSUME TypeOK, [Next]_vars
               PROVE  TypeOK'
    OBVIOUS
  <2> USE DEF setting_vars, world_vars, streak_vars
  <2>1. CASE Start
    BY <2>1 DEF TypeOK, Start, Finish
  <2>2. CASE CheckFails \/ CheckPasses
    BY <2>2 DEF TypeOK, CheckFails, CheckPasses, Finish
  <2>3. CASE SendFetch \/ SendPush
    BY <2>3 DEF TypeOK, SendFetch, SendPush, Late
  <2>4. CASE Fetched
    BY <2>4, FetchedTypes DEF TypeOK, Fetched, PushAfterFetch, Late
  <2>5. CASE FetchFails
    <3>1. since' \in Nat /\ late' \in Nat /\ pushes' \in Nat
      BY <2>5 DEF TypeOK, FetchFails, PushAfterFetch, Late
    <3> QED BY <2>5, <3>1 DEF TypeOK, FetchFails, PushAfterFetch
  <2>6. CASE FetchRejected
    BY <2>6 DEF TypeOK, FetchRejected, Finish
  <2>7. CASE Pushed
    <3>1. 0 \in Durations /\ 0 <= Cap /\ 0 \in 0..MaxFailures
      BY WidthAssumption, FailuresAssumption DEF WidthAssumption, FailuresAssumption, Durations
    <3> QED BY <2>7, <3>1 DEF TypeOK, Pushed
  <2>8. CASE PushFails
    <3>1. failures' \in 0..MaxFailures /\ base' \in Durations
      BY <2>8, FailuresAssumption DEF FailuresAssumption, TypeOK, PushFails, OneMoreFailure
    <3>2. backoff' \in Durations /\ backoff' <= Cap /\ delay' \in Durations
      BY <2>8, NextBackoffRange DEF PushFails
    <3> QED BY <2>8, <3>1, <3>2 DEF TypeOK, PushFails
  <2>9. CASE PushRejected
    BY <2>9 DEF TypeOK, PushRejected, Finish
  <2>10. CASE TimerFires \/ StopSleeping
    BY <2>10 DEF TypeOK, TimerFires, StopSleeping, Finish
  <2>11. CASE WakeUp
    <3>1. 0 \in Durations
      BY WidthAssumption DEF WidthAssumption, Durations
    <3> QED BY <2>11, <3>1 DEF TypeOK, WakeUp
  <2>12. CASE Expire \/ Revoke \/ Cancel
    BY <2>12 DEF TypeOK, Expire, Revoke, Cancel, run_vars
  <2>13. CASE UNCHANGED vars
    BY <2>13 DEF TypeOK, vars
  <2> QED BY <2>1, <2>2, <2>3, <2>4, <2>5, <2>6, <2>7, <2>8, <2>9, <2>10, <2>11, <2>12, <2>13
          DEF Next, Loop
<1> QED BY <1>1, <1>2, PTL DEF Spec

LEMMA IInvInductive ==
  ASSUME TypeOK, IInv, [Next]_vars
  PROVE  IInv'
<1> USE DEF setting_vars, world_vars, streak_vars, IInv, LateInv, PaceInv, RejectedInv, NoHotLoop
<1>t. /\ since \in Nat /\ late \in Nat /\ pushes \in Nat
      /\ refresh \in Nat \ {0}
  BY RefreshPositive DEF TypeOK
<1>1. CASE Start
  BY <1>1, <1>t DEF Start, Finish
<1>2. CASE CheckFails \/ CheckPasses
  BY <1>2, <1>t DEF CheckFails, CheckPasses, Finish
<1>3. CASE SendFetch \/ SendPush
  BY <1>3, <1>t DEF SendFetch, SendPush, Late
<1>4. CASE Fetched
  <2>1. refresh' \in Nat \ {0}
    BY <1>4, FetchedTypes, RefreshPositive
  <2> QED BY <1>4, <1>t, <2>1 DEF Fetched, PushAfterFetch, Late
<1>5. CASE FetchFails \/ FetchRejected
  BY <1>5, <1>t DEF FetchFails, FetchRejected, PushAfterFetch, Late, Finish
<1>6. CASE Pushed
  BY <1>6, <1>t DEF Pushed
<1>7. CASE PushFails
  <2>1. interval > 0 => delay' > 0
    BY <1>7, NextBackoffRange DEF PushFails
  <2> QED BY <1>7, <1>t, <2>1 DEF PushFails
<1>8. CASE PushRejected
  BY <1>8, <1>t DEF PushRejected, Finish
<1>9. CASE TimerFires \/ WakeUp \/ StopSleeping
  BY <1>9, <1>t DEF TimerFires, WakeUp, StopSleeping, Finish
<1>10. CASE Expire \/ Revoke \/ Cancel
  BY <1>10, <1>t DEF Expire, Revoke, Cancel, run_vars
<1>11. CASE UNCHANGED vars
  BY <1>11 DEF vars
<1> QED BY <1>1, <1>2, <1>3, <1>4, <1>5, <1>6, <1>7, <1>8, <1>9, <1>10, <1>11 DEF Next, Loop

LEMMA Invariance == Spec => []IInv
<1>1. Init => IInv
  BY SettingsAssumption DEF SettingsAssumption, Init, IInv, LateInv, PaceInv, RejectedInv, NoHotLoop
<1>2. TypeOK /\ IInv /\ [Next]_vars => IInv'
  BY IInvInductive
<1> QED BY <1>1, <1>2, TypeCorrect, PTL DEF Spec

\* A 401 ends Run, and no more than the two requests of one round follow the
\* token's expiry.
THEOREM TokenUseIsBounded == Spec => []TokenUseEnds
<1>1. IInv => TokenUseEnds
  BY DEF IInv, LateInv, RejectedInv, TokenUseEnds
<1> QED BY <1>1, Invariance, PTL

\* No more pushes than the current setting allows go without a request for the
\* settings, whatever fails.
THEOREM SettingsAreRefreshed == Spec => []SettingsKeptFresh
<1>1. IInv => SettingsKeptFresh
  BY DEF IInv, PaceInv, SettingsKeptFresh
<1> QED BY <1>1, Invariance, PTL

\* With a positive interval every sleep is a positive time, for any width of a
\* Duration and after any overflow.
THEOREM LoopIsPaced == Spec => []NoHotLoop
<1>1. IInv => NoHotLoop
  BY DEF IInv
<1> QED BY <1>1, Invariance, PTL

-----------------------------------------------------------------------------
(* The backoff *)

\* A set of naturals with 0 that is closed under successor, up to a bound.
LEMMA UpTo ==
  ASSUME NEW n \in Nat, NEW P, 0 \in P,
         \A i \in 1..n : i - 1 \in P => i \in P
  PROVE  0..n \subseteq P
<1> DEFINE T == (0..n) \ P
           R == {ss \in Nat \X Nat : ss[1] < ss[2]}
<1> SUFFICES ASSUME T # {} PROVE FALSE
  OBVIOUS
<1>1. IsWellFoundedOn(R, Nat)
  BY NatLessThanWellFounded DEF OpToRel
<1>2. T \subseteq Nat /\ \A x, y \in T : <<y, x>> \notin R => x <= y
  OBVIOUS
<1> HIDE DEF R
<1>3. \E x \in T : \A y \in T : <<y, x>> \notin R
  <2> HIDE DEF T
  <2> QED BY <1>1, <1>2, WFMin
<1>4. PICK x \in T : \A y \in T : x <= y
  BY <1>2, <1>3
<1>5. x \in 1..n /\ x - 1 \in P
  BY <1>4
<1> QED BY <1>4, <1>5

PowerOf(f, n) == f = [i \in 0..n |-> IF i = 0 THEN 1 ELSE 2 * f[i - 1]]

LEMMA PowerExists == \E f : PowerOf(f, MaxFailures)
<1> DEFINE P == {n \in 0..MaxFailures : \E f : PowerOf(f, n)}
<1>0. MaxFailures \in Nat
  BY FailuresAssumption DEF FailuresAssumption
<1>1. 0 \in P
  <2> DEFINE f == [i \in 0..0 |-> 1]
  <2>1. PowerOf(f, 0)
    BY DEF PowerOf
  <2> QED BY <1>0, <2>1
<1>2. ASSUME NEW i \in 1..MaxFailures, i - 1 \in P PROVE i \in P
  <2>1. PICK f : PowerOf(f, i - 1)
    BY <1>2
  <2> DEFINE g == [j \in 0..i |-> IF j = i THEN 2 * f[i - 1] ELSE f[j]]
  <2>2. \A j \in 0..(i - 1) : f[j] = IF j = 0 THEN 1 ELSE 2 * f[j - 1]
    BY <2>1 DEF PowerOf
  <2>3. \A j \in 0..i : g[j] = IF j = 0 THEN 1 ELSE 2 * g[j - 1]
    <3> SUFFICES ASSUME NEW j \in 0..i
                 PROVE  g[j] = IF j = 0 THEN 1 ELSE 2 * g[j - 1]
      OBVIOUS
    <3>1. j = i \/ j \in 0..(i - 1)
      OBVIOUS
    <3> QED BY <2>2, <3>1
  <2>4. g = [j \in 0..i |-> g[j]]
    OBVIOUS
  <2> HIDE DEF g
  <2>5. PowerOf(g, i)
    BY <2>3, <2>4 DEF PowerOf
  <2> QED BY <2>5
<1> HIDE DEF P
<1>3. MaxFailures \in P
  BY <1>0, <1>1, <1>2, UpTo
<1> QED BY <1>3 DEF P

\* Power doubles from one.
LEMMA PowerLaw ==
  /\ Power[0] = 1
  /\ \A n \in 1..MaxFailures : Power[n] = 2 * Power[n - 1]
  /\ \A n \in 0..MaxFailures : Power[n] \in Nat \ {0}
<1>0. MaxFailures \in Nat
  BY FailuresAssumption DEF FailuresAssumption
<1>1. PowerOf(Power, MaxFailures)
  BY PowerExists DEF Power, PowerOf
<1>2. Power[0] = 1 /\ \A n \in 1..MaxFailures : Power[n] = 2 * Power[n - 1]
  <2> HIDE DEF Power
  <2>1. \A n \in 0..MaxFailures : Power[n] = IF n = 0 THEN 1 ELSE 2 * Power[n - 1]
    BY <1>1 DEF PowerOf
  <2> QED BY <1>0, <2>1
<1> DEFINE P == {n \in 0..MaxFailures : Power[n] \in Nat \ {0}}
<1>3. 0 \in P /\ \A i \in 1..MaxFailures : i - 1 \in P => i \in P
  BY <1>0, <1>2
<1> HIDE DEF P
<1>4. 0..MaxFailures \subseteq P
  BY <1>0, <1>3, UpTo
<1> QED BY <1>2, <1>4 DEF P

\* The backoff of a streak of failures, and what a sleep does with it.
StreakInv ==
  /\ failures = 0 => backoff = 0
  /\ failures > 0 /\ base > 0 => backoff = Least(Cap, base * Power[failures - 1])
  /\ pc = "sleep" => delay = IF failures = 0 THEN interval ELSE backoff

\* A backoff below the cap doubles without overflow.
LEMMA SmallMod == \A a \in Nat, n \in Nat \ {0} : a < n => a % n = a
  OBVIOUS

LEMMA DoubledSmall ==
  ASSUME NEW x \in 0..Cap
  PROVE  Wrap(2 * x) = 2 * x
<1>1. /\ Half \in Nat /\ Cap \in Nat /\ 2 * x < Half
  BY WidthAssumption DEF WidthAssumption
<1>2. 2 * x + Half \in Nat /\ 2 * Half \in Nat \ {0} /\ 2 * x + Half < 2 * Half
  BY <1>1
<1>3. (2 * x + Half) % (2 * Half) = 2 * x + Half
  BY <1>2, SmallMod
<1> QED BY <1>1, <1>3 DEF Wrap

\* One more failure of a streak.
LEMMA StreakGrows ==
  ASSUME TypeOK, StreakInv, failures > 0, base > 0
  PROVE  LET n == IF failures < MaxFailures THEN failures + 1 ELSE failures
         IN  NextBackoff = Least(Cap, base * Power[n - 1])
<1>1. /\ failures \in 1..MaxFailures /\ base \in Nat \ {0} /\ backoff \in Int
      /\ Cap \in Nat \ {0} /\ MaxFailures \in Nat \ {0}
  BY WidthAssumption, FailuresAssumption
     DEF TypeOK, Durations, WidthAssumption, FailuresAssumption
<1> DEFINE x == base * Power[failures - 1]
<1>2. Power[failures - 1] \in Nat \ {0}
  BY <1>1, PowerLaw
<1>3. x \in Nat \ {0} /\ x >= Power[failures - 1]
  BY <1>1, <1>2
<1>4. backoff = Least(Cap, x)
  BY DEF StreakInv
<1>5. backoff \in 1..Cap
  <2> HIDE DEF x
  <2> QED BY <1>1, <1>3, <1>4 DEF Least
<1>6. Doubled = 2 * backoff
  BY <1>5, DoubledSmall DEF Doubled
<1>7. NextBackoff = Least(Cap, 2 * x)
  <2> HIDE DEF x
  <2>1. NextBackoff = IF 2 * backoff > Cap THEN Cap ELSE 2 * backoff
    <3>1. backoff \in Nat \ {0}
      BY <1>1, <1>5
    <3>2. ~(Doubled <= 0)
      BY <1>6, <3>1
    <3> QED BY <1>6, <3>2 DEF NextBackoff
  <2>2. CASE Cap <= x
    <3>1. backoff = Cap
      BY <1>4, <2>2 DEF Least
    <3> QED BY <1>1, <1>3, <2>1, <2>2, <3>1 DEF Least
  <2>3. CASE ~(Cap <= x)
    <3>1. backoff = x
      BY <1>4, <2>3 DEF Least
    <3> QED BY <1>1, <1>3, <2>1, <2>3, <3>1 DEF Least
  <2> QED BY <2>2, <2>3
<1>8. CASE failures < MaxFailures
  <2>1. Power[failures] = 2 * Power[failures - 1]
    BY <1>1, PowerLaw
  <2>2. base * Power[failures] = 2 * x
    BY <1>1, <1>2, <2>1
  <2>3. (failures + 1) - 1 = failures
    BY <1>1
  <2> QED BY <1>7, <1>8, <2>2, <2>3
<1>9. CASE failures = MaxFailures
  <2>1. x >= Cap
    BY <1>1, <1>2, <1>3, <1>9, FailuresAssumption DEF FailuresAssumption
  <2>2. NextBackoff = Cap /\ Least(Cap, x) = Cap
    <3> HIDE DEF x
    <3> QED BY <1>1, <1>3, <1>7, <2>1 DEF Least
  <2> QED BY <1>1, <1>9, <2>2
<1> QED BY <1>1, <1>8, <1>9

LEMMA StreakStep == TypeOK /\ StreakInv /\ [Next]_vars => StreakInv'
<1> SUFFICES ASSUME TypeOK, StreakInv, [Next]_vars PROVE StreakInv'
  OBVIOUS
<1> USE DEF setting_vars, world_vars, streak_vars
<1>1. CASE Pushed
  BY <1>1 DEF Pushed, StreakInv
<1>2. CASE PushFails
  <2>1. backoff' = NextBackoff /\ delay' = NextBackoff /\ OneMoreFailure /\ pc' = "sleep"
    BY <1>2 DEF PushFails
  <2>2. failures \in Nat /\ MaxFailures \in Nat \ {0} /\ failures <= MaxFailures
    BY FailuresAssumption DEF FailuresAssumption, TypeOK
  <2>3. failures' > 0
    BY <2>1, <2>2 DEF OneMoreFailure
  <2>4. CASE failures = 0
    <3>1. failures' = 1 /\ base' = interval
      BY <2>1, <2>2, <2>4 DEF OneMoreFailure
    <3>2. /\ interval \in Int /\ Cap \in Nat \ {0} /\ Half \in Nat
          /\ backoff = 0 /\ 0 \in 0..Cap
      BY <2>4, WidthAssumption DEF StreakInv, TypeOK, Durations, WidthAssumption
    <3>3. Doubled = 0
      BY <3>2, DoubledSmall DEF Doubled
    <3>4. NextBackoff = Least(Cap, interval * 1)
      BY <3>2, <3>3 DEF NextBackoff, Least
    <3> QED BY <2>1, <2>3, <3>1, <3>4, PowerLaw DEF StreakInv
  <2>5. CASE failures > 0
    <3>1. base' = base /\ failures' = IF failures < MaxFailures THEN failures + 1 ELSE failures
      BY <2>1, <2>2, <2>5 DEF OneMoreFailure
    <3>2. base > 0 => NextBackoff = Least(Cap, base' * Power[failures' - 1])
      BY <2>5, <3>1, StreakGrows
    <3> QED BY <2>1, <2>3, <3>1, <3>2 DEF StreakInv
  <2> QED BY <2>2, <2>4, <2>5
<1>3. UNCHANGED <<backoff, failures, base>> /\ pc' # "sleep" => StreakInv'
  BY DEF StreakInv
<1>4. CASE Start \/ CheckFails \/ CheckPasses \/ SendFetch \/ SendPush
  BY <1>3, <1>4 DEF Start, CheckFails, CheckPasses, SendFetch, SendPush, Finish
<1>5. CASE Fetched \/ FetchFails \/ FetchRejected \/ PushRejected
  BY <1>3, <1>5 DEF Fetched, FetchFails, FetchRejected, PushRejected, PushAfterFetch, Finish
<1>6. CASE TimerFires \/ WakeUp \/ StopSleeping
  BY <1>3, <1>6 DEF TimerFires, WakeUp, StopSleeping, Finish
<1>7. CASE Expire \/ Revoke \/ Cancel \/ UNCHANGED vars
  BY <1>7 DEF Expire, Revoke, Cancel, run_vars, vars, StreakInv
<1> QED BY <1>1, <1>2, <1>4, <1>5, <1>6, <1>7 DEF Next, Loop

\* The n-th failure of a streak waits 2^(n-1) intervals up to the cap, whatever the
\* settings become meanwhile.
THEOREM BackoffDoubles == Spec => []BackoffLaw
<1>1. Init => StreakInv
  BY DEF Init, StreakInv
<1>2. StreakInv => BackoffLaw
  BY DEF StreakInv, BackoffLaw
<1>3. TypeOK /\ StreakInv /\ [Next]_vars => StreakInv'
  BY StreakStep
<1> QED BY TypeCorrect, <1>1, <1>2, <1>3, PTL DEF Spec

-----------------------------------------------------------------------------
(* The promise to the process *)

\* Every step of Run is a step of the session it promises, or none of its
\* business; that phases also end is left to the model checker.
THEOREM KeepsToItsSession == Spec => Session!Init /\ [][Session!Next]_(Session!vars)
<1>1. Init => Session!Init
  BY DEF Init, Session!Init
<1>2. TypeOK /\ [Next]_vars => [Session!Next]_(Session!vars)
  <2> SUFFICES ASSUME TypeOK, [Next]_vars
               PROVE  [Session!Next]_(Session!vars)
    OBVIOUS
  <2> USE DEF setting_vars, world_vars, streak_vars, Session!session_vars,
              Session!world_vars, Session!vars, Session!Goto, Session!End,
              Session!Next, Session!Step, Session!World
  <2>1. CASE Start
    BY <2>1 DEF Start, Finish, Session!Begin, Session!Incomplete
  <2>2. CASE CheckFails
    BY <2>2 DEF CheckFails, Finish, Session!Expired
  <2>3. CASE CheckPasses
    BY <2>3 DEF CheckPasses, Session!EnterRound
  <2>4. CASE SendFetch \/ SendPush
    BY <2>4 DEF SendFetch, SendPush
  <2>5. CASE Fetched \/ FetchFails
    BY <2>5 DEF Fetched, FetchFails, PushAfterFetch
  <2>6. CASE FetchRejected \/ PushRejected
    BY <2>6 DEF FetchRejected, PushRejected, Finish, Session!Rejected
  <2>7. CASE Pushed \/ PushFails
    BY <2>7 DEF Pushed, PushFails, Session!LeaveRound
  <2>8. CASE TimerFires
    BY <2>8 DEF TimerFires
  <2>9. CASE WakeUp
    BY <2>9 DEF WakeUp, Session!Wake
  <2>10. CASE StopSleeping
    BY <2>10 DEF StopSleeping, Finish, Session!Cancelled
  <2>11. CASE Expire \/ Revoke \/ Cancel
    BY <2>11 DEF Expire, Revoke, Cancel, run_vars, TypeOK
  <2>12. CASE UNCHANGED vars
    BY <2>12 DEF vars
  <2> QED BY <2>1, <2>2, <2>3, <2>4, <2>5, <2>6, <2>7, <2>8, <2>9, <2>10, <2>11, <2>12
          DEF Next, Loop
<1> QED BY <1>1, <1>2, TypeCorrect, PTL DEF Spec
=============================================================================
