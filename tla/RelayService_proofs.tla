------------------------- MODULE RelayService_proofs ------------------------
(***************************************************************************)
(* Safety of the relay token's life for any number of codes and any start  *)
(* limit.  The inductive invariant has three parts: what is in relay.json  *)
(* and in the process's hands (HeldInv), what a rejection may still cost   *)
(* in the current window (WindowInv), and what the result was (ResultInv). *)
(***************************************************************************)
EXTENDS RelayService, TLAPS

Configs == [token : Tokens, expiry : Tokens \cup {Never}]

\* A process that systemd started carries a configuration of relay.json, whose
\* expiry belongs to its token, or nothing because there was no file.
OwnExpiry(cfg) == cfg.expiry \in {Never, cfg.token}

HeldInv ==
  /\ file # NoFile => OwnExpiry(file)
  /\ unit \notin Running \cup ByHand => phase = "over" /\ result = "none"
  /\ unit \in Running => OwnExpiry(held) /\ (Complete(held) \/ missed)

\* A service that has not come to its 401 yet: started, or about to be.
MayAsk == unit = "launched" \/ (unit \in Running /\ phase # "over")

\* Every start of the window pays for one 401, and so does the process of an
\* earlier window that is still alive when a new one begins.
WindowInv ==
  denials + (IF MayAsk THEN 1 ELSE 0) <= (IF starts = 0 THEN Burst ELSE starts)

ResultInv ==
  /\ result = "expired" => held.expiry \in past
  /\ result = "incomplete" => ~Complete(held)

IInv == TypeOK /\ HeldInv /\ WindowInv /\ ResultInv

-----------------------------------------------------------------------------

LEMMA LoadType ==
  ASSUME TypeOK, HeldInv
  PROVE  /\ Load \in [token : Tokens \cup {NoToken}, expiry : Tokens \cup {Never}]
         /\ OwnExpiry(Load)
         /\ file # NoFile => Complete(Load)
  BY NothingAssumption DEF TypeOK, HeldInv, Load, Empty, OwnExpiry, Complete, NothingAssumption

\* What SaveRelayConfig stores.
LEMMA Saved ==
  ASSUME NEW t \in Tokens \cup {NoToken}, NEW cfg \in Answers(t) \cup {[token |-> t, expiry |-> Never]},
         t # NoToken \/ cfg.expiry = Never, SaveRelayConfig(cfg)
  PROVE  file' \in Configs /\ OwnExpiry(file') /\ file' = cfg /\ file'.token = t
  BY DEF SaveRelayConfig, Complete, Answers, Empty, Configs, OwnExpiry

LEMMA InitIInv == Init => IInv
<1> SUFFICES ASSUME Init PROVE IInv
  OBVIOUS
<1>1. TypeOK
  <2>1. cmd \in [Tokens -> {"unused", "sent", "saved", "failed"}]
    BY DEF Init
  <2>2. held \in [token : Tokens \cup {NoToken}, expiry : Tokens \cup {Never}]
    BY DEF Init, Empty
  <2>3. starts \in 0..Burst /\ denials \in Nat
    BY BurstAssumption DEF Init, BurstAssumption
  <2> QED BY <2>1, <2>2, <2>3
          DEF Init, TypeOK, Session!Phases, Session!Results, Running, ByHand
<1>2. HeldInv /\ ResultInv
  BY DEF Init, HeldInv, ResultInv, Running
<1>3. WindowInv
  BY BurstAssumption DEF Init, WindowInv, MayAsk, Running, BurstAssumption
<1> QED BY <1>1, <1>2, <1>3 DEF IInv

LEMMA TypeStep == IInv /\ [Next]_vars => TypeOK'
<1> SUFFICES ASSUME IInv, [Next]_vars PROVE TypeOK'
  OBVIOUS
<1> USE DEF IInv
<1> USE DEF Running, ByHand, backend, systemd, process
<1>1. CASE Commands
  <2>1. ASSUME NEW t \in Tokens, Install(t) PROVE file' \in Configs
    BY <2>1, Saved, NothingAssumption DEF Install, NothingAssumption
  <2>2. ASSUME NEW t \in minted \cup {NoToken}, SetFromEnv(t) PROVE file' \in Configs
    BY <2>2, Saved, NothingAssumption DEF SetFromEnv, TypeOK, NothingAssumption
  <2> QED BY <1>1, <2>1, <2>2
     DEF Commands, TypeOK, Configs, Enroll, Mint, Install, GiveUp, SetFromEnv, Remove, Command
<1>2. StartJob => starts' \in 0..Burst /\ denials' \in Nat
                  /\ unit' \in {"failed", "inactive", "launched"}
  BY BurstAssumption DEF StartJob, TypeOK, BurstAssumption
<1>3. CASE OperatorStart \/ AutoRestart
  BY <1>2, <1>3 DEF OperatorStart, AutoRestart, TypeOK
<1>4. CASE OperatorStop
  BY <1>4 DEF OperatorStop, TypeOK
<1>5. CASE WindowPasses \/ ExpireToken \/ Revoke
  BY <1>5, BurstAssumption DEF WindowPasses, ExpireToken, Revoke, TypeOK, BurstAssumption
<1>6. CASE RunService
  BY <1>6, LoadType DEF RunService, Run, TypeOK, Session!Phases, Session!Results
<1>7. CASE RunByHand
  <2>1. PICK t \in minted \cup {NoToken} :
          Run([Load EXCEPT !.token = IF t = NoToken THEN @ ELSE t])
    BY <1>7 DEF RunByHand
  <2>2. [Load EXCEPT !.token = IF t = NoToken THEN @ ELSE t]
          \in [token : Tokens \cup {NoToken}, expiry : Tokens \cup {Never}]
    BY LoadType DEF TypeOK
  <2> QED BY <1>7, <2>1, <2>2 DEF RunByHand, Run, TypeOK, Session!Phases, Session!Results
<1>8. CASE SessionStep \/ SessionCancelled \/ SessionRejected
  BY <1>8 DEF SessionStep, SessionCancelled, SessionRejected, TypeOK, Session!Phases,
       Session!Results, Session!Begin, Session!Incomplete, Session!EnterRound,
       Session!Expired, Session!LeaveRound, Session!Wake, Session!Cancelled,
       Session!Rejected, Session!Goto, Session!End
<1>9. CASE Killed
  BY <1>9 DEF Killed, TypeOK, Session!Phases
<1>10. CASE Exited
  BY <1>2, <1>10 DEF Exited, TypeOK, Empty, Session!Results
<1>11. CASE UNCHANGED vars
  BY <1>11 DEF vars, TypeOK
<1> QED BY <1>1, <1>3, <1>4, <1>5, <1>6, <1>7, <1>8, <1>9, <1>10, <1>11 DEF Next

\* What the actions leave alone of what HeldInv and ResultInv speak of.
LEMMA HeldStep == IInv /\ [Next]_vars => HeldInv'
<1> SUFFICES ASSUME IInv, [Next]_vars PROVE HeldInv'
  OBVIOUS
<1> USE DEF IInv
<1> USE DEF Running, ByHand, backend, systemd, process
<1>1. CASE Commands
  <2>1. file' = NoFile \/ file' = file \/ OwnExpiry(file')
    <3>1. ASSUME NEW t \in Tokens, Install(t) PROVE OwnExpiry(file')
      BY <3>1, Saved, NothingAssumption DEF Install, NothingAssumption
    <3>2. ASSUME NEW t \in minted \cup {NoToken}, SetFromEnv(t) PROVE OwnExpiry(file')
      BY <3>2, Saved DEF SetFromEnv, TypeOK
    <3> QED BY <1>1, <3>1, <3>2 DEF Commands, Enroll, Mint, GiveUp, Remove
  <2>2. UNCHANGED <<unit, held, missed, phase, result>>
    BY <1>1 DEF Commands, Enroll, Mint, Install, GiveUp, SetFromEnv, Remove
  <2> QED BY <2>1, <2>2 DEF HeldInv
<1>2. StartJob => unit' \in {"failed", "inactive", "launched"}
  BY DEF StartJob
<1>3. CASE OperatorStart \/ AutoRestart
  BY <1>2, <1>3 DEF OperatorStart, AutoRestart, HeldInv
<1>4. CASE OperatorStop
  BY <1>4 DEF OperatorStop, HeldInv
<1>5. CASE WindowPasses \/ ExpireToken \/ Revoke
  BY <1>5 DEF WindowPasses, ExpireToken, Revoke, HeldInv
<1>6. CASE RunService
  <2>1. file = NoFile \/ Complete(Load)
    BY LoadType
  <2> QED BY <1>6, <2>1, LoadType DEF RunService, Run, HeldInv
<1>7. CASE RunByHand
  BY <1>7 DEF RunByHand, Run, HeldInv
<1>8. CASE SessionStep \/ SessionCancelled \/ SessionRejected
  <2>1. phase # "over"
    BY <1>8 DEF SessionStep, SessionCancelled, SessionRejected, Session!Begin,
         Session!Incomplete, Session!EnterRound, Session!Expired, Session!LeaveRound,
         Session!Wake, Session!Cancelled, Session!Rejected, Session!Goto, Session!End
  <2> QED BY <1>8, <2>1 DEF SessionStep, SessionCancelled, SessionRejected, HeldInv
<1>9. CASE Killed
  BY <1>9 DEF Killed, HeldInv
<1>10. CASE Exited
  BY <1>2, <1>10 DEF Exited, HeldInv
<1>11. CASE UNCHANGED vars
  BY <1>11 DEF vars, HeldInv
<1> QED BY <1>1, <1>3, <1>4, <1>5, <1>6, <1>7, <1>8, <1>9, <1>10, <1>11 DEF Next

\* A start of the window for every 401, and the one a live process may still get.
LEMMA WindowStep == IInv /\ [Next]_vars => WindowInv'
<1> SUFFICES ASSUME IInv, [Next]_vars PROVE WindowInv'
  OBVIOUS
<1> USE BurstAssumption DEF IInv, BurstAssumption
<1> USE DEF Running, ByHand, backend, systemd, process
<1>1. starts \in 0..Burst /\ denials \in Nat
  BY DEF TypeOK
<1>2. ASSUME UNCHANGED <<starts, denials>>, MayAsk' => MayAsk PROVE WindowInv'
  BY <1>1, <1>2 DEF WindowInv
<1>3. ASSUME StartJob, phase = "over" \/ unit \notin Running PROVE WindowInv'
  <2>1. CASE unit' = "failed"
    BY <1>1, <1>2, <1>3, <2>1 DEF StartJob, MayAsk
  <2>2. CASE starts < Burst /\ starts' = starts + 1
    BY <1>1, <1>3, <2>2 DEF StartJob, MayAsk, WindowInv
  <2> QED BY <1>3, <2>1, <2>2 DEF StartJob
<1>4. CASE Commands
  BY <1>2, <1>4 DEF Commands, Enroll, Mint, Install, GiveUp, SetFromEnv, Remove, MayAsk
<1>5. CASE OperatorStart \/ AutoRestart
  BY <1>3, <1>5 DEF OperatorStart, AutoRestart
<1>6. CASE OperatorStop
  BY <1>2, <1>6 DEF OperatorStop, MayAsk
<1>7. CASE WindowPasses
  BY <1>1, <1>7 DEF WindowPasses, WindowInv, MayAsk
<1>8. CASE ExpireToken \/ Revoke
  BY <1>2, <1>8 DEF ExpireToken, Revoke, MayAsk
<1>9. CASE RunService
  BY <1>2, <1>9 DEF RunService, Run, MayAsk
<1>10. CASE RunByHand
  BY <1>2, <1>10 DEF RunByHand, Run, MayAsk
<1>11. CASE SessionStep \/ SessionCancelled
  <2>1. phase # "over"
    BY <1>11 DEF SessionStep, SessionCancelled, Session!Begin,
         Session!Incomplete, Session!EnterRound, Session!Expired, Session!LeaveRound,
         Session!Wake, Session!Cancelled, Session!Goto, Session!End
  <2> QED BY <1>2, <1>11, <2>1 DEF SessionStep, SessionCancelled, MayAsk
<1>12. CASE SessionRejected
  <2>1. phase = "round" /\ phase' = "over"
    BY <1>12 DEF SessionRejected, Session!Rejected, Session!End
  <2>2. unit \in Running \cup ByHand
    BY <2>1 DEF HeldInv
  <2> QED BY <1>1, <1>12, <2>1, <2>2 DEF SessionRejected, WindowInv, MayAsk
<1>13. CASE Killed
  BY <1>2, <1>13 DEF Killed, MayAsk
<1>14. CASE Exited
  BY <1>2, <1>3, <1>14 DEF Exited, MayAsk
<1>15. CASE UNCHANGED vars
  BY <1>2, <1>15 DEF vars, MayAsk
<1> QED BY <1>4, <1>5, <1>6, <1>7, <1>8, <1>9, <1>10, <1>11, <1>12, <1>13, <1>14, <1>15
        DEF Next

LEMMA ResultStep == IInv /\ [Next]_vars => ResultInv'
<1> SUFFICES ASSUME IInv, [Next]_vars PROVE ResultInv'
  OBVIOUS
<1> USE DEF IInv
<1> USE DEF backend, systemd, process
<1>1. CASE Commands \/ OperatorStart \/ AutoRestart \/ OperatorStop \/ WindowPasses
  BY <1>1 DEF Commands, Enroll, Mint, Install, GiveUp, SetFromEnv, Remove, ResultInv,
       OperatorStart, AutoRestart, OperatorStop, WindowPasses
<1>2. CASE ExpireToken \/ Revoke \/ Killed
  BY <1>2 DEF ExpireToken, Revoke, Killed, ResultInv
<1>3. CASE RunService \/ RunByHand
  BY <1>3 DEF RunService, RunByHand, Run, ResultInv
<1>4. CASE SessionStep \/ SessionCancelled \/ SessionRejected
  BY <1>4 DEF SessionStep, SessionCancelled, SessionRejected, ResultInv, Session!Begin,
       Session!Incomplete, Session!EnterRound, Session!Expired, Session!LeaveRound,
       Session!Wake, Session!Cancelled, Session!Rejected, Session!Goto, Session!End
<1>5. CASE Exited
  BY <1>5 DEF Exited, ResultInv
<1>6. CASE UNCHANGED vars
  BY <1>6 DEF vars, ResultInv
<1> QED BY <1>1, <1>2, <1>3, <1>4, <1>5, <1>6 DEF Next

LEMMA Invariance == Spec => []IInv
<1>1. IInv /\ [Next]_vars => IInv'
  BY TypeStep, HeldStep, WindowStep, ResultStep DEF IInv
<1> QED BY InitIInv, <1>1, PTL DEF Spec

-----------------------------------------------------------------------------

\* The type invariant, for every set of codes.
THEOREM TypeCorrect == Spec => []TypeOK
<1>1. IInv => TypeOK
  BY DEF IInv
<1> QED BY Invariance, <1>1, PTL

\* The service asks with a rejected token at most StartLimitBurst times in a window,
\* also when the window turns while a process is alive.
THEOREM RejectionsAreBounded == Spec => []RejectionsBounded
<1>1. IInv => RejectionsBounded
  BY BurstAssumption DEF IInv, WindowInv, TypeOK, RejectionsBounded, BurstAssumption
<1> QED BY Invariance, <1>1, PTL

\* Only a file removed under systemd's eyes makes a service start unconfigured.
THEOREM SavedIsComplete == Spec => []SavedConfigStarts
<1>1. IInv => SavedConfigStarts
  BY DEF IInv, TypeOK, HeldInv, ResultInv, SavedConfigStarts
<1> QED BY Invariance, <1>1, PTL

\* No service process gives up for the expiry of an earlier token.
THEOREM NoForeignExpiry == Spec => []ExpiryIsOwn
<1>1. IInv => ExpiryIsOwn
  BY NothingAssumption DEF IInv, TypeOK, HeldInv, ResultInv, ExpiryIsOwn, OwnExpiry,
     NothingAssumption
<1> QED BY Invariance, <1>1, PTL

\* No code is reported as used for a stored token that is not the one it paid for.
THEOREM NeverLosesSilently == Spec => NoSilentLoss
<1>1. ASSUME IInv, [Next]_vars, NEW t \in Tokens, cmd[t] # "saved", cmd'[t] = "saved"
      PROVE  t \in minted /\ file'.token = t
  <2>1. PICK u \in Tokens : Install(u)
    <3>1. ASSUME NEW u \in Tokens, Enroll(u) \/ GiveUp(u) PROVE cmd'[t] # "saved"
      BY <1>1, <3>1 DEF Enroll, GiveUp, Command, IInv, TypeOK
    <3>2. UNCHANGED cmd \/ \E u \in Tokens : Enroll(u) \/ GiveUp(u) \/ Install(u)
      BY <1>1 DEF Next, Commands, Mint, SetFromEnv, Remove, OperatorStart, AutoRestart,
           OperatorStop, WindowPasses, ExpireToken, Revoke, RunService, RunByHand, Run,
           SessionStep, SessionCancelled, SessionRejected, Killed, Exited, vars
    <3> QED BY <1>1, <3>1, <3>2
  <2>2. u = t
    BY <1>1, <2>1 DEF Install, Command, IInv, TypeOK
  <2>3. file'.token = t
    BY <2>1, <2>2, Saved, NothingAssumption DEF Install, NothingAssumption
  <2> QED BY <2>1, <2>2, <2>3 DEF Install
<1>2. IInv /\ [Next]_vars =>
        [\A t \in Tokens :
           cmd[t] # "saved" /\ cmd'[t] = "saved" => t \in minted /\ file'.token = t]_vars
  BY <1>1
<1> QED BY Invariance, <1>2, PTL DEF Spec, NoSilentLoss
=============================================================================
