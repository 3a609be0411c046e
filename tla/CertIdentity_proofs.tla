------------------------- MODULE CertIdentity_proofs ------------------------
(***************************************************************************)
(* Safety of the two files of the TLS identity for any number of operators *)
(* and any bounds.  A command knows whether another one ran beside it      *)
(* (RaceInv); one that was alone finds the certificate it wrote still      *)
(* there when it writes the key (AloneInv), so outside a torn replacement  *)
(* the files match (FileInv).  What was pinned and what is served both     *)
(* follow the certificate (PinInv, ServeInv).  A gen-cert that was alone   *)
(* found no key, so nothing was ever served before its pair, and nothing   *)
(* but its pair as long as the certificate is its own (QuietInv).          *)
(***************************************************************************)
EXTENDS CertIdentity, TLAPS

RaceInv ==
  /\ \A c, d \in Busy : c # d => raced[c]
  /\ \A c \in Operators : raced[c] => torn

\* In the middle of a command that runs alone.
Alone(c) == ~raced[c] =>
  /\ pc[c] = "key" => cert = mine[c] /\ mine[c] # 0
  /\ pc[c] = "cert" => mine[c] # 0
  /\ pc[c] = "cert" /\ cmd[c] = "gen" => cert = 0 \/ key = 0

AloneInv == \A c \in Operators : Alone(c)

FileInv == (~torn /\ \A c \in Operators : pc[c] # "key") =>
  /\ cert # 0 /\ key # 0 => cert = key
  /\ faults = 0 => cert = key

\* Without faults, a rotation that is not over is all that comes between the
\* certificate and what was pinned.
PinInv == ~torn /\ faults = 0 /\ pinned # 0 =>
  pinned = cert \/ \E c \in Operators : cmd[c] = "rotate" /\ pc[c] \in {"key", "print"}

\* No certificate was replaced since the last restart.
ServeInv ==
  /\ svc = "loading" => held # 0
  /\ ~restartDue =>
       /\ svc = "loading" => held = cert
       /\ svc = "up" => served = cert

\* Only a fault takes a token away.
TokenInv == faults = 0 /\ pinned # 0 => token

\* A key never comes without a certificate, nor a service without a key.
MetInv ==
  /\ key # 0 => cert # 0
  /\ met # 0 => key # 0
  /\ served # 0 => served = met
  /\ \A c \in Operators :
       /\ pc[c] \in {"cert", "key"} => mine[c] # 0
       /\ pc[c] = "key" => cert # 0

\* The pair of a gen-cert that was alone.
QuietPair(n) ==
  /\ \A c \in Busy : mine[c] = n => Busy = {c} /\ cmd[c] = "gen" /\ key = 0
  /\ cert = n => key \in {0, n} /\ \A c \in Operators : pc[c] = "key" => mine[c] = n
  /\ (cert = n \/ held = n \/ \E c \in Busy : mine[c] = n) => met \in {0, n}

QuietInv == \A n \in quiet : QuietPair(n)

IInv ==
  /\ TypeOK /\ RaceInv /\ AloneInv /\ FileInv /\ PinInv /\ ServeInv
  /\ TokenInv /\ MetInv /\ QuietInv

-----------------------------------------------------------------------------

LEMMA InitIInv == Init => IInv
<1> SUFFICES ASSUME Init PROVE IInv
  OBVIOUS
<1>1. TypeOK
  <2>1. /\ cert \in 0..made /\ key \in 0..made /\ made \in Pairs
        /\ held \in 0..made /\ served \in 0..made /\ pinned \in 0..made
        /\ met \in 0..made /\ faults \in 0..MaxFaults
    BY BoundAssumption DEF Init, Pairs, BoundAssumption
  <2>2. mine \in [Operators -> 0..made]
    BY DEF Init
  <2> QED BY <2>1, <2>2 DEF Init, TypeOK
<1>2. RaceInv /\ AloneInv /\ FileInv /\ PinInv /\ ServeInv
  BY DEF Init, RaceInv, AloneInv, Alone, FileInv, PinInv, ServeInv, Busy
<1>3. TokenInv /\ MetInv /\ QuietInv
  BY DEF Init, TokenInv, MetInv, QuietInv
<1> QED BY <1>1, <1>2, <1>3 DEF IInv

LEMMA TypeStep == TypeOK /\ ServeInv /\ [Next]_vars => TypeOK'
<1> SUFFICES ASSUME TypeOK, ServeInv, [Next]_vars PROVE TypeOK'
  OBVIOUS
<1> USE BoundAssumption DEF BoundAssumption, Pairs
<1> USE DEF file_vars, cmd_vars, svc_vars
<1>1. ASSUME NEW c \in Operators, NEW kind \in {"gen", "rotate"}, Begin(c, kind)
      PROVE  TypeOK'
  <2>1. made \in Nat /\ made' \in 0..MaxPairs /\ 0..made \subseteq 0..made'
    BY <1>1 DEF TypeOK, Begin
  <2>2. mine' \in [Operators -> 0..made']
    BY <1>1, <2>1 DEF TypeOK, Begin
  <2>3. raced' \in [Operators -> BOOLEAN] /\ torn' \in BOOLEAN
    BY <1>1 DEF TypeOK, Begin
  <2>4. /\ cmd' \in [Operators -> {"none", "gen", "rotate"}]
        /\ pc' \in [Operators -> {"idle", "cert", "key", "print"}]
        /\ \A d \in Operators : (cmd'[d] = "none") <=> (pc'[d] = "idle")
    BY <1>1 DEF TypeOK, Begin
  <2>5. quiet' \in SUBSET (1..made')
    <3>1. 1..made \subseteq 1..made' /\ made + 1 \in 1..made'
      BY <1>1, <2>1 DEF Begin
    <3>2. quiet \in SUBSET (1..made')
      BY <3>1 DEF TypeOK
    <3>3. quiet' \subseteq quiet \cup {made + 1}
      BY <1>1 DEF Begin
    <3> QED BY <3>1, <3>2, <3>3
  <2> QED BY <1>1, <2>1, <2>2, <2>3, <2>4, <2>5 DEF TypeOK, Begin
<1>2. ASSUME NEW c \in Operators, WriteCert(c) PROVE TypeOK'
  BY <1>2 DEF TypeOK, WriteCert
<1>3. ASSUME NEW c \in Operators, WriteKey(c) PROVE TypeOK'
  <2>1. key' \in 0..made
    BY <1>3 DEF TypeOK, WriteKey
  <2>2. CASE cmd[c] = "gen"
    <3>1. mine' \in [Operators -> 0..made]
      <4>1. 0 \in 0..made
        BY DEF TypeOK
      <4> QED BY <1>3, <2>2, <4>1 DEF TypeOK, WriteKey, Finish
    <3> QED BY <1>3, <2>1, <2>2, <3>1 DEF TypeOK, WriteKey, Finish
  <2>3. CASE cmd[c] # "gen"
    BY <1>3, <2>1, <2>3 DEF TypeOK, WriteKey
  <2> QED BY <2>2, <2>3
<1>4. ASSUME NEW c \in Operators, PrintEnrollment(c) PROVE TypeOK'
  BY <1>4 DEF TypeOK, PrintEnrollment, Finish
<1>5. ASSUME NEW c \in Operators, CommandDies(c) PROVE TypeOK'
  <2>1. faults' \in 0..MaxFaults /\ torn' \in BOOLEAN
    BY <1>5 DEF TypeOK, CommandDies
  <2> QED BY <1>5, <2>1 DEF TypeOK, CommandDies, Finish
<1>6. CASE Enroll
  BY <1>6 DEF TypeOK, Enroll
<1>10. CASE Restart
  <2>1. 0 \in 0..made
    BY DEF TypeOK
  <2> QED BY <1>10, <2>1 DEF TypeOK, Restart
<1>12. CASE GenToken
  BY <1>12 DEF TypeOK, GenToken
<1>13. CASE LoseToken
  <2>1. faults' \in 0..MaxFaults
    BY <1>13 DEF TypeOK, LoseToken
  <2> QED BY <1>13, <2>1 DEF TypeOK, LoseToken
<1>14. CASE New
  BY <1>14 DEF TypeOK, New, Fail
<1>11. CASE Relaunch
  BY <1>11 DEF TypeOK, Relaunch
<1>8. CASE ReadCert
  BY <1>8 DEF TypeOK, ReadCert, Fail
<1>9. CASE ReadKey
  BY <1>9 DEF TypeOK, ServeInv, ReadKey, Fail
<1>7. CASE UNCHANGED vars
  BY <1>7 DEF TypeOK, vars
<1> QED BY <1>1, <1>2, <1>3, <1>4, <1>5, <1>6, <1>7, <1>8, <1>9, <1>10, <1>11,
          <1>12, <1>13, <1>14
        DEF Next, Command, GenCert, RotateCert, Serve

\* Steps that touch no pair and no command.
LEMMA ServiceStep ==
  ASSUME IInv, UNCHANGED <<cert, key, cmd, pc, mine, raced, torn>>,
         faults' = 0 => faults = 0,
         pinned' \in {pinned, cert}
  PROVE  RaceInv' /\ AloneInv' /\ FileInv' /\ PinInv'
  BY DEF IInv, RaceInv, Busy, AloneInv, Alone, FileInv, PinInv

Aside == GenToken \/ LoseToken \/ Enroll \/ Restart \/ Serve

LEMMA AsideStep ==
  ASSUME IInv, Aside
  PROVE  /\ UNCHANGED <<cert, key, made, cmd, pc, mine, raced, quiet, torn>>
         /\ faults' = 0 => faults = 0
         /\ pinned' \in {pinned, cert}
<1> USE DEF file_vars, cmd_vars, svc_vars
<1>1. CASE LoseToken
  <2>1. faults \in Nat
    BY BoundAssumption DEF IInv, TypeOK, BoundAssumption
  <2> QED BY <1>1, <2>1 DEF LoseToken
<1> QED BY <1>1 DEF Aside, GenToken, Enroll, Restart, Serve, New, ReadCert, ReadKey, Relaunch

LEMMA RaceStep == IInv /\ [Next]_vars => RaceInv'
<1> SUFFICES ASSUME IInv, [Next]_vars PROVE RaceInv'
  OBVIOUS
<1> USE DEF IInv, file_vars, cmd_vars, svc_vars
<1>1. ASSUME NEW c \in Operators, NEW kind \in {"gen", "rotate"}, Begin(c, kind)
      PROVE  RaceInv'
  BY <1>1 DEF TypeOK, Begin, RaceInv, Busy
<1>2. ASSUME NEW c \in Operators, WriteCert(c) \/ WriteKey(c) \/ PrintEnrollment(c) \/ CommandDies(c)
      PROVE  RaceInv'
  <2>1. /\ pc[c] # "idle" /\ (torn => torn')
        /\ \A d \in Operators \ {c} : pc'[d] = pc[d] /\ raced'[d] = raced[d]
        /\ pc'[c] = "idle" \/ raced'[c] = raced[c]
        /\ raced'[c] => raced[c]
    BY <1>2 DEF TypeOK, WriteCert, WriteKey, PrintEnrollment, CommandDies, Finish
  <2> QED BY <2>1 DEF RaceInv, Busy
<1>3. CASE Aside
  BY <1>3, AsideStep, ServiceStep
<1>4. CASE UNCHANGED vars
  BY <1>4, ServiceStep DEF vars
<1> QED BY <1>1, <1>2, <1>3, <1>4 DEF Next, Aside, Command, GenCert, RotateCert

LEMMA AloneStep == IInv /\ [Next]_vars => AloneInv'
<1> SUFFICES ASSUME IInv, [Next]_vars, NEW d \in Operators
             PROVE  Alone(d)'
  BY DEF AloneInv
<1> USE DEF IInv, file_vars, cmd_vars, svc_vars
<1>1. ASSUME NEW c \in Operators, GenCert(c) \/ RotateCert(c)
      PROVE  Alone(d)'
  <2>1. ~raced'[d] /\ d # c => d \notin Busy
    BY <1>1 DEF GenCert, RotateCert, Begin, TypeOK
  <2>2. made + 1 # 0
    BY BoundAssumption DEF BoundAssumption, TypeOK, Pairs
  <2> QED BY <1>1, <2>1, <2>2 DEF GenCert, RotateCert, Begin, TypeOK, Busy, AloneInv, Alone
<1>2. ASSUME NEW c \in Operators, WriteCert(c) \/ WriteKey(c) \/ PrintEnrollment(c) \/ CommandDies(c)
      PROVE  Alone(d)'
  <2>1. d # c => pc'[d] = pc[d] /\ raced'[d] = raced[d] /\ cmd'[d] = cmd[d] /\ mine'[d] = mine[d]
    BY <1>2 DEF TypeOK, WriteCert, WriteKey, PrintEnrollment, CommandDies, Finish
  <2>2. c \in Busy
    BY <1>2 DEF WriteCert, WriteKey, PrintEnrollment, CommandDies, Busy
  <2>3. d # c /\ ~raced'[d] => pc'[d] = "idle"
    BY <2>1, <2>2 DEF RaceInv, Busy
  <2> QED BY <1>2, <2>3 DEF TypeOK, WriteCert, WriteKey, PrintEnrollment, CommandDies, Finish, AloneInv, Alone
<1>3. CASE Aside
  BY <1>3, AsideStep, ServiceStep DEF AloneInv
<1>4. CASE UNCHANGED vars
  BY <1>4, ServiceStep DEF vars, AloneInv
<1> QED BY <1>1, <1>2, <1>3, <1>4 DEF Next, Aside, Command, AloneInv

\* A command alone: the others are idle, before and after the step.
LEMMA Undisturbed ==
  ASSUME IInv, NEW c \in Operators, ~torn, pc[c] # "idle"
  PROVE  ~raced[c] /\ \A d \in Operators \ {c} : pc[d] = "idle"
  BY DEF IInv, RaceInv, Busy

LEMMA FilesStep == IInv /\ [Next]_vars => FileInv' /\ PinInv'
<1> SUFFICES ASSUME IInv, [Next]_vars PROVE FileInv' /\ PinInv'
  OBVIOUS
<1> USE DEF file_vars, cmd_vars, svc_vars
<1>0. faults \in Nat
  BY BoundAssumption DEF IInv, TypeOK, BoundAssumption
<1>1. ASSUME NEW c \in Operators, NEW kind \in {"gen", "rotate"}, Begin(c, kind), pc[c] = "idle"
      PROVE  FileInv' /\ PinInv'
  <2>1. ~torn' => ~torn /\ Busy = {}
    BY <1>1 DEF Begin
  <2>2. ~torn' => \A d \in Operators : pc[d] = "idle"
    BY <2>1 DEF Busy
  <2>3. UNCHANGED <<cert, key, pinned, faults>>
    BY <1>1 DEF Begin
  <2> QED BY <2>1, <2>2, <2>3 DEF IInv, FileInv, PinInv
<1>2. ASSUME NEW c \in Operators, WriteCert(c) PROVE FileInv' /\ PinInv'
  <2>1. CASE ~torn
    <3>1. ~raced[c] /\ \A d \in Operators \ {c} : pc[d] = "idle"
      BY <1>2, <2>1, Undisturbed DEF WriteCert
    <3>2. pc' = [pc EXCEPT ![c] = "key"] /\ UNCHANGED <<cmd, pinned, faults>> /\ pc'[c] = "key"
      BY <1>2 DEF WriteCert, IInv, TypeOK
    <3>3. FileInv'
      BY <3>2 DEF FileInv
    <3>4. CASE cmd[c] = "rotate"
      BY <3>2, <3>4, <3>3 DEF PinInv
    <3>5. CASE cmd[c] = "gen"
      <4>1. cert = 0 \/ key = 0
        BY <1>2, <3>1, <3>5 DEF IInv, AloneInv, Alone, WriteCert
      <4>2. faults = 0 => cert = key
        BY <1>2, <2>1, <3>1 DEF IInv, FileInv, WriteCert
      <4>3. faults = 0 /\ pinned # 0 => pinned = cert
        BY <1>2, <2>1, <3>1 DEF IInv, PinInv, WriteCert
      <4> QED BY <3>2, <3>3, <4>1, <4>2, <4>3 DEF PinInv
    <3> QED BY <1>2, <3>4, <3>5 DEF WriteCert, IInv, TypeOK
  <2>2. CASE torn
    BY <1>2, <2>2 DEF WriteCert, FileInv, PinInv
  <2> QED BY <2>1, <2>2 DEF IInv, TypeOK
<1>3. ASSUME NEW c \in Operators, WriteKey(c) PROVE FileInv' /\ PinInv'
  <2>1. CASE ~torn
    <3>1. ~raced[c] /\ \A d \in Operators \ {c} : pc[d] = "idle"
      BY <1>3, <2>1, Undisturbed DEF WriteKey
    <3>2. key' = cert /\ cert' = cert
      BY <1>3, <3>1 DEF WriteKey, IInv, AloneInv, Alone
    <3>3. UNCHANGED <<pinned, faults, torn>>
      BY <1>3 DEF WriteKey
    <3>4. CASE cmd[c] = "gen"
      <4>1. faults = 0 /\ pinned # 0 => pinned = cert
        BY <1>3, <2>1, <3>1, <3>4 DEF IInv, PinInv, WriteKey
      <4> QED BY <3>2, <3>3, <4>1 DEF FileInv, PinInv
    <3>5. CASE cmd[c] # "gen"
      <4>1. pc'[c] = "print" /\ cmd'[c] = "rotate"
        BY <1>3, <3>5 DEF WriteKey, IInv, TypeOK
      <4> QED BY <3>2, <3>3, <4>1 DEF FileInv, PinInv
    <3> QED BY <3>4, <3>5
  <2>2. CASE torn
    BY <1>3, <2>2 DEF WriteKey, FileInv, PinInv
  <2> QED BY <2>1, <2>2 DEF IInv, TypeOK
<1>4. ASSUME NEW c \in Operators, PrintEnrollment(c) PROVE FileInv' /\ PinInv'
  <2>1. /\ UNCHANGED <<cert, key, torn, faults>>
        /\ faults = 0 /\ pinned' # 0 => pinned' = cert
    BY <1>4 DEF PrintEnrollment, IInv, TokenInv
  <2>2. \A d \in Operators : pc[d] = "key" => pc'[d] = "key"
    BY <1>4 DEF PrintEnrollment, Finish, IInv, TypeOK
  <2> QED BY <2>1, <2>2 DEF IInv, FileInv, PinInv
<1>5. ASSUME NEW c \in Operators, CommandDies(c) PROVE FileInv' /\ PinInv'
  <2>1. UNCHANGED <<cert, key>>
    BY <1>5 DEF CommandDies
  <2>2. faults' # 0
    BY <1>0, <1>5 DEF CommandDies
  <2>3. ~torn' => ~torn /\ (pc[c] = "key" => key = 0)
    BY <1>5 DEF CommandDies
  <2>4. \A d \in Operators \ {c} : pc'[d] = pc[d]
    BY <1>5 DEF CommandDies, Finish, IInv, TypeOK
  <2> QED BY <2>1, <2>2, <2>3, <2>4 DEF IInv, FileInv, PinInv
<1>6. CASE Aside
  BY <1>6, AsideStep, ServiceStep
<1>7. CASE UNCHANGED vars
  BY <1>7, ServiceStep DEF vars
<1> QED BY <1>1, <1>2, <1>3, <1>4, <1>5, <1>6, <1>7 DEF Next, Aside, Command, GenCert, RotateCert

LEMMA ServeStep == IInv /\ [Next]_vars => ServeInv'
<1> SUFFICES ASSUME IInv, [Next]_vars PROVE ServeInv'
  OBVIOUS
<1> USE DEF IInv, file_vars, cmd_vars, svc_vars
<1>1. ASSUME NEW c \in Operators, Command(c) \/ CommandDies(c) PROVE ServeInv'
  BY <1>1 DEF Command, GenCert, RotateCert, Begin, WriteCert, WriteKey, PrintEnrollment,
       CommandDies, ServeInv
<1>2. CASE Aside
  BY <1>2 DEF Aside, GenToken, LoseToken, Enroll, Restart, Serve, New, ReadCert, ReadKey,
       Relaunch, Fail, ServeInv
<1>3. CASE UNCHANGED vars
  BY <1>3 DEF vars, ServeInv
<1> QED BY <1>1, <1>2, <1>3 DEF Next, Aside

LEMMA TokenStep == IInv /\ [Next]_vars => TokenInv'
<1> SUFFICES ASSUME IInv, [Next]_vars PROVE TokenInv'
  OBVIOUS
<1> USE DEF IInv, TokenInv, file_vars, cmd_vars, svc_vars
<1>0. faults \in Nat
  BY BoundAssumption DEF TypeOK, BoundAssumption
<1>1. ASSUME NEW c \in Operators, Command(c) \/ CommandDies(c) PROVE TokenInv'
  BY <1>0, <1>1 DEF Command, GenCert, RotateCert, Begin, WriteCert, WriteKey, PrintEnrollment,
       CommandDies
<1>2. CASE Aside
  BY <1>0, <1>2 DEF Aside, GenToken, LoseToken, Enroll, Restart, Serve, New, ReadCert, ReadKey,
       Relaunch
<1>3. CASE UNCHANGED vars
  BY <1>3 DEF vars
<1> QED BY <1>1, <1>2, <1>3 DEF Next, Aside

LEMMA MetStep == IInv /\ [Next]_vars => MetInv'
<1> SUFFICES ASSUME IInv, [Next]_vars PROVE MetInv'
  OBVIOUS
<1> USE DEF IInv, MetInv, file_vars, cmd_vars, svc_vars
<1>1. ASSUME NEW c \in Operators, GenCert(c) \/ RotateCert(c) PROVE MetInv'
  <2>1. made + 1 # 0
    BY BoundAssumption DEF BoundAssumption, TypeOK, Pairs
  <2> QED BY <1>1, <2>1 DEF GenCert, RotateCert, Begin, TypeOK
<1>2. ASSUME NEW c \in Operators,
             WriteCert(c) \/ WriteKey(c) \/ PrintEnrollment(c) \/ CommandDies(c)
      PROVE  MetInv'
  BY <1>2 DEF WriteCert, WriteKey, PrintEnrollment, CommandDies, Finish, TypeOK
<1>3. CASE Aside
  BY <1>3 DEF Aside, GenToken, LoseToken, Enroll, Restart, Serve, New, ReadCert, ReadKey,
       Relaunch, Fail, ServeInv
<1>4. CASE UNCHANGED vars
  BY <1>4 DEF vars
<1> QED BY <1>1, <1>2, <1>3, <1>4 DEF Next, Aside, Command

LEMMA QuietStep == IInv /\ [Next]_vars => QuietInv'
<1> SUFFICES ASSUME IInv, [Next]_vars, NEW n \in quiet'
             PROVE  QuietPair(n)'
  BY DEF QuietInv
<1> USE DEF file_vars, cmd_vars, svc_vars
<1>0. TypeOK /\ MetInv
  BY DEF IInv
<1>1. ASSUME NEW c \in Operators, GenCert(c) \/ RotateCert(c) PROVE QuietPair(n)'
  <2>1. pc[c] = "idle" /\ UNCHANGED <<cert, key, held, met>>
    BY <1>1 DEF GenCert, RotateCert, Begin
  <2>2. /\ made \in Nat /\ cert # made + 1 /\ held # made + 1 /\ made + 1 \notin quiet
        /\ \A d \in Operators : mine[d] # made + 1
    BY <1>0, BoundAssumption DEF TypeOK, Pairs, BoundAssumption
  <2>3. /\ mine' = [mine EXCEPT ![c] = made + 1]
        /\ pc' = [pc EXCEPT ![c] = "cert"]
        /\ Busy' = Busy \cup {c} /\ c \notin Busy
    BY <1>0, <1>1 DEF GenCert, RotateCert, Begin, TypeOK, Busy
  <2>4. CASE n = made + 1
    <3>1. Busy = {} /\ GenCert(c) /\ cmd'[c] = "gen"
      BY <1>0, <1>1, <2>2, <2>4 DEF GenCert, RotateCert, Begin, TypeOK
    <3>2. key = 0 /\ met = 0
      BY <1>0, <3>1 DEF GenCert, MetInv
    <3> QED BY <1>0, <2>1, <2>2, <2>3, <2>4, <3>1, <3>2 DEF QuietPair
  <2>5. CASE n # made + 1
    <3>1. n \in quiet /\ \A d \in Busy : mine[d] # n
      BY <1>1, <2>5 DEF GenCert, RotateCert, Begin
    <3>2. QuietPair(n) /\ \A d \in Busy' : mine'[d] # n
      BY <1>0, <2>3, <2>5, <3>1 DEF IInv, QuietInv, TypeOK, Busy
    <3>3. \A d \in Operators : pc'[d] = "key" => pc[d] = "key" /\ mine'[d] = mine[d]
      BY <1>0, <2>3 DEF TypeOK
    <3> QED BY <2>1, <3>2, <3>3 DEF QuietPair
  <2> QED BY <2>4, <2>5
<1>2. ASSUME NEW c \in Operators, WriteCert(c) PROVE QuietPair(n)'
  <2>1. /\ pc[c] = "cert" /\ cert' = mine[c] /\ pc' = [pc EXCEPT ![c] = "key"]
        /\ UNCHANGED <<key, cmd, mine, quiet, held, met>>
    BY <1>2 DEF WriteCert
  <2>2. Busy' = Busy /\ c \in Busy
    BY <1>0, <2>1 DEF TypeOK, Busy
  <2>3. QuietPair(n)
    BY <2>1 DEF IInv, QuietInv
  <2>4. mine[c] = n => key = 0 /\ \A d \in Operators : pc'[d] = "key" => d = c
    BY <1>0, <2>1, <2>2, <2>3 DEF QuietPair, Busy, TypeOK
  <2> QED BY <2>1, <2>2, <2>3, <2>4 DEF QuietPair
<1>3. ASSUME NEW c \in Operators, WriteKey(c) PROVE QuietPair(n)'
  <2>1. /\ pc[c] = "key" /\ key' = mine[c]
        /\ UNCHANGED <<cert, quiet, held, met>>
    BY <1>3 DEF WriteKey
  <2>2. QuietPair(n) /\ c \in Busy
    BY <2>1 DEF IInv, QuietInv, Busy
  <2>3. /\ \A d \in Operators : pc'[d] = "key" => pc[d] = "key" /\ mine'[d] = mine[d]
        /\ \A d \in Busy' : d \in Busy /\ mine'[d] = mine[d]
        /\ cmd[c] = "gen" => c \notin Busy'
    BY <1>0, <1>3, <2>1 DEF WriteKey, Finish, TypeOK, Busy
  <2>4. \A d \in Busy' : mine'[d] # n
    BY <2>2, <2>3 DEF QuietPair
  <2>5. cert = n => mine[c] = n
    BY <2>1, <2>2 DEF QuietPair
  <2> QED BY <2>1, <2>2, <2>3, <2>4, <2>5 DEF QuietPair
<1>4. ASSUME NEW c \in Operators, PrintEnrollment(c) \/ CommandDies(c) PROVE QuietPair(n)'
  <2>1. UNCHANGED <<cert, key, quiet, held, met>> /\ Finish(c)
    BY <1>4 DEF PrintEnrollment, CommandDies
  <2>2. QuietPair(n)
    BY <2>1 DEF IInv, QuietInv
  <2>3. /\ \A d \in Operators : pc'[d] = "key" => pc[d] = "key" /\ mine'[d] = mine[d]
        /\ \A d \in Busy' : d \in Busy /\ mine'[d] = mine[d] /\ cmd'[d] = cmd[d]
        /\ Busy' \subseteq Busy
    BY <1>0, <2>1 DEF Finish, TypeOK, Busy
  <2> QED BY <2>1, <2>2, <2>3 DEF QuietPair
<1>5. CASE Aside
  <2>1. UNCHANGED <<cert, key, cmd, pc, mine, quiet>>
    BY <1>5, AsideStep
  <2>2. QuietPair(n) /\ n # 0
    BY <1>0, <2>1 DEF IInv, QuietInv, TypeOK
  <2>3. CASE UNCHANGED met /\ held' \in {held, 0, cert}
    BY <2>1, <2>2, <2>3 DEF QuietPair, Busy
  <2>4. CASE met' = held /\ held # 0 /\ key = held /\ held' = 0
    BY <2>1, <2>2, <2>4 DEF QuietPair, Busy
  <2> QED BY <1>5, <2>3, <2>4 DEF Aside, GenToken, LoseToken, Enroll, Restart, Serve, New,
          ReadCert, ReadKey, Relaunch, Fail, IInv, ServeInv
<1>6. CASE UNCHANGED vars
  BY <1>6 DEF vars, IInv, QuietInv, QuietPair, Busy
<1> QED BY <1>1, <1>2, <1>3, <1>4, <1>5, <1>6 DEF Next, Aside, Command

LEMMA Invariance == Spec => []IInv
<1>1. IInv /\ [Next]_vars => IInv'
  BY TypeStep, RaceStep, AloneStep, FilesStep, ServeStep, TokenStep, MetStep, QuietStep DEF IInv
<1> QED BY InitIInv, <1>1, PTL DEF Spec

-----------------------------------------------------------------------------

\* The type invariant, for any number of operators and pairs.
THEOREM TypeCorrect == Spec => []TypeOK
<1>1. IInv => TypeOK
  BY DEF IInv
<1> QED BY Invariance, <1>1, PTL

\* Outside overlaps and a rotation that died between its files, two files there
\* are one pair.
THEOREM CompleteIsPaired == Spec => []CompleteMeansPaired
<1>1. IInv => CompleteMeansPaired
  BY DEF IInv, FileInv, CompleteMeansPaired, Busy
<1> QED BY Invariance, <1>1, PTL

\* The service serves what the app was told to pin.
THEOREM PinStaysServed == Spec => []PinnedIsServed
<1>1. IInv => PinnedIsServed
  BY DEF IInv, PinInv, ServeInv, PinnedIsServed, Busy
<1> QED BY Invariance, <1>1, PTL

\* A command that is alone and succeeds leaves a pair.
THEOREM AloneLeavesPair == Spec => QuietCommandPairs
<1>1. ASSUME IInv, [Next]_vars, NEW c \in Operators,
             pc[c] = "key", pc'[c] # "key", faults' = faults, ~raced[c]
      PROVE  cert' = key'
  <2> USE DEF IInv, file_vars, cmd_vars, svc_vars
  <2>1. pc'[c] # pc[c]
    BY <1>1
  <2>2. ASSUME NEW d \in Operators, Command(d) \/ CommandDies(d)
        PROVE  d = c
    BY <1>1, <2>2 DEF Command, GenCert, RotateCert, Begin, WriteCert, WriteKey,
         PrintEnrollment, CommandDies, Finish, TypeOK
  <2>3. ~CommandDies(c)
    <3>0. faults \in Nat
      BY <1>1, BoundAssumption DEF TypeOK, BoundAssumption
    <3>1. faults + 1 # faults
      BY <3>0
    <3> QED BY <1>1, <3>1 DEF CommandDies
  <2>4. WriteKey(c)
    BY <1>1, <2>1, <2>2, <2>3 DEF Next, Command, GenCert, RotateCert, WriteCert,
         PrintEnrollment, GenToken, LoseToken, Enroll, Restart, Serve, New, ReadCert, ReadKey,
         Relaunch, vars
  <2> QED BY <1>1, <2>4 DEF WriteKey, AloneInv, Alone
<1>2. IInv /\ [Next]_vars =>
        [\A c \in Operators :
           (pc[c] = "key" /\ pc'[c] # "key" /\ faults' = faults /\ ~raced[c])
             => cert' = key']_vars
  BY <1>1
<1> QED BY Invariance, <1>2, PTL DEF Spec, QuietCommandPairs

\* identity.go:47-49: an identity that clients met is never replaced in service by
\* that of a gen-cert that nothing overlapped.
THEOREM InstallerKeepsWhatIsMet == Spec => InstallerKeepsIdentity
<1>1. ASSUME IInv, [Next]_vars, met # 0, served' \notin {0, met}
      PROVE  served' \notin quiet
  <2>1. served' \in {0, served, held}
    BY <1>1 DEF Next, Command, GenCert, RotateCert, Begin, WriteCert, WriteKey, PrintEnrollment,
       CommandDies, GenToken, LoseToken, Enroll, Restart, Serve, New, ReadCert, ReadKey, Relaunch,
       Fail, file_vars, cmd_vars, svc_vars, vars
  <2>2. served \in {0, met}
    BY <1>1 DEF IInv, MetInv
  <2>3. held \in quiet => met \in {0, held}
    BY <1>1 DEF IInv, QuietInv, QuietPair
  <2> QED BY <1>1, <2>1, <2>2, <2>3
<1>2. IInv /\ [Next]_vars => [(met # 0 /\ served' \notin {0, met}) => served' \notin quiet]_vars
  BY <1>1
<1> QED BY Invariance, <1>2, PTL DEF Spec, InstallerKeepsIdentity
=============================================================================
