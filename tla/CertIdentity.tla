---------------------------- MODULE CertIdentity ----------------------------
(***************************************************************************)
(* The TLS identity: cert.pem and key.pem are one pair in two files, which *)
(* writeNewCert (internal/identity/identity.go) replaces one after the     *)
(* other.  The commands gen-cert (run by every installation) and           *)
(* rotate-cert write them, enroll and rotate-cert print the certificate's  *)
(* fingerprint for the app to pin, and the service loads both files, one   *)
(* after the other, each time it starts.  Of the token file only this      *)
(* matters here: without it nothing is printed and no service starts.      *)
(* Pairs are numbered as they are made; 0 is a missing file.               *)
(*                                                                         *)
(* File replacement is one step here: StateFile says when that is sound.   *)
(***************************************************************************)
EXTENDS Naturals

CONSTANTS
  Operators,  \* processes that run gen-cert, rotate-cert
  MaxPairs,   \* bound: pairs ever made
  MaxFaults   \* bound: failed writes, killed commands, losses of the token file

ASSUME BoundAssumption == MaxPairs \in Nat /\ MaxFaults \in Nat

VARIABLES
  cert, key,  \* the pair that each file belongs to
  made,       \* pairs made so far
  token,      \* the token file can be read
  cmd,        \* cmd[c]: the command c runs, "none" if it runs none
  pc,         \* pc[c]: where writeNewCert is
  mine,       \* mine[c]: the pair c is writing
  raced,      \* raced[c]: another command ran during c's (history)
  quiet,      \* the pairs of gen-cert runs that nothing overlapped (history)
  svc,        \* the service process
  held,       \* the certificate that a starting service has read
  served,     \* the pair the service serves, 0 unless it is up
  met,        \* the pair the service served last: what clients met (history)
  pinned,     \* the fingerprint printed last: what the app trusts
  restartDue, \* a certificate was replaced, the service not yet restarted
  torn,       \* commands overlapped, or one died between its two files, with a
              \* key of an earlier pair in place (history)
  faults

file_vars == <<cert, key, made, token>>
cmd_vars  == <<cmd, pc, mine, raced, quiet>>
svc_vars  == <<svc, held, served, met>>
vars      == <<file_vars, cmd_vars, svc_vars, pinned, restartDue, torn, faults>>

Pairs == 0..MaxPairs

TypeOK ==
  /\ cert \in 0..made /\ key \in 0..made /\ made \in Pairs
  /\ token \in BOOLEAN
  /\ cmd \in [Operators -> {"none", "gen", "rotate"}]
  /\ pc \in [Operators -> {"idle", "cert", "key", "print"}]
  /\ \A c \in Operators : (cmd[c] = "none") <=> (pc[c] = "idle")
  /\ mine \in [Operators -> 0..made]
  /\ raced \in [Operators -> BOOLEAN]
  /\ quiet \in SUBSET (1..made)
  /\ svc \in {"stopped", "starting", "new", "loading", "up", "failed"}
  /\ held \in 0..made /\ served \in 0..made /\ met \in 0..made
  /\ (served # 0) <=> (svc = "up")
  /\ pinned \in 0..made
  /\ restartDue \in BOOLEAN /\ torn \in BOOLEAN
  /\ faults \in 0..MaxFaults

\* An empty state directory.
Init ==
  /\ cert = 0 /\ key = 0 /\ made = 0 /\ token = FALSE
  /\ cmd = [c \in Operators |-> "none"]
  /\ pc = [c \in Operators |-> "idle"]
  /\ mine = [c \in Operators |-> 0]
  /\ raced = [c \in Operators |-> FALSE]
  /\ quiet = {}
  /\ svc = "stopped" /\ held = 0 /\ served = 0 /\ met = 0
  /\ pinned = 0 /\ restartDue = FALSE /\ torn = FALSE /\ faults = 0

Busy   == {c \in Operators : pc[c] # "idle"}
Paired == cert = key /\ cert # 0

-----------------------------------------------------------------------------
(* The commands. *)

\* writeNewCert makes a key and a certificate for it.
Begin(c, kind) ==
  /\ made < MaxPairs
  /\ made' = made + 1
  /\ mine' = [mine EXCEPT ![c] = made + 1]
  /\ cmd' = [cmd EXCEPT ![c] = kind]
  /\ pc' = [pc EXCEPT ![c] = "cert"]
  /\ raced' = [d \in Operators |-> raced[d] \/ (Busy # {} /\ d \in Busy \cup {c})]
  /\ torn' = (torn \/ Busy # {})
  /\ quiet' = IF Busy # {} THEN quiet \ {mine[d] : d \in Busy}
              ELSE IF kind = "gen" THEN quiet \cup {made + 1} ELSE quiet
  /\ UNCHANGED <<cert, key, token, svc_vars, pinned, restartDue, faults>>

\* Mutant: a pair is made whatever is there.
GenCert_Always(c) ==
  /\ pc[c] = "idle"
  /\ Begin(c, "gen")

\* Mutant: files that do not match are taken for missing ones.
GenCert_Repairs(c) ==
  /\ pc[c] = "idle"
  /\ ~Paired
  /\ Begin(c, "gen")

\* GenerateCert keeps the files when both exist, paired or not.
GenCert(c) ==
  /\ pc[c] = "idle"
  /\ cert = 0 \/ key = 0
  /\ Begin(c, "gen")

RotateCert(c) ==
  /\ pc[c] = "idle"
  /\ Begin(c, "rotate")

WriteCert(c) ==
  /\ pc[c] = "cert"
  /\ cert' = mine[c]
  /\ pc' = [pc EXCEPT ![c] = "key"]
  /\ restartDue' = TRUE
  /\ UNCHANGED <<key, made, token, cmd, mine, raced, quiet, svc_vars, pinned, torn, faults>>

Finish(c) ==
  /\ cmd' = [cmd EXCEPT ![c] = "none"]
  /\ pc' = [pc EXCEPT ![c] = "idle"]
  /\ mine' = [mine EXCEPT ![c] = 0]
  /\ raced' = [raced EXCEPT ![c] = FALSE]

\* Mutant: an existing key is left alone.
WriteKey_KeepsOld(c) ==
  /\ pc[c] = "key"
  /\ key' = IF key = 0 THEN mine[c] ELSE key
  /\ IF cmd[c] = "gen"
     THEN Finish(c)
     ELSE pc' = [pc EXCEPT ![c] = "print"] /\ UNCHANGED <<cmd, mine, raced>>
  /\ UNCHANGED <<cert, made, token, quiet, svc_vars, pinned, restartDue, torn, faults>>

WriteKey(c) ==
  /\ pc[c] = "key"
  /\ key' = mine[c]
  /\ IF cmd[c] = "gen"
     THEN Finish(c)
     ELSE pc' = [pc EXCEPT ![c] = "print"] /\ UNCHANGED <<cmd, mine, raced>>
  /\ UNCHANGED <<cert, made, token, quiet, svc_vars, pinned, restartDue, torn, faults>>

\* rotate-cert ends with printEnrollment, which reads cert.pem again, and prints
\* nothing when there is no token.
PrintEnrollment(c) ==
  /\ pc[c] = "print"
  /\ pinned' = IF token THEN cert ELSE pinned
  /\ Finish(c)
  /\ UNCHANGED <<file_vars, quiet, svc_vars, restartDue, torn, faults>>

\* A file cannot be replaced, or the command is killed.
CommandDies(c) ==
  /\ pc[c] # "idle"
  /\ faults < MaxFaults
  /\ faults' = faults + 1
  /\ torn' = (torn \/ (pc[c] = "key" /\ key # 0))
  /\ Finish(c)
  /\ UNCHANGED <<file_vars, quiet, svc_vars, pinned, restartDue>>

\* gen-token and rotate-token: from here on there is a token.
GenToken ==
  /\ ~token
  /\ token' = TRUE
  /\ UNCHANGED <<cert, key, made, cmd_vars, svc_vars, pinned, restartDue, torn, faults>>

\* The token file is emptied, removed or made unreadable by hand.
LoseToken ==
  /\ token
  /\ faults < MaxFaults
  /\ faults' = faults + 1
  /\ token' = FALSE
  /\ UNCHANGED <<cert, key, made, cmd_vars, svc_vars, pinned, restartDue, torn>>

\* The command enroll, and the end of rotate-token.
Enroll ==
  /\ cert # 0 /\ token
  /\ pinned' = cert
  /\ UNCHANGED <<file_vars, cmd_vars, svc_vars, restartDue, torn, faults>>

-----------------------------------------------------------------------------
(* The service. *)

\* systemctl restart, by the postinst or by the operator.
Restart ==
  /\ svc \in {"stopped", "up", "failed"}
  /\ svc' = "starting"
  /\ held' = 0 /\ served' = 0
  /\ restartDue' = FALSE
  /\ UNCHANGED <<file_vars, cmd_vars, met, pinned, torn, faults>>

Fail == svc' = "failed" /\ held' = 0 /\ UNCHANGED <<served, met>>

\* New: without a token the agent must not serve.
New ==
  /\ svc = "starting"
  /\ IF token
     THEN svc' = "new" /\ UNCHANGED <<held, served, met>>
     ELSE Fail
  /\ UNCHANGED <<file_vars, cmd_vars, pinned, restartDue, torn, faults>>

\* ListenAndServeTLS reads the certificate, then the key; they must match.
ReadCert ==
  /\ svc = "new"
  /\ IF cert = 0
     THEN Fail
     ELSE svc' = "loading" /\ held' = cert /\ UNCHANGED <<served, met>>
  /\ UNCHANGED <<file_vars, cmd_vars, pinned, restartDue, torn, faults>>

\* Mutant: a failure to load ends the process with status 0.
ReadKey_ExitsClean ==
  /\ svc = "loading"
  /\ IF key = held
     THEN svc' = "up" /\ served' = held /\ met' = held /\ held' = 0
     ELSE svc' = "stopped" /\ held' = 0 /\ UNCHANGED <<served, met>>
  /\ UNCHANGED <<file_vars, cmd_vars, pinned, restartDue, torn, faults>>

ReadKey ==
  /\ svc = "loading"
  /\ IF key = held
     THEN svc' = "up" /\ served' = held /\ met' = held /\ held' = 0
     ELSE Fail
  /\ UNCHANGED <<file_vars, cmd_vars, pinned, restartDue, torn, faults>>

\* Restart=on-failure, five seconds later: never often enough for systemd's
\* default start limit.
Relaunch ==
  /\ svc = "failed"
  /\ svc' = "starting"
  /\ UNCHANGED <<file_vars, cmd_vars, held, served, met, pinned, restartDue, torn, faults>>

-----------------------------------------------------------------------------

Command(c) == GenCert(c) \/ RotateCert(c) \/ WriteCert(c) \/ WriteKey(c) \/ PrintEnrollment(c)
Serve      == New \/ ReadCert \/ ReadKey \/ Relaunch

Next ==
  \/ \E c \in Operators : Command(c) \/ CommandDies(c)
  \/ GenToken \/ LoseToken \/ Enroll \/ Restart \/ Serve

\* The service process runs, and systemd relaunches it.
Spec == Init /\ [][Next]_vars /\ WF_vars(Serve)

-----------------------------------------------------------------------------
(* Properties. *)

\* A command that nothing overlaps and that succeeds leaves a certificate and
\* its key behind, whatever half-written pair a killed command left before it.
QuietCommandPairs ==
  [][\A c \in Operators :
       (pc[c] = "key" /\ pc'[c] # "key" /\ faults' = faults /\ ~raced[c])
         => cert' = key']_vars

\* identity.go:47-49: re-running the installer never breaks a pairing.  When the
\* service comes back, after upgrades, rotations that died, lost tokens and
\* restarts in any order, with another identity than clients met last, that is
\* never the work of a gen-cert that nothing overlapped.
InstallerKeepsIdentity ==
  [][(met # 0 /\ served' \notin {0, met}) => served' \notin quiet]_vars

\* GenerateCert's test, that both files exist, is a test of the pair: outside
\* overlapping commands only a rotation that dies between its two files leaves a
\* complete pair that does not match (and that gen-cert will then keep).
CompleteMeansPaired ==
  (~torn /\ Busy = {} /\ cert # 0 /\ key # 0) => cert = key

\* The app keeps meeting the certificate it was told to pin: once the service
\* has been restarted after the last replacement (as the README and rotate-cert
\* ask), it serves the fingerprint printed last, installations notwithstanding.
PinnedIsServed ==
  (svc = "up" /\ ~restartDue /\ Busy = {} /\ pinned # 0 /\ ~torn /\ faults = 0)
    => served = pinned

\* A service that read half of a replacement fails and is relaunched until it
\* serves: with a pair and a token on disk and no command running, it comes up.
ServiceComesUp ==
  (Paired /\ token /\ Busy = {} /\ svc # "stopped")
    ~> (svc = "up" \/ ~Paired \/ ~token \/ Busy # {})
=============================================================================
