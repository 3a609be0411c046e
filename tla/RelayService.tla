----------------------------- MODULE RelayService ---------------------------
(***************************************************************************)
(* The life of a relay token: a command of cmd/meerkat-agent/main.go       *)
(* exchanges a single-use code for it (internal/relay/enrollment.go) and   *)
(* stores it in relay.json (internal/config/config.go); the relay service  *)
(* loads it when systemd starts the process and runs a RelaySession with   *)
(* it, until the token expires or is rejected, and the unit's Restart and  *)
(* StartLimit settings decide what follows.                                *)
(*                                                                         *)
(* relay.json is replaced in one step, which is what StateFile shows for   *)
(* commands that exclude each other.  A token stands for the code it is    *)
(* minted for.  A second command with a used code is refused and changes   *)
(* nothing; one with a code that was not used is like one with a new code. *)
(* Of a configuration, the token stands for all required fields.           *)
(***************************************************************************)
EXTENDS Naturals

CONSTANTS
  Tokens,
  NoToken,  \* a required field is empty
  Never,    \* no RelayTokenExpiresAt
  NoFile,
  Burst     \* StartLimitBurst

ASSUME BurstAssumption == Burst \in Nat \ {0}
ASSUME NothingAssumption ==
  /\ NoToken \notin Tokens /\ Never \notin Tokens
  /\ NoFile \notin [token : Tokens, expiry : Tokens \cup {Never}]

VARIABLES
  file,     \* relay.json
  cmd,      \* per code, the command that uses it
  minted,   \* tokens the backend has issued
  past,     \* tokens whose expiry has passed
  dead,     \* tokens the backend rejects
  unit,     \* the unit, or a relay process run by hand while the unit rests
  held,     \* the configuration the process works with
  missed,   \* (history) there was no relay.json when the process looked
  phase, result, \* of the process's RelaySession
  starts,   \* of the current start-limit window
  denials   \* (history) 401 answers to processes started in that window

backend == <<minted, past, dead>>
systemd == <<unit, starts>>
process == <<held, missed, phase, result>>
vars    == <<file, cmd, backend, systemd, process, denials>>

ByHand  == {"hand", "interrupted"}
Running == {"running", "stopping", "restarting"}

Session == INSTANCE RelaySession WITH
  expired   <- held.expiry \in past,
  revoked   <- held.token \in dead,
  cancelled <- unit \in {"stopping", "restarting", "interrupted"}

Empty == [token |-> NoToken, expiry |-> Never]

Load == IF file = NoFile THEN Empty ELSE file

\* What SaveRelayConfig asks for, and Run once more.
Complete(cfg) == cfg.token # NoToken

TypeOK ==
  LET Config == [token : Tokens, expiry : Tokens \cup {Never}]
  IN /\ file \in Config \cup {NoFile}
     /\ cmd \in [Tokens -> {"unused", "sent", "saved", "failed"}]
     /\ minted \subseteq Tokens /\ past \subseteq minted /\ dead \subseteq minted
     /\ unit \in {"inactive", "launched", "waiting", "failed"} \cup Running \cup ByHand
     /\ held \in [token : Tokens \cup {NoToken}, expiry : Tokens \cup {Never}]
     /\ missed \in BOOLEAN
     /\ phase \in Session!Phases /\ result \in Session!Results
     /\ starts \in 0..Burst /\ denials \in Nat

Init ==
  /\ file = NoFile /\ cmd = [t \in Tokens |-> "unused"]
  /\ minted = {} /\ past = {} /\ dead = {}
  /\ unit = "inactive" /\ starts = 0 /\ denials = 0
  /\ held = Empty /\ missed = FALSE /\ phase = "over" /\ result = "none"

-----------------------------------------------------------------------------
(* Commands *)

Command(t, to) == cmd' = [cmd EXCEPT ![t] = to]

\* `config relay set --enrollment-code`, until its request is on the way.
Enroll(t) ==
  /\ cmd[t] = "unused" /\ Command(t, "sent")
  /\ UNCHANGED <<file, backend, systemd, process, denials>>

\* The backend takes the request, in time or after the command gave up.
Mint(t) ==
  /\ cmd[t] \in {"sent", "failed"} /\ t \notin minted
  /\ minted' = minted \cup {t}
  /\ UNCHANGED <<file, cmd, past, dead, systemd, process, denials>>

\* The expiry is optional in an answer, and a required field may be missing.
Answers(t) == {[token |-> t, expiry |-> t], [token |-> t, expiry |-> Never], Empty}

\* Mutant: what the backend answers is taken as complete.
SaveRelayConfig_Unchecked(cfg) == file' = cfg

SaveRelayConfig(cfg) == Complete(cfg) /\ file' = cfg

\* The answer arrives and is saved.  Nothing else of the command happens before it
\* reports success; killed in between, it has saved and is "failed" all the same.
Install(t) ==
  /\ cmd[t] = "sent" /\ t \in minted
  /\ \E cfg \in Answers(t) : SaveRelayConfig(cfg)
  /\ \E to \in {"saved", "failed"} : Command(t, to)
  /\ UNCHANGED <<backend, systemd, process, denials>>

\* Mutant: the error of the exchange or of the save is dropped.
GiveUp_Silent(t) ==
  /\ cmd[t] = "sent" /\ \E to \in {"saved", "failed"} : Command(t, to)
  /\ UNCHANGED <<file, backend, systemd, process, denials>>

\* No answer, status or body; an incomplete one; a failed save; a kill.
GiveUp(t) ==
  /\ cmd[t] = "sent" /\ Command(t, "failed")
  /\ UNCHANGED <<file, backend, systemd, process, denials>>

\* Mutant: fields that are not given keep their stored value.
SetFromEnv_Merged(t) ==
  /\ SaveRelayConfig([token |-> t, expiry |-> Load.expiry])
  /\ UNCHANGED <<cmd, backend, systemd, process, denials>>

\* `config relay set` with MEERKAT_RELAY_TOKEN, which may be forgotten.
SetFromEnv(t) ==
  /\ SaveRelayConfig([token |-> t, expiry |-> Never])
  /\ UNCHANGED <<cmd, backend, systemd, process, denials>>

Remove ==
  /\ file # NoFile /\ file' = NoFile
  /\ UNCHANGED <<cmd, backend, systemd, process, denials>>

Commands ==
  \/ \E t \in Tokens : Enroll(t) \/ Mint(t) \/ Install(t) \/ GiveUp(t)
  \/ \E t \in minted \cup {NoToken} : SetFromEnv(t)
  \/ Remove

-----------------------------------------------------------------------------
(* The unit *)

\* A start is counted, whoever asks for it, before the condition is looked at.
StartJob ==
  \/ /\ starts = Burst /\ unit' = "failed"
     /\ UNCHANGED <<starts, denials>>
  \/ /\ starts < Burst /\ starts' = starts + 1
     /\ denials' = IF starts = 0 THEN 0 ELSE denials
     /\ unit' = IF file = NoFile THEN "inactive" ELSE "launched"

OperatorStart ==
  /\ unit \in {"inactive", "failed", "waiting", "launched"}
  /\ StartJob
  /\ UNCHANGED <<file, cmd, backend, process>>

AutoRestart ==
  /\ unit = "waiting" /\ StartJob
  /\ UNCHANGED <<file, cmd, backend, process>>

\* SIGTERM ends a session in its next rest, a process that has none at once.
OperatorStop ==
  /\ \/ unit = "running" /\ unit' \in {"stopping", "restarting"}
     \/ unit = "hand" /\ unit' = "interrupted"
     \/ unit \in {"waiting", "launched"} /\ unit' = "inactive"
  /\ UNCHANGED <<file, cmd, backend, starts, process, denials>>

\* The interval after which starts are counted anew.
WindowPasses ==
  /\ starts > 0 /\ starts' = 0
  /\ UNCHANGED <<file, cmd, backend, unit, process, denials>>

ExpireToken == \E t \in minted \ past :
  /\ past' = past \cup {t}
  /\ UNCHANGED <<file, cmd, minted, dead, systemd, process, denials>>

Revoke == \E t \in minted \ dead :
  /\ dead' = dead \cup {t}
  /\ UNCHANGED <<file, cmd, minted, past, systemd, process, denials>>

-----------------------------------------------------------------------------
(* The process *)

\* `relay`: what is not in the environment or a flag comes from relay.json.
Run(cfg) ==
  /\ held' = cfg /\ missed' = (file = NoFile)
  /\ phase' = "starting" /\ result' = "none"
  /\ UNCHANGED <<file, cmd, backend, starts, denials>>

RunService == unit = "launched" /\ unit' = "running" /\ Run(Load)

RunByHand ==
  /\ unit \in {"inactive", "failed"} /\ unit' = "hand"
  /\ \E t \in minted \cup {NoToken} :
       Run([Load EXCEPT !.token = IF t = NoToken THEN @ ELSE t])

SessionStep ==
  /\ UNCHANGED <<file, cmd, backend, systemd, held, missed, denials>>
  /\ \/ Complete(held) /\ Session!Begin
     \/ ~Complete(held) /\ Session!Incomplete
     \/ Session!EnterRound \/ Session!Expired
     \/ Session!LeaveRound \/ Session!Wake

SessionCancelled ==
  /\ UNCHANGED <<file, cmd, backend, systemd, held, missed, denials>>
  /\ Session!Cancelled

SessionRejected ==
  /\ UNCHANGED <<file, cmd, backend, systemd, held, missed>>
  /\ Session!Rejected
  /\ denials' = IF unit \in ByHand THEN denials ELSE denials + 1

\* A crash, or SIGKILL when a stop takes longer than TimeoutStopSec.
Killed ==
  /\ phase # "over" /\ phase' = "over"
  /\ UNCHANGED <<file, cmd, backend, systemd, held, missed, result, denials>>

\* Restart=always, but not after `systemctl stop`; an operator has no supervisor.
Exited ==
  /\ phase = "over" /\ unit \in Running \cup ByHand
  /\ held' = Empty /\ missed' = FALSE /\ result' = "none"
  /\ IF unit = "restarting"
     THEN StartJob
     ELSE /\ unit' = IF unit = "running" THEN "waiting" ELSE "inactive"
          /\ UNCHANGED <<starts, denials>>
  /\ UNCHANGED <<file, cmd, backend, phase>>

Next ==
  \/ Commands
  \/ OperatorStart \/ AutoRestart \/ OperatorStop \/ WindowPasses
  \/ ExpireToken \/ Revoke
  \/ RunService \/ RunByHand
  \/ SessionStep \/ SessionCancelled \/ SessionRejected
  \/ Killed \/ Exited

\* A session's phases end (RelaySession), systemd and the process do not idle.
Spec ==
  /\ Init /\ [][Next]_vars
  /\ WF_vars(SessionStep) /\ SF_vars(SessionCancelled)
  /\ WF_vars(RunService \/ Exited \/ AutoRestart)

-----------------------------------------------------------------------------
(* Properties *)

\* The start limit and the end of a session at its first 401 work together: the
\* service asks the backend with a rejected token at most Burst times in a window.
RejectionsBounded == denials <= Burst

\* A service process never ends for want of configuration, except when relay.json
\* was removed between systemd's condition and LoadRelayConfig: nothing incomplete
\* is ever saved, whatever the backend answers and the operator forgets.
SavedConfigStarts == result = "incomplete" /\ unit \notin ByHand => missed

\* A service process gives up for expiry only if its own token has expired: the
\* expiry of an earlier token never stays behind in relay.json.
ExpiryIsOwn ==
  result = "expired" /\ unit \notin ByHand => held.token \in past

\* A token from the environment is not refused for the expiry of another one.
\* (It is: main.go overwrites the token and keeps the stored expiry.)
EnvTokenHonoured ==
  result = "expired" /\ unit \in ByHand => held.token \in past

\* An enrollment that reports success has installed the token minted for its code;
\* so a burnt code without a stored token was reported as a failure.
NoSilentLoss ==
  [][\A t \in Tokens :
       cmd[t] # "saved" /\ cmd'[t] = "saved" => t \in minted /\ file'.token = t]_vars

\* After a re-enrollment nobody needs to restart the service for an *expired*
\* token: the process ends, and the next one reads relay.json again, unless the
\* start limit or an operator keeps the unit down.
ReenrollmentAdopted ==
  unit = "running" /\ phase # "over" /\ held.expiry \in past
    ~> held = Load \/ unit \in {"failed", "inactive"}
=============================================================================
