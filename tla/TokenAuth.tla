----------------------------- MODULE TokenAuth -----------------------------
(***************************************************************************)
(* Bearer-token authentication of the HTTPS API: requireToken and          *)
(* loadToken of internal/server/server.go over the token file that the CLI *)
(* commands gen-token and rotate-token replace (internal/identity).        *)
(*                                                                         *)
(* Tokens are numbered in the order in which they reach the disk; 0 stands *)
(* for "no token": an unreadable or empty token file, an empty cache, a    *)
(* request without an Authorization header.  Time is a discrete clock.     *)
(***************************************************************************)
EXTENDS Naturals

CONSTANTS
  Requests,   \* handler goroutines of the server, one per request slot
  Nobody,     \* the holder of a free mutex
  Operators,  \* CLI processes that run gen-token or rotate-token
  TTL,        \* tokenCacheTTL, in ticks of the clock
  MaxToken,   \* bound: tokens ever written
  MaxTime     \* bound: last value of the clock

ASSUME NobodyAssumption == Nobody \notin Requests
ASSUME TTLAssumption   == TTL \in Nat \ {0}
ASSUME BoundAssumption == MaxToken \in Nat \ {0} /\ MaxTime \in Nat

NoToken == 0

VARIABLES
  clock,
  disk,    \* the token in the file, NoToken if it cannot be read
  last,    \* number of tokens written so far
  gone,    \* gone[v]: when token v stopped being the one on disk
  cli,     \* cli[c]: "idle", or "write" once c has decided to write a token
  up,      \* the server process runs
  cache,   \* Server.token
  until,   \* Server.tokenUntil
  mutex,   \* holder of Server.tokenMu
  pc,      \* pc[r]: where request r is
  at,      \* at[r]: the `now` that loadToken took for r
  cred,    \* cred[r]: the token that r presents
  tok,     \* tok[r]: the token that loadToken reads for r
  served,  \* newest token that any loadToken call has returned (history)
  floor    \* floor[r]: the value of served when r arrived (history)

disk_vars == <<disk, last, gone, cli>>
mem_vars  == <<cache, until, mutex>>
req_vars  == <<pc, at, cred, tok, floor>>
vars      == <<clock, disk_vars, up, mem_vars, req_vars, served>>

Tokens  == 1..MaxToken
Answers == {"ok", "unauthorized", "unavailable"}
Steps   == {"idle", "lock", "read", "store", "clear", "compare"} \cup Answers

TypeOK ==
  /\ clock \in Nat
  /\ last \in 0..MaxToken
  /\ disk \in 0..last
  /\ gone \in [Tokens -> Nat]
  /\ cli \in [Operators -> {"idle", "write"}]
  /\ up \in BOOLEAN
  /\ cache \in 0..last
  /\ until \in Nat
  /\ mutex \in Requests \cup {Nobody}
  /\ pc \in [Requests -> Steps]
  /\ at \in [Requests -> Nat]
  /\ cred \in [Requests -> 0..last]
  /\ tok \in [Requests -> 0..last]
  /\ served \in 0..last
  /\ floor \in [Requests -> 0..last]

\* The package's postinst has run gen-token: one token, nothing started yet.
Init ==
  /\ clock = 0
  /\ last = 1
  /\ disk = 1
  /\ gone = [v \in Tokens |-> 0]
  /\ cli = [c \in Operators |-> "idle"]
  /\ up = FALSE
  /\ cache = NoToken /\ until = 0 /\ mutex = Nobody
  /\ pc = [r \in Requests |-> "idle"]
  /\ at = [r \in Requests |-> 0]
  /\ cred = [r \in Requests |-> NoToken]
  /\ tok = [r \in Requests |-> NoToken]
  /\ served = NoToken
  /\ floor = [r \in Requests |-> NoToken]

-----------------------------------------------------------------------------
(* The environment: time, and the token file. *)

Tick ==
  /\ clock < MaxTime
  /\ clock' = clock + 1
  /\ UNCHANGED <<disk_vars, up, mem_vars, req_vars, served>>

\* The time at which the token on disk is replaced or lost.
Retire == gone' = IF disk = NoToken THEN gone ELSE [gone EXCEPT ![disk] = clock]

\* GenerateToken keeps a token that LoadToken can read.
BeginGenerate(c) ==
  /\ cli[c] = "idle"
  /\ disk = NoToken
  /\ cli' = [cli EXCEPT ![c] = "write"]
  /\ UNCHANGED <<clock, disk, last, gone, up, mem_vars, req_vars, served>>

BeginRotate(c) ==
  /\ cli[c] = "idle"
  /\ cli' = [cli EXCEPT ![c] = "write"]
  /\ UNCHANGED <<clock, disk, last, gone, up, mem_vars, req_vars, served>>

\* A fresh random token replaces the file.
WriteToken(c) ==
  /\ cli[c] = "write"
  /\ last < MaxToken
  /\ Retire
  /\ last' = last + 1
  /\ disk' = last + 1
  /\ cli' = [cli EXCEPT ![c] = "idle"]
  /\ UNCHANGED <<clock, up, mem_vars, req_vars, served>>

\* The file becomes empty or unreadable: LoadToken returns an error.
LoseToken ==
  /\ disk # NoToken
  /\ Retire
  /\ disk' = NoToken
  /\ UNCHANGED <<clock, last, cli, up, mem_vars, req_vars, served>>

-----------------------------------------------------------------------------
(* The server process. *)

\* New refuses to serve while the token cannot be read; the cache starts empty.
Start ==
  /\ ~up
  /\ disk # NoToken
  /\ up' = TRUE
  /\ UNCHANGED <<clock, disk_vars, mem_vars, req_vars, served>>

\* The process ends, at any point of its requests, and its memory with it.
Stop ==
  /\ up
  /\ up' = FALSE
  /\ cache' = NoToken /\ until' = 0 /\ mutex' = Nobody
  /\ pc' = [r \in Requests |-> "idle"]
  /\ at' = [r \in Requests |-> 0]
  /\ cred' = [r \in Requests |-> NoToken]
  /\ tok' = [r \in Requests |-> NoToken]
  /\ floor' = [r \in Requests |-> NoToken]
  /\ UNCHANGED <<clock, disk_vars, served>>

\* A request reaches loadToken, which takes the time BEFORE the mutex.
Arrive(r) ==
  /\ up
  /\ pc[r] = "idle"
  /\ pc' = [pc EXCEPT ![r] = "lock"]
  /\ at' = [at EXCEPT ![r] = clock]
  /\ floor' = [floor EXCEPT ![r] = served]
  /\ UNCHANGED <<clock, disk_vars, up, mem_vars, cred, tok, served>>

\* Mutant: an entry is good until after its expiry.
Fresh_Inclusive(r) == cache # NoToken /\ at[r] <= until
Fresh(r) == cache # NoToken /\ at[r] < until

\* The critical section of a cache hit touches memory only: one step.
Hit(r) ==
  /\ pc[r] = "lock"
  /\ mutex = Nobody
  /\ Fresh(r)
  /\ tok' = [tok EXCEPT ![r] = cache]
  /\ pc' = [pc EXCEPT ![r] = "compare"]
  /\ served' = IF cache > served THEN cache ELSE served
  /\ UNCHANGED <<clock, disk_vars, up, mem_vars, at, cred, floor>>

\* Mutant: the disk is read outside the mutex.
Miss_NoLock(r) ==
  /\ pc[r] = "lock"
  /\ mutex = Nobody
  /\ ~Fresh(r)
  /\ pc' = [pc EXCEPT ![r] = "read"]
  /\ UNCHANGED <<clock, disk_vars, up, mem_vars, at, cred, tok, served, floor>>

Miss(r) ==
  /\ pc[r] = "lock"
  /\ mutex = Nobody
  /\ ~Fresh(r)
  /\ mutex' = r
  /\ pc' = [pc EXCEPT ![r] = "read"]
  /\ UNCHANGED <<clock, disk_vars, up, cache, until, at, cred, tok, served, floor>>

\* Mutant: LoadToken returns an empty token instead of an error.
ReadDisk_EmptyAccepted(r) ==
  /\ pc[r] = "read"
  /\ tok' = [tok EXCEPT ![r] = disk]
  /\ pc' = [pc EXCEPT ![r] = "store"]
  /\ UNCHANGED <<clock, disk_vars, up, mem_vars, at, cred, served, floor>>

\* identity.LoadToken, with the mutex held.
ReadDisk(r) ==
  /\ pc[r] = "read"
  /\ tok' = [tok EXCEPT ![r] = disk]
  /\ pc' = [pc EXCEPT ![r] = IF disk = NoToken THEN "clear" ELSE "store"]
  /\ UNCHANGED <<clock, disk_vars, up, mem_vars, at, cred, served, floor>>

\* Mutant: the expiry is computed from the time after the read.
Store_LateNow(r) ==
  /\ pc[r] = "store"
  /\ cache' = tok[r]
  /\ until' = clock + TTL
  /\ mutex' = Nobody
  /\ pc' = [pc EXCEPT ![r] = "compare"]
  /\ served' = IF tok[r] > served THEN tok[r] ELSE served
  /\ UNCHANGED <<clock, disk_vars, up, at, cred, tok, floor>>

Store(r) ==
  /\ pc[r] = "store"
  /\ cache' = tok[r]
  /\ until' = at[r] + TTL
  /\ mutex' = Nobody
  /\ pc' = [pc EXCEPT ![r] = "compare"]
  /\ served' = IF tok[r] > served THEN tok[r] ELSE served
  /\ UNCHANGED <<clock, disk_vars, up, at, cred, tok, floor>>

\* Mutant: the error path returns without unlocking.
Clear_NoUnlock(r) ==
  /\ pc[r] = "clear"
  /\ cache' = NoToken
  /\ until' = 0
  /\ pc' = [pc EXCEPT ![r] = "unavailable"]
  /\ UNCHANGED <<clock, disk_vars, up, mutex, at, cred, tok, served, floor>>

\* LoadToken failed: the cache is dropped and the request answered with 503.
Clear(r) ==
  /\ pc[r] = "clear"
  /\ cache' = NoToken
  /\ until' = 0
  /\ mutex' = Nobody
  /\ pc' = [pc EXCEPT ![r] = "unavailable"]
  /\ UNCHANGED <<clock, disk_vars, up, at, cred, tok, served, floor>>

\* The request's header is read here: any token written so far, or none.
Compare(r) ==
  /\ pc[r] = "compare"
  /\ \E t \in 0..last :
       /\ cred' = [cred EXCEPT ![r] = t]
       /\ pc' = [pc EXCEPT ![r] = IF t = tok[r] THEN "ok" ELSE "unauthorized"]
  /\ UNCHANGED <<clock, disk_vars, up, mem_vars, at, tok, served, floor>>

\* The answer is on the wire; the slot takes another request.
Close(r) ==
  /\ pc[r] \in Answers
  /\ pc' = [pc EXCEPT ![r] = "idle"]
  /\ at' = [at EXCEPT ![r] = 0]
  /\ cred' = [cred EXCEPT ![r] = NoToken]
  /\ tok' = [tok EXCEPT ![r] = NoToken]
  /\ floor' = [floor EXCEPT ![r] = NoToken]
  /\ UNCHANGED <<clock, disk_vars, up, mem_vars, served>>

Lock(r) == Hit(r) \/ Miss(r)
Work(r) == ReadDisk(r) \/ Store(r) \/ Clear(r) \/ Compare(r)
Handle(r) == Arrive(r) \/ Lock(r) \/ Work(r) \/ Close(r)
Command(c) == BeginGenerate(c) \/ BeginRotate(c) \/ WriteToken(c)

Next ==
  \/ Tick \/ LoseToken \/ Start \/ Stop
  \/ \E c \in Operators : Command(c)
  \/ \E r \in Requests : Handle(r)

\* The Go scheduler runs every runnable goroutine, and a sync.Mutex (in its
\* starvation mode) is not withheld from a waiter forever.
Fairness == \A r \in Requests : WF_vars(Work(r)) /\ SF_vars(Lock(r))

Spec == Init /\ [][Next]_vars /\ Fairness

-----------------------------------------------------------------------------
(* Properties *)

\* Revocation is bounded: a token that left the disk (rotate-token, or a file
\* that was lost) authorises no request that arrived TTL or more after that,
\* however the requests, the cache refreshes and the rotation interleave
\* (server.go loadToken: the expiry is computed from a `now` older than the read).
\* "Immediately" in README.md:241-242 means this: the cache may let a request in
\* that arrives less than a TTL after the rotation.
StaleBound ==
  \A r \in Requests :
    (pc[r] = "ok" /\ cred[r] # disk) => at[r] < gone[cred[r]] + TTL

\* Rotation takes hold for the new token too: a request that presents the token
\* on disk is refused only if it arrived less than a TTL after the token that it
\* was compared with had left the disk, which was then the old one.  So the app
\* that was given the new token gets in a TTL after rotate-token at the latest,
\* whoever refreshes the cache, from whatever read of the file and in what order.
RotationTakesHold ==
  \A r \in Requests :
    (pc[r] = "unauthorized" /\ cred[r] = disk /\ disk # NoToken)
      => at[r] < gone[tok[r]] + TTL

\* Authentication never runs backwards: once loadToken has returned a token,
\* no request that arrives later is authorised by an older one (the disk is
\* read and the cache replaced under one hold of tokenMu).
NoRollback ==
  \A r \in Requests : pc[r] = "ok" => cred[r] >= floor[r]

\* The agent fails closed: a request without a credential is never let in, not
\* even while the token file is empty or unreadable.
FailClosed ==
  \A r \in Requests : pc[r] = "ok" => cred[r] # NoToken

\* Every request that reaches loadToken is answered (or dies with the server):
\* each way out of the critical section releases tokenMu.
EveryRequestAnswered ==
  \A r \in Requests : (pc[r] = "lock") ~> (pc[r] \in Answers \cup {"idle"})
=============================================================================
