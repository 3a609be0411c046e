-------------------------- MODULE TokenAuth_proofs --------------------------
(***************************************************************************)
(* The safety properties of TokenAuth for any number of requests,          *)
(* operators, tokens and ticks.  StaleBound, NoRollback and FailClosed are *)
(* not inductive: they speak of answered requests only.  IInv says what    *)
(* the same facts are at each step before the answer, in the cache and in  *)
(* the critical section.                                                   *)
(***************************************************************************)
EXTENDS TokenAuth, TLAPS

ClockInv ==
  /\ \A v \in Tokens : gone[v] <= clock
  /\ \A r \in Requests : at[r] <= clock
  /\ until <= clock + TTL

DiskInv == disk # NoToken => disk = last

MutexInv ==
  \A r \in Requests : pc[r] \in {"read", "store", "clear"} => mutex = r

\* The cached token was on disk at some time no earlier than until - TTL.
CacheInv ==
  cache # NoToken =>
    /\ cache >= served
    /\ cache # disk => until <= gone[cache] + TTL

StoreInv ==
  \A r \in Requests : pc[r] = "store" =>
    /\ tok[r] # NoToken
    /\ tok[r] >= served
    /\ tok[r] # disk => at[r] <= gone[tok[r]]

CompareInv ==
  \A r \in Requests : pc[r] = "compare" =>
    /\ tok[r] # NoToken
    /\ tok[r] >= floor[r]
    /\ tok[r] # disk => at[r] < gone[tok[r]] + TTL

\* A refused request was compared with a token that it did not present.
RefusedInv ==
  \A r \in Requests : pc[r] = "unauthorized" =>
    /\ tok[r] # NoToken /\ tok[r] # cred[r]
    /\ tok[r] # disk => at[r] < gone[tok[r]] + TTL

FloorInv == \A r \in Requests : floor[r] <= served

IInv ==
  /\ ClockInv /\ DiskInv /\ MutexInv /\ CacheInv
  /\ StoreInv /\ CompareInv /\ RefusedInv /\ FloorInv
  /\ StaleBound /\ NoRollback /\ FailClosed
-----------------------------------------------------------------------------
(* Each action preserves TypeOK. *)

\* The type invariant: every token in play has been written, every holder of
\* the mutex is a request.
THEOREM TypeCorrect == Spec => []TypeOK
<1> USE TTLAssumption, BoundAssumption, NobodyAssumption
        DEF Tokens, Steps, Answers, NoToken,
            TTLAssumption, BoundAssumption, NobodyAssumption
<1>1. Init => TypeOK
  <2> SUFFICES ASSUME Init PROVE TypeOK
    OBVIOUS
  <2>1. last \in 0..MaxToken /\ 0 \in 0..last /\ disk \in 0..last
    BY DEF Init
  <2>2. pc \in [Requests -> Steps] /\ at \in [Requests -> Nat]
    BY DEF Init
  <2>3. /\ cred \in [Requests -> 0..last]
        /\ tok \in [Requests -> 0..last]
        /\ floor \in [Requests -> 0..last]
    BY <2>1 DEF Init
  <2>4. gone \in [Tokens -> Nat] /\ cli \in [Operators -> {"idle", "write"}]
    BY DEF Init
  <2> QED BY <2>1, <2>2, <2>3, <2>4 DEF Init, TypeOK
<1>2. TypeOK /\ [Next]_vars => TypeOK'
  <2> SUFFICES ASSUME TypeOK, [Next]_vars
               PROVE  TypeOK'
    OBVIOUS
  <2>1. CASE Tick
    BY <2>1 DEF TypeOK, Tick, disk_vars, mem_vars, req_vars
  <2>2. CASE LoseToken
    BY <2>2 DEF TypeOK, LoseToken, Retire, mem_vars, req_vars
  <2>3. CASE Start
    BY <2>3 DEF TypeOK, Start, disk_vars, mem_vars, req_vars
  <2>4. CASE Stop
    <3>1. last' = last /\ 0 \in 0..last
      BY <2>4 DEF TypeOK, Stop, disk_vars
    <3>2. pc' \in [Requests -> Steps] /\ at' \in [Requests -> Nat]
      BY <2>4 DEF Stop
    <3>3. /\ cred' \in [Requests -> 0..last]
          /\ tok' \in [Requests -> 0..last]
          /\ floor' \in [Requests -> 0..last]
      BY <2>4, <3>1 DEF Stop
    <3> QED BY <2>4, <3>1, <3>2, <3>3 DEF TypeOK, Stop, disk_vars
  <2>5. ASSUME NEW c \in Operators, Command(c)
        PROVE  TypeOK'
    <3>1. CASE BeginGenerate(c)
      BY <3>1 DEF TypeOK, BeginGenerate, mem_vars, req_vars
    <3>2. CASE BeginRotate(c)
      BY <3>2 DEF TypeOK, BeginRotate, mem_vars, req_vars
    <3>3. CASE WriteToken(c)
      BY <3>3 DEF TypeOK, WriteToken, Retire, mem_vars, req_vars
    <3> QED BY <2>5, <3>1, <3>2, <3>3 DEF Command
  <2>6. ASSUME NEW r \in Requests, Handle(r)
        PROVE  TypeOK'
    <3>1. CASE Arrive(r)
      BY <3>1 DEF TypeOK, Arrive, disk_vars, mem_vars
    <3>2. CASE Hit(r)
      BY <3>2 DEF TypeOK, Hit, disk_vars, mem_vars
    <3>3. CASE Miss(r)
      BY <3>3 DEF TypeOK, Miss, disk_vars
    <3>4. CASE ReadDisk(r)
      BY <3>4 DEF TypeOK, ReadDisk, disk_vars, mem_vars
    <3>5. CASE Store(r)
      BY <3>5 DEF TypeOK, Store, disk_vars
    <3>6. CASE Clear(r)
      BY <3>6 DEF TypeOK, Clear, disk_vars
    <3>7. CASE Compare(r)
      BY <3>7 DEF TypeOK, Compare, disk_vars, mem_vars
    <3>8. CASE Close(r)
      BY <3>8 DEF TypeOK, Close, disk_vars, mem_vars
    <3> QED BY <2>6, <3>1, <3>2, <3>3, <3>4, <3>5, <3>6, <3>7, <3>8
            DEF Handle, Lock, Work
  <2>7. CASE UNCHANGED vars
    BY <2>7 DEF TypeOK, vars, disk_vars, mem_vars, req_vars
  <2> QED BY <2>1, <2>2, <2>3, <2>4, <2>5, <2>6, <2>7 DEF Next
<1> QED BY <1>1, <1>2, PTL DEF Spec

-----------------------------------------------------------------------------
(* The inductive invariant. *)

\* Replacing or losing the file keeps, for every token, the time it left the
\* disk, or sets it to the present.
LEMMA RetireLemma ==
  ASSUME TypeOK, Retire
  PROVE  /\ gone' \in [Tokens -> Nat]
         /\ \A v \in Tokens : v # disk => gone'[v] = gone[v]
         /\ disk # NoToken => gone'[disk] = clock
BY BoundAssumption DEF TypeOK, Retire, Tokens, NoToken

\* The token numbers that name a token on disk at some time.
LEMMA TokenRange ==
  ASSUME TypeOK, NEW v \in 0..last, v # NoToken
  PROVE  v \in Tokens /\ gone[v] \in Nat
BY BoundAssumption DEF TypeOK, Tokens, NoToken

\* A token that is written or lost retires the token on disk at `clock'.
LEMMA WriteTokenStep ==
  ASSUME TypeOK, TypeOK', IInv,
         LoseToken \/ \E c \in Operators : WriteToken(c)
  PROVE  IInv'
<1>1. /\ \A v \in Tokens : v # disk => gone'[v] = gone[v]
      /\ disk # NoToken => gone'[disk] = clock
      /\ UNCHANGED <<clock, up, mem_vars, req_vars, served>>
  BY RetireLemma DEF WriteToken, LoseToken
<1>2. /\ disk' # NoToken => disk' = last'
      /\ \A v \in 0..last : v # NoToken => v # disk'
      /\ \A r \in Requests : at[r] \in Nat /\ at[r] <= clock
      /\ clock \in Nat /\ TTL \in Nat \ {0}
  BY TTLAssumption DEF WriteToken, LoseToken, TypeOK, NoToken, IInv, ClockInv
<1>3. ASSUME NEW v \in 0..last, v # NoToken
      PROVE  /\ v \in Tokens /\ gone[v] \in Nat
             /\ v = disk => gone'[v] = clock
             /\ v # disk => gone'[v] = gone[v]
  BY <1>1, <1>3, TokenRange
<1>4. ClockInv'
  BY <1>1, BoundAssumption DEF IInv, ClockInv, TypeOK, Tokens, NoToken, mem_vars, req_vars
<1>5. DiskInv' /\ MutexInv' /\ FloorInv' /\ NoRollback' /\ FailClosed'
  BY <1>1, <1>2 DEF IInv, DiskInv, MutexInv, FloorInv, NoRollback, FailClosed,
                    mem_vars, req_vars
<1>6. CacheInv'
  <2>1. cache # NoToken => until <= gone'[cache] + TTL
    BY <1>2, <1>3 DEF IInv, CacheInv, ClockInv, TypeOK
  <2> QED BY <1>1, <2>1 DEF IInv, CacheInv, mem_vars
<1>7. StoreInv'
  <2>1. ASSUME NEW r \in Requests, pc[r] = "store"
        PROVE  at[r] <= gone'[tok[r]]
    BY <1>2, <1>3, <2>1 DEF IInv, StoreInv, TypeOK
  <2> QED BY <1>1, <2>1 DEF IInv, StoreInv, req_vars
<1>8. CompareInv'
  <2>1. ASSUME NEW r \in Requests, pc[r] = "compare"
        PROVE  at[r] < gone'[tok[r]] + TTL
    BY <1>2, <1>3, <2>1 DEF IInv, CompareInv, TypeOK
  <2> QED BY <1>1, <2>1 DEF IInv, CompareInv, req_vars
<1>9. StaleBound'
  <2>1. ASSUME NEW r \in Requests, pc[r] = "ok"
        PROVE  at[r] < gone'[cred[r]] + TTL
    BY <1>2, <1>3, <2>1 DEF IInv, StaleBound, FailClosed, TypeOK
  <2> QED BY <1>1, <2>1 DEF StaleBound, req_vars
<1>10. RefusedInv'
  <2>1. ASSUME NEW r \in Requests, pc[r] = "unauthorized"
        PROVE  at[r] < gone'[tok[r]] + TTL
    BY <1>2, <1>3, <2>1 DEF IInv, RefusedInv, TypeOK
  <2> QED BY <1>1, <2>1 DEF IInv, RefusedInv, req_vars
<1> QED BY <1>4, <1>5, <1>6, <1>7, <1>8, <1>9, <1>10 DEF IInv

\* A cache hit: the token was on disk less than TTL before the request arrived.
LEMMA HitStep ==
  ASSUME TypeOK, TypeOK', IInv, NEW q \in Requests, Hit(q)
  PROVE  IInv'
<1>1. /\ cache # NoToken /\ at[q] < until /\ pc[q] = "lock"
      /\ tok' = [tok EXCEPT ![q] = cache]
      /\ pc' = [pc EXCEPT ![q] = "compare"]
      /\ UNCHANGED <<clock, disk, last, gone, cache, until, mutex, at, cred, floor>>
  BY DEF Hit, Fresh, disk_vars, mem_vars
<1>2. served' = cache /\ cache >= served /\ cache \in Nat /\ served \in Nat
  BY <1>1 DEF Hit, IInv, CacheInv, TypeOK
<1>3. ClockInv' /\ DiskInv' /\ MutexInv' /\ CacheInv'
  BY <1>1, <1>2 DEF IInv, ClockInv, DiskInv, MutexInv, CacheInv, TypeOK
<1>4. StoreInv'
  <2>1. mutex = Nobody
    BY DEF Hit
  <2>2. \A r \in Requests : pc'[r] # "store"
    BY <1>1, <2>1, NobodyAssumption DEF NobodyAssumption, IInv, MutexInv, TypeOK
  <2> QED BY <2>2 DEF StoreInv
<1>5. CompareInv'
  <2>1. cache # disk => at[q] < gone[cache] + TTL
    <3>1. gone[cache] \in Nat
      BY <1>1, TokenRange DEF TypeOK
    <3> QED BY <1>1, <3>1, TTLAssumption DEF IInv, CacheInv, TypeOK
  <2>2. cache >= floor[q]
    BY <1>2 DEF IInv, FloorInv, TypeOK
  <2>3. ASSUME NEW r \in Requests, pc'[r] = "compare"
        PROVE  /\ tok'[r] # NoToken
               /\ tok'[r] >= floor[r]
               /\ tok'[r] # disk => at[r] < gone[tok'[r]] + TTL
    <3>1. CASE r = q
      BY <1>1, <2>1, <2>2, <3>1 DEF TypeOK
    <3>2. CASE r # q
      BY <1>1, <2>3, <3>2 DEF IInv, CompareInv, TypeOK
    <3> QED BY <3>1, <3>2
  <2> QED BY <1>1, <2>3 DEF CompareInv
<1>6. FloorInv'
  BY <1>1, <1>2 DEF IInv, FloorInv, TypeOK
<1>7. StaleBound' /\ NoRollback' /\ FailClosed' /\ RefusedInv'
  BY <1>1 DEF IInv, StaleBound, NoRollback, FailClosed, RefusedInv, TypeOK
<1> QED BY <1>3, <1>4, <1>5, <1>6, <1>7 DEF IInv

\* The token that was read becomes the cached one, under the mutex that was
\* held for the read.
LEMMA StoreStep ==
  ASSUME TypeOK, TypeOK', IInv, NEW q \in Requests, Store(q)
  PROVE  IInv'
<1>1. /\ pc[q] = "store"
      /\ cache' = tok[q] /\ until' = at[q] + TTL /\ mutex' = Nobody
      /\ pc' = [pc EXCEPT ![q] = "compare"]
      /\ UNCHANGED <<clock, disk, last, gone, at, cred, tok, floor>>
  BY DEF Store, disk_vars
<1>2. /\ tok[q] # NoToken
      /\ tok[q] >= served /\ tok[q] \in Nat /\ served \in Nat
      /\ tok[q] # disk => at[q] <= gone[tok[q]]
      /\ at[q] \in Nat /\ clock \in Nat /\ at[q] <= clock /\ TTL \in Nat \ {0}
  BY <1>1, TTLAssumption DEF IInv, StoreInv, ClockInv, TypeOK
<1>3. gone[tok[q]] \in Nat
  BY <1>2, TokenRange DEF TypeOK
<1>4. served' = tok[q]
  BY <1>2 DEF Store
<1>5. ClockInv' /\ DiskInv'
  BY <1>1, <1>2 DEF IInv, ClockInv, DiskInv
<1>6. \A r \in Requests : pc'[r] \notin {"read", "store", "clear"}
  BY <1>1 DEF IInv, MutexInv, TypeOK
<1>7. MutexInv' /\ StoreInv'
  BY <1>6 DEF MutexInv, StoreInv
<1>8. CacheInv'
  BY <1>1, <1>2, <1>3, <1>4 DEF CacheInv
<1>9. FloorInv'
  BY <1>1, <1>2, <1>4 DEF IInv, FloorInv, TypeOK
<1>10. CompareInv'
  <2>1. tok[q] >= floor[q]
    BY <1>2 DEF IInv, FloorInv, TypeOK
  <2>2. tok[q] # disk => at[q] < gone[tok[q]] + TTL
    BY <1>2, <1>3
  <2> QED BY <1>1, <1>2, <2>1, <2>2 DEF IInv, CompareInv, TypeOK
<1>11. StaleBound' /\ NoRollback' /\ FailClosed' /\ RefusedInv'
  BY <1>1 DEF IInv, StaleBound, NoRollback, FailClosed, RefusedInv, TypeOK
<1> QED BY <1>5, <1>7, <1>8, <1>9, <1>10, <1>11 DEF IInv

LEMMA IInvInductive ==
  ASSUME TypeOK, TypeOK', IInv, [Next]_vars
  PROVE  IInv'
<1>1. CASE Tick \/ Start \/ Stop
  <2>1. CASE Tick
    <3>1. /\ clock' = clock + 1 /\ clock \in Nat
          /\ UNCHANGED <<disk, last, gone, cache, until, mutex, pc, at, cred, tok, floor, served>>
      BY <2>1 DEF Tick, disk_vars, mem_vars, req_vars, TypeOK
    <3>2. ClockInv'
      <4>1. \A v \in Tokens : gone[v] <= clock + 1
        BY <3>1 DEF TypeOK, IInv, ClockInv
      <4>2. \A r \in Requests : at[r] <= clock + 1
        BY <3>1 DEF TypeOK, IInv, ClockInv
      <4>3. until <= (clock + 1) + TTL
        BY <3>1, TTLAssumption DEF TTLAssumption, TypeOK, IInv, ClockInv
      <4> QED BY <3>1, <4>1, <4>2, <4>3 DEF ClockInv
    <3> QED BY <3>1, <3>2 DEF IInv, DiskInv, MutexInv, CacheInv, StoreInv, CompareInv, RefusedInv,
                              FloorInv, StaleBound, NoRollback, FailClosed
  <2>2. CASE Start
    BY <2>2 DEF Start, disk_vars, mem_vars, req_vars, IInv, ClockInv, DiskInv, MutexInv,
                CacheInv, StoreInv, CompareInv, RefusedInv, FloorInv, StaleBound, NoRollback, FailClosed
  <2>3. CASE Stop
    <3>1. /\ UNCHANGED <<clock, disk, last, gone, served>>
          /\ cache' = NoToken /\ until' = 0
          /\ \A r \in Requests : pc'[r] = "idle" /\ at'[r] = 0 /\ floor'[r] = 0
      BY <2>3 DEF Stop, disk_vars, NoToken
    <3>2. ClockInv' /\ FloorInv'
      BY <3>1, TTLAssumption DEF TTLAssumption, TypeOK, IInv, ClockInv, FloorInv
    <3> QED BY <3>1, <3>2 DEF IInv, DiskInv, MutexInv, CacheInv, StoreInv, CompareInv, RefusedInv,
                              StaleBound, NoRollback, FailClosed
  <2> QED BY <1>1, <2>1, <2>2, <2>3
<1>2. CASE LoseToken
  BY <1>2, WriteTokenStep
<1>3. ASSUME NEW c \in Operators, Command(c)
      PROVE  IInv'
  <2>1. CASE BeginGenerate(c) \/ BeginRotate(c)
    BY <2>1 DEF BeginGenerate, BeginRotate, mem_vars, req_vars, IInv, ClockInv,
                DiskInv, MutexInv, CacheInv, StoreInv, CompareInv, RefusedInv, FloorInv,
                StaleBound, NoRollback, FailClosed
  <2>2. CASE WriteToken(c)
    BY <2>2, WriteTokenStep
  <2> QED BY <1>3, <2>1, <2>2 DEF Command
<1>4. ASSUME NEW q \in Requests, Handle(q)
      PROVE  IInv'
  <2>1. CASE Hit(q)
    BY <2>1, HitStep
  <2>2. CASE Store(q)
    BY <2>2, StoreStep
  <2>3. CASE Arrive(q) \/ Miss(q) \/ ReadDisk(q) \/ Clear(q) \/ Compare(q) \/ Close(q)
    <3> USE TTLAssumption, NobodyAssumption DEF TTLAssumption, NobodyAssumption, Answers
    <3>1. CASE Arrive(q)
      <4>1. ClockInv'
        BY <3>1 DEF Arrive, disk_vars, mem_vars, TypeOK, IInv, ClockInv
      <4>2. DiskInv' /\ CacheInv'
        BY <3>1 DEF Arrive, disk_vars, mem_vars, TypeOK, IInv, DiskInv, CacheInv
      <4>3. MutexInv'
        BY <3>1 DEF Arrive, disk_vars, mem_vars, TypeOK, IInv, MutexInv
      <4>4. StoreInv'
        BY <3>1 DEF Arrive, disk_vars, mem_vars, TypeOK, IInv, StoreInv
      <4>5. CompareInv'
        BY <3>1 DEF Arrive, disk_vars, mem_vars, TypeOK, IInv, CompareInv
      <4>6. FloorInv'
        BY <3>1 DEF Arrive, disk_vars, mem_vars, TypeOK, IInv, FloorInv
      <4>7. StaleBound'
        BY <3>1 DEF Arrive, disk_vars, mem_vars, TypeOK, IInv, StaleBound
      <4>8. NoRollback' /\ FailClosed'
        BY <3>1 DEF Arrive, disk_vars, mem_vars, TypeOK, IInv, NoRollback, FailClosed
      <4>9. RefusedInv'
        BY <3>1 DEF Arrive, disk_vars, mem_vars, TypeOK, IInv, RefusedInv
      <4> QED BY <4>1, <4>2, <4>3, <4>4, <4>5, <4>6, <4>7, <4>8, <4>9 DEF IInv
    <3>2. CASE Miss(q)
      <4>1. ClockInv'
        BY <3>2 DEF Miss, disk_vars, TypeOK, IInv, ClockInv
      <4>2. DiskInv' /\ CacheInv'
        BY <3>2 DEF Miss, disk_vars, TypeOK, IInv, DiskInv, CacheInv
      <4>3. MutexInv'
        BY <3>2 DEF Miss, disk_vars, TypeOK, IInv, MutexInv
      <4>4. StoreInv'
        BY <3>2 DEF Miss, disk_vars, TypeOK, IInv, StoreInv
      <4>5. CompareInv'
        BY <3>2 DEF Miss, disk_vars, TypeOK, IInv, CompareInv
      <4>6. FloorInv'
        BY <3>2 DEF Miss, disk_vars, TypeOK, IInv, FloorInv
      <4>7. StaleBound'
        BY <3>2 DEF Miss, disk_vars, TypeOK, IInv, StaleBound
      <4>8. NoRollback' /\ FailClosed'
        BY <3>2 DEF Miss, disk_vars, TypeOK, IInv, NoRollback, FailClosed
      <4>9. RefusedInv'
        BY <3>2 DEF Miss, disk_vars, TypeOK, IInv, RefusedInv
      <4> QED BY <4>1, <4>2, <4>3, <4>4, <4>5, <4>6, <4>7, <4>8, <4>9 DEF IInv
    <3>3. CASE ReadDisk(q)
      <4>1. ClockInv'
        BY <3>3 DEF ReadDisk, disk_vars, mem_vars, TypeOK, IInv, ClockInv
      <4>2. DiskInv' /\ CacheInv'
        BY <3>3 DEF ReadDisk, disk_vars, mem_vars, TypeOK, IInv, DiskInv, CacheInv
      <4>3. MutexInv'
        BY <3>3 DEF ReadDisk, disk_vars, mem_vars, TypeOK, IInv, MutexInv
      <4>4. StoreInv'
        BY <3>3 DEF ReadDisk, disk_vars, mem_vars, TypeOK, IInv, StoreInv, ClockInv, DiskInv, NoToken
      <4>5. CompareInv'
        BY <3>3 DEF ReadDisk, disk_vars, mem_vars, TypeOK, IInv, CompareInv, NoToken
      <4>6. FloorInv'
        BY <3>3 DEF ReadDisk, disk_vars, mem_vars, TypeOK, IInv, FloorInv
      <4>7. StaleBound'
        BY <3>3 DEF ReadDisk, disk_vars, mem_vars, TypeOK, IInv, StaleBound
      <4>8. NoRollback' /\ FailClosed'
        BY <3>3 DEF ReadDisk, disk_vars, mem_vars, TypeOK, IInv, NoRollback, FailClosed
      <4>9. RefusedInv'
        BY <3>3 DEF ReadDisk, disk_vars, mem_vars, TypeOK, IInv, RefusedInv
      <4> QED BY <4>1, <4>2, <4>3, <4>4, <4>5, <4>6, <4>7, <4>8, <4>9 DEF IInv
    <3>4. CASE Clear(q)
      <4>1. ClockInv'
        BY <3>4 DEF Clear, disk_vars, TypeOK, IInv, ClockInv
      <4>2. DiskInv' /\ CacheInv'
        BY <3>4 DEF Clear, disk_vars, TypeOK, IInv, DiskInv, CacheInv, NoToken
      <4>3. MutexInv'
        BY <3>4 DEF Clear, disk_vars, TypeOK, IInv, MutexInv
      <4>4. StoreInv'
        BY <3>4 DEF Clear, disk_vars, TypeOK, IInv, StoreInv
      <4>5. CompareInv'
        BY <3>4 DEF Clear, disk_vars, TypeOK, IInv, CompareInv
      <4>6. FloorInv'
        BY <3>4 DEF Clear, disk_vars, TypeOK, IInv, FloorInv
      <4>7. StaleBound'
        BY <3>4 DEF Clear, disk_vars, TypeOK, IInv, StaleBound
      <4>8. NoRollback' /\ FailClosed'
        BY <3>4 DEF Clear, disk_vars, TypeOK, IInv, NoRollback, FailClosed
      <4>9. RefusedInv'
        BY <3>4 DEF Clear, disk_vars, TypeOK, IInv, RefusedInv
      <4> QED BY <4>1, <4>2, <4>3, <4>4, <4>5, <4>6, <4>7, <4>8, <4>9 DEF IInv
    <3>5. CASE Compare(q)
      <4>1. ClockInv'
        BY <3>5 DEF Compare, disk_vars, mem_vars, TypeOK, IInv, ClockInv
      <4>2. DiskInv' /\ CacheInv'
        BY <3>5 DEF Compare, disk_vars, mem_vars, TypeOK, IInv, DiskInv, CacheInv
      <4>3. MutexInv'
        BY <3>5 DEF Compare, disk_vars, mem_vars, TypeOK, IInv, MutexInv
      <4>4. StoreInv'
        BY <3>5 DEF Compare, disk_vars, mem_vars, TypeOK, IInv, StoreInv
      <4>5. CompareInv'
        BY <3>5 DEF Compare, disk_vars, mem_vars, TypeOK, IInv, CompareInv
      <4>6. FloorInv'
        BY <3>5 DEF Compare, disk_vars, mem_vars, TypeOK, IInv, FloorInv
      <4>7. StaleBound'
        BY <3>5 DEF Compare, disk_vars, mem_vars, TypeOK, IInv, StaleBound, CompareInv
      <4>8. NoRollback' /\ FailClosed'
        BY <3>5 DEF Compare, disk_vars, mem_vars, TypeOK, IInv, NoRollback, FailClosed, CompareInv, NoToken
      <4>9. RefusedInv'
        BY <3>5 DEF Compare, disk_vars, mem_vars, TypeOK, IInv, RefusedInv, CompareInv, NoToken
      <4> QED BY <4>1, <4>2, <4>3, <4>4, <4>5, <4>6, <4>7, <4>8, <4>9 DEF IInv
    <3>6. CASE Close(q)
      <4>1. ClockInv'
        BY <3>6 DEF Close, disk_vars, mem_vars, TypeOK, IInv, ClockInv
      <4>2. DiskInv' /\ CacheInv'
        BY <3>6 DEF Close, disk_vars, mem_vars, TypeOK, IInv, DiskInv, CacheInv
      <4>3. MutexInv'
        BY <3>6 DEF Close, disk_vars, mem_vars, TypeOK, IInv, MutexInv
      <4>4. StoreInv'
        BY <3>6 DEF Close, disk_vars, mem_vars, TypeOK, IInv, StoreInv
      <4>5. CompareInv'
        BY <3>6 DEF Close, disk_vars, mem_vars, TypeOK, IInv, CompareInv
      <4>6. FloorInv'
        BY <3>6 DEF Close, disk_vars, mem_vars, TypeOK, IInv, FloorInv, NoToken
      <4>7. StaleBound'
        BY <3>6 DEF Close, disk_vars, mem_vars, TypeOK, IInv, StaleBound
      <4>8. NoRollback' /\ FailClosed'
        BY <3>6 DEF Close, disk_vars, mem_vars, TypeOK, IInv, NoRollback, FailClosed
      <4>9. RefusedInv'
        BY <3>6 DEF Close, disk_vars, mem_vars, TypeOK, IInv, RefusedInv
      <4> QED BY <4>1, <4>2, <4>3, <4>4, <4>5, <4>6, <4>7, <4>8, <4>9 DEF IInv
    <3> QED BY <2>3, <3>1, <3>2, <3>3, <3>4, <3>5, <3>6
  <2> QED BY <1>4, <2>1, <2>2, <2>3 DEF Handle, Lock, Work
<1>5. CASE UNCHANGED vars
  BY <1>5 DEF vars, disk_vars, mem_vars, req_vars, IInv, ClockInv, DiskInv,
              MutexInv, CacheInv, StoreInv, CompareInv, RefusedInv, FloorInv, StaleBound,
              NoRollback, FailClosed
<1> QED BY <1>1, <1>2, <1>3, <1>4, <1>5 DEF Next

-----------------------------------------------------------------------------
(* The theorems. *)

LEMMA Invariance == Spec => [](TypeOK /\ IInv)
<1>1. Init => IInv
  BY TTLAssumption DEF Init, IInv, ClockInv, DiskInv, MutexInv, CacheInv, StoreInv,
     CompareInv, RefusedInv, FloorInv, StaleBound, NoRollback, FailClosed, NoToken, Tokens
<1>2. TypeOK /\ TypeOK' /\ IInv /\ [Next]_vars => IInv'
  BY IInvInductive
<1> QED BY <1>1, <1>2, TypeCorrect, PTL DEF Spec

\* Revocation takes effect within one TTL, whatever the load.
THEOREM RevocationBounded == Spec => []StaleBound
<1>1. IInv => StaleBound
  BY DEF IInv
<1> QED BY <1>1, Invariance, PTL

\* A rotated-in token is accepted within one TTL, whatever the load.
THEOREM NewTokenAccepted == Spec => []RotationTakesHold
<1>1. IInv => RotationTakesHold
  BY DEF IInv, RefusedInv, RotationTakesHold
<1> QED BY <1>1, Invariance, PTL

\* No request is authorised by a token older than one already in use when it
\* arrived.
THEOREM NeverRollsBack == Spec => []NoRollback
<1>1. IInv => NoRollback
  BY DEF IInv
<1> QED BY <1>1, Invariance, PTL

\* No request without a credential is authorised.
THEOREM AlwaysFailsClosed == Spec => []FailClosed
<1>1. IInv => FailClosed
  BY DEF IInv
<1> QED BY <1>1, Invariance, PTL
=============================================================================
