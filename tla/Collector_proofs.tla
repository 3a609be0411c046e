-------------------------- MODULE Collector_proofs --------------------------
(***************************************************************************)
(* Safety of concurrent snapshots for any number of callers, any clock and *)
(* any width of the counters.  Between a reading and its use nobody else   *)
(* replaces the previous sample (MutexInv), so every reading lies at or    *)
(* after it (SampleInv); the cache, a walk that waits to store and a       *)
(* caller that has its answer each hold a content the directory had late   *)
(* enough (SizeInv).                                                       *)
(***************************************************************************)
EXTENDS Collector, TLAPS

MutexInv == \A s \in Callers : pc[s] \in {"sample", "derive"} <=> mutex = s

\* Counters only grow, but for total, and not by more busy ticks than ticks.
Later(b, t) == b <= busy /\ (setbacks = 0 => t <= total /\ t - b <= total - busy)

SampleInv ==
  /\ setbacks = 0 => total = clock + 1
  /\ hasPrev => Later(prevBusy, prevTotal) /\ (setbacks = 0 => prevTotal > 0)
  /\ ~hasPrev => accounted = 0
  /\ WindowsAddUp
  /\ \A s \in Callers : pc[s] = "derive" /\ sample[s] # NotObtained =>
       /\ Later(sample[s].busy, sample[s].total)
       /\ setbacks = 0 => sample[s].total > 0
       /\ hasPrev =>
            /\ prevBusy <= sample[s].busy
            /\ setbacks = 0 =>
                 /\ prevTotal <= sample[s].total
                 /\ prevTotal - prevBusy <= sample[s].total - sample[s].busy

\* A content that the directory had at time t or later.
HadSince(v, t) == v # NotObtained /\ v # version => ended[v] >= t

SizeInv ==
  /\ cacheAt <= clock /\ HadSince(cacheValue, cacheAt)
  /\ \A s \in Callers :
       /\ pc[s] = "store" => HadSince(dir[s], since[s])
       /\ pc[s] \notin {"store", "done"} => dir[s] = NotObtained

IInv == TypeOK /\ MutexInv /\ SampleInv /\ RateIsReal /\ SizeInv /\ SizeIsRecent

-----------------------------------------------------------------------------
(* Arithmetic *)

LEMMA ModRange ==
  \A a \in Int, n \in Nat \ {0} : a % n \in Nat /\ a % n < n
  OBVIOUS

LEMMA ModSmall ==
  \A a \in Nat, n \in Nat \ {0} : a < n => a % n = a
  OBVIOUS

LEMMA DivNat ==
  \A a \in Nat, n \in Nat \ {0} : a \div n \in Nat
  OBVIOUS

\* A share is a percentage.
LEMMA DivPercent ==
  ASSUME NEW b \in Nat, NEW t \in Nat \ {0}, b <= t
  PROVE  (100 * b) \div t \in 0..100
<1> DEFINE q == (100 * b) \div t
<1>1. 100 * b \in Nat /\ 100 * b <= 100 * t
  OBVIOUS
<1>2. q \in Nat /\ t * q <= 100 * b
  BY <1>1, DivNat
<1>3. ASSUME q > 100 PROVE FALSE
  <2> HIDE DEF q
  <2>1. t * q >= t * 101
    BY <1>2, <1>3
  <2> QED BY <1>1, <1>2, <2>1
<1> QED BY <1>2, <1>3

LEMMA RateType ==
  ASSUME NEW b \in Nat, NEW t \in Nat
  PROVE  Rate([busy |-> b, total |-> t]) \in Percent
<1>1. CASE t = 0
  BY <1>1 DEF Rate, Percent
<1>2. CASE t # 0
  <2>1. (100 * b) \div t \in Nat
    BY <1>2, DivNat
  <2> DEFINE q == (100 * b) \div t
  <2>2. Rate([busy |-> b, total |-> t]) = IF q > 100 THEN 100 ELSE q
    BY <1>2 DEF Rate
  <2> HIDE DEF q
  <2> QED BY <2>1, <2>2 DEF Percent, q
<1> QED BY <1>1, <1>2

\* What Window makes of a reading.
LEMMA WindowType ==
  ASSUME TypeOK, NEW r \in [busy : Nat, total : Nat]
  PROVE  /\ Window(r).busy \in Nat /\ Window(r).total \in Nat
         /\ Window(r) = [busy |-> Window(r).busy, total |-> Window(r).total]
         /\ prevBusy <= r.busy => Window(r).busy = r.busy - prevBusy
         /\ prevTotal <= r.total /\ r.total - prevTotal < Modulus =>
              Window(r).total = r.total - prevTotal
<1>1. Modulus \in Nat \ {0}
  BY CounterAssumption DEF CounterAssumption
<1>2. /\ prevBusy \in Nat /\ prevTotal \in Nat /\ r.busy \in Nat /\ r.total \in Nat
  BY DEF TypeOK
<1>3. r.total - prevTotal \in Int
  BY <1>2
<1>4. (r.total - prevTotal) % Modulus \in Nat
  BY <1>1, <1>3, ModRange
<1>5. prevTotal <= r.total /\ r.total - prevTotal < Modulus =>
        (r.total - prevTotal) % Modulus = r.total - prevTotal
  BY <1>1, <1>2, ModSmall
<1> QED BY <1>2, <1>4, <1>5 DEF Window

-----------------------------------------------------------------------------
(* Every action keeps the parts of the invariant. *)

LEMMA InitIInv == Init => IInv
<1> SUFFICES ASSUME Init PROVE IInv
  OBVIOUS
<1>1. TypeOK
  <2>1. /\ clock \in 0..MaxTime /\ setbacks \in 0..MaxSetbacks /\ version \in Versions
        /\ ended \in [Versions -> Nat]
    BY CounterAssumption DEF Init, Versions, CounterAssumption
  <2>2. /\ pc \in [Callers -> Steps] /\ sample \in [Callers -> Sample]
        /\ cpu \in [Callers -> Percent \cup {NotObtained}] /\ window \in [Callers -> Sample]
        /\ since \in [Callers -> 0..clock]
        /\ dir \in [Callers -> 1..version \cup {NotObtained}]
    BY DEF Init, Steps, Sample
  <2>3. /\ mutex \in Callers \cup {Nobody} /\ hasPrev \in BOOLEAN
        /\ cacheValue \in 1..version \cup {NotObtained}
    BY ZenonT(20) DEF Init
  <2>4. /\ busy \in Nat /\ total \in Nat /\ busy <= clock
        /\ prevBusy \in Nat /\ prevTotal \in Nat /\ cacheAt \in Nat
        /\ accounted \in Nat /\ first \in Nat
    BY DEF Init
  <2> QED BY <2>1, <2>2, <2>3, <2>4 DEF TypeOK
<1>2. MutexInv
  BY NobodyAssumption DEF Init, MutexInv, NobodyAssumption
<1>3. SampleInv
  BY DEF Init, SampleInv, WindowsAddUp
<1>4. RateIsReal /\ SizeInv /\ SizeIsRecent
  BY DEF Init, RateIsReal, SizeInv, SizeIsRecent, HadSince
<1> QED BY <1>1, <1>2, <1>3, <1>4 DEF IInv

LEMMA TypeStep == TypeOK /\ [Next]_vars => TypeOK'
<1> SUFFICES ASSUME TypeOK, [Next]_vars PROVE TypeOK'
  OBVIOUS
<1> USE DEF kernel_vars, tree_vars, prev_vars, cache_vars, core_vars, size_vars, history,
            call_vars, Goto
<1>0. /\ clock \in Nat /\ MaxTime \in Nat /\ MaxVersion \in Nat /\ version \in Nat
      /\ 0..clock \subseteq Nat
  BY CounterAssumption DEF CounterAssumption, TypeOK, Versions
<1>1. CASE Tick
  <2>1. /\ clock' \in 0..MaxTime /\ busy' \in Nat /\ total' \in Nat /\ busy' <= clock'
        /\ 0..clock \subseteq 0..clock'
    BY <1>0, <1>1 DEF Tick, TypeOK
  <2>2. since' \in [Callers -> 0..clock']
    BY <1>1, <2>1 DEF Tick, TypeOK
  <2> QED BY <1>1, <2>1, <2>2 DEF Tick, TypeOK
<1>2. CASE Setback
  <2>1. setbacks' \in 0..MaxSetbacks /\ total' \in Nat
    BY <1>2, CounterAssumption DEF CounterAssumption, Setback, TypeOK
  <2> QED BY <1>2, <2>1 DEF Setback, TypeOK
<1>3. CASE ChangeDirectory
  <2>1. /\ version' \in Versions /\ 1..version \subseteq 1..version'
        /\ ended' \in [Versions -> Nat]
    BY <1>0, <1>3 DEF ChangeDirectory, TypeOK, Versions
  <2>2. /\ cacheValue' \in 1..version' \cup {NotObtained}
        /\ dir' \in [Callers -> 1..version' \cup {NotObtained}]
    BY <1>3, <2>1 DEF ChangeDirectory, TypeOK
  <2> QED BY <1>3, <2>1, <2>2 DEF ChangeDirectory, TypeOK
<1>4. ASSUME NEW s \in Callers, Lock(s) PROVE TypeOK'
  BY <1>4 DEF Lock, TypeOK, Steps
<1>5. ASSUME NEW s \in Callers, ReadSample(s) PROVE TypeOK'
  <2>1. sample' \in [Callers -> Sample]
    BY <1>5 DEF ReadSample, TypeOK, Sample
  <2> QED BY <1>5, <2>1 DEF ReadSample, TypeOK, Steps
<1>6. ASSUME NEW s \in Callers, DeriveNothing(s) PROVE TypeOK'
  BY <1>6 DEF DeriveNothing, TypeOK, Sample, Steps
<1>7. ASSUME NEW s \in Callers, Derive(s) PROVE TypeOK'
  <2> DEFINE w == Window(sample[s])
  <2>1. sample[s] \in [busy : Nat, total : Nat]
    BY <1>7 DEF Derive, TypeOK, Sample
  <2>2. w.busy \in Nat /\ w.total \in Nat /\ w = [busy |-> w.busy, total |-> w.total]
    BY <2>1, WindowType
  <2>3. Rate(w) \in Percent /\ 0 \in Percent /\ w \in Sample
    <3> HIDE DEF w
    <3>1. w \in Sample
      BY <2>2 DEF Sample
    <3> QED BY <2>2, <3>1, RateType DEF Percent
  <2>4. /\ cpu' \in [Callers -> Percent \cup {NotObtained}] /\ window' \in [Callers -> Sample]
        /\ accounted' \in Nat /\ first' \in Nat
    <3> HIDE DEF w
    <3>1. CASE hasPrev
      <4>1. /\ cpu' = [cpu EXCEPT ![s] = Rate(w)] /\ window' = [window EXCEPT ![s] = w]
            /\ accounted' = accounted + w.busy /\ first' = first
        BY <1>7, <3>1 DEF Derive, w
      <4> QED BY <2>2, <2>3, <4>1 DEF TypeOK
    <3>2. CASE ~hasPrev
      <4>1. /\ cpu' = [cpu EXCEPT ![s] = 0] /\ window' = [window EXCEPT ![s] = NotObtained]
            /\ accounted' = accounted /\ first' = sample[s].busy
        BY <1>7, <3>2 DEF Derive
      <4>2. NotObtained \in Sample
        BY DEF Sample
      <4> QED BY <2>1, <2>3, <4>1, <4>2 DEF TypeOK
    <3> QED BY <3>1, <3>2
  <2>5. prevBusy' \in Nat /\ prevTotal' \in Nat /\ sample' \in [Callers -> Sample]
    BY <1>7, <2>1 DEF Derive, TypeOK, Sample
  <2>6. pc' \in [Callers -> Steps] /\ hasPrev' \in BOOLEAN /\ mutex' \in Callers \cup {Nobody}
    BY <1>7 DEF Derive, TypeOK, Steps
  <2>7. UNCHANGED <<kernel_vars, tree_vars, cache_vars, size_vars>>
    BY <1>7 DEF Derive
  <2> QED BY <2>4, <2>5, <2>6, <2>7 DEF TypeOK
<1>8. ASSUME NEW s \in Callers, EnterDirSize(s) PROVE TypeOK'
  <2>1. since' \in [Callers -> 0..clock]
    BY <1>0, <1>8 DEF EnterDirSize, TypeOK
  <2> QED BY <1>8, <2>1 DEF EnterDirSize, TypeOK, Steps, Sample
<1>9. ASSUME NEW s \in Callers, CacheHit(s) \/ CacheMiss(s) \/ WalkFails(s) PROVE TypeOK'
  BY <1>9 DEF CacheHit, CacheMiss, WalkFails, TypeOK, Steps
<1>10. ASSUME NEW s \in Callers, Walk(s) PROVE TypeOK'
  <2>1. version \in 1..version
    BY DEF TypeOK, Versions
  <2> QED BY <1>10, <2>1 DEF Walk, TypeOK, Steps
<1>11. ASSUME NEW s \in Callers, StoreSize(s) PROVE TypeOK'
  <2>1. cacheAt' \in Nat /\ cacheValue' \in 1..version \cup {NotObtained}
    BY <1>0, <1>11 DEF StoreSize, TypeOK
  <2> QED BY <1>11, <2>1 DEF StoreSize, TypeOK, Steps
<1>12. ASSUME NEW s \in Callers, Close(s) PROVE TypeOK'
  <2>1. since' \in [Callers -> 0..clock]
    BY <1>0, <1>12 DEF Close, TypeOK
  <2> QED BY <1>12, <2>1 DEF Close, TypeOK, Steps
<1>13. CASE UNCHANGED vars
  BY <1>13 DEF vars, TypeOK
<1> QED BY <1>1, <1>2, <1>3, <1>4, <1>5, <1>6, <1>7, <1>8, <1>9, <1>10, <1>11, <1>12, <1>13
        DEF Next, SampleCore, DirSize

LEMMA MutexStep == TypeOK /\ MutexInv /\ [Next]_vars => MutexInv'
<1> SUFFICES ASSUME TypeOK, MutexInv, [Next]_vars PROVE MutexInv'
  OBVIOUS
<1> USE DEF Goto
<1>1. CASE UNCHANGED <<pc, mutex>>
  BY <1>1 DEF MutexInv
<1>2. ASSUME NEW s \in Callers, Lock(s) PROVE MutexInv'
  BY <1>2, NobodyAssumption DEF Lock, TypeOK, MutexInv, NobodyAssumption
<1>3. ASSUME NEW s \in Callers, ReadSample(s) PROVE MutexInv'
  BY <1>3 DEF ReadSample, TypeOK, MutexInv
<1>4. ASSUME NEW s \in Callers, DeriveNothing(s) \/ Derive(s) PROVE MutexInv'
  BY <1>4, NobodyAssumption DEF DeriveNothing, Derive, TypeOK, MutexInv, NobodyAssumption
<1>5. ASSUME NEW s \in Callers, DirSize(s) \/ Close(s) PROVE MutexInv'
  BY <1>5 DEF DirSize, EnterDirSize, CacheHit, CacheMiss, Walk, WalkFails, StoreSize,
       Close, TypeOK, MutexInv
<1> QED BY <1>1, <1>2, <1>3, <1>4, <1>5
        DEF Next, SampleCore, Tick, Setback, ChangeDirectory, call_vars, vars

LEMMA SampleStep == TypeOK /\ MutexInv /\ SampleInv /\ [Next]_vars => SampleInv'
<1> SUFFICES ASSUME TypeOK, MutexInv, SampleInv, [Next]_vars PROVE SampleInv'
  OBVIOUS
<1> USE DEF Goto, kernel_vars, tree_vars, prev_vars, cache_vars, core_vars, size_vars,
            history, call_vars
<1>0. /\ clock \in Nat /\ busy \in Nat /\ total \in Nat /\ setbacks \in Nat
      /\ prevBusy \in Nat /\ prevTotal \in Nat /\ accounted \in Nat /\ first \in Nat
      /\ \A s \in Callers : sample[s] # NotObtained =>
           sample[s].busy \in Nat /\ sample[s].total \in Nat
  <2>1. \A s \in Callers : sample[s] # NotObtained => sample[s] \in [busy : Nat, total : Nat]
    BY DEF TypeOK, Sample
  <2> QED BY <2>1, CounterAssumption DEF CounterAssumption, TypeOK
<1>1. CASE Tick
  BY <1>0, <1>1 DEF Tick, SampleInv, Later, WindowsAddUp
<1>2. CASE Setback
  BY <1>0, <1>2 DEF Setback, SampleInv, Later, WindowsAddUp
<1>3. CASE ChangeDirectory
  BY <1>3 DEF ChangeDirectory, SampleInv, Later, WindowsAddUp
<1>4. ASSUME NEW s \in Callers, ReadSample(s) PROVE SampleInv'
  <2>1. /\ UNCHANGED <<kernel_vars, prev_vars, history>>
        /\ \A q \in Callers \ {s} : sample'[q] = sample[q] /\ pc'[q] = pc[q]
        /\ sample'[s] = NotObtained \/ sample'[s] = [busy |-> busy, total |-> total]
    BY <1>4 DEF ReadSample, TypeOK
  <2>2. /\ setbacks = 0 => total > 0
        /\ hasPrev => Later(prevBusy, prevTotal)
    BY <1>0 DEF SampleInv
  <2>3. sample'[s] # NotObtained => sample'[s].busy = busy /\ sample'[s].total = total
    BY <2>1
  <2> QED BY <1>0, <2>1, <2>2, <2>3 DEF SampleInv, Later, WindowsAddUp
<1>5. ASSUME NEW s \in Callers, Derive(s) PROVE SampleInv'
  <2> DEFINE r == sample[s]
             w == Window(r)
  <2>1. r \in [busy : Nat, total : Nat] /\ pc[s] = "derive" /\ r # NotObtained
    BY <1>5 DEF Derive, TypeOK, Sample
  <2>2. hasPrev => prevBusy <= r.busy
    BY <2>1 DEF SampleInv
  <2>3. hasPrev => w.busy = r.busy - prevBusy
    BY <2>1, <2>2, WindowType
  <2>4. WindowsAddUp'
    <3>1. CASE hasPrev
      <4>1. accounted' = accounted + w.busy /\ first' = first /\ prevBusy' = r.busy
        BY <1>5, <3>1 DEF Derive
      <4> QED BY <1>0, <2>1, <2>3, <3>1, <4>1 DEF SampleInv, WindowsAddUp
    <3>2. CASE ~hasPrev
      <4>1. accounted' = accounted /\ first' = r.busy /\ prevBusy' = r.busy
        BY <1>5, <3>2 DEF Derive
      <4> QED BY <1>0, <2>1, <3>2, <4>1 DEF SampleInv, WindowsAddUp
    <3> QED BY <3>1, <3>2
  <2>5. \A q \in Callers : pc'[q] # "derive"
    BY <1>5 DEF Derive, MutexInv, TypeOK
  <2>6. /\ UNCHANGED kernel_vars /\ hasPrev' = TRUE
        /\ prevBusy' = r.busy /\ prevTotal' = r.total
    BY <1>5 DEF Derive
  <2>7. Later(r.busy, r.total) /\ (setbacks = 0 => r.total > 0)
    BY <2>1 DEF SampleInv
  <2> HIDE DEF w
  <2> QED BY <2>4, <2>5, <2>6, <2>7 DEF SampleInv, Later
\* The others leave the counters, the previous sample and the readings alone.
<1>6. ASSUME UNCHANGED <<kernel_vars, prev_vars, history, sample>>,
             \A s \in Callers : pc'[s] = "derive" => pc[s] = "derive"
      PROVE  SampleInv'
  BY <1>6 DEF SampleInv, Later, WindowsAddUp
<1>7. ASSUME NEW s \in Callers, Lock(s) \/ DeriveNothing(s) \/ DirSize(s) \/ Close(s)
      PROVE  SampleInv'
  <2>1. UNCHANGED <<kernel_vars, prev_vars, history, sample>>
    BY <1>7 DEF Lock, DeriveNothing, DirSize, EnterDirSize, CacheHit, CacheMiss, Walk,
         WalkFails, StoreSize, Close
  <2>2. \A q \in Callers : pc'[q] = "derive" => pc[q] = "derive"
    BY <1>7 DEF Lock, DeriveNothing, DirSize, EnterDirSize, CacheHit, CacheMiss, Walk,
         WalkFails, StoreSize, Close, TypeOK
  <2> QED BY <1>6, <2>1, <2>2
<1>8. CASE UNCHANGED vars
  BY <1>6, <1>8 DEF vars
<1> QED BY <1>1, <1>2, <1>3, <1>4, <1>5, <1>7, <1>8 DEF Next, SampleCore

\* What one caller's window and rate have to do with each other.
RealRate(w, rate) == (w # NotObtained /\ w.total > 0) =>
  /\ rate \in Percent
  /\ setbacks = 0 =>
       w.total <= clock /\ w.busy <= w.total /\ rate = (100 * w.busy) \div w.total

LEMMA RateStep == TypeOK /\ SampleInv /\ RateIsReal /\ [Next]_vars => RateIsReal'
<1> SUFFICES ASSUME TypeOK, SampleInv, RateIsReal, [Next]_vars PROVE RateIsReal'
  OBVIOUS
<1> USE DEF Goto, kernel_vars, tree_vars, prev_vars, cache_vars, core_vars, size_vars,
            history, call_vars
<1>0. /\ clock \in Nat /\ setbacks \in Nat
      /\ \A q \in Callers : window[q] # NotObtained => window[q].total \in Nat
      /\ \A q \in Callers : RealRate(window[q], cpu[q])
  <2>1. \A q \in Callers : window[q] # NotObtained => window[q] \in [busy : Nat, total : Nat]
    BY DEF TypeOK, Sample
  <2> QED BY <2>1 DEF TypeOK, RateIsReal, RealRate
<1>1. ASSUME \A q \in Callers : RealRate(window[q], cpu[q])' PROVE RateIsReal'
  BY <1>1 DEF RateIsReal, RealRate
<1>2. ASSUME UNCHANGED <<window, cpu>>, clock' \in Nat, clock' >= clock,
             setbacks' = 0 => setbacks = 0
      PROVE  RateIsReal'
  BY <1>0, <1>1, <1>2 DEF RealRate
<1>3. CASE Tick \/ Setback \/ ChangeDirectory
  BY <1>0, <1>2, <1>3 DEF Tick, Setback, ChangeDirectory
<1>4. ASSUME NEW s \in Callers,
             window' = [window EXCEPT ![s] = NotObtained], UNCHANGED <<clock, setbacks>>,
             \A q \in Callers \ {s} : cpu'[q] = cpu[q]
      PROVE  RateIsReal'
  BY <1>0, <1>1, <1>4 DEF RealRate, TypeOK
<1>5. ASSUME NEW s \in Callers, DeriveNothing(s) \/ EnterDirSize(s) PROVE RateIsReal'
  BY <1>4, <1>5 DEF DeriveNothing, EnterDirSize, TypeOK
<1>6. ASSUME NEW s \in Callers, Derive(s) PROVE RateIsReal'
  <2> DEFINE r == sample[s]
             w == Window(r)
  <2>1. r \in [busy : Nat, total : Nat] /\ pc[s] = "derive" /\ r # NotObtained
    BY <1>6 DEF Derive, TypeOK, Sample
  <2>2. CASE ~hasPrev
    BY <1>4, <1>6, <2>2 DEF Derive, TypeOK
  <2>3. CASE hasPrev
    <3>1. w.busy \in Nat /\ w.total \in Nat /\ w = [busy |-> w.busy, total |-> w.total]
      BY <2>1, WindowType
    <3>2. /\ window' = [window EXCEPT ![s] = w] /\ cpu' = [cpu EXCEPT ![s] = Rate(w)]
          /\ UNCHANGED <<clock, setbacks>>
      BY <1>6, <2>3 DEF Derive
    <3>3. Rate(w) \in Percent
      <4> HIDE DEF w
      <4> QED BY <3>1, RateType
    <3>4. ASSUME setbacks = 0, w.total > 0
          PROVE  /\ w.total <= clock /\ w.busy <= w.total
                 /\ Rate(w) = (100 * w.busy) \div w.total
      <4>1. /\ prevBusy <= r.busy /\ prevTotal <= r.total /\ prevTotal > 0
            /\ prevTotal - prevBusy <= r.total - r.busy
            /\ r.total <= total /\ total = clock + 1
        BY <2>1, <2>3, <3>4 DEF SampleInv, Later
      <4>2. /\ r.total \in Nat /\ r.busy \in Nat /\ prevTotal \in Nat /\ prevBusy \in Nat
            /\ clock <= MaxTime /\ MaxTime \in Nat /\ Modulus \in Nat /\ 100 * MaxTime < Modulus
        BY <2>1, CounterAssumption DEF CounterAssumption, TypeOK
      <4>3. r.total - prevTotal <= clock /\ r.total - prevTotal < Modulus
        BY <1>0, <4>1, <4>2
      <4>4. w.total = r.total - prevTotal /\ w.busy = r.busy - prevBusy
        BY <2>1, <4>1, <4>3, WindowType
      <4>5. w.total <= clock /\ w.busy <= w.total
        BY <4>1, <4>2, <4>3, <4>4
      <4> HIDE DEF w
      <4>6. (100 * w.busy) \div w.total \in 0..100
        BY <3>1, <3>4, <4>5, DivPercent
      <4> DEFINE pct == (100 * w.busy) \div w.total
      <4>7. Rate(w) = IF pct > 100 THEN 100 ELSE pct
        BY <3>1, <3>4 DEF Rate
      <4> HIDE DEF pct
      <4>8. Rate(w) = pct
        <5>1. pct \in 0..100
          BY <4>6 DEF pct
        <5> QED BY <4>7, <5>1
      <4> QED BY <4>5, <4>8 DEF pct
    <3> HIDE DEF w
    <3>5. RealRate(w, Rate(w))
      BY <3>3, <3>4 DEF RealRate
    <3>6. /\ window'[s] = w /\ cpu'[s] = Rate(w)
          /\ \A q \in Callers \ {s} : window'[q] = window[q] /\ cpu'[q] = cpu[q]
      BY <3>2 DEF TypeOK
    <3> QED BY <1>0, <1>1, <3>2, <3>5, <3>6 DEF RealRate
  <2> QED BY <2>2, <2>3
<1>7. ASSUME NEW s \in Callers, Lock(s) \/ ReadSample(s) \/ CacheHit(s) \/ CacheMiss(s)
               \/ Walk(s) \/ WalkFails(s) \/ StoreSize(s) \/ Close(s)
      PROVE  RateIsReal'
  BY <1>0, <1>2, <1>7 DEF Lock, ReadSample, CacheHit, CacheMiss, Walk, WalkFails,
       StoreSize, Close
<1>8. CASE UNCHANGED vars
  BY <1>0, <1>2, <1>8 DEF vars
<1> QED BY <1>3, <1>5, <1>6, <1>7, <1>8 DEF Next, SampleCore, DirSize

\* An answer at most TTL old.
Recent(s) == (dir[s] # NotObtained /\ dir[s] # version) => ended[dir[s]] > since[s] - TTL

LEMMA SizeStep == TypeOK /\ SizeInv /\ SizeIsRecent /\ [Next]_vars => SizeInv' /\ SizeIsRecent'
<1> SUFFICES ASSUME TypeOK, SizeInv, SizeIsRecent, [Next]_vars
             PROVE  SizeInv' /\ SizeIsRecent'
  OBVIOUS
<1> USE DEF Goto, kernel_vars, tree_vars, prev_vars, cache_vars, core_vars, size_vars,
            history, call_vars
<1>0. /\ clock \in Nat /\ version \in Nat /\ cacheAt \in Nat /\ TTL \in Nat \ {0}
      /\ version \in Versions /\ 1..version \subseteq Versions
      /\ \A v \in Versions : ended[v] \in Nat
      /\ \A s \in Callers : since[s] \in Nat /\ since[s] <= clock
      /\ \A s \in Callers : Recent(s)
  BY TTLAssumption, CounterAssumption
     DEF TTLAssumption, CounterAssumption, TypeOK, Versions, SizeIsRecent, Recent
<1>1. ASSUME UNCHANGED <<version, ended, cacheAt, cacheValue, since, dir>>,
             clock' \in Nat, clock' >= clock,
             \A s \in Callers : pc'[s] \in {"store", "done"} <=> pc[s] \in {"store", "done"},
             \A s \in Callers : pc'[s] = "store" <=> pc[s] = "store"
      PROVE  SizeInv' /\ SizeIsRecent'
  BY <1>0, <1>1 DEF SizeInv, SizeIsRecent, HadSince, Recent
<1>2. CASE Tick \/ Setback
  BY <1>0, <1>1, <1>2 DEF Tick, Setback
<1>3. CASE ChangeDirectory
  <2>1. /\ version' = version + 1 /\ ended' = [ended EXCEPT ![version] = clock]
        /\ UNCHANGED <<clock, cacheAt, cacheValue, since, dir, pc>>
    BY <1>3 DEF ChangeDirectory
  <2>2. ended'[version] = clock /\ \A v \in Versions \ {version} : ended'[v] = ended[v]
    BY <1>0, <2>1 DEF TypeOK
  <2>3. \A v \in 1..version \cup {NotObtained}, t \in Nat :
          t <= clock /\ HadSince(v, t) => HadSince(v, t)'
    BY <1>0, <2>1, <2>2 DEF HadSince
  <2>4. SizeInv'
    <3>1. HadSince(cacheValue, cacheAt)'
      BY <1>0, <2>1, <2>3 DEF SizeInv, TypeOK, HadSince
    <3>2. \A s \in Callers : pc[s] = "store" => HadSince(dir[s], since[s])'
      BY <1>0, <2>1, <2>3 DEF SizeInv, TypeOK, HadSince
    <3> QED BY <2>1, <3>1, <3>2 DEF SizeInv, HadSince
  <2>5. ASSUME NEW s \in Callers, dir[s] # NotObtained PROVE ended'[dir[s]] > since[s] - TTL
    <3>1. dir[s] \in 1..version
      BY <2>5 DEF TypeOK
    <3>2. CASE dir[s] = version
      BY <1>0, <2>2, <3>2
    <3>3. CASE dir[s] # version
      BY <1>0, <2>2, <2>5, <3>1, <3>3 DEF Recent
    <3> QED BY <3>2, <3>3
  <2> QED BY <2>1, <2>4, <2>5 DEF SizeIsRecent
\* One caller moves, the directory and the clock stay.
<1>4. ASSUME NEW s \in Callers, UNCHANGED <<clock, version, ended>>,
             \A q \in Callers \ {s} : pc'[q] = pc[q] /\ since'[q] = since[q] /\ dir'[q] = dir[q],
             cacheAt' <= clock /\ HadSince(cacheValue', cacheAt'),
             pc'[s] = "store" => HadSince(dir'[s], since'[s]),
             pc'[s] \notin {"store", "done"} => dir'[s] = NotObtained,
             dir'[s] # NotObtained /\ dir'[s] # version => ended[dir'[s]] > since'[s] - TTL
      PROVE  SizeInv' /\ SizeIsRecent'
  BY <1>0, <1>4 DEF SizeInv, SizeIsRecent, HadSince, Recent
<1>5. ASSUME NEW s \in Callers, Lock(s) \/ ReadSample(s) \/ DeriveNothing(s) \/ Derive(s)
      PROVE  SizeInv' /\ SizeIsRecent'
  BY <1>0, <1>1, <1>5 DEF Lock, ReadSample, DeriveNothing, Derive, TypeOK
<1>6. ASSUME NEW s \in Callers, EnterDirSize(s) PROVE SizeInv' /\ SizeIsRecent'
  BY <1>4, <1>6 DEF EnterDirSize, SizeInv, TypeOK
<1>7. ASSUME NEW s \in Callers, CacheHit(s) PROVE SizeInv' /\ SizeIsRecent'
  <2>1. /\ cacheValue \in 1..version /\ since[s] - cacheAt < TTL
        /\ dir' = [dir EXCEPT ![s] = cacheValue] /\ pc' = [pc EXCEPT ![s] = "done"]
        /\ UNCHANGED <<clock, version, ended, cacheAt, cacheValue, since>>
    BY <1>7 DEF CacheHit, Cached, TypeOK
  <2>2. cacheValue # version => ended[cacheValue] > since[s] - TTL
    <3>1. cacheValue # version => ended[cacheValue] >= cacheAt
      BY <1>7 DEF CacheHit, Cached, SizeInv, HadSince
    <3> QED BY <1>0, <2>1, <3>1
  <2> QED BY <1>4, <2>1, <2>2 DEF SizeInv, TypeOK
<1>8. ASSUME NEW s \in Callers, CacheMiss(s) \/ WalkFails(s) PROVE SizeInv' /\ SizeIsRecent'
  <2>1. dir[s] = NotObtained
    BY <1>8 DEF CacheMiss, WalkFails, SizeInv
  <2> QED BY <1>4, <1>8, <2>1 DEF CacheMiss, WalkFails, SizeInv, TypeOK
<1>9. ASSUME NEW s \in Callers, Walk(s) PROVE SizeInv' /\ SizeIsRecent'
  BY <1>4, <1>9 DEF Walk, SizeInv, HadSince, TypeOK
<1>10. ASSUME NEW s \in Callers, StoreSize(s) PROVE SizeInv' /\ SizeIsRecent'
  BY <1>0, <1>4, <1>10 DEF StoreSize, SizeInv, Recent, TypeOK
<1>11. ASSUME NEW s \in Callers, Close(s) PROVE SizeInv' /\ SizeIsRecent'
  BY <1>4, <1>11 DEF Close, SizeInv, TypeOK
<1>12. CASE UNCHANGED vars
  BY <1>0, <1>1, <1>12 DEF vars
<1> QED BY <1>2, <1>3, <1>5, <1>6, <1>7, <1>8, <1>9, <1>10, <1>11, <1>12
        DEF Next, SampleCore, DirSize

LEMMA Invariance == Spec => []IInv
<1>1. IInv /\ [Next]_vars => IInv'
  BY TypeStep, MutexStep, SampleStep, RateStep, SizeStep DEF IInv
<1> QED BY InitIInv, <1>1, PTL DEF Spec

-----------------------------------------------------------------------------

\* The type invariant, for any number of callers and any clock.
THEOREM TypeCorrect == Spec => []TypeOK
<1>1. IInv => TypeOK
  BY DEF IInv
<1> QED BY Invariance, <1>1, PTL

\* Concurrent snapshots share out the busy ticks: each is in one window.
THEOREM NoTickLostOrTwice == Spec => []WindowsAddUp
<1>1. IInv => WindowsAddUp
  BY DEF IInv, SampleInv
<1> QED BY Invariance, <1>1, PTL

\* Every rate is the busy share of its window, and a percentage also when a
\* counter goes backwards.
THEOREM RatesAreReal == Spec => []RateIsReal
<1>1. IInv => RateIsReal
  BY DEF IInv
<1> QED BY Invariance, <1>1, PTL

\* No size is older than the cache's TTL, in whatever order walks end and store.
THEOREM SizesAreRecent == Spec => []SizeIsRecent
<1>1. IInv => SizeIsRecent
  BY DEF IInv
<1> QED BY Invariance, <1>1, PTL
=============================================================================
