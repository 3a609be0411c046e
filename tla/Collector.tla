------------------------------ MODULE Collector ------------------------------
(***************************************************************************)
(* Collector.Snapshot of internal/collect, called by concurrent requests   *)
(* of the server on one Collector: sampleCore turns the kernel's           *)
(* cumulative CPU counters into a rate over the time since the previous    *)
(* sample, whoever took it, under the collector's mutex; discovery then    *)
(* measures a data directory with dirSizeGB, which holds the lock of its   *)
(* cache to look up and to store, and walks the tree in between.           *)
(*                                                                         *)
(* One directory stands for all, and one instant for a walk.  The          *)
(* directory's contents are numbered in the order in which it has them.    *)
(***************************************************************************)
EXTENDS Integers

CONSTANTS
  Callers,      \* goroutines that take snapshots
  Nobody,
  TTL,          \* dirSizeCacheTTL, in ticks of the clock
  Modulus,      \* 2^64: counters are unsigned words
  MaxTime,      \* bound: last value of the clock
  MaxVersion,   \* bound: contents of the directory
  MaxSetbacks,  \* bound: times a counter goes backwards
  NotObtained

ASSUME NobodyAssumption == Nobody \notin Callers
ASSUME CounterAssumption ==
  /\ MaxTime \in Nat /\ MaxVersion \in Nat \ {0} /\ MaxSetbacks \in Nat
  /\ Modulus \in Nat /\ 100 * MaxTime < Modulus
ASSUME TTLAssumption == TTL \in Nat \ {0}

VARIABLES
  clock,
  busy, total,  \* the counters of /proc/stat
  setbacks,     \* times total went backwards
  version,      \* the directory's content
  ended,        \* ended[v]: when content v was replaced
  mutex,        \* holder of Collector.mu
  hasPrev, prevBusy, prevTotal,  \* the previous sample
  cacheAt, cacheValue,           \* dirSizeCache's entry, NotObtained if none
  pc,           \* the callers
  sample,       \* sample[s]: the counters s has read and not yet used
  cpu,          \* cpu[s]: the rate that s reports, in percent
  window,       \* window[s]: busy and total ticks it was computed from (history)
  since,        \* since[s]: the `now` of dirSizeGB
  dir,          \* dir[s]: the directory size that s reports
  accounted,    \* busy ticks in all windows so far (history)
  first         \* the busy counter of the first sample (history)

kernel_vars == <<clock, busy, total, setbacks>>
tree_vars   == <<version, ended>>
prev_vars   == <<hasPrev, prevBusy, prevTotal>>
cache_vars  == <<cacheAt, cacheValue>>
core_vars   == <<sample, cpu, window>>
size_vars   == <<since, dir>>
history     == <<accounted, first>>
vars == <<kernel_vars, tree_vars, mutex, prev_vars, cache_vars, pc, core_vars,
          size_vars, history>>

Versions == 1..MaxVersion
Sample   == [busy : Nat, total : Nat] \cup {NotObtained}
Percent  == 0..100
Steps    == {"idle", "sample", "derive", "discover", "lookup", "walk", "store", "done"}

TypeOK ==
  /\ clock \in 0..MaxTime /\ busy \in Nat /\ total \in Nat /\ busy <= clock
  /\ setbacks \in 0..MaxSetbacks
  /\ version \in Versions /\ ended \in [Versions -> Nat]
  /\ mutex \in Callers \cup {Nobody}
  /\ hasPrev \in BOOLEAN /\ prevBusy \in Nat /\ prevTotal \in Nat
  /\ cacheAt \in Nat /\ cacheValue \in 1..version \cup {NotObtained}
  /\ pc \in [Callers -> Steps]
  /\ sample \in [Callers -> Sample]
  /\ cpu \in [Callers -> Percent \cup {NotObtained}]
  /\ window \in [Callers -> Sample]
  /\ since \in [Callers -> 0..clock]
  /\ dir \in [Callers -> 1..version \cup {NotObtained}]
  /\ accounted \in Nat /\ first \in Nat

Init ==
  /\ clock = 0 /\ busy = 0 /\ total = 1 /\ setbacks = 0
  /\ version = 1 /\ ended = [v \in Versions |-> 0]
  /\ mutex = Nobody
  /\ hasPrev = FALSE /\ prevBusy = 0 /\ prevTotal = 0
  /\ cacheAt = 0 /\ cacheValue = NotObtained
  /\ pc = [s \in Callers |-> "idle"]
  /\ sample = [s \in Callers |-> NotObtained]
  /\ cpu = [s \in Callers |-> NotObtained]
  /\ window = [s \in Callers |-> NotObtained]
  /\ since = [s \in Callers |-> 0]
  /\ dir = [s \in Callers |-> NotObtained]
  /\ accounted = 0 /\ first = 0

call_vars == <<mutex, prev_vars, cache_vars, pc, core_vars, size_vars, history>>

-----------------------------------------------------------------------------
(* The machine. *)

Tick ==
  /\ clock < MaxTime
  /\ clock' = clock + 1
  /\ total' = total + 1
  /\ busy' \in {busy, busy + 1}
  /\ UNCHANGED <<setbacks, tree_vars, call_vars>>

\* proc(5): the iowait counter, a part of total, may decrease.
Setback ==
  /\ setbacks < MaxSetbacks /\ total > 1
  /\ setbacks' = setbacks + 1
  /\ total' = total - 1
  /\ UNCHANGED <<clock, busy, tree_vars, call_vars>>

ChangeDirectory ==
  /\ version < MaxVersion
  /\ version' = version + 1
  /\ ended' = [ended EXCEPT ![version] = clock]
  /\ UNCHANGED <<kernel_vars, call_vars>>

-----------------------------------------------------------------------------
(* sampleCore. *)

Goto(s, step) == pc' = [pc EXCEPT ![s] = step]

\* Mutant: sampleCore without the mutex.
Lock_NoWait(s) ==
  /\ pc[s] = "idle"
  /\ mutex' = s
  /\ Goto(s, "sample")
  /\ UNCHANGED <<kernel_vars, tree_vars, prev_vars, cache_vars, core_vars, size_vars, history>>

Lock(s) ==
  /\ pc[s] = "idle"
  /\ mutex = Nobody
  /\ mutex' = s
  /\ Goto(s, "sample")
  /\ UNCHANGED <<kernel_vars, tree_vars, prev_vars, cache_vars, core_vars, size_vars, history>>

\* readCPUSample: the counters, or nothing.
ReadSample(s) ==
  /\ pc[s] = "sample"
  /\ sample' \in {[sample EXCEPT ![s] = r] :
                    r \in {[busy |-> busy, total |-> total], NotObtained}}
  /\ Goto(s, "derive")
  /\ UNCHANGED <<kernel_vars, tree_vars, mutex, prev_vars, cache_vars, cpu, window,
                 size_vars, history>>

\* The window from the previous sample to r: unsigned, except that busy is kept
\* from going below zero.
Window(r) ==
  [busy  |-> IF r.busy >= prevBusy THEN r.busy - prevBusy ELSE 0,
   total |-> (r.total - prevTotal) % Modulus]

Rate(w) ==
  LET pct == (100 * w.busy) \div w.total
  IN IF w.total = 0 THEN 0 ELSE IF pct > 100 THEN 100 ELSE pct

\* Mutant: a sample that failed is remembered as zeroes.
DeriveNothing_Reset(s) ==
  /\ pc[s] = "derive"
  /\ sample[s] = NotObtained
  /\ cpu' = [cpu EXCEPT ![s] = NotObtained]
  /\ window' = [window EXCEPT ![s] = NotObtained]
  /\ prevBusy' = 0 /\ prevTotal' = 0
  /\ mutex' = Nobody
  /\ Goto(s, "discover")
  /\ UNCHANGED <<kernel_vars, tree_vars, hasPrev, cache_vars, sample, size_vars, history>>

\* Without a sample there is no rate, and the previous sample stays.
DeriveNothing(s) ==
  /\ pc[s] = "derive"
  /\ sample[s] = NotObtained
  /\ cpu' = [cpu EXCEPT ![s] = NotObtained]
  /\ window' = [window EXCEPT ![s] = NotObtained]
  /\ mutex' = Nobody
  /\ Goto(s, "discover")
  /\ UNCHANGED <<kernel_vars, tree_vars, prev_vars, cache_vars, sample, size_vars, history>>

\* The first sample has no window: its rate is 0.
Derive(s) ==
  /\ pc[s] = "derive"
  /\ sample[s] # NotObtained
  /\ LET w == Window(sample[s]) IN
       IF hasPrev
       THEN /\ cpu' = [cpu EXCEPT ![s] = Rate(w)]
            /\ window' = [window EXCEPT ![s] = w]
            /\ accounted' = accounted + w.busy
            /\ UNCHANGED first
       ELSE /\ cpu' = [cpu EXCEPT ![s] = 0]
            /\ window' = [window EXCEPT ![s] = NotObtained]
            /\ first' = sample[s].busy
            /\ UNCHANGED accounted
  /\ hasPrev' = TRUE
  /\ prevBusy' = sample[s].busy
  /\ prevTotal' = sample[s].total
  /\ sample' = [sample EXCEPT ![s] = NotObtained]
  /\ mutex' = Nobody
  /\ Goto(s, "discover")
  /\ UNCHANGED <<kernel_vars, tree_vars, cache_vars, size_vars>>

-----------------------------------------------------------------------------
(* dirSizeGB. *)

\* The rate is in the snapshot; the model forgets it.
EnterDirSize(s) ==
  /\ pc[s] = "discover"
  /\ cpu' = [cpu EXCEPT ![s] = NotObtained]
  /\ window' = [window EXCEPT ![s] = NotObtained]
  /\ since' = [since EXCEPT ![s] = clock]
  /\ Goto(s, "lookup")
  /\ UNCHANGED <<kernel_vars, tree_vars, mutex, prev_vars, cache_vars, sample, dir, history>>

\* `now` was taken before the lock: the entry may be younger.
Cached(s) == cacheValue # NotObtained /\ since[s] - cacheAt < TTL

CacheHit(s) ==
  /\ pc[s] = "lookup"
  /\ Cached(s)
  /\ dir' = [dir EXCEPT ![s] = cacheValue]
  /\ Goto(s, "done")
  /\ UNCHANGED <<kernel_vars, tree_vars, mutex, prev_vars, cache_vars, core_vars, since, history>>

CacheMiss(s) ==
  /\ pc[s] = "lookup"
  /\ ~Cached(s)
  /\ Goto(s, "walk")
  /\ UNCHANGED <<kernel_vars, tree_vars, mutex, prev_vars, cache_vars, core_vars, size_vars, history>>

\* Nothing is remembered of a directory that cannot be reached.
WalkFails(s) ==
  /\ pc[s] = "walk"
  /\ Goto(s, "done")
  /\ UNCHANGED <<kernel_vars, tree_vars, mutex, prev_vars, cache_vars, core_vars, size_vars, history>>

Walk(s) ==
  /\ pc[s] = "walk"
  /\ dir' = [dir EXCEPT ![s] = version]
  /\ Goto(s, "store")
  /\ UNCHANGED <<kernel_vars, tree_vars, mutex, prev_vars, cache_vars, core_vars, since, history>>

\* Mutant: the entry is dated when it is stored.
StoreSize_LateNow(s) ==
  /\ pc[s] = "store"
  /\ cacheAt' = clock
  /\ cacheValue' = dir[s]
  /\ Goto(s, "done")
  /\ UNCHANGED <<kernel_vars, tree_vars, mutex, prev_vars, core_vars, size_vars, history>>

\* The entry is dated before the walk; a slower walk may replace a newer one.
StoreSize(s) ==
  /\ pc[s] = "store"
  /\ cacheAt' = since[s]
  /\ cacheValue' = dir[s]
  /\ Goto(s, "done")
  /\ UNCHANGED <<kernel_vars, tree_vars, mutex, prev_vars, core_vars, size_vars, history>>

\* The snapshot is returned; the caller may ask for another.
Close(s) ==
  /\ pc[s] = "done"
  /\ Goto(s, "idle")
  /\ since' = [since EXCEPT ![s] = 0]
  /\ dir' = [dir EXCEPT ![s] = NotObtained]
  /\ UNCHANGED <<kernel_vars, tree_vars, mutex, prev_vars, cache_vars, core_vars, history>>

-----------------------------------------------------------------------------

SampleCore(s) == Lock(s) \/ ReadSample(s) \/ DeriveNothing(s) \/ Derive(s)
DirSize(s)    == EnterDirSize(s) \/ CacheHit(s) \/ CacheMiss(s) \/ Walk(s) \/ WalkFails(s)
                   \/ StoreSize(s)

Next ==
  \/ Tick \/ Setback \/ ChangeDirectory
  \/ \E s \in Callers : SampleCore(s) \/ DirSize(s) \/ Close(s)

Spec == Init /\ [][Next]_vars

-----------------------------------------------------------------------------
(* Properties. *)

\* The windows of all snapshots, put end to end, are the time since the first
\* sample: concurrent snapshots neither lose a busy tick nor report one twice,
\* and a failed sample only makes the next window longer.
WindowsAddUp == hasPrev => first + accounted = prevBusy

\* A rate is that of the machine: it is the busy share of a window that ended
\* at the caller's sample, as long as the kernel's counters do not go back; and
\* a percentage even then, though a total that goes back wraps around.
RateIsReal ==
  \A s \in Callers :
    (window[s] # NotObtained /\ window[s].total > 0) =>
      /\ cpu[s] \in Percent
      /\ setbacks = 0 =>
           /\ window[s].total <= clock
           /\ window[s].busy <= window[s].total
           /\ cpu[s] = (100 * window[s].busy) \div window[s].total

\* A reported size is at most TTL old: the directory had it at some time no
\* more than TTL before the snapshot asked, though walks may overlap, take any
\* time and store their values in any order.
SizeIsRecent ==
  \A s \in Callers :
    (dir[s] # NotObtained /\ dir[s] # version) => ended[dir[s]] > since[s] - TTL

\* README.md:37-38: "Values that cannot be obtained are JSON null, never fake
\* zeroes".  A rate of 0 was measured: its window has ticks and none was busy.
NoFakeZero ==
  \A s \in Callers :
    cpu[s] = 0 => (window[s] # NotObtained /\ window[s].total > 0 /\ window[s].busy = 0)
=============================================================================
