# Specifications of meerkat-agent

TLA+ models of the agent (`src/`), TLC configurations that check them on small
instances and TLAPS proofs of what matters most.  Source files are named by
their path below `src/`, lines are those of the commit the models were written
from.

## 1. The system

`meerkat-agent` runs on a Linux server, observes it and reports snapshots: over
its own HTTPS API (`serve`, a systemd service of the user `meerkat-agent`) and,
if enrolled, by pushing them to a backend (`relay`, a second service).  Commands
run by root (`gen-cert`, `rotate-token`, `config ...`) change the files in
`/var/lib/meerkat-agent` that the two services read.  There is no database and no
channel between the processes: **the state files are the shared memory**.

| Component | State | Operations | Module |
| --- | --- | --- | --- |
| State files (`internal/fileutil`) | a file, `path.tmp`, owners | `WriteFilePreserveOwner` | `StateFile`, `AtomicFile` |
| Bearer token (`internal/identity`) | `token` | `GenerateToken`, `RotateToken`, `LoadToken` | `TokenAuth` |
| Authentication (`internal/server`) | token cache, its expiry, `tokenMu` | `requireToken`, `loadToken` | `TokenAuth` |
| Certificate (`internal/identity`) | `cert.pem`, `key.pem` | `GenerateCert`, `RotateCert`, `writeNewCert`, `Fingerprint` | `CertIdentity` |
| Listener (`internal/server`) | the pair it serves | `Run` | `CertIdentity` (its start), `MSSQLStore` (its stop) |
| MSSQL inventory (`internal/config`) | `mssql-inventory.json`, its key, `mssqlInventoryMu` | `Save/Remove/LoadMSSQLInventories` | `MSSQLStore`, `InventoryMap` |
| Inventory handlers (`internal/server`) | none of their own | POST and DELETE `/v1/config/mssql` | `MSSQLStore` (as callers) |
| Relay configuration (`internal/config`) | `relay.json` | `Load/Save/RemoveRelayConfig` | `RelayService` |
| Relay loop (`internal/relay`) | settings, pace, backoff | `Runner.Run` | `RelayRunner`, `RelaySession` |
| Enrollment (`internal/relay`) | a single-use code at the backend | `ConsumeEnrollmentCode` | `RelayService` |
| Collector (`internal/collect`) | previous CPU counters, `Collector.mu` | `Snapshot`, `sampleCore` | `Collector` |
| Discovery (`internal/collect`) | directory-size cache; a semaphore and a WaitGroup per listing | `readContainers`, `readDatabases`, `readSQLServers`, `dockerExec`, `dirSizeGB` | `Discovery`, `Collector` |
| Kernel readers (`sys_linux.go`) | none | parsers of `/proc`, `statfs` | not modelled (data) |
| JSON contract (`internal/model`) | none | types | not modelled (data) |
| Command line (`cmd/meerkat-agent`) | none | one function per command | the actions of the modules above |
| Packaging (`packaging/`) | systemd's unit state | restart, condition, start limit, postinst | `CertIdentity`, `RelayService` |
| Build and publishing | none | shell | not modelled |

How they interact, and what is hard about it:

* **Processes share files and nothing else.**  Replacement goes through one fixed
  temporary name, so overlapping calls meet in it (`fileutil.go:29-45`); root
  replaces files that the service user must still be able to read.
* **Two files that belong together** are replaced one after the other: the
  certificate and its key, the inventory and the key it is sealed with.
* **Caches**: the token (one second), directory sizes (one minute), the previous
  CPU counters, the certificate a service loaded when it started.  Each is read
  with a `now`, or a value, that was taken before a lock.
* **Concurrency in one process**: HTTP handlers (one goroutine each), the
  inspections of a listing, a mutex that is held across disk reads.
* **Failure**: a kill or a full disk between two system calls, a backend that
  fails, rejects or changes its settings, or takes an enrollment code and whose
  answer is lost; Docker requests that time out.
* **Supervision**: systemd starts the services again after a failure, the relay
  service always; its condition is looked at before the process reads the file,
  and a start limit ends what would otherwise go on for ever.
* **Arithmetic**: `time.Duration` products that overflow, unsigned counters that
  step back.

What makes each component correct is listed with its module in section 3;
`PROJECT.json` lists the hazards line by line with the properties that cover them.

## 2. How the modules fit together

```
AtomicFile <--refines-- StateFile         InventoryMap <--refines-- MSSQLStore
RelaySession <--refines-- RelayRunner     RelaySession <- RelayService
TokenAuth           CertIdentity          Collector           Discovery
```

Each `MC*` module extends one of these for TLC and its `.cfg` gives the constants;
each `X_proofs` extends `X` with its inductive invariant and theorems. A relay process
is composed in two layers: `RelayRunner` shows that `Runner.Run` with all its counters
and durations is a `RelaySession` - rounds of requests with one token until an end
with a reason - and `RelayService` puts that session under commands, backend and
systemd, without paying for the counters again. `StateFile` models replacement system
call by system call; the other modules use its result, that a replacement is one
step.  `AtomicReplace` shows this for calls that exclude each other, including crashes
and full disks in any of them.  It does **not** hold for calls that overlap, which two
commands, or a command and the service, can do.  So `MSSQLStore`, `CertIdentity` and
`RelayService`, where such overlaps are actions, show the *best* case of them: a real
overlap can also tear the file (`state_file_torn`) or leave it to root, unreadable for
the service.

Conventions: a history variable is marked `(history)` where it is declared and no
guard reads it; only properties do.  A
definition `X_Something` marked `Mutant:` is a version of `X` with a plausible
bug; `Next` does not use it, `PROJECT.json` pairs it with the property that
refutes it.  Constants `Max...` are bounds of the model, all others exist in the code.
`TypeOK` says what the state is and is proved, not run; the runs check what could fail.
Sequences are built and sorted by recursive functions and by choice of a
permutation (`Without`, `ByName`), powers of two by a recursive function (`Power`):
the library's `SelectSeq` and `SortSeq` cannot be reasoned about.

## 3. The modules

### StateFile and AtomicFile (`state_file`, `state_file_torn`)

One action per system call of `WriteFilePreserveOwner` (stat, open with `O_TRUNC`,
write, chown, chmod, rename, and the remove of the error paths), for writers that run
as root or as the service user, over inodes with content and owner; `path` and `tmp`
are names that refer to inodes.  Every call but the stat can fail although it is
allowed: `OpenFails`, `WriteFails` (part of the payload is written), `AttributeFails`
(chown or chmod, which then removes `path.tmp`) and `RenameFails`; `Crash` may happen
at every step.  They leave `path.tmp` behind.  A payload is a number of blocks, so
that a short content written over a long one shows.  Mode 0600 is what `MayOpen`
models.  A reader is the state predicate `View`: one `os.ReadFile` of the service user
on a file that is replaced by rename.  `clash` (history) says that two calls have
overlapped.

One run, over all interleavings:

* `AtomicReplace`: as long as calls exclude each other, `AtomicFile` is
  implemented: all or nothing, "ok" means installed, the service user always gets
  in, whatever crashed calls left behind.
* `CleanWithoutFaults`: without faults and overlaps no call fails or leaves a file.
* `RootRecovers`: a root command is never locked out by a leftover.
* `QuietCallInstalls`: after any mess, a call that nothing overlaps installs its
  payload whole.
* `QuietCallKeepsOwner`: after any mess, such a call keeps the owner it found.  So
  only an overlap takes the file away from the service user - and it stays away.
* `state_file_torn`, **finding**: `fileutil.go:10` promises atomic replacement; two
  overlapping calls make `path` an empty or mixed file.

After an overlap the file may also belong to root, and the service user is `Denied`.
The next replacement does not heal this, it keeps the owner: only a chown or a removal
by hand does.  `AtomicReplace` stops at a clash and so allows it.

Bounds: two writers (one root), payloads of one and two blocks, four inodes (never
all in use: path, tmp and two open ones), two faults.  Two writers are enough for
every pair of system calls to meet; the second fault is needed for a crash during
the call that meets the leftover of a crash.  There is no fairness: a call is a
straight line of system calls and no property here is about its end.

### TokenAuth (`token_auth`)

`loadToken` as four steps around `tokenMu`: `Arrive` takes `now` before the mutex,
`Hit` is a critical section in memory, `Miss`, `ReadDisk`, `Store` and `Clear`
hold the mutex across the disk read.  `Compare` is `requireToken`'s comparison.
The CLI decides (`BeginGenerate`, `BeginRotate`) and writes (`WriteToken`) in two
steps, the file can be lost, the server can stop anywhere.  Tokens are numbered in
the order in which they reach the disk; the real ones are random, never repeated.

* `StaleBound`: a token that left the disk lets no request in that arrived a TTL
  or more afterwards.  This needs `now` to be older than the read.
* `RotationTakesHold`: the new token is let in from a TTL after the rotation on; a
  request that has it is refused only by the one it replaced.
* `NoRollback`: once a token was in use, no later request is let in by an older one.
* `FailClosed`: no credential, no entry, also while the file is empty or unreadable.
* `EveryRequestAnswered`: the mutex is released on every path.

`README.md:241-242` says that old tokens are rejected immediately.  The cache keeps
them for up to a second; `StaleBound` is the exact statement.

Bounds: two requests, one operator, two tokens, TTL 2, clock up to 3: the clock
passes a whole TTL after a rotation, and a request can wait behind another one for
longer than a TTL.  A third request only repeats what the second does to the
cache; the proofs hold for any number.  Fairness: a goroutine that can run does
(`WF(Work)`); a waiter on a `sync.Mutex`, which has a starvation mode, is let in
some time (`SF(Lock)`).

### CertIdentity (`cert_identity`)

`cert.pem` and `key.pem` hold the number of the pair they belong to.  `GenCert`
runs when a file is missing, `RotateCert` always; both write the certificate, then
the key; a command may die in between.  The service loads certificate and key in
two steps, fails if they do not match and is relaunched by `Restart=on-failure`.
`enroll` and `rotate-cert` print the certificate's fingerprint (`pinned`), both only
with a token, without which `New` refuses to serve as well: of the token file only
`token`, that it can be read, is modelled here (`GenToken`, `LoseToken`).

* `QuietCommandPairs`: an undisturbed, successful command leaves a pair, whatever
  it found.
* `InstallerKeepsIdentity`: when the service comes back with another certificate than
  clients met last, it is never the pair of an undisturbed `gen-cert`, which every
  upgrade runs - though rotations died, files stopped matching and the service was
  restarted meanwhile.  A `gen-cert` that made a new pair whenever the files do not
  match, as one might repair it, would break this: the old pair is still being served.
* `CompleteMeansPaired`: outside overlaps, only a *rotation* that died between its
  files leaves two files that do not match.  `gen-cert` will keep those
  (`GenerateCert` tests existence only); a second `rotate-cert` repairs them.
* `PinnedIsServed`: after the restart that the README asks for, the service serves
  the fingerprint that was printed last.
* `ServiceComesUp`: with a pair and a token on disk and no command running, it comes up.

Bounds: two operators, four pairs (two commands, each followed by another), two faults
(a killed command and a lost token, or two of either).  Fairness: `WF(Serve)` - the
process runs and systemd relaunches it; `RestartSec=5s` stays below systemd's default
start limit.

### MSSQLStore and InventoryMap (`mssql_store`, `mssql_key_lost`)

The list of entries, each with the number of the key it is sealed with (0 for
plaintext, as older versions left it).  A call waits for the mutex (what it asks for
is chosen when it has it: nothing depends on it before), loads the file, opens the
entries one by one (each with the key file as it is *then*), edits, seals them one by
one, making a key if there is none, and replaces the file or unlinks it with the last
entry.  Handlers of the server share the mutex; a CLI process has its own.
`ServerEnds` may happen any number of times and between any two steps: a crash, but
also an ordinary stop, because `Run` (`server.go:86-104`) returns as soon as
`ListenAndServeTLS` does, while `Shutdown` still waits for the handlers, and the
process ends with them.

* `AtomicMap`: implements `InventoryMap`, a bounded map with atomic save and
  remove and truthful "full" and "not found"; calls that overlap one of *another
  process* are exempt (`Race`).
* `OneEntryEach`: one entry per container and no more than the maximum, in races too.
* `Readable`: a key is on disk before anything sealed with it - the server and a
  snapshot can decrypt whatever they find - as long as one key was ever made and
  none was lost.  Two processes that make their first key at once do break it.
* `KeyReplacedOnlyInRace`: the key is looked for and made in two steps; a key that
  appears in between is replaced only by a call that overlaps another process's, not
  by two handlers of the server.
* `WritesItsOwnEdit`: what races do to the entries.  A call that succeeds leaves what
  *it* loaded (`seen`, a history) with its own edit: it may undo another process's
  edit, but loses no entry that it could not open and mixes no two lists.
* `MutexDiscipline`: the mutex is held exactly from lock to return, on every path.
* `mssql_key_lost`, **finding**: `README.md:208-210` says to remove the entry when
  the key is lost.  With the key gone, the removal of an entry, which decrypts the whole
  file first, fails although nothing fails to be written.

Bounds: two handlers and one command, three containers for two places (the limit
is met by an addition and by an update), one password (passwords are only copied),
two keys, a legacy entry or none, and one fault (a failed write, a command killed, a
lost key; ends of the server are not counted).  Symmetry over handlers and over the
containers without a legacy entry; no fairness, and no liveness property.

### RelayRunner (`relay_runner`)

`Run` as one action per way through a round: expiry check, settings request (when
`pushesSinceSettings` says so), push, sleep; a 401 on either request ends it.
Durations are signed words that wrap (`Wrap`); of the backend's seconds values one
gives an interval above the cap and two overflow, to a negative number far from
zero and to one close to it.

* `TokenUseEnds`: a 401 ends the loop; at most the two requests of the round in
  progress follow the expiry.
* `SettingsKeptFresh`: no more pushes than the *current* setting allows go
  without a request for the settings.
* `BackoffLaw`: the n-th failure in a row waits 2^(n-1) times the interval at the
  first of them, at most the cap.
* `NoHotLoop`: a positive interval never makes a sleep of no time.
* `SettingsAskedAgain`: the loop asks for the settings again and again, also while
  every push fails or the interval is not positive: a bad setting is not for ever.
* `KeepsItsPromise`: the loop implements `RelaySession`: a round begins only while
  the expiry has not passed, a 401 is never retried, a cancelled loop returns from
  its next rest, and every other phase ends.

Worth knowing, and allowed by these properties: an interval above the cap makes a
failing loop push *more* often than a healthy one; a seconds value above about 9.2e9
overflows to a negative interval, which makes a hot loop (`NoHotLoop` is about
positive intervals) until the settings are asked for again.  Fairness: `WF(Loop)` -
requests have a timeout and timers fire; `SF(StopSleeping)` - `select` with two ready
channels picks at random, so a closed `Done` is taken some time even if the timer is
always due.  Bounds: a word of 64 values, five failures (enough to reach the cap from
every interval).

### RelayService (`relay_service`, `relay_env_token`)

The life of a relay token.  `cmd` holds, per enrollment code, the command that uses
it; `Enroll` sends the code (after `LoadRelayConfig`), `Mint` is the backend taking
it, also after the command gave up, `Install` the answer and `SaveRelayConfig` (done,
perhaps, by a command that is killed before it reports success), `GiveUp` every way in
which that fails: no answer, an incomplete one, a full disk, a kill.  `SetFromEnv` and
`Remove` are `config relay set` without a code and `config relay remove`.  A token
stands for the code it is minted for, and for the other required fields of its
configuration; the expiry is optional.

The unit follows `meerkat-agent-relay.service`: `StartJob` counts a start before it
looks at `ConditionPathExists` and refuses it when `StartLimitBurst` is used up,
for `systemctl start` and for `Restart=always` alike; `WindowPasses` ends the
interval.  `Exited` distinguishes an end that systemd answers with a restart from
one that an operator asked for.  `RunService` is the process that loads
`relay.json`, later than the condition; `RunByHand` the same command started in a
shell, perhaps with `MEERKAT_RELAY_TOKEN`.  The process runs a `RelaySession`.

* `RejectionsBounded`: the end of a session at its first 401 and the start limit
  work together: with rejected tokens the service asks the backend at most `Burst`
  times in a window.
* `SavedConfigStarts`: a service process never ends for want of configuration,
  except if `relay.json` was removed between condition and load.
* `ExpiryIsOwn`: a service process gives up for expiry only if *its* token expired.
* `NoSilentLoss`: an enrollment that reports success has installed the token minted
  for its code; so a burnt code without a token was reported as a failure.
* `ReenrollmentAdopted`: after the old token's expiry the process ends and the
  next one works with what `relay.json` says by then, unless the start limit or an
  operator keeps the unit down.
* `relay_env_token`, **finding**: `README.md:175-177` recommends
  `MEERKAT_RELAY_TOKEN` for a test by hand; `main.go:86-96` puts that token in place
  and keeps the expiry stored for *another* one, so a good token is refused.

A token that the backend merely revokes is adopted only as soon as a request gets
through to be rejected, which nothing guarantees, so `ReenrollmentAdopted` is about
expiry.  A rejected token with no new enrollment uses up the start limit and leaves
the unit failed until an operator or a boot starts it: the intended end.

Bounds: two codes (an old and a new enrollment) and a burst of two where the unit
has six: starts are only counted and compared, so two show an allowed start, the
last allowed one and a refused one, in several windows.  Fairness: a session's
phases end, by `KeepsItsPromise` (`WF(SessionStep)`, `SF(SessionCancelled)`);
systemd does not leave an ended or waiting unit lying (`WF(RunService \/ Exited \/
AutoRestart)`).  Nothing forces commands, the backend's answers, operators, or the
window to pass.

### Collector (`collector`, `collector_zero`)

`sampleCore` under `Collector.mu` turns cumulative counters into the rate over the
time since the previous sample, *whoever* took it; then `dirSizeGB` looks into its
cache, walks the tree without the lock and stores.

* `WindowsAddUp`: put end to end, the windows of all snapshots are the time since
  the first sample; failed samples only lengthen a window.
* `RateIsReal`: a rate is a percentage, also where a counter went back or wrapped in
  its subtraction; unless it went back, it is the busy share of its window.
* `SizeIsRecent`: a size was right some time within the last TTL, though walks
  overlap and store in any order.  (A slower, older walk may replace a newer value;
  its own date then makes the entry expire earlier.)
* `collector_zero`, **finding**: `README.md:37-38` promises `null`, never a fake
  zero; the first sample and an empty window report a rate of 0.

One directory and an instantaneous walk stand for many; `Setback` is `proc(5)`'s
note that iowait may decrease.  Bounds: two callers, clock to 3, TTL 2, two
contents, one setback: one caller's window can be cut by the other, and an entry
can outlive its TTL.  The run has no fairness and no liveness property.

### Discovery (`discovery`)

The part of a snapshot that asks other programs.  The listing has places; a
goroutine holds the *address of a place* and an id, and the loop acquires the
semaphore before it starts the goroutine.  `SortListing` runs after `wg.Wait` and
moves what the addresses point to.  Then `readDatabases` goes from container to
container (`LookAtFiles`, `CreateExec`, `StartExec`, `ExecFails`), with the query
for metadata, the simpler one after a failure or an empty answer, and the
fall-back to the files and to a placeholder; `readSQLServers` loads the
credentials a second time.  `ReadPostgreSQL` is one step between the listing and the
load of the credentials: it keeps nothing, and the credentials may change during it.
Every request may fail.

* `InspectionsBounded`: the semaphore bounds requests, and its values are owned.
* `ListingIsWhole`: from the sort on, every container is there once, in order, with
  the answer of its own inspection.
* `EveryEngineShown`: no MSSQL container falls through the branches.
* `EveryFileCounted`: in the snapshot, every database found by its file is there
  exactly once - as the server's entry, whatever the case of the names, or as a file -
  through credentials or not, either query, a cut answer or the fall-back, and no
  file of one container is reported for another.  (Two *files* of one container whose
  names differ in case only are both reported, unless the server knows one of them.)
* `DiscoveryEnds`: no failed inspection keeps a slot.

Bounds: three containers for two slots (one must wait for another), two of them MSSQL,
two databases, one with a file spelled differently, credentials that change once.
Fairness: each goroutine runs, and requests have timeouts (4 s, 8 s).  Left out: what
PostgreSQL answers and the endpoints (no shared state), the text protocols
(`dockerDemux`, `parse...`).  An answer's rows are *any* set, so that an output cut at
1 MiB, which the code does not tell from a whole one, is included.

## 4. What is proved

Every safety property that a passing run checks - invariants, action properties
and the safety part of the three refinements - is also a theorem, for any number of
processes, any data and any value of the bounds.  The assumptions are those named in
the modules:

* bounds are naturals, limits and TTLs positive, "nothing" values are different from
  values (`BoundAssumption`, `FaultsAssumption`, `NobodyAssumption`, `InodeAssumption`,
  `NothingAssumption`, ...);
* `LegacyAssumption`: the plaintext list an older version left has one entry per
  container and at most the maximum, since older versions edited it the same way;
* `WidthAssumption`, `FailuresAssumption` (`RelayRunner`): the cap and the default
  interval fit a `Duration` (15 minutes in 63 bits of nanoseconds), and the bound on
  counted failures reaches the cap;
* `CounterAssumption` (`Collector`): 100 times the ticks of the model fit the counter,
  which is what `uint64` gives a machine for longer than it lives;
* `NamesAssumption` (`Discovery`): finitely many containers, ranked from 1 as their
  names are ordered; a listing names each once.

Each proof has the same shape: an inductive `IInv` of named parts, one lemma per part
with a step for every action, and theorems that read the property off the invariant.
The strengthened invariants of `StateFile` and `Discovery` were also model-checked, on
the instances of their runs.

**`TokenAuth_proofs`**: `TypeCorrect`, `RevocationBounded`, `NewTokenAccepted`,
`NeverRollsBack`, `AlwaysFailsClosed`.  The properties speak of answered requests
only.  `IInv` adds what the same facts are before the answer: times are not in the
future (`ClockInv`), the disk holds the newest token or none (`DiskInv`), a request in
the critical section is the holder (`MutexInv`), the cached token was on disk no
earlier than its expiry less a TTL and is no older than any in use (`CacheInv`), the
token read but not yet stored was on disk when its request arrived or later
(`StoreInv`), the one about to be compared less than a TTL before (`CompareInv`, for a
refused request `RefusedInv`), and `served` only grows (`FloorInv`).

**`StateFile_proofs`**: `IsAtomicRegister` (`AtomicReplace`), `QuietCallsInstall`,
`QuietCallsKeepOwner`, `RootGetsIn`, `CleanRuns`, `TypeCorrect`.  `QuietInv` follows a
call that no other overlaps, *whatever* came before it: from its open on, `path.tmp`
is the inode it opened, first empty, then exactly its payload (`OverlayEmpty`), and
never the file itself; `OwnerInv` adds that it will have the owner that is to be
kept.  `SoloInv` needs that no two calls ever overlapped and says who that owner is:
chown and chmod are then always allowed, and the file belongs to the service user.  In
the refinement, `Begin` maps to `Begin`, `Rename` to `Commit`, the ends of a call to
`Abort`, and every other step changes neither what a reader sees (`SameView`) nor what
is pending.

**`MSSQLStore_proofs`**: `IsAtomicMap` (`AtomicMap`), `AlwaysReadable`,
`NoDuplicates`, `MutexNeverLeaks`, `KeysReplacedOnlyInRaces`, `WritesOnlyItsEdit`,
`TypeCorrect`.  Five layers, each proved with the ones before it: types and what a
caller has at hand at each step (`Base`), who may be inside together (`MutexInv`),
that a caller about to make a key races if there is one (`MintInv`), that every list
in a file or in memory could be a file (`ListInv`), and that a caller's list says what
it loaded, or that with its edit, and, for a caller that is alone, what the file says
(`ViewInv`).  The abstract map of a list needs that `Without` removes what it should
and nothing else, for lists of any length.

**`RelayRunner_proofs`**: `TokenUseIsBounded`, `SettingsAreRefreshed`, `LoopIsPaced`,
`BackoffDoubles`, `KeepsToItsSession`, `TypeCorrect`.  `LateInv` and `PaceInv` say how
far two counters may have come at each step of a round; wrapping stays in the word
(`WrapRange`) and the next backoff below the cap (`NextBackoffRange`).  `StreakInv`
carries a streak: the last delay is the base times a power of two, or the cap, also when
the interval changes meanwhile.  `KeepsToItsSession` is `Session!Init` and that every
step is a step of `RelaySession` or a stutter: `KeepsItsPromise` without its fairness.

**`RelayService_proofs`**: `RejectionsAreBounded`, `SavedIsComplete`, `NoForeignExpiry`,
`NeverLosesSilently`, `TypeCorrect`.  `WindowInv` is the accounting behind the first:
the 401s of a window plus the one that a live process may still get do not exceed the
starts of the window - or, before its first start, the burst.  `HeldInv` says that an
expiry belongs to its token wherever systemd's process may take it from.

**`CertIdentity_proofs`**: `CompleteIsPaired`, `PinStaysServed`, `AloneLeavesPair`,
`InstallerKeepsWhatIsMet`, `TypeCorrect`.  A command knows whether it was alone
(`RaceInv`); one that was finds the certificate it wrote when it writes the key
(`AloneInv`); outside a torn replacement the files match (`FileInv`), and what is
pinned (`PinInv`, `TokenInv`) and served (`ServeInv`) follows the certificate.  A
`gen-cert` that was alone found the key missing, and no file goes away once a pair was
served, so it made its pair before any other was met (`MetInv`); what is read, written
or served of that pair later meets nobody who knows another one (`QuietInv`).

**`Collector_proofs`**: `NoTickLostOrTwice`, `RatesAreReal`, `SizesAreRecent`,
`TypeCorrect`.  The mutex keeps every reading at or after the previous sample
(`SampleInv`); the quotient of a window is a percentage (`DivPercent`).  The cache, a
walk about to store and an answer each hold a content that the directory had late
enough (`SizeInv`), whichever walk stores last.

**`Discovery_proofs`**: `ListingComplete`, `EnginesShown`, `SemaphoreHolds`,
`FilesCounted`, `TypeCorrect`.  `ListInv`: a goroutine that has not written holds
the name of the place its address points to, and when the WaitGroup's counter, which is
the number of goroutines (`CountInv`), is 0, nobody is left to write.  That `ByName`
sorts (`Sorted`) follows from the ranks of the names: they are a permutation of the
places, and its inverse is a sorting order.  `EngineInv`: a container that the loop has
not reached has no entry yet, so what one branch reports (`Whole`, `Tells`)
meets nothing older.

Induction over data: the library's induction theorems cannot be used (they take an
operator), so the lemmas about recursive functions (`Without`, `Power`) go by a least
counterexample (`UpTo`), from the well-foundedness of `<` on the naturals.

Model-checked only: the liveness properties `EveryRequestAnswered`, `ServiceComesUp`,
`SettingsAskedAgain`, `ReenrollmentAdopted`, `DiscoveryEnds` and the fairness in
`KeepsItsPromise`, because fairness and ENABLED are not in TLAPS's reach; and the four
findings, which are counterexamples.

## 5. Not modelled, and why

* Kernel readers and the JSON contract: functions of their input without state,
  covered by unit tests.
* Endpoint and PostgreSQL discovery beyond its place in a snapshot, and the parsers
  of other programs' output.  `dockerDemux` (`discover_linux.go:945`) cuts at 1 MiB
  without an error; the models therefore allow any part of an answer, but no
  property says that a part is recognised, because it is not.
* TLS, X.509 and AES-GCM: a pair matches or not, an entry is sealed with a key or not.
* Sockets, their timeouts and request validation: `net/http` and data.
* `once`: a second sample in a process of its own, without concurrency.
* Building and publishing; users, directories and removal of the package.

## 6. Plan

Done, in this order: `StateFile`, `TokenAuth`, `MSSQLStore`, `RelayRunner`,
`CertIdentity`, `Collector`, `Discovery`, `RelaySession` with `RelayService`; then the
proofs of every safety property and of the three refinements.  Worth adding:

1. What can be proved of termination without fairness: measures that every step of a
   discovery, of a call of the inventory store and of a loading service decreases, so
   that the liveness properties rest on scheduling alone.
2. What two processes that overlap still guarantee of the inventory file (today: one
   entry each, readable with one key, each write one call's own edit).
3. That the session inside `RelayService` is a `RelaySession` for each process.

Running: `tlc -config X.cfg MCX` for a run (the runs and their configurations are
listed in `PROJECT.json`), `tlapm X_proofs.tla` for the proofs.
