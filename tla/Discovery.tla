------------------------------ MODULE Discovery ------------------------------
(***************************************************************************)
(* One discovery of resources on Linux, the part of a snapshot that asks   *)
(* other programs: readContainers lists the containers and inspects them   *)
(* all with goroutines that share a semaphore and a WaitGroup;             *)
(* readDatabases then looks into each MSSQL container, by its files and,   *)
(* where the operator stored credentials, by a query run inside it, with a *)
(* second, simpler query when the first one yields nothing; last,          *)
(* readSQLServers loads the credentials again and measures the pressure.   *)
(* Any request may fail or time out, for a container that stopped or was   *)
(* removed since the listing too.  States, ports, sizes, dates and the     *)
(* syntax of the answers are left out.                                     *)
(*                                                                         *)
(* A container is the rank of its name in the order the listing has.       *)
(***************************************************************************)
EXTENDS Integers, FiniteSets, Sequences, SequencesExt

CONSTANTS
  Names,        \* container names: 1..N, in alphabetical order
  MSSQL,        \* those isMSSQLContainer accepts
  Concurrency,  \* dockerInspectConcurrency
  DbNames,      \* names of databases, as the server says them
  FileNames,    \* names of databases, as their files are called
  Lower,        \* strings.ToLower on both
  MaxChanges    \* bound: credentials that change

ASSUME NamesAssumption == Names \subseteq Nat \ {0} /\ IsFiniteSet(Names) /\ MSSQL \subseteq Names
ASSUME ConcurrencyAssumption == Concurrency \in Nat \ {0}
ASSUME ChangesAssumption == MaxChanges \in Nat
ASSUME LowerAssumption == DOMAIN Lower = DbNames \cup FileNames

VARIABLES
  stored,    \* containers with stored credentials
  changes,
  pc,        \* the goroutine of the snapshot
  out,       \* the listing: name and whose inspection was merged in
  next,      \* index of the loop over the listing
  worker,    \* worker[k]: the goroutine started with &out[k]
  id,        \* id[k]: the container it was told to inspect
  slots,     \* values in the channel sem
  waiting,   \* counter of the WaitGroup
  answered,  \* containers whose inspection was answered (history)
  configs,   \* the credentials loaded
  files,     \* databases found by the files of each container
  query,     \* the query being run in it
  databases, \* the databases reported so far
  servers    \* the SQL servers reported so far

world_vars == <<stored, changes>>
list_vars  == <<out, worker, id, slots, waiting, answered>>
probe_vars == <<configs, files, query, databases, servers>>
vars == <<world_vars, pc, next, list_vars, probe_vars>>

Nobody  == 0   \* no inspection was merged
Host    == 0   \* where a PostgreSQL database is, which is in no container
Indices == 1..Cardinality(Names)
Queries == {"metadata", "sizes", "pressure"}

TypeOK ==
  /\ stored \subseteq MSSQL /\ changes \in 0..MaxChanges
  /\ pc \in {"list", "fan", "wait", "postgres", "load", "look", "create", "start", "reload", "probe", "done"}
  /\ out \in Seq([name : Names, detail : Names \cup {Nobody}])
  /\ Len(out) <= Cardinality(Names) /\ next \in 1..Len(out) + 1
  /\ worker \in [Indices -> {"none", "inspect", "release", "finish", "gone"}]
  /\ id \in [Indices -> Names \cup {Nobody}]
  /\ slots \in 0..Cardinality(Names) /\ waiting \in 0..Len(out)
  /\ answered \subseteq Names
  /\ configs \subseteq MSSQL /\ files \in [MSSQL -> SUBSET FileNames] /\ query \in Queries
  /\ databases \subseteq [container : MSSQL \cup {Host}, name : DbNames \cup FileNames \cup {"container", "cluster"},
                          source : {"sql", "file", "placeholder", "cluster"}]
  /\ servers \subseteq MSSQL

Init ==
  /\ stored \in SUBSET MSSQL /\ changes = 0
  /\ pc = "list" /\ out = <<>> /\ next = 1
  /\ worker = [k \in Indices |-> "none"] /\ id = [k \in Indices |-> Nobody]
  /\ slots = 0 /\ waiting = 0 /\ answered = {}
  /\ configs = {} /\ files = [c \in MSSQL |-> {}] /\ query = "metadata" /\ databases = {} /\ servers = {}

-----------------------------------------------------------------------------
(* The machine. *)

ChangeCredentials(c) ==
  /\ changes < MaxChanges /\ changes' = changes + 1
  /\ stored' = IF c \in stored THEN stored \ {c} ELSE stored \cup {c}
  /\ UNCHANGED <<pc, next, list_vars, probe_vars>>

-----------------------------------------------------------------------------
(* readContainers. *)

\* The daemon's order is its own.
List ==
  /\ pc = "list" /\ pc' = "fan"
  /\ \E order \in SetToSeqs(Names) :
       out' = [k \in Indices |-> [name |-> order[k], detail |-> Nobody]]
  /\ UNCHANGED <<world_vars, next, worker, id, slots, waiting, answered, probe_vars>>

NoDocker ==
  /\ pc = "list" /\ pc' = "postgres"
  /\ UNCHANGED <<world_vars, next, list_vars, probe_vars>>

\* Mutant: a semaphore nobody waits for.
Free_Always == TRUE
Free == slots < Concurrency

Launch ==
  /\ pc = "fan" /\ next <= Len(out) /\ Free
  /\ slots' = slots + 1
  /\ waiting' = waiting + 1
  /\ worker' = [worker EXCEPT ![next] = "inspect"]
  /\ id' = [id EXCEPT ![next] = out[next].name]
  /\ next' = next + 1
  /\ UNCHANGED <<world_vars, pc, out, answered, probe_vars>>

EndFan ==
  /\ pc = "fan" /\ next > Len(out)
  /\ pc' = "wait"
  /\ UNCHANGED <<world_vars, next, list_vars, probe_vars>>

\* Mutant: no wg.Wait.
Drained_Never == TRUE
Drained == waiting = 0

\* sort.Slice: a permutation of the places in which no name decreases.
ByName(s) ==
  LET order == CHOOSE p \in SetToSeqs(DOMAIN s) :
                 \A i, j \in DOMAIN s : i < j => s[p[i]].name <= s[p[j]].name
  IN [k \in DOMAIN s |-> s[order[k]]]

SortListing ==
  /\ pc = "wait" /\ Drained
  /\ out' = ByName(out)
  /\ pc' = "postgres"
  /\ UNCHANGED <<world_vars, next, worker, id, slots, waiting, answered, probe_vars>>

\* mergeContainerInspect: the goroutine holds an id and the address of a place
\* in the listing, and writes nothing when the request fails.
Inspect(k) ==
  /\ worker[k] = "inspect" /\ worker' = [worker EXCEPT ![k] = "release"]
  /\ \/ UNCHANGED <<out, answered>>
     \/ /\ out' = [out EXCEPT ![k].detail = id[k]]
        /\ answered' = answered \cup {id[k]}
  /\ UNCHANGED <<world_vars, pc, next, id, slots, waiting, probe_vars>>

\* Mutant: the slot is given back only after an answer.
GiveBack_Answered(k) == slots' = IF id[k] \in answered THEN slots - 1 ELSE slots
GiveBack(k) == slots' = slots - 1

Release(k) ==
  /\ worker[k] = "release" /\ worker' = [worker EXCEPT ![k] = "finish"]
  /\ GiveBack(k)
  /\ UNCHANGED <<world_vars, pc, next, out, id, waiting, answered, probe_vars>>

Finish(k) ==
  /\ worker[k] = "finish" /\ worker' = [worker EXCEPT ![k] = "gone"]
  /\ id' = [id EXCEPT ![k] = Nobody]
  /\ waiting' = waiting - 1
  /\ UNCHANGED <<world_vars, pc, next, out, slots, answered, probe_vars>>

-----------------------------------------------------------------------------
(* readDatabases and readSQLServers. *)

\* What the scan of a container's data directory yields: nothing if the container
\* or the mount is gone or the directory cannot be read, some of it otherwise.
FileInventories == SUBSET FileNames

\* What the rows of a query yield: any part of them may be malformed, or cut off
\* with the output of the command, which the code cannot tell from a whole one.
QueryInventories == SUBSET DbNames

\* Data directories of PostgreSQL that can be read; one stands for all.
Clusters == {{}, {"cluster"}}

\* readPostgreSQLDatabases: a server that runs is asked with psql, which may be
\* missing, slow or refused; else the data directories that can be read stand
\* for their databases.
ReadPostgreSQL ==
  /\ pc = "postgres" /\ pc' = "load"
  /\ \E running \in BOOLEAN, rows \in QueryInventories, clusters \in Clusters :
       databases' =
         IF running /\ rows # {}
         THEN {[container |-> Host, name |-> r, source |-> "sql"] : r \in rows}
         ELSE {[container |-> Host, name |-> c, source |-> "cluster"] : c \in clusters}
  /\ UNCHANGED <<world_vars, next, list_vars, configs, files, query, servers>>

\* loadMSSQLConfigMap: nothing when the inventory cannot be read.
LoadConfigs ==
  /\ \/ pc = "load" /\ pc' = "look"
     \/ pc = "reload" /\ pc' = "probe"
  /\ configs' \in {stored, {}}
  /\ next' = 1
  /\ UNCHANGED <<world_vars, list_vars, files, query, databases, servers>>

Here == out[next].name
Visiting(step) == pc = step /\ next <= Len(out)

NextContainer(step) ==
  IF next < Len(out) THEN pc' = step /\ next' = next + 1
  ELSE pc' = (IF step = "look" THEN "reload" ELSE "done") /\ next' = next

\* isMSSQLContainer refuses it, or it has no credentials to be probed with.
Skip ==
  /\ \/ Visiting("look") /\ Here \notin MSSQL /\ NextContainer("look")
     \/ Visiting("probe") /\ Here \notin MSSQL \cap configs /\ NextContainer("probe")
  /\ UNCHANGED <<world_vars, list_vars, probe_vars>>

NothingListed ==
  /\ out = <<>>
  /\ \/ pc = "look" /\ pc' = "reload"
     \/ pc = "probe" /\ pc' = "done"
  /\ UNCHANGED <<world_vars, next, list_vars, probe_vars>>

Entry(name, source) == [container |-> Here, name |-> name, source |-> source]

\* A container none of whose databases is known is reported as one.
Placeholder(found) == IF found = {} THEN {Entry("container", "placeholder")} ELSE found

ByFiles(found) == databases \cup Placeholder({Entry(f, "file") : f \in found})

\* readMSSQLFileDatabases, with the request and the scan that may fail.
LookAtFiles ==
  /\ Visiting("look") /\ Here \in MSSQL
  /\ \E found \in FileInventories :
       /\ files' = [files EXCEPT ![Here] = found]
       /\ IF Here \in configs
          THEN pc' = "create" /\ query' = "metadata" /\ UNCHANGED <<next, databases>>
          ELSE NextContainer("look") /\ databases' = ByFiles(found) /\ UNCHANGED query
  /\ UNCHANGED <<world_vars, list_vars, configs, servers>>

Probe ==
  /\ Visiting("probe") /\ Here \in MSSQL \cap configs
  /\ pc' = "create" /\ query' = "pressure"
  /\ UNCHANGED <<world_vars, next, list_vars, configs, files, databases, servers>>

-----------------------------------------------------------------------------
(* dockerExec: create, then start; its callers' use of what comes back. *)

\* Mutant: what the server says replaces what the files say.
Merge_RowsOnly(rows, found) == {Entry(r, "sql") : r \in rows}

\* mergeMSSQLDatabaseInventory: a database the server knows is not repeated
\* for its file, whatever the case of the file's name.
Merge(rows, found) ==
  {Entry(r, "sql") : r \in rows} \cup
  {Entry(f, "file") : f \in {f \in found : \A r \in rows : Lower[f] # Lower[r]}}

\* Mutant: an empty inventory is taken for an answer.
Usable_Any(rows) == TRUE
\* An inventory without a row is a failure like any other.
Usable(rows) == rows # {}

QueryFails ==
  CASE query = "metadata" -> pc' = "create" /\ query' = "sizes" /\ UNCHANGED <<next, databases>>
    [] query = "sizes"    -> NextContainer("look") /\ databases' = ByFiles(files[Here]) /\ UNCHANGED query
    [] query = "pressure" -> NextContainer("probe") /\ UNCHANGED <<query, databases>>

QueryAnswers(rows) ==
  IF ~Usable(rows) THEN QueryFails /\ UNCHANGED servers
  ELSE IF query = "pressure"
       THEN NextContainer("probe") /\ servers' = servers \cup {Here} /\ UNCHANGED <<query, databases>>
       ELSE /\ NextContainer("look") /\ UNCHANGED <<query, servers>>
            /\ databases' = databases \cup Merge(rows, files[Here])

CreateExec ==
  /\ pc = "create"
  /\ pc' = "start"
  /\ UNCHANGED <<world_vars, next, list_vars, probe_vars>>

\* The container does not run any more, the request fails or its time is over.
ExecFails ==
  /\ pc \in {"create", "start"}
  /\ QueryFails
  /\ UNCHANGED <<world_vars, list_vars, configs, files, servers>>

StartExec ==
  /\ pc = "start"
  /\ \E rows \in QueryInventories : QueryAnswers(rows)
  /\ UNCHANGED <<world_vars, list_vars, configs, files>>

-----------------------------------------------------------------------------

Snapshot ==
  \/ List \/ NoDocker \/ Launch \/ EndFan \/ SortListing \/ ReadPostgreSQL \/ LoadConfigs
  \/ Skip \/ NothingListed \/ LookAtFiles \/ Probe
  \/ CreateExec \/ ExecFails \/ StartExec

Goroutine(k) == Inspect(k) \/ Release(k) \/ Finish(k)

Next ==
  \/ Snapshot
  \/ \E k \in Indices : Goroutine(k)
  \/ \E c \in MSSQL : ChangeCredentials(c)

\* Requests have a timeout and a running goroutine is scheduled.
Fairness == WF_vars(Snapshot) /\ \A k \in Indices : WF_vars(Goroutine(k))

Spec == Init /\ [][Next]_vars /\ Fairness

-----------------------------------------------------------------------------
(* Properties. *)

\* The daemon never has more than Concurrency inspections of one listing to
\* answer at a time, and every value in the channel belongs to a goroutine
\* that will take it out: the semaphore of readContainers.
InspectionsBounded ==
  /\ slots <= Concurrency
  /\ slots = Cardinality({k \in Indices : worker[k] \in {"inspect", "release"}})

\* Once the listing has left readContainers it is whole and stays as it is:
\* every container once and in order, each with what its own inspection said
\* if that was answered, whatever order the goroutines finished in.  The sort
\* moves the places their addresses point to, so none may still run.
ListingIsWhole ==
  pc \notin {"list", "fan", "wait"} /\ out # <<>> =>
    /\ \A k \in 1..Len(out) - 1 : out[k].name < out[k + 1].name
    /\ {out[k].name : k \in DOMAIN out} = Names
    /\ \A k \in DOMAIN out : out[k].detail = IF out[k].name \in answered THEN out[k].name ELSE Nobody

\* Every MSSQL container of the listing shows up among the databases of the
\* snapshot, by databases or by a placeholder, whichever of the credentials,
\* the files and the two queries failed, and with one kind of entry only.
EveryEngineShown ==
  pc \in {"reload", "probe", "done"} =>
    \A k \in DOMAIN out : out[k].name \in MSSQL =>
      LET shown == {d \in databases : d.container = out[k].name} IN
        /\ shown # {}
        /\ (\E d \in shown : d.source = "placeholder") => Cardinality(shown) = 1

\* Each database found by its file is in the snapshot exactly once: as what the
\* server said of it, whatever the case of the names, or else as a file, whether
\* the container had credentials, a query failed or its answer was cut off; and
\* no file of one container is reported for another (readDatabases 301-325,
\* readMSSQLContainerDatabases, mergeMSSQLDatabaseInventory).
Reported(c, source) == {d.name : d \in {d \in databases : d.container = c /\ d.source = source}}

EveryFileCounted ==
  pc \in {"reload", "probe", "done"} =>
    \A k \in DOMAIN out : out[k].name \in MSSQL =>
      LET c == out[k].name IN
        /\ Reported(c, "file") \subseteq files[c]
        /\ \A f \in files[c] :
             f \in Reported(c, "file") <=> ~\E r \in Reported(c, "sql") : Lower[r] = Lower[f]

\* The discovery ends, whichever requests fail: no inspection keeps its slot
\* or its place in the WaitGroup.
DiscoveryEnds == <>(pc = "done")
=============================================================================
